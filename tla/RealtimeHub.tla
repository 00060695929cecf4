---------------------------- MODULE RealtimeHub ----------------------------
(***************************************************************************)
(* The real-time half of family_chat: one handle_socket task per           *)
(* WebSocket (plugins/family_chat/src/api.rs), the presence counters they  *)
(* share (presence.rs), the ws_members table that decides who is forwarded *)
(* a room's events, and the broadcast channel every event travels through. *)
(*                                                                         *)
(* The tasks run in parallel on tokio's worker threads, so a task may be   *)
(* interrupted wherever it releases a lock or awaits.                      *)
(*                                                                         *)
(* The channel is a ring that keeps the last Capacity events, with one     *)
(* cursor per receiver; all a receiver can tell of it is the events it has *)
(* not read, at most Capacity of them, and whether it lost some.  That is  *)
(* what unread and lagged hold.                                            *)
(***************************************************************************)
EXTENDS Naturals, Sequences, FiniteSets

CONSTANTS
    Socket,     \* WebSocket connections; each is opened at most once
    User,       \* user ids
    Room,       \* room ids
    Owner,      \* Owner[s]: the authenticated user of socket s
    Access,     \* Access[r]: the users user_can_access_room allows in r
    Capacity,   \* events the broadcast channel retains
    Absent      \* the value of counts for a user without an entry

ASSUME HubAssumption ==
    /\ IsFiniteSet(Socket)
    /\ Owner \in [Socket -> User]
    /\ Access \in [Room -> SUBSET User]
    /\ Capacity \in Nat \ {0}
    /\ Absent \notin Nat

VARIABLES
    task,       \* task[s]: where the handle_socket task of s stands
    wire,       \* wire[s]: what the client end of s did
    hears,      \* hears[s]: the select! branches armed in this iteration
    counts,     \* Presence.counts; Absent for a user without an entry
    ws_members, \* ws_members[r]: the users whose sockets get r's events
    unread,     \* unread[s]: broadcast events s has still to receive
    lagged,     \* lagged[s]: the ring overwrote events s had not read
    frame,      \* frame[s]: the last event frame written to s
    joined,     \* joined[s]: rooms s was admitted to (history)
    announced   \* announced[u]: last presence event of u (history)

vars == <<task, wire, hears, counts, ws_members, unread, lagged, frame,
          joined, announced>>

-----------------------------------------------------------------------------
None == "none"
NoFrame == [t |-> None]

TaskState == {"idle", "announce_online", "open", "leaving", "detaching",
              "debounce", "announce_offline", "ended"}

\* Between presence.connect and the decrement in presence.disconnect.
Attached == {"announce_online", "open", "leaving", "detaching"}

Branch == {"events", "frames"}

PresenceEvent == [t : {"presence"}, user : User, state : {"online", "offline"}]
RoomEvent == [t : {"room"}, room : Room]
Event == PresenceEvent \cup RoomEvent

SocketsOf(u) == {s \in Socket : Owner[s] = u}
AttachedTo(u) == {s \in SocketsOf(u) : task[s] \in Attached}

\* The receivers exist from subscribe() until handle_socket returns.
Subscribed(s) == task[s] \notin {"idle", "ended"}

Goto(s, there) == task' = [task EXCEPT ![s] = there]

\* Mutant of Retained: a queue without a limit.
RetainedAll(queue, e) == Append(queue, e)

\* The queue of a receiver after event e: the ring drops the oldest.
Retained(queue, e) ==
    IF Len(queue) < Capacity THEN Append(queue, e) ELSE Append(Tail(queue), e)

\* event_tx.send(e): every receiver gets e, a full one loses its oldest.
Broadcast(e) ==
    /\ unread' = [s \in Socket |->
                    IF Subscribed(s) THEN Retained(unread[s], e) ELSE unread[s]]
    /\ lagged' = [s \in Socket |->
                    lagged[s] \/ (Subscribed(s) /\ Len(unread[s]) = Capacity)]

Silent == UNCHANGED <<unread, lagged>>

Init ==
    /\ task = [s \in Socket |-> "idle"]
    /\ wire = [s \in Socket |-> "up"]
    /\ hears = [s \in Socket |-> Branch]
    /\ counts = [u \in User |-> Absent]
    /\ ws_members = [r \in Room |-> {}]
    /\ unread = [s \in Socket |-> <<>>]
    /\ lagged = [s \in Socket |-> FALSE]
    /\ frame = [s \in Socket |-> NoFrame]
    /\ joined = [s \in Socket |-> {}]
    /\ announced = [u \in User |-> None]

-----------------------------------------------------------------------------
(* Arriving: subscribe, presence.connect, then the announcement.           *)

\* Mutant of NotConnected: an entry counts as a connection.
NotListed(u) == counts[u] = Absent

NotConnected(u) == counts[u] \in {Absent, 0}

\* Mutant of Incremented: a connection replaces the others.
AlwaysOne(u) == 1

Incremented(u) == IF NotConnected(u) THEN 1 ELSE counts[u] + 1

\* Presence::connect: one more connection of the user; the caller announces
\* the user when it is the first.
Connect(s) ==
    LET u == Owner[s]
    IN  /\ task[s] = "idle"
        /\ counts' = [counts EXCEPT ![u] = Incremented(u)]
        /\ Goto(s, IF NotConnected(u) THEN "announce_online" ELSE "open")
        /\ UNCHANGED <<wire, hears, ws_members, frame, joined, announced>>
        /\ Silent

AnnounceOnline(s) ==
    LET u == Owner[s]
    IN  /\ task[s] = "announce_online"
        /\ Broadcast([t |-> "presence", user |-> u, state |-> "online"])
        /\ announced' = [announced EXCEPT ![u] = "online"]
        /\ Goto(s, "open")
        /\ UNCHANGED <<wire, hears, counts, ws_members, frame, joined>>

-----------------------------------------------------------------------------
(* The select! loop.  A branch whose future yields something its pattern   *)
(* does not match is disabled until the loop goes round; when both are,    *)
(* the else branch leaves the loop.                                        *)

Disarm(s, branch) ==
    /\ hears' = [hears EXCEPT ![s] = @ \ {branch}]
    /\ Goto(s, IF hears[s] = {branch} THEN "leaving" ELSE "open")

NextIteration(s) == hears' = [hears EXCEPT ![s] = Branch]

\* Mutant of Forwards: the room of an event is not looked at.
ForwardsAll(s, e) == TRUE

\* An event is forwarded when it names no room, or when the user is in
\* ws_members for the room it names.
Forwards(s, e) == e.t = "room" => Owner[s] \in ws_members[e.room]

RecvEvent(s) ==
    LET e == Head(unread[s])
    IN  /\ task[s] = "open"
        /\ "events" \in hears[s]
        /\ ~lagged[s]
        /\ unread[s] # <<>>
        /\ unread' = [unread EXCEPT ![s] = Tail(@)]
        /\ frame' = IF Forwards(s, e) THEN [frame EXCEPT ![s] = e] ELSE frame
        /\ NextIteration(s)
        /\ UNCHANGED <<task, wire, counts, ws_members, lagged, joined, announced>>

\* rx.next() yields Some(Err(Lagged)): the cursor moves to the oldest event
\* kept, the event branch is disabled.
RecvLagged(s) ==
    /\ task[s] = "open"
    /\ "events" \in hears[s]
    /\ lagged[s]
    /\ lagged' = [lagged EXCEPT ![s] = FALSE]
    /\ Disarm(s, "events")
    /\ UNCHANGED <<wire, counts, ws_members, unread, frame, joined, announced>>

\* receiver.next() yields an error or the end of a stream that was dropped
\* without a Close frame: the frame branch is disabled.
RecvDropped(s) ==
    /\ task[s] = "open"
    /\ "frames" \in hears[s]
    /\ wire[s] = "dropped"
    /\ Disarm(s, "frames")
    /\ UNCHANGED <<wire, counts, ws_members, frame, joined, announced>>
    /\ Silent

RecvClose(s) ==
    /\ task[s] = "open"
    /\ "frames" \in hears[s]
    /\ wire[s] = "closed"
    /\ Goto(s, "leaving")
    /\ UNCHANGED <<wire, hears, counts, ws_members, frame, joined, announced>>
    /\ Silent

\* The task reads a frame of a live client.
RecvFrame(s) ==
    /\ task[s] = "open"
    /\ "frames" \in hears[s]
    /\ wire[s] = "up"
    /\ NextIteration(s)
    /\ UNCHANGED <<task, wire, counts, frame, announced>>

\* {"action":"join"}: the user, not the socket, is entered in ws_members.
RecvJoin(s, r) ==
    /\ RecvFrame(s)
    /\ IF Owner[s] \in Access[r]
       THEN /\ ws_members' = [ws_members EXCEPT ![r] = @ \cup {Owner[s]}]
            /\ joined' = [joined EXCEPT ![s] = @ \cup {r}]
       ELSE UNCHANGED <<ws_members, joined>>
    /\ Silent

\* {"t":"typing"} of a member, past its debounce: broadcast to the room.
RecvTyping(s, r) ==
    /\ RecvFrame(s)
    /\ Owner[s] \in ws_members[r]
    /\ Broadcast([t |-> "room", room |-> r])
    /\ UNCHANGED <<ws_members, joined>>

\* Any other frame, and a typing frame that is not broadcast.
RecvOther(s) ==
    /\ RecvFrame(s)
    /\ UNCHANGED <<ws_members, joined>>
    /\ Silent

-----------------------------------------------------------------------------
(* Leaving: out of every room, then presence.disconnect and its debounce.  *)

\* Mutant of MembersWithout: the table is not cleaned up.
MembersWith(u) == ws_members

MembersWithout(u) == [r \in Room |-> ws_members[r] \ {u}]

Leave(s) ==
    /\ task[s] = "leaving"
    /\ ws_members' = MembersWithout(Owner[s])
    /\ Goto(s, "detaching")
    /\ UNCHANGED <<wire, hears, counts, frame, joined, announced>>
    /\ Silent

Detach(s) ==
    LET u == Owner[s]
    IN  /\ task[s] = "detaching"
        /\ counts' = [counts EXCEPT ![u] = IF NotConnected(u) THEN @ ELSE @ - 1]
        /\ Goto(s, "debounce")
        /\ UNCHANGED <<wire, hears, ws_members, frame, joined, announced>>
        /\ Silent

\* Mutant of AfterDebounce: only the task that finds no entry announces.
AfterDebounceOfNone(u) == IF counts[u] = Absent THEN "announce_offline" ELSE "ended"

AfterDebounce(u) == IF NotConnected(u) THEN "announce_offline" ELSE "ended"

\* The debounce sleep of s is over.
Expire(s) ==
    LET u == Owner[s]
    IN  /\ task[s] = "debounce"
        /\ counts' = [counts EXCEPT ![u] = IF NotConnected(u) THEN Absent ELSE @]
        /\ Goto(s, AfterDebounce(u))
        /\ UNCHANGED <<wire, hears, ws_members, frame, joined, announced>>
        /\ Silent

AnnounceOffline(s) ==
    LET u == Owner[s]
    IN  /\ task[s] = "announce_offline"
        /\ Broadcast([t |-> "presence", user |-> u, state |-> "offline"])
        /\ announced' = [announced EXCEPT ![u] = "offline"]
        /\ Goto(s, "ended")
        /\ UNCHANGED <<wire, hears, counts, ws_members, frame, joined>>

-----------------------------------------------------------------------------
(* What happens outside the socket tasks.                                  *)

\* The client sends a Close frame, or vanishes without one.
ClientEnds(s) ==
    /\ task[s] = "open"
    /\ wire[s] = "up"
    /\ \E how \in {"closed", "dropped"} : wire' = [wire EXCEPT ![s] = how]
    /\ UNCHANGED <<task, hears, counts, ws_members, frame, joined, announced>>
    /\ Silent

\* An HTTP handler broadcasts an event of room r: a message, an edit, a
\* deletion, an unread count.
RoomBroadcast(r) ==
    /\ Access[r] # {}
    /\ Broadcast([t |-> "room", room |-> r])
    /\ UNCHANGED <<task, wire, hears, counts, ws_members, frame, joined, announced>>

-----------------------------------------------------------------------------
Arrive(s) == Connect(s) \/ AnnounceOnline(s)

Serve(s) ==
    \/ RecvEvent(s)
    \/ RecvLagged(s)
    \/ RecvDropped(s)
    \/ RecvClose(s)

Depart(s) == Leave(s) \/ Detach(s) \/ Expire(s) \/ AnnounceOffline(s)

ClientSpeaks(s) ==
    \/ \E r \in Room : RecvJoin(s, r) \/ RecvTyping(s, r)
    \/ RecvOther(s)

Next ==
    \/ \E s \in Socket : Arrive(s) \/ Serve(s) \/ ClientSpeaks(s) \/ Depart(s)
                         \/ ClientEnds(s)
    \/ \E r \in Room : RoomBroadcast(r)

Spec == Init /\ [][Next]_vars

\* tokio runs a task that can go on; select! picks among ready branches at
\* random, so neither an event nor a frame waits for ever.
Fairness ==
    \A s \in Socket :
        /\ WF_vars(AnnounceOnline(s))
        /\ WF_vars(RecvEvent(s) \/ RecvLagged(s))
        /\ WF_vars(RecvDropped(s))
        /\ WF_vars(RecvClose(s))
        /\ WF_vars(Depart(s))

FairSpec == Spec /\ Fairness

-----------------------------------------------------------------------------
TypeOK ==
    /\ task \in [Socket -> TaskState]
    /\ wire \in [Socket -> {"up", "closed", "dropped"}]
    /\ hears \in [Socket -> SUBSET Branch]
    /\ counts \in [User -> Nat \cup {Absent}]
    /\ ws_members \in [Room -> SUBSET User]
    /\ unread \in [Socket -> Seq(Event)]
    /\ \A s \in Socket : Len(unread[s]) <= Capacity
    /\ lagged \in [Socket -> BOOLEAN]
    /\ frame \in [Socket -> Event \cup {NoFrame}]
    /\ joined \in [Socket -> SUBSET Room]
    /\ announced \in [User -> {None, "online", "offline"}]

\* The presence counter of a user is the number of the user's sockets
\* between connect and the decrement of disconnect, whatever the order in
\* which the tasks of several tabs connect, leave and sit out a debounce.
CountIsSockets ==
    \A u \in User :
        Cardinality(AttachedTo(u)) = IF counts[u] = Absent THEN 0 ELSE counts[u]

\* An entry that has dropped to zero is still the business of some debounce
\* task: no user is left listed as online by the snapshot for ever.
ZeroIsDebouncing ==
    \A u \in User :
        counts[u] = 0 => \E s \in SocketsOf(u) : task[s] = "debounce"

\* A user who is no longer listed is not left advertised as online: the
\* last presence event was "offline", or the task that sends it is at it.
NoPhantomOnline ==
    \A u \in User :
        counts[u] = Absent /\ announced[u] = "online"
            => \E s \in SocketsOf(u) : task[s] = "announce_offline"

\* ws_members holds no user without a live socket: the clean-up of a
\* closing socket leaves nothing behind, whoever joins meanwhile.
NoGhostMembers ==
    \A r \in Room : \A u \in ws_members[r] :
        \E s \in SocketsOf(u) : task[s] \in {"open", "leaving"}

\* A socket is only ever written events of rooms its user may access,
\* although access is tested at join and never when an event is forwarded:
\* what stands between is that ws_members admits nobody else.
RoomConfidentiality ==
    /\ \A r \in Room : ws_members[r] \subseteq Access[r]
    /\ \A s \in Socket : \A r \in Room :
           frame[s] = [t |-> "room", room |-> r] => Owner[s] \in Access[r]

HubInv ==
    /\ TypeOK
    /\ CountIsSockets
    /\ ZeroIsDebouncing
    /\ NoPhantomOnline
    /\ NoGhostMembers
    /\ RoomConfidentiality

\* The presence counters implement the promise of OnlineUsers.
Promise == INSTANCE OnlineUsers WITH
    attached <- {s \in Socket : task[s] \in Attached},
    online <- {u \in User : counts[u] # Absent}

PromiseKept == Promise!Spec
PromiseKeptFairly == Promise!FairSpec

Visitor == {Owner[s] : s \in Socket}
Served(u) == \E s \in SocketsOf(u) : task[s] # "idle"

SaidGoodbye(u) ==
    \A s \in SocketsOf(u) : task[s] \in {"idle", "ended"} \/ wire[s] = "closed"

\* A user whose clients all said goodbye is taken off the list and announced
\* offline in the end, unless another socket of the user shows up meanwhile.
ClosedUserGoesOffline ==
    \A u \in Visitor :
        Served(u) /\ SaidGoodbye(u)
            ~> (counts[u] = Absent /\ announced[u] = "offline") \/ ~SaidGoodbye(u)

-----------------------------------------------------------------------------
(* What the comments and the tests say and the tasks do not do.            *)

\* tests/integration.rs, ws_join_registers_membership: a socket that joined
\* a room has its user in ws_members, as long as the socket is open.
JoinRegistersMembership ==
    \A s \in Socket : task[s] = "open" =>
        \A r \in joined[s] : Owner[s] \in ws_members[r]

IsGone(u) ==
    \A s \in SocketsOf(u) : task[s] \in {"idle", "ended"} \/ wire[s] # "up"

\* tests/realtime.rs: when a client has disconnected, the others see the
\* user go offline; here for clients that vanish without a Close frame.
DisconnectedUserGoesOffline ==
    \A u \in Visitor :
        Served(u) /\ IsGone(u)
            ~> (counts[u] = Absent /\ announced[u] = "offline") \/ ~IsGone(u)

=============================================================================
