---------------------------- MODULE OnlineUsers ----------------------------
(***************************************************************************)
(* What the presence service of family_chat promises, without counters,    *)
(* timers or announcements: which sockets are attached, and which users    *)
(* the service lists as online.  A user is listed from the moment a first  *)
(* socket attaches; the entry may be dropped only while none is attached,  *)
(* and it is dropped in the end unless a socket attaches again.            *)
(***************************************************************************)

CONSTANTS
    Socket,     \* WebSocket connections
    User,       \* user ids
    Owner       \* Owner[s]: the user who opened socket s

VARIABLES
    attached,   \* the sockets that are attached
    online      \* the users listed as online

presence == <<attached, online>>

SocketsOf(u) == {s \in Socket : Owner[s] = u}

Init ==
    /\ attached = {}
    /\ online = {}

Attach(s) ==
    /\ s \notin attached
    /\ attached' = attached \cup {s}
    /\ online' = online \cup {Owner[s]}

Detach(s) ==
    /\ s \in attached
    /\ attached' = attached \ {s}
    /\ UNCHANGED online

GoOffline(u) ==
    /\ u \in online
    /\ attached \cap SocketsOf(u) = {}
    /\ online' = online \ {u}
    /\ UNCHANGED attached

Next ==
    \/ \E s \in Socket : Attach(s) \/ Detach(s)
    \/ \E u \in User : GoOffline(u)

Spec == Init /\ [][Next]_presence

FairSpec == Spec /\ \A u \in User : WF_presence(GoOffline(u))

=============================================================================
