------------------------------ MODULE ChatView ------------------------------
(***************************************************************************)
(* What one user sees of a room in one tab: the chat page (Chat.tsx), its  *)
(* socket (ws.ts) and as much of the server (api.rs) as decides what       *)
(* reaches them: the history, the events and the answers to the posts.     *)
(*                                                                         *)
(* The page fills one list of messages from three sources that race: the   *)
(* temporary entry and the answer of a post, the events of the socket and  *)
(* the history fetched on entering a room.  /room/:id keeps one instance   *)
(* of the page, so its list outlives a change of room, and so do fetches   *)
(* and posts under way.  On the server the tasks of former sockets live on *)
(* for a while; each takes the user out of all rooms when it ends.         *)
(***************************************************************************)
EXTENDS Naturals, SequencesExt, Selection

CONSTANTS
    Room,
    NoRoom,         \* the page without a room: "Select or create a room"
    Message,
    Text,
    MaxBreaks       \* bound: changes of room, broken connections, failures

ASSUME ViewAssumption == NoRoom \notin Room /\ MaxBreaks \in Nat

VARIABLES
    about,          \* about[m]: room and text of m, and if this tab sends it
    view,           \* the room shown
    list,           \* the page's messages
    post,           \* post[m]: how sending m stands on the page
    fetch,          \* history fetches under way
    link,           \* the socket: "open" or "closed"
    join,           \* its join frame: "none", "queued", "sent"
    wire,           \* events on their way to the page
    stored,         \* table messages, oldest first
    told,           \* told[m]: whether the request of m has sent its event
    member,         \* the rooms of ws_members this user is in
    unread,         \* events the task of the socket has yet to read
    old,            \* tasks of former sockets; the room each may still join
    missed,         \* messages of this visit not handed to the page (history)
    early,          \* messages fetched beside their temporary entry (history)
    breaks          \* counter for the bound

vars == <<about, view, list, post, fetch, link, join, wire, stored, told,
          member, unread, old, missed, early, breaks>>

page == <<view, list, post, fetch, early>>
socket == <<link, join, wire, unread>>
server == <<about, stored, told>>

-----------------------------------------------------------------------------
(* The messages.  What is sent, where and by whom is chosen at the start.  *)

RoomOf(m) == about[m].room
TextOf(m) == about[m].text
Mine == {m \in Message : about[m].mine}

-----------------------------------------------------------------------------
(* The list.  A temporary entry is told from its message by its id, tmp-   *)
(* and the time; no two of them have one time.                             *)

Temp(m) == [msg |-> m, temp |-> TRUE]
Shown(m) == [msg |-> m, temp |-> FALSE]
Entry == [msg : Message, temp : BOOLEAN]

Has(l, e) == e \in Range(l)

Without(l, e) == Kept(l, Entry \ {e})

Put(l, i, m) == [l EXCEPT ![i] = Shown(m)]

\* The temporary entries with the text of m.
Twins(l, m) == {i \in DOMAIN l : l[i].temp /\ TextOf(l[i].msg) = TextOf(m)}

First(S) == CHOOSE i \in S : \A j \in S : i <= j

\* Mutant of WithEvent: the id is not looked for.
WithEventAgain(l, m) ==
    IF Twins(l, m) # {} THEN Put(l, First(Twins(l, m)), m)
                        ELSE Append(l, Shown(m))

\* The list after an event: m takes the place of the first temporary entry
\* with its text, else it is appended unless it is there.
WithEvent(l, m) ==
    CASE Twins(l, m) # {} -> Put(l, First(Twins(l, m)), m)
      [] Twins(l, m) = {} /\ Has(l, Shown(m)) -> l
      [] OTHER -> Append(l, Shown(m))

\* Mutant of WithAnswer: the entry is dropped, the answer is not put in.
WithAnswerDropped(l, m) == Without(l, Temp(m))

\* The list after the answer to the post of m.
WithAnswer(l, m) ==
    IF Has(l, Shown(m))
    THEN Without(l, Temp(m))
    ELSE [i \in DOMAIN l |-> IF l[i] = Temp(m) THEN Shown(m) ELSE l[i]]

\* The messages of h whose id the list does not have.
Fresh(l, h) == Kept(h, {m \in Message : ~Has(l, Shown(m))})

\* Mutant of WithHistory: the history replaces the list.
HistoryOnly(l, h) == [i \in DOMAIN h |-> Shown(h[i])]

\* The list after a history: what it lacks of it is appended.
WithHistory(l, h) == l \o [i \in DOMAIN Fresh(l, h) |-> Shown(Fresh(l, h)[i])]

-----------------------------------------------------------------------------
Init ==
    /\ about \in [Message -> [room : Room, text : Text, mine : BOOLEAN]]
    /\ view = NoRoom
    /\ list = <<>>
    /\ post = [m \in Message |-> "unsent"]
    /\ fetch = <<>>
    /\ link = "closed"
    /\ join = "none"
    /\ wire = <<>>
    /\ stored = <<>>
    /\ told = [m \in Message |-> "no"]
    /\ member = {}
    /\ unread = <<>>
    /\ old = <<>>
    /\ missed = {}
    /\ early = {}
    /\ breaks = 0

\* The task of an open socket that closes: its join may still be to be read.
Former ==
    IF link = "open"
    THEN Append(old, IF join = "sent" THEN view ELSE NoRoom)
    ELSE old

-----------------------------------------------------------------------------
(* The page changes room: the effect is cleaned up and run anew.           *)

\* The socket is closed for good and what is on its way is dropped; for a
\* room there is a new socket, a join queued until it opens and a fetch.
Enter(r) ==
    /\ breaks < MaxBreaks
    /\ r # view
    /\ breaks' = breaks + 1
    /\ view' = r
    /\ old' = Former
    /\ link' = "closed"
    /\ wire' = <<>>
    /\ unread' = <<>>
    /\ missed' = {}
    /\ IF r = NoRoom
       THEN join' = "none" /\ UNCHANGED fetch
       ELSE /\ join' = "queued"
            /\ fetch' = Append(fetch,
                               [room |-> r, read |-> FALSE, msgs |-> <<>>])
    /\ UNCHANGED <<list, post, early, server, member>>

-----------------------------------------------------------------------------
(* The socket.                                                             *)

\* Mutant of Open: the queue is not flushed.
OpenUnflushed ==
    /\ view # NoRoom
    /\ link = "closed"
    /\ link' = "open"
    /\ UNCHANGED <<page, join, wire, server, member, unread, old, missed,
                   breaks>>

\* Connected, at first or again after the delay: the queue is flushed, which
\* holds the join the first time only.  The server's task subscribes.
Open ==
    /\ view # NoRoom
    /\ link = "closed"
    /\ link' = "open"
    /\ join' = IF join = "queued" THEN "sent" ELSE "none"
    /\ UNCHANGED <<page, wire, server, member, unread, old, missed, breaks>>

\* The connection breaks, and what is on its way is lost.
Drop ==
    /\ breaks < MaxBreaks
    /\ link = "open"
    /\ breaks' = breaks + 1
    /\ old' = Former
    /\ link' = "closed"
    /\ join' = "none"
    /\ wire' = <<>>
    /\ unread' = <<>>
    /\ missed' = missed \cup Range(wire) \cup Range(unread)
    /\ UNCHANGED <<page, server, member>>

\* The task of the socket reads the join.
ReadJoin ==
    /\ join = "sent"
    /\ join' = "none"
    /\ member' = member \cup {view}
    /\ UNCHANGED <<page, link, wire, server, unread, old, missed, breaks>>

\* The task of a former socket reads the join it was sent last.
ReadOldJoin(i) ==
    /\ old[i] # NoRoom
    /\ member' = member \cup {old[i]}
    /\ old' = [old EXCEPT ![i] = NoRoom]
    /\ UNCHANGED <<page, socket, server, missed, breaks>>

\* It ends, with or without having read it: the user leaves every room.
Leave(i) ==
    /\ member' = {}
    /\ old' = RemoveAt(old, i)
    /\ UNCHANGED <<page, socket, server, missed, breaks>>

\* The task of the socket reads an event and forwards it if the user is in
\* the room.
Forward ==
    /\ unread # <<>>
    /\ unread' = Tail(unread)
    /\ LET m == Head(unread)
       IN  IF RoomOf(m) \in member
           THEN wire' = Append(wire, m) /\ UNCHANGED missed
           ELSE missed' = missed \cup {m} /\ UNCHANGED wire
    /\ UNCHANGED <<page, link, join, server, member, old, breaks>>

\* onEvent: an event of another room is passed over.
Receive ==
    /\ wire # <<>>
    /\ wire' = Tail(wire)
    /\ list' = IF RoomOf(Head(wire)) = view
               THEN WithEvent(list, Head(wire))
               ELSE list
    /\ UNCHANGED <<view, post, fetch, early, link, join, server, member, unread,
                   old, missed, breaks>>

-----------------------------------------------------------------------------
(* Posts.                                                                  *)

\* send: a temporary entry, and the request.
Send(m) ==
    /\ post[m] = "unsent"
    /\ view = RoomOf(m)
    /\ post' = [post EXCEPT ![m] = "waiting"]
    /\ list' = Append(list, Temp(m))
    /\ UNCHANGED <<view, fetch, early, socket, server, member, old, missed,
                   breaks>>

\* post_message stores the message, be it that the page has given up ...
Store(m) ==
    /\ m \in Mine => post[m] \in {"waiting", "failed"}
    /\ m \notin Range(stored)
    /\ stored' = Append(stored, m)
    /\ UNCHANGED <<page, socket, about, told, member, old, missed, breaks>>

\* ... and sends its event to the tasks there are,
Announce(m) ==
    /\ m \in Range(stored)
    /\ told[m] = "no"
    /\ told' = [told EXCEPT ![m] = "event"]
    /\ IF link = "open"
       THEN unread' = Append(unread, m) /\ UNCHANGED missed
       ELSE missed' = missed \cup {m} /\ UNCHANGED unread
    /\ UNCHANGED <<page, link, join, wire, about, stored, member, old, breaks>>

\* unless a statement in between fails, on mentions or the read pointer.
StopShort(m) ==
    /\ m \in Range(stored)
    /\ told[m] = "no"
    /\ breaks < MaxBreaks
    /\ breaks' = breaks + 1
    /\ told' = [told EXCEPT ![m] = "nothing"]
    /\ missed' = missed \cup {m}
    /\ UNCHANGED <<page, socket, about, stored, member, old>>

\* The answer with the message stored.
Answer(m) ==
    /\ post[m] = "waiting"
    /\ told[m] = "event"
    /\ post' = [post EXCEPT ![m] = "done"]
    /\ list' = WithAnswer(list, m)
    /\ UNCHANGED <<view, fetch, early, socket, server, member, old, missed,
                   breaks>>

\* Mutant of SendFails: the temporary entry stays.
SendFailsQuietly(m) ==
    /\ post[m] = "waiting"
    /\ breaks < MaxBreaks
    /\ breaks' = breaks + 1
    /\ post' = [post EXCEPT ![m] = "failed"]
    /\ UNCHANGED <<view, list, fetch, early, socket, server, member, old,
                   missed>>

\* An error for an answer, or none: what the server did of the post stays.
SendFails(m) ==
    /\ post[m] = "waiting"
    /\ breaks < MaxBreaks
    /\ breaks' = breaks + 1
    /\ post' = [post EXCEPT ![m] = "failed"]
    /\ list' = Without(list, Temp(m))
    /\ UNCHANGED <<view, fetch, early, socket, server, member, old, missed>>

-----------------------------------------------------------------------------
(* The history.                                                            *)

\* The messages of a room, newest first; there are fewer than a page of them.
History(r) == Reverse(Kept(stored, {m \in Message : RoomOf(m) = r}))

\* list_messages.
ReadHistory(i) ==
    /\ ~fetch[i].read
    /\ fetch' = [fetch EXCEPT ![i].read = TRUE,
                              ![i].msgs = History(fetch[i].room)]
    /\ UNCHANGED <<view, list, post, early, socket, server, member, old,
                   missed, breaks>>

\* It is added to the list whatever room is shown by now.
TakeHistory(i) ==
    /\ fetch[i].read
    /\ fetch' = RemoveAt(fetch, i)
    /\ list' = WithHistory(list, fetch[i].msgs)
    /\ missed' = missed \ Range(fetch[i].msgs)
    /\ early' = early \cup {m \in Range(fetch[i].msgs) : Has(list, Temp(m))}
    /\ UNCHANGED <<view, post, socket, server, member, old, breaks>>

\* The fetch fails, before or after the server has read: nothing is fetched
\* again.
LoseHistory(i) ==
    /\ breaks < MaxBreaks
    /\ breaks' = breaks + 1
    /\ fetch' = RemoveAt(fetch, i)
    /\ missed' = missed \cup {m \in Range(stored) : RoomOf(m) = fetch[i].room}
    /\ UNCHANGED <<view, list, post, early, socket, server, member, old>>

-----------------------------------------------------------------------------
Next ==
    \/ \E r \in Room \cup {NoRoom} : Enter(r)
    \/ Open
    \/ Drop
    \/ ReadJoin
    \/ \E i \in DOMAIN old : ReadOldJoin(i) \/ Leave(i)
    \/ Forward
    \/ Receive
    \/ \E m \in Mine : Send(m) \/ Answer(m) \/ SendFails(m)
    \/ \E m \in Message : Store(m) \/ Announce(m) \/ StopShort(m)
    \/ \E i \in DOMAIN fetch :
         ReadHistory(i) \/ TakeHistory(i) \/ LoseHistory(i)

Spec == Init /\ [][Next]_vars

-----------------------------------------------------------------------------
(* Properties.                                                             *)

\* Every variable stays in its type; the list holds entries only (Chat.tsx's
\* Message[]), and a join waits only while the socket has yet to open.
TypeOK ==
    /\ about \in [Message -> [room : Room, text : Text, mine : BOOLEAN]]
    /\ view \in Room \cup {NoRoom}
    /\ list \in Seq(Entry)
    /\ post \in [Message -> {"unsent", "waiting", "done", "failed"}]
    /\ fetch \in Seq([room : Room, read : BOOLEAN, msgs : Seq(Message)])
    /\ link \in {"closed", "open"}
    /\ join \in {"none", "queued", "sent"}
    /\ join = "queued" => link = "closed"
    /\ join = "sent" => link = "open"
    /\ wire \in Seq(Message)
    /\ stored \in Seq(Message)
    /\ told \in [Message -> {"no", "event", "nothing"}]
    /\ member \subseteq Room
    /\ unread \in Seq(Message)
    /\ old \in Seq(Room \cup {NoRoom})
    /\ missed \subseteq Message
    /\ early \subseteq Message
    /\ breaks \in 0..MaxBreaks

\* A temporary entry is one whose post is under way: however events, answers
\* and histories overlap, none is left behind (Chat.tsx send, onEvent).
TempsAreUnderWay ==
    \A i \in DOMAIN list : list[i].temp => post[list[i].msg] = "waiting"

\* No other message has the text of m.
Unique(m) == \A n \in Message \ {m} : TextOf(n) # TextOf(m)

\* A message of the tab's own, of a text nothing else has, is shown from the
\* answer on for as long as the page lives, through changes of room and
\* histories that arrive late (Chat.tsx send and the fetch of the effect).
SentIsShown ==
    \A m \in Mine : post[m] = "done" /\ Unique(m) => Has(list, Shown(m))

\* A message of such a text is in the list once, be it handed to the page as
\* an event, as an answer and by histories: the page looks for its id in each
\* (Chat.tsx), save when a history brings it beside its temporary entry.
NoDoubles ==
    \A m \in Message \ early :
        Unique(m) => \A i, j \in DOMAIN list :
                         list[i].msg = m /\ list[j].msg = m => i = j

\* A fetch will bring m, or an event on its way to the page will.
IsComing(m) ==
    \/ told[m] = "no"
    \/ m \in Range(wire) \cup Range(unread)
    \/ \E i \in DOMAIN fetch : IF fetch[i].read THEN m \in Range(fetch[i].msgs)
                                                ELSE fetch[i].room = RoomOf(m)

\* The page loses nothing it is handed: a stored message of the room shown is
\* in the list or coming, unless it was announced to no socket, to one that
\* was not in the room or broke, or the fetch that had it failed (Chat.tsx,
\* onEvent and the fetch of the effect; handle_socket).
NothingElseIsMissed ==
    \A m \in Range(stored) :
        RoomOf(m) = view => Has(list, Shown(m)) \/ IsComing(m) \/ m \in missed

=============================================================================
