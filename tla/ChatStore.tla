----------------------------- MODULE ChatStore -----------------------------
(***************************************************************************)
(* The rooms and messages of family_chat: the SQLite tables (db.rs), the   *)
(* handlers that change them (rooms.rs, messages.rs and the handlers of    *)
(* api.rs) and the events that tell the clients.                           *)
(*                                                                         *)
(* Every handler runs its statements one by one on a pooled connection,    *)
(* each in a transaction of its own: handlers on other threads come in     *)
(* between.  The connections share the cache of one in-memory database,    *)
(* where a write fails at once while another connection reads the table.   *)
(* A statement that changes a table is a step; the reads before it that    *)
(* nothing can change meanwhile are part of that step or the one before.   *)
(***************************************************************************)
EXTENDS Naturals

CONSTANTS
    Request,        \* handlers that may be under way at once
    User,           \* accounts, all of them enabled
    Key,            \* idempotency keys
    Text,           \* message texts, none of them blank
    Slug,           \* slugs public rooms are asked for
    MaxMessages     \* bound: messages ever stored

ASSUME StoreAssumption == MaxMessages \in Nat /\ Slug \subseteq SUBSET User

VARIABLES
    rooms,          \* table rooms
    members,        \* table room_members, as a set of [room, user]
    made,           \* messages stored so far; the m-th has id m
    row,            \* table messages: row[m], NoRow when there is none
    req,            \* req[q]: where request q stands and what it is about
    told,           \* told[m]: what the last event about m said (history)
    handed,         \* direct rooms handed out with 200 (history)
    raced,          \* messages two requests worked on at once (history)
    unreported      \* messages whose request failed half-way (history)

vars == <<rooms, members, made, row, req, told, handed, raced, unreported>>

tables == <<rooms, members, made, row>>

-----------------------------------------------------------------------------
Message == 1..MaxMessages

\* dm_room_id: the id of a direct room is a function of the two users.  A
\* slug is told by the pair it names, {} when it is not of the form dm-a-b.
Direct(pair) == [dm |-> TRUE, slug |-> pair]
Public(slug) == [dm |-> FALSE, slug |-> slug]
RoomId == [dm : BOOLEAN, slug : SUBSET User]

NoKey == "no key"
NoReply == 0
NoRow == [author |-> "none"]
Row == [author : User, room : RoomId, key : Key \cup {NoKey},
        reply : Nat, text : Text]

Deleted == "deleted"
Nothing == "nothing"

\* Mutant of CanAccess: the members of a direct room are not looked at.
RoomExists(r, u) == r \in rooms

\* user_can_access_room.
CanAccess(r, u) ==
    /\ r \in rooms
    /\ r.dm => [room |-> r, user |-> u] \in members

\* UNIQUE slug of table rooms.
SlugTaken(slug) == \E r \in rooms : r.slug = slug

Stored == {m \in Message : row[m] # NoRow}

\* UNIQUE (author_id, idempotency_key); NULL keys differ from each other.
KeyTaken(u, k) == k # NoKey /\ \E m \in Stored : row[m].author = u /\ row[m].key = k

\* REFERENCES messages(id), for the reply of a new row and the row deleted.
MayReplyTo(m) == m = NoReply \/ m \in Stored

\* Mutant of IsRepliedTo: the foreign key is not enforced.
NeverRepliedTo(m) == FALSE

IsRepliedTo(m) == \E n \in Stored : row[n].reply = m

Idle == [at |-> "idle"]
Working(q) == req[q].at # "idle"

\* A request that knows which message it is about has a field msg.
Handlers(m) == {q \in Request : "msg" \in DOMAIN req[q] /\ req[q].msg = m}

Goto(q, there) == req' = [req EXCEPT ![q].at = there]
Finish(q) == req' = [req EXCEPT ![q] = Idle]

Init ==
    /\ rooms = {}
    /\ members = {}
    /\ made = 0
    /\ row = [m \in Message |-> NoRow]
    /\ req = [q \in Request |-> Idle]
    /\ told = [m \in Message |-> Nothing]
    /\ handed = {}
    /\ raced = {}
    /\ unreported = {}

-----------------------------------------------------------------------------
(* Rooms.                                                                  *)

\* create_room: one INSERT, refused with 409 when the slug is taken.
CreateRoom(slug) ==
    /\ ~SlugTaken(slug)
    /\ rooms' = rooms \cup {Public(slug)}
    /\ UNCHANGED <<members, made, row, req, told, handed, raced, unreported>>

\* get_dm: hands out the room if it is there, else creates it and enters
\* first the caller, then the other user.
GetDm(q, u, other) ==
    LET r == Direct({u, other})
    IN  /\ ~Working(q)
        /\ u # other
        /\ IF r \in rooms
           THEN handed' = handed \cup {r} /\ UNCHANGED req
           ELSE /\ req' = [req EXCEPT ![q] = [at |-> "dm_room", room |-> r,
                                             user |-> u, other |-> other]]
                /\ UNCHANGED handed
        /\ UNCHANGED <<tables, told, raced, unreported>>

\* The INSERT fails if the room came into being since, or if a public room
\* has the slug.
InsertDm(q) ==
    LET r == req[q].room
    IN  /\ req[q].at = "dm_room"
        /\ IF SlugTaken(r.slug)
           THEN Finish(q) /\ UNCHANGED rooms
           ELSE Goto(q, "dm_caller") /\ rooms' = rooms \cup {r}
        /\ UNCHANGED <<members, made, row, told, handed, raced, unreported>>

InsertCaller(q) ==
    /\ req[q].at = "dm_caller"
    /\ members' = members \cup {[room |-> req[q].room, user |-> req[q].user]}
    /\ Goto(q, "dm_other")
    /\ UNCHANGED <<rooms, made, row, told, handed, raced, unreported>>

InsertOther(q) ==
    /\ req[q].at = "dm_other"
    /\ members' = members \cup {[room |-> req[q].room, user |-> req[q].other]}
    /\ handed' = handed \cup {req[q].room}
    /\ Finish(q)
    /\ UNCHANGED <<rooms, made, row, told, raced, unreported>>

-----------------------------------------------------------------------------
(* Posting a message.                                                      *)

\* Access is tested first, then the key is looked up: a row with the key
\* lacks the column row_to_msg wants next, and the request ends with 500.
Post(q, u, r, k, reply, t) ==
    /\ ~Working(q)
    /\ CanAccess(r, u)
    /\ ~KeyTaken(u, k)
    /\ req' = [req EXCEPT ![q] = [at |-> "insert", user |-> u, room |-> r,
                                 key |-> k, reply |-> reply, text |-> t]]
    /\ UNCHANGED <<tables, told, handed, raced, unreported>>

\* Mutant of NextMessage: the row replaces the last one.
LastMessage == made

\* AUTOINCREMENT.
NextMessage == made + 1

\* Mutant of Refused: no unique index on the keys.
RefusedAsReply(p) == ~MayReplyTo(p.reply)

\* The constraints the INSERT may hit.
Refused(p) == KeyTaken(p.user, p.key) \/ ~MayReplyTo(p.reply)

InsertMessage(q) ==
    LET new == NextMessage
        p == req[q]
    IN  /\ p.at = "insert"
        /\ IF Refused(p)
           THEN Finish(q) /\ UNCHANGED <<made, row>>
           ELSE /\ made < MaxMessages
                /\ made' = new
                /\ row' = [row EXCEPT ![new] =
                             [author |-> p.user, room |-> p.room, key |-> p.key,
                              reply |-> p.reply, text |-> p.text]]
                /\ req' = [req EXCEPT ![q] = [at |-> "post_books", msg |-> new,
                                             text |-> p.text]]
        /\ UNCHANGED <<rooms, members, told, handed, raced, unreported>>

\* The writes to other tables that follow: mentions, the read pointer.
KeepBooks(q) ==
    /\ req[q].at \in {"post_books", "edit_books", "erase_books"}
    /\ Goto(q, CASE req[q].at = "post_books" -> "post_event"
                 [] req[q].at = "edit_books" -> "reread"
                 [] req[q].at = "erase_books" -> "erase_event")
    /\ UNCHANGED <<tables, told, handed, raced, unreported>>

\* The event of a post or an edit carries the text, then 201 or 200.
Announce(q) ==
    /\ req[q].at \in {"post_event", "edit_event"}
    /\ told' = [told EXCEPT ![req[q].msg] = req[q].text]
    /\ Finish(q)
    /\ UNCHANGED <<tables, handed, raced, unreported>>

-----------------------------------------------------------------------------
(* Editing and deleting: only the author's request gets anywhere.          *)

\* A request for message m begins, in the middle of another one perhaps.
Begin(q, m, work) ==
    /\ ~Working(q)
    /\ req' = [req EXCEPT ![q] = work]
    /\ raced' = IF Handlers(m) = {} THEN raced ELSE raced \cup {m}
    /\ UNCHANGED <<told, handed, unreported>>

\* edit_message: UPDATE ... WHERE id = m AND author_id = u.
Edit(q, u, m, t) ==
    /\ row[m] # NoRow /\ row[m].author = u
    /\ row' = [row EXCEPT ![m].text = t]
    /\ Begin(q, m, [at |-> "edit_books", msg |-> m, text |-> t])
    /\ UNCHANGED <<rooms, members, made>>

\* The row is read again for the event; it may be gone.
Reread(q) ==
    LET m == req[q].msg
    IN  /\ req[q].at = "reread"
        /\ IF row[m] = NoRow
           THEN Finish(q)
           ELSE req' = [req EXCEPT ![q].at = "edit_event", ![q].text = row[m].text]
        /\ UNCHANGED <<tables, told, handed, raced, unreported>>

\* delete_message: the row is read for its room and author, then deleted;
\* that it may be gone by then is not noticed.
Delete(q, u, m) ==
    /\ row[m] # NoRow /\ row[m].author = u
    /\ Begin(q, m, [at |-> "erase", msg |-> m])
    /\ UNCHANGED tables

\* Mutant of Erase: a DELETE that fails is taken for done.
EraseUnchecked(q) ==
    LET m == req[q].msg
    IN  /\ req[q].at = "erase"
        /\ Goto(q, "erase_books")
        /\ row' = IF IsRepliedTo(m) THEN row ELSE [row EXCEPT ![m] = NoRow]
        /\ UNCHANGED <<rooms, members, made, told, handed, raced, unreported>>

Erase(q) ==
    LET m == req[q].msg
    IN  /\ req[q].at = "erase"
        /\ IF IsRepliedTo(m)
           THEN Finish(q) /\ UNCHANGED row
           ELSE Goto(q, "erase_books") /\ row' = [row EXCEPT ![m] = NoRow]
        /\ UNCHANGED <<rooms, members, made, told, handed, raced, unreported>>

AnnounceDeletion(q) ==
    /\ req[q].at = "erase_event"
    /\ told' = [told EXCEPT ![req[q].msg] = Deleted]
    /\ Finish(q)
    /\ UNCHANGED <<tables, handed, raced, unreported>>

-----------------------------------------------------------------------------
\* A write finds its table locked: 500, what was done before it stays done.
WriteFails(q) ==
    /\ req[q].at \in {"dm_room", "dm_caller", "dm_other", "insert",
                      "post_books", "edit_books", "erase", "erase_books"}
    /\ Finish(q)
    /\ unreported' =
         IF req[q].at \in {"post_books", "edit_books", "erase_books"}
         THEN unreported \cup {req[q].msg} ELSE unreported
    /\ UNCHANGED <<tables, told, handed, raced>>

-----------------------------------------------------------------------------
Arrive(q) ==
    \E u \in User :
        \/ \E other \in User : GetDm(q, u, other)
        \/ \E r \in rooms, k \in Key \cup {NoKey}, reply \in Message \cup {NoReply},
              t \in Text : Post(q, u, r, k, reply, t)
        \/ \E m \in Message : (\E t \in Text : Edit(q, u, m, t)) \/ Delete(q, u, m)

Proceed(q) ==
    \/ InsertDm(q) \/ InsertCaller(q) \/ InsertOther(q)
    \/ InsertMessage(q) \/ KeepBooks(q) \/ Announce(q)
    \/ Reread(q) \/ Erase(q) \/ AnnounceDeletion(q)
    \/ WriteFails(q)

Next ==
    \/ \E slug \in Slug : CreateRoom(slug)
    \/ \E q \in Request : Arrive(q) \/ Proceed(q)

Spec == Init /\ [][Next]_vars

-----------------------------------------------------------------------------
Work ==
    [at : {"idle"}]
    \cup [at : {"dm_room", "dm_caller", "dm_other"}, room : RoomId,
          user : User, other : User]
    \cup [at : {"insert"}, user : User, room : RoomId, key : Key \cup {NoKey},
          reply : Message \cup {NoReply}, text : Text]
    \cup [at : {"post_books", "post_event", "edit_books", "reread", "edit_event"},
          msg : Message, text : Text]
    \cup [at : {"erase", "erase_books", "erase_event"}, msg : Message]

TypeOK ==
    /\ rooms \subseteq RoomId
    /\ members \subseteq [room : rooms, user : User]
    /\ made \in 0..MaxMessages
    /\ row \in [Message -> Row \cup {NoRow}]
    /\ req \in [Request -> Work]
    /\ told \in [Message -> Text \cup {Nothing, Deleted}]
    /\ handed \subseteq rooms
    /\ raced \subseteq Message
    /\ unreported \subseteq Message

\* A key brings at most one message of its author into being, however the
\* retries of a post overlap: the look-up alone would let two through.
OncePerKey ==
    \A m, n \in Stored :
        /\ row[m].author = row[n].author
        /\ row[m].key = row[n].key
        /\ row[m].key # NoKey
        => m = n

\* No reply is left without the message it answers, though a post tests
\* nothing when it comes in and a delete may run while it waits.
RepliesAreAnchored == \A m \in Stored : MayReplyTo(row[m].reply)

\* Only the two users a direct room is for are ever its members, and only
\* they have messages in it, wherever its creation was interrupted and
\* whoever took its slug.
PrivateDms ==
    /\ \A e \in members : e.room.dm => e.user \in e.room.slug
    /\ \A m \in Stored : row[m].room.dm => row[m].author \in row[m].room.slug

\* What the last event said of a message is what the table holds once its
\* requests are over, unless two of them overlapped or one failed after it
\* had changed the table: there is no other way to mislead the clients.
Truth(m) == IF row[m] = NoRow THEN Deleted ELSE row[m].text

EventsTellTheTable ==
    \A m \in 1..made :
        m \notin raced \cup unreported /\ Handlers(m) = {} => told[m] = Truth(m)

-----------------------------------------------------------------------------
\* rooms.rs, "Create or fetch a DM room for two users": when the requests
\* are over, a room that was handed out is one both users can use.
HandedRoomsAreUsable ==
    (\A q \in Request : ~Working(q)) =>
        \A r \in handed : \A u \in r.slug : CanAccess(r, u)

=============================================================================
