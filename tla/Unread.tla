------------------------------- MODULE Unread -------------------------------
(* Read pointers and unread counts of one room whose users have all joined   *)
(* it: reads.rs, update_read_pointer and the part of post_message in api.rs  *)
(* that follows create_message.  Times are whole seconds, as in the tables.  *)
(* Requests run on threads of their own, each statement a step.              *)
EXTENDS Integers, FiniteSets

CONSTANTS
    Reader,         \* the users of the room
    Asker,          \* requests
    MaxPosts,       \* bound: messages stamped
    MaxMarks,       \* bound: calls of update_read_pointer
    MaxSecond       \* bound: the clock

ASSUME UnreadAssumption ==
    MaxPosts \in Nat /\ MaxMarks \in Nat /\ MaxSecond \in Nat \ {0}

Second == 1 .. MaxSecond
Id == 1 .. MaxPosts

VARIABLES
    second,         \* now_utc().unix_timestamp()
    rows,           \* the messages of the room
    pointers,       \* read_pointers.last_read_at, 0 for no row
    asker,          \* the requests
    told,           \* the count in the last "unread" event about each user
    posts, marks,
    news,           \* history: messages others stamped since a user's own
                    \* last post or mark took its second
    ahead,          \* history: users who set a pointer later than the clock
    informed,       \* history: users to whom the present count was told
                    \* since it last changed
    untold,         \* history: users whose count was last changed by what
                    \* tells it to nobody, or tells 0 whatever it is
    overtaken       \* history: users whose last event was counted before
                    \* their count last changed

histories == <<informed, untold, overtaken>>
unreadVars == <<second, rows, pointers, asker, told, posts, marks,
                news, ahead, informed, untold, overtaken>>

Message == [id : Id, author : Reader, at : Second]
NoAsker == [at |-> "idle"]

UnreadTypeOK ==
    /\ second \in Second
    /\ rows \subseteq Message
    /\ pointers \in [Reader -> 0 .. MaxSecond + 1]
    /\ \A r \in Asker : asker[r].at \in
          {"idle", "insert", "point", "tell", "count", "send", "mark", "clear"}
    /\ told \in [Reader -> 0 .. MaxPosts]
    /\ posts \in 0 .. MaxPosts /\ marks \in 0 .. MaxMarks
    /\ news \in [Reader -> SUBSET Id]
    /\ ahead \subseteq Reader
    /\ informed \subseteq Reader /\ untold \subseteq Reader
    /\ overtaken \subseteq Reader

UnreadInit ==
    /\ second = 1
    /\ rows = {}
    /\ pointers = [u \in Reader |-> 0]
    /\ asker = [r \in Asker |-> NoAsker]
    /\ told = [u \in Reader |-> 0]
    /\ posts = 0 /\ marks = 0
    /\ news = [u \in Reader |-> {}]
    /\ ahead = {} /\ informed = Reader /\ untold = {} /\ overtaken = {}

Quiet == \A r \in Asker : asker[r].at = "idle"

Pass ==
    /\ second < MaxSecond
    /\ second' = second + 1
    /\ UNCHANGED <<rows, pointers, asker, told, posts, marks,
                   news, ahead, histories>>

Start(r, request) == asker' = [asker EXCEPT ![r] = request]

(* What is unread to u: the count that an event about u should tell.         *)
NewTo(u) == {m \in rows : m.author # u /\ m.at > pointers[u]}

(* The users with unread messages, and those whose unread a step changes.    *)
Behind == {u \in Reader : NewTo(u) # {}}
Recounted == {u \in Reader : NewTo(u)' # NewTo(u)}

(* The requests, those marked that read the tables, or set the pointer, and  *)
(* have not told yet the count that this step changed.                       *)
Outdated ==
    [q \in Asker |->
        IF asker[q].at \in {"count", "send", "clear"}
        THEN LET u == asker[q].user
             IN  [asker[q] EXCEPT
                     !.stale = @ \/ u \in Recounted \/ pointers'[u] # pointers[u]]
        ELSE asker[q]]

Finish(r) == asker' = [asker EXCEPT ![r] = NoAsker]

Tell(r, members) ==
    asker' = [asker EXCEPT ![r] = [at |-> "tell", left |-> members]]

(* The event "unread" about a user, stale or not.                            *)
SendUnread(u, count, stale) ==
    /\ told' = [told EXCEPT ![u] = count]
    /\ informed' = IF count = Cardinality(NewTo(u)) THEN informed \cup {u}
                   ELSE informed
    /\ overtaken' = IF stale THEN overtaken \cup {u} ELSE overtaken \ {u}
    /\ UNCHANGED untold

-----------------------------------------------------------------------------
(* post_message.                                                             *)

Post(r, u) ==
    /\ asker[r].at = "idle" /\ posts < MaxPosts
    /\ posts' = posts + 1
    /\ Start(r, [at |-> "insert", user |-> u, id |-> posts + 1, ts |-> second])
    /\ news' = [v \in Reader |-> IF v = u THEN {}
                                 ELSE news[v] \cup {posts + 1}]
    /\ UNCHANGED <<second, rows, pointers, told, marks, ahead, histories>>

InsertRow(r) ==
    /\ asker[r].at = "insert"
    /\ rows' = rows \cup {[id |-> asker[r].id, author |-> asker[r].user,
                           at |-> asker[r].ts]}
    /\ UNCHANGED <<second, pointers, told, posts, marks, news, ahead>>
    /\ asker' = [Outdated EXCEPT ![r] = [at |-> "point", user |-> asker[r].user,
                                         ts |-> asker[r].ts]]
    /\ informed' = informed \ Recounted
    /\ untold' = untold \cap {asker[r].user}
    /\ UNCHANGED overtaken

SetPointer(u, ts) == pointers' = [pointers EXCEPT ![u] = ts]

(* The author's own count is not told, whatever the new pointer makes of it. *)
PointAuthor(r) ==
    LET u == asker[r].user
    IN  /\ asker[r].at = "point"
        /\ SetPointer(u, asker[r].ts)
        /\ UNCHANGED <<second, rows, told, posts, marks, news, ahead>>
        /\ asker' = [Outdated EXCEPT ![r] = [at |-> "tell", left |-> Reader \ {u}]]
        /\ informed' = informed \ Recounted
        /\ untold' = untold \cup Recounted
        /\ UNCHANGED overtaken

(* unread_count reads the pointer and counts in two statements, and the      *)
(* event is sent after them, for one member after the other.                 *)
ReadPointer(r) ==
    /\ asker[r].at = "tell"
    /\ \/ /\ asker[r].left = {}
          /\ Finish(r)
       \/ \E u \in asker[r].left :
             asker' = [asker EXCEPT ![r] =
                          [at |-> "count", user |-> u, ts |-> pointers[u],
                           left |-> @.left \ {u}, stale |-> FALSE]]
    /\ UNCHANGED <<second, rows, pointers, told, posts, marks,
                   news, ahead, histories>>

(* A variant with a fault: a user's own messages are unread, too.            *)
CountedAll(u, last) == {m \in rows : m.at > last}

Counted(u, last) == {m \in rows : m.at > last /\ m.author # u}

CountRows(r) ==
    /\ asker[r].at = "count"
    /\ asker' = [asker EXCEPT
                    ![r].at = "send",
                    ![r].ts = Cardinality(Counted(asker[r].user, asker[r].ts))]
    /\ UNCHANGED <<second, rows, pointers, told, posts, marks,
                   news, ahead, histories>>

SendCount(r) ==
    /\ asker[r].at = "send"
    /\ SendUnread(asker[r].user, asker[r].ts, asker[r].stale)
    /\ Tell(r, asker[r].left)
    /\ UNCHANGED <<second, rows, pointers, posts, marks, news, ahead>>

-----------------------------------------------------------------------------
(* update_read_pointer: the second of a message or any that the client names *)
(* (0 and the next stand for those), or now.  The count it tells is 0        *)
(* whichever it is.                                                          *)

Mark(r, u, ts) ==
    /\ asker[r].at = "idle" /\ marks < MaxMarks
    /\ marks' = marks + 1
    /\ Start(r, [at |-> "mark", user |-> u, ts |-> ts])
    /\ news' = [news EXCEPT ![u] = {}]
    /\ ahead' = IF ts > second THEN ahead \cup {u} ELSE ahead
    /\ UNCHANGED <<second, rows, pointers, told, posts, histories>>

(* The second written is the one the request took.  A variant with a fault:  *)
(* it is that of the write.                                                  *)
MoveToNow(r) == second

MoveTo(r) == asker[r].ts

(* After a mark before the last message 0 is not the count.                  *)
MovePointer(r) ==
    LET u == asker[r].user
    IN  /\ asker[r].at = "mark"
        /\ SetPointer(u, MoveTo(r))
        /\ UNCHANGED <<second, rows, told, posts, marks, news, ahead>>
        /\ asker' = [Outdated EXCEPT ![r] = [at |-> "clear", user |-> u,
                                             stale |-> u \in Behind']]
        /\ informed' = informed \ Recounted
        /\ untold' = IF u \in Behind' THEN untold \cup {u} ELSE untold \ {u}
        /\ UNCHANGED overtaken

SendZero(r) ==
    /\ asker[r].at = "clear"
    /\ SendUnread(asker[r].user, 0, asker[r].stale)
    /\ Finish(r)
    /\ UNCHANGED <<second, rows, pointers, posts, marks, news, ahead>>

(* A write that fails ends the request, a count that fails is not told.      *)
WriteError(r) ==
    /\ asker[r].at \in {"insert", "point", "mark"}
    /\ Finish(r)
    /\ untold' = IF asker[r].at = "point" THEN untold \cup (Reader \ {asker[r].user})
                 ELSE untold
    /\ UNCHANGED <<second, rows, pointers, told, posts, marks,
                   news, ahead, informed, overtaken>>

CountError(r) ==
    /\ asker[r].at = "count"
    /\ Tell(r, asker[r].left)
    /\ untold' = untold \cup {asker[r].user}
    /\ UNCHANGED <<second, rows, pointers, told, posts, marks,
                   news, ahead, informed, overtaken>>

(* delete_message tells nobody's count.                                      *)
DeleteRow(m) ==
    /\ rows' = rows \ {m}
    /\ UNCHANGED <<second, pointers, told, posts, marks, news, ahead>>
    /\ asker' = Outdated
    /\ informed' = informed \ Recounted
    /\ untold' = untold \cup Recounted
    /\ UNCHANGED overtaken

UnreadNext ==
    \/ Pass
    \/ \E r \in Asker :
          \/ \E u \in Reader :
                \/ Post(r, u)
                \/ \E ts \in {0, second, second + 1} \cup {m.at : m \in rows} :
                      Mark(r, u, ts)
          \/ InsertRow(r) \/ PointAuthor(r)
          \/ ReadPointer(r) \/ CountRows(r) \/ SendCount(r)
          \/ MovePointer(r) \/ SendZero(r)
          \/ WriteError(r) \/ CountError(r)
    \/ \E m \in rows : DeleteRow(m)

UnreadSpec == UnreadInit /\ [][UnreadNext]_unreadVars

-----------------------------------------------------------------------------
(* A message of another user, stamped after the last post or mark of this    *)
(* user took its second, counts as unread, however the statements of the two *)
(* interleave and in whatever order several marks are written: the pointer   *)
(* is the second that was taken, not that of the write.  Lost are messages   *)
(* of the very second of the pointer (created_at > last_read_at), and those  *)
(* of a user who named a second to come.                                     *)
NewsIsUnread ==
    \A u \in Reader \ ahead : \A m \in rows :
        m.id \in news[u] => pointers[u] <= m.at

(* When no request is under way, the present count of every user was told    *)
(* since it last changed, and the last "unread" event about the user is that *)
(* count, although pointer, count and event are steps of their own and       *)
(* requests overlap.  The last event may only be wrong when it was counted   *)
(* before another request changed the count, and was sent after that one's.  *)
(* Left out are users whose count was last changed by what tells nothing:    *)
(* their own post, a deletion, a mark before the last message, a failure.    *)
ToldIsTrue ==
    Quiet =>
        \A u \in Reader \ untold :
            /\ u \in informed
            /\ u \in overtaken \/ told[u] = Cardinality(NewTo(u))

=============================================================================
