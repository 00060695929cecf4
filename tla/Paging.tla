------------------------------- MODULE Paging -------------------------------
(* Reading a room page by page, from the newest message back: list_messages  *)
(* of messages.rs and of api.rs, for a client that passes the last message   *)
(* of a page, or its second, as the cursor of the next, while messages are   *)
(* posted and deleted.  The order of ids (random UUIDs) has nothing to do    *)
(* with the order of posting; seconds are shared.                            *)
EXTENDS Integers, FiniteSets

CONSTANTS
    MaxIds,         \* bound: messages
    MaxClock,       \* bound: the clock
    PageSize        \* limit, at most 200 in the code

ASSUME PagingAssumption ==
    MaxIds \in Nat /\ MaxClock \in Nat \ {0} /\ PageSize \in Nat \ {0}

MessageId == 1 .. MaxIds
Nil == 0            \* Uuid::nil(), below every id
End == MaxClock + 1 \* i64::MAX

VARIABLES
    clock,
    stored,         \* the rows of the room
    unused,         \* ids not given yet
    page,           \* the call of list_messages: its step and its cursor
    got,            \* how often the client was sent each message
    steady,         \* history: rows there since the first page
    skipped,        \* history: seconds passed as a cursor
    spoiled         \* history: a message was deleted, then used as a cursor

pagingVars == <<clock, stored, unused, page, got, steady, skipped, spoiled>>

StoredMessage == [id : MessageId, at : 1 .. MaxClock]

PagingTypeOK ==
    /\ clock \in 1 .. MaxClock
    /\ stored \subseteq StoredMessage
    /\ unused \subseteq MessageId
    /\ page \in [at : {"idle", "cursor", "read", "over"},
                 ts : 1 .. End, id : Nil .. MaxIds]
    /\ got \in [MessageId -> Nat]
    /\ steady \subseteq stored
    /\ skipped \subseteq 1 .. MaxClock /\ spoiled \in BOOLEAN

PagingInit ==
    /\ clock = 1
    /\ stored = {} /\ unused = MessageId
    /\ page = [at |-> "idle", ts |-> End, id |-> Nil]
    /\ got = [i \in MessageId |-> 0]
    /\ steady = {} /\ skipped = {} /\ spoiled = FALSE

NextSecond ==
    /\ clock < MaxClock
    /\ clock' = clock + 1
    /\ UNCHANGED <<stored, unused, page, got, steady, skipped, spoiled>>

(* The second is taken before the row is inserted, which may be later.       *)
Insert(i) ==
    /\ i \in unused
    /\ \E taken \in 1 .. clock : stored' = stored \cup {[id |-> i, at |-> taken]}
    /\ unused' = unused \ {i}
    /\ UNCHANGED <<clock, page, got, steady, skipped, spoiled>>

Remove(m) ==
    /\ m \in stored
    /\ stored' = stored \ {m}
    /\ steady' = steady \ {m}
    /\ UNCHANGED <<clock, unused, page, got, skipped, spoiled>>

(* The first page has no cursor.                                             *)
FirstPage ==
    /\ page.at = "idle"
    /\ page' = [page EXCEPT !.at = "read"]
    /\ steady' = stored
    /\ UNCHANGED <<clock, stored, unused, got, skipped, spoiled>>

(* A cursor that is an id: its second is looked up first; that of a message  *)
(* no longer there is taken for the end of time.                             *)
CursorSecond(i) ==
    IF \E m \in stored : m.id = i
    THEN (CHOOSE m \in stored : m.id = i).at
    ELSE End

ResolveCursor ==
    /\ page.at = "cursor"
    /\ page' = [page EXCEPT !.at = "read", !.ts = CursorSecond(page.id)]
    /\ spoiled' = (spoiled \/ CursorSecond(page.id) = End)
    /\ UNCHANGED <<clock, stored, unused, got, steady, skipped>>

Precedes(m, ts, id) == m.at < ts \/ (m.at = ts /\ m.id < id)

(* ORDER BY created_at DESC, id DESC LIMIT: the rows before the cursor with  *)
(* fewer than PageSize others between.                                       *)
Newest(rows) ==
    {m \in rows :
        Cardinality({n \in rows : Precedes(m, n.at, n.id)}) < PageSize}

(* A variant with a fault: the id of the cursor is not compared.             *)
PageBeforeSecond(ts, id) == Newest({m \in stored : m.at < ts})

PageBefore(ts, id) == Newest({m \in stored : Precedes(m, ts, id)})

(* The client goes on from the last message of a full page.                  *)
ReadPage ==
    LET rows == PageBefore(page.ts, page.id)
        last == CHOOSE m \in rows :
                    \A n \in rows : n = m \/ Precedes(m, n.at, n.id)
    IN  /\ page.at = "read"
        /\ got' = [i \in MessageId |->
                      IF \E m \in rows : m.id = i THEN got[i] + 1 ELSE got[i]]
        /\ \/ /\ Cardinality(rows) < PageSize
              /\ page' = [page EXCEPT !.at = "over"]
              /\ UNCHANGED skipped
           \/ /\ Cardinality(rows) = PageSize
              /\ page' = [at |-> "cursor", ts |-> End, id |-> last.id]
              /\ UNCHANGED skipped
           \/ /\ Cardinality(rows) = PageSize
              /\ page' = [at |-> "read", ts |-> last.at, id |-> Nil]
              /\ skipped' = skipped \cup {last.at}
        /\ UNCHANGED <<clock, stored, unused, steady, spoiled>>

PagingNext ==
    \/ NextSecond
    \/ \E i \in MessageId : Insert(i)
    \/ \E m \in stored : Remove(m)
    \/ FirstPage \/ ResolveCursor \/ ReadPage

PagingSpec == PagingInit /\ [][PagingNext]_pagingVars

-----------------------------------------------------------------------------
(* Going from page to page shows every message that was there all the time,  *)
(* once, and none twice, whatever is posted and deleted meanwhile.  Two      *)
(* things break it, and nothing else: a second as the cursor passes over the *)
(* rest of that second, and a cursor that was deleted starts again from the  *)
(* newest message.                                                           *)
PagesAreComplete ==
    ~spoiled =>
        /\ \A i \in MessageId : got[i] <= 1
        /\ page.at = "over" =>
              \A m \in steady : m.at \notin skipped => got[m.id] = 1

=============================================================================
