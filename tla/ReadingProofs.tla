---------------------------- MODULE ReadingProofs ----------------------------
(***************************************************************************)
(* Proofs about what a user reads: the pointers and counts of Unread, for  *)
(* any readers, requests and bounds, and the pages of Paging, for any      *)
(* number of messages and any length of a page.                            *)
(***************************************************************************)
EXTENDS Unread, Paging, FiniteSetTheorems, WellFoundedInduction, TLAPS

-----------------------------------------------------------------------------
(* Unread counts.                                                          *)

\* r will set the pointer of u to the second that it took.
Sets(r, u) ==
    asker[r].at \in {"insert", "point", "mark"} /\ asker[r].user = u

\* Later(u, at): neither the pointer of u nor one that is about to be written
\* lies after this second.
Later(u, at) ==
    pointers[u] <= at /\ \A r \in Asker : Sets(r, u) => asker[r].ts <= at

UnreadType ==
    /\ second \in Nat /\ posts \in Nat
    /\ pointers \in [Reader -> Nat]
    /\ news \in [Reader -> SUBSET Nat]
    /\ \A m \in rows : m.id \in Nat /\ m.at \in Nat
    /\ DOMAIN asker = Asker
    /\ \A r \in Asker :
          /\ "at" \in DOMAIN asker[r]
          /\ asker[r].at \in {"insert", "point", "mark"} =>
                /\ {"user", "ts"} \subseteq DOMAIN asker[r]
                /\ asker[r].user \in Reader /\ asker[r].ts \in Nat
          /\ asker[r].at = "insert" => "id" \in DOMAIN asker[r] /\ asker[r].id \in Nat

\* Ids are new.
IdsArePosts ==
    /\ \A m \in rows : m.id <= posts
    /\ \A r \in Asker : asker[r].at = "insert" => asker[r].id <= posts

\* Only a user who names a second to come has a pointer after the clock.
PointersArePast == \A u \in Reader \ ahead : Later(u, second)

\* A message that was stamped since lies after whatever pointer there is, or
\* comes, for its readers: in the table, and on its way there.
NewsIsLater ==
    \A u \in Reader \ ahead :
        /\ \A m \in rows : m.id \in news[u] => Later(u, m.at)
        /\ \A q \in Asker :
              asker[q].at = "insert" /\ asker[q].id \in news[u]
                  => Later(u, asker[q].ts)

UnreadInv == UnreadType /\ IdsArePosts /\ PointersArePast /\ NewsIsLater

Setter == {"insert", "point", "mark"}

\* The requests of q before and after a step, as far as pointers go.
Keeps(q) ==
    /\ "at" \in DOMAIN asker'[q]
    /\ asker'[q].at \in Setter =>
          /\ asker[q].at \in Setter
          /\ {"user", "ts"} \subseteq DOMAIN asker'[q]
          /\ asker'[q].user = asker[q].user /\ asker'[q].ts = asker[q].ts
    /\ asker'[q].at = "insert" =>
          /\ asker[q].at = "insert"
          /\ "id" \in DOMAIN asker'[q] /\ asker'[q].id = asker[q].id

-----------------------------------------------------------------------------
\* A step that begins no request: rows come from inserts, pointers from the
\* seconds that were taken for them, and nothing new is stamped.
LEMMA WorkIsSound ==
    ASSUME UnreadInv, DOMAIN asker' = Asker, \A q \in Asker : Keeps(q),
           second' \in Nat, second' >= second,
           posts' = posts, news' = news, ahead' = ahead,
           \A m \in rows' : \/ m \in rows
                            \/ \E q \in Asker : /\ asker[q].at = "insert"
                                               /\ m.id = asker[q].id
                                               /\ m.at = asker[q].ts,
           DOMAIN pointers' = Reader,
           pointers' = [u \in Reader |-> pointers'[u]],
           \A u \in Reader : \/ pointers'[u] = pointers[u]
                             \/ \E r \in Asker : Sets(r, u) /\ pointers'[u] = asker[r].ts
    PROVE  UnreadInv'
<1> USE DEF UnreadInv
<1>1. UnreadType'
  <2>1. \A u \in Reader : pointers'[u] \in Nat
    BY DEF UnreadType, Sets
  <2>2. pointers' \in [Reader -> Nat]
    BY <2>1
  <2>3. \A m \in rows' : m.id \in Nat /\ m.at \in Nat
    BY DEF UnreadType
  <2>4. \A r \in Asker :
          /\ "at" \in DOMAIN asker'[r]
          /\ asker'[r].at \in {"insert", "point", "mark"} =>
                /\ {"user", "ts"} \subseteq DOMAIN asker'[r]
                /\ asker'[r].user \in Reader /\ asker'[r].ts \in Nat
          /\ asker'[r].at = "insert" => "id" \in DOMAIN asker'[r] /\ asker'[r].id \in Nat
    BY DEF UnreadType, Keeps, Setter
  <2> QED BY <2>2, <2>3, <2>4 DEF UnreadType
<1>2. IdsArePosts'
  BY DEF IdsArePosts, Keeps
<1>3. ASSUME NEW u \in Reader, NEW at, Later(u, at)
      PROVE  Later(u, at)'
  BY <1>3 DEF Later, Sets, Keeps, Setter
<1>4. PointersArePast'
  <2>1. ASSUME NEW u \in Reader \ ahead PROVE Later(u, second)'
    <3>1. PICK s \in Nat : s = second /\ Later(u, s)
      BY DEF PointersArePast, UnreadType
    <3>2. Later(u, s)'
      BY <1>3, <3>1
    <3> QED BY <1>1, <3>1, <3>2 DEF Later, UnreadType, Sets
  <2> QED BY <2>1 DEF PointersArePast
<1>5. NewsIsLater'
  <2>1. ASSUME NEW u \in Reader \ ahead, NEW m \in rows', m.id \in news[u]
        PROVE  Later(u, m.at)'
    <3>1. Later(u, m.at)
      <4>1. CASE m \in rows
        BY <2>1, <4>1 DEF NewsIsLater
      <4>2. ASSUME NEW q \in Asker, asker[q].at = "insert", m.id = asker[q].id,
                   m.at = asker[q].ts
            PROVE  Later(u, m.at)
        BY <2>1, <4>2 DEF NewsIsLater
      <4> QED BY <4>1, <4>2
    <3> QED BY <1>3, <3>1
  <2>2. ASSUME NEW u \in Reader \ ahead, NEW q \in Asker,
               asker'[q].at = "insert", asker'[q].id \in news[u]
        PROVE  Later(u, asker[q].ts)' /\ asker'[q].ts = asker[q].ts
    <3>1. asker[q].at = "insert" /\ asker'[q].id = asker[q].id /\ asker'[q].ts = asker[q].ts
      BY <2>2 DEF Keeps, Setter
    <3>2. PICK at : at = asker[q].ts /\ Later(u, at)
      BY <2>2, <3>1 DEF NewsIsLater
    <3>3. Later(u, at)'
      BY <1>3, <3>2
    <3> QED BY <3>1, <3>2, <3>3
  <2> QED BY <2>1, <2>2 DEF NewsIsLater
<1> QED BY <1>1, <1>2, <1>4, <1>5

\* What this step does to a count that is under way: it may be stale by now.
LEMMA OutdatedGoOn ==
    ASSUME UnreadType, NEW q \in Asker
    PROVE  /\ DOMAIN Outdated = Asker
           /\ DOMAIN Outdated[q] = DOMAIN asker[q]
           /\ \A f \in DOMAIN asker[q] : f # "stale" => Outdated[q][f] = asker[q][f]
           /\ asker[q].at \notin {"count", "send", "clear"} => Outdated[q] = asker[q]
<1>1. DOMAIN Outdated = Asker
  BY DEF Outdated
<1>2. CASE asker[q].at \in {"count", "send", "clear"}
  <2>1. PICK stale : stale = (asker[q].stale \/ asker[q].user \in Recounted
                              \/ pointers'[asker[q].user] # pointers[asker[q].user])
    OBVIOUS
  <2>2. Outdated[q] = [asker[q] EXCEPT !.stale = stale]
    BY <1>2, <2>1 DEF Outdated
  <2> QED BY <1>1, <1>2, <2>2
<1>3. CASE asker[q].at \notin {"count", "send", "clear"}
  <2>1. Outdated[q] = asker[q]
    BY <1>3 DEF Outdated
  <2> QED BY <1>1, <2>1
<1> QED BY <1>2, <1>3

\* A step of one request leaves the others what they are about.
LEMMA OthersGoOn ==
    ASSUME UnreadType, NEW r \in Asker, NEW E,
           \/ asker' = [asker EXCEPT ![r] = E]
           \/ asker' = [Outdated EXCEPT ![r] = E]
    PROVE  /\ DOMAIN asker' = Asker /\ asker'[r] = E
           /\ \A q \in Asker \ {r} : Keeps(q)
<1>1. CASE asker' = [asker EXCEPT ![r] = E]
  <2>1. ASSUME NEW q \in Asker \ {r} PROVE Keeps(q)
    <3>1. asker'[q] = asker[q]
      BY <1>1 DEF UnreadType
    <3> QED BY <3>1 DEF Keeps, UnreadType, Setter
  <2> QED BY <1>1, <2>1 DEF UnreadType
<1>2. CASE asker' = [Outdated EXCEPT ![r] = E]
  <2>1. DOMAIN Outdated = Asker
    BY OutdatedGoOn DEF Outdated
  <2>2. ASSUME NEW q \in Asker \ {r} PROVE Keeps(q)
    <3>1. asker'[q] = Outdated[q]
      BY <1>2, <2>1
    <3>2. DOMAIN asker'[q] = DOMAIN asker[q]
      BY <3>1, OutdatedGoOn
    <3>3. \A f \in DOMAIN asker[q] : f # "stale" => asker'[q][f] = asker[q][f]
      BY <3>1, OutdatedGoOn
    <3> QED BY <3>2, <3>3 DEF Keeps, Setter, UnreadType
  <2> QED BY <1>2, <2>1, <2>2
<1> QED BY <1>1, <1>2

\* What has begun but r is unchanged, so is what lies after it.
LEMMA OthersSetNothing ==
    ASSUME NEW r \in Asker, \A q \in Asker \ {r} : Keeps(q), pointers' = pointers,
           NEW u, ~Sets(r, u)', NEW at, Later(u, at)
    PROVE  Later(u, at)'
  BY DEF Later, Sets, Keeps, Setter

\* A message is news to all but its author, whose earlier news is over.
LEMMA PostIsSound ==
    ASSUME UnreadInv, NEW r \in Asker, NEW u \in Reader, Post(r, u)
    PROVE  UnreadInv'
<1> USE DEF UnreadInv
<1>1. PICK request : request = [at |-> "insert", user |-> u, id |-> posts + 1,
                                ts |-> second]
  OBVIOUS
<1>2. /\ DOMAIN asker' = Asker
      /\ asker'[r] = request
      /\ \A q \in Asker \ {r} : Keeps(q)
  BY <1>1, OthersGoOn DEF Post, Start
<1>3. /\ {"at", "user", "id", "ts"} \subseteq DOMAIN asker'[r]
      /\ asker'[r].at = "insert" /\ asker'[r].user = u
      /\ asker'[r].id = posts + 1 /\ asker'[r].ts = second
  BY <1>1, <1>2
<1>4. /\ posts' = posts + 1
      /\ news' = [v \in Reader |-> IF v = u THEN {} ELSE news[v] \cup {posts + 1}]
      /\ UNCHANGED <<second, rows, pointers, ahead>>
  BY DEF Post
<1>5. UnreadType'
  <2>1. posts' \in Nat /\ news' \in [Reader -> SUBSET Nat]
    BY <1>4 DEF UnreadType
  <2>2. ASSUME NEW q \in Asker
        PROVE  /\ "at" \in DOMAIN asker'[q]
               /\ asker'[q].at \in {"insert", "point", "mark"} =>
                     /\ {"user", "ts"} \subseteq DOMAIN asker'[q]
                     /\ asker'[q].user \in Reader /\ asker'[q].ts \in Nat
               /\ asker'[q].at = "insert" =>
                     "id" \in DOMAIN asker'[q] /\ asker'[q].id \in Nat
    BY <1>2, <1>3 DEF UnreadType, Keeps, Setter
  <2> QED BY <1>2, <1>4, <2>1, <2>2 DEF UnreadType
<1>6. IdsArePosts'
  BY <1>2, <1>3, <1>4 DEF IdsArePosts, UnreadType, Keeps
<1>7. ASSUME NEW v \in Reader, v # u, NEW at, Later(v, at)
      PROVE  Later(v, at)'
  <2>1. ~Sets(r, v)'
    BY <1>3, <1>7 DEF Sets
  <2> QED BY <1>2, <1>4, <1>7, <2>1, OthersSetNothing
<1>8. PointersArePast'
  <2>1. ASSUME NEW v \in Reader \ ahead PROVE Later(v, second)'
    <3>1. PICK s \in Nat : s = second /\ Later(v, s)
      BY DEF PointersArePast, UnreadType
    <3>2. Later(v, s)'
      BY <1>2, <1>3, <1>4, <3>1 DEF Later, Sets, Keeps, Setter
    <3> QED BY <1>4, <3>1, <3>2
  <2> QED BY <1>4, <2>1 DEF PointersArePast
<1>9. NewsIsLater'
  <2>1. ASSUME NEW v \in Reader \ ahead, NEW m \in rows, m.id \in news'[v]
        PROVE  Later(v, m.at)'
    <3>1. v # u /\ m.id \in news[v]
      BY <1>4, <2>1 DEF IdsArePosts, UnreadType
    <3>2. Later(v, m.at)
      BY <3>1 DEF NewsIsLater
    <3> QED BY <1>7, <3>1, <3>2
  <2>2. ASSUME NEW v \in Reader \ ahead, NEW q \in Asker,
               asker'[q].at = "insert", asker'[q].id \in news'[v]
        PROVE  Later(v, asker[q].ts)'
    <3>0. v # u
      BY <1>4, <2>2
    <3>1. CASE q = r
      <4>1. Later(v, second)'
        BY <1>8, <1>4 DEF PointersArePast
      <4> QED BY <1>3, <1>4, <3>1, <4>1
    <3>2. CASE q # r
      <4>1. /\ asker[q].at = "insert" /\ asker'[q].id = asker[q].id
            /\ asker'[q].ts = asker[q].ts
        BY <1>2, <2>2, <3>2 DEF Keeps, Setter
      <4>2. asker[q].id \in news[v]
        BY <1>4, <2>2, <3>0, <4>1 DEF IdsArePosts, UnreadType
      <4>3. PICK at : at = asker[q].ts /\ Later(v, at)
        BY <4>1, <4>2 DEF NewsIsLater
      <4>4. Later(v, at)'
        BY <1>7, <3>0, <4>3
      <4> QED BY <4>1, <4>3, <4>4
    <3> QED BY <3>1, <3>2
  <2> QED BY <1>4, <2>1, <2>2 DEF NewsIsLater
<1> QED BY <1>5, <1>6, <1>8, <1>9

\* A mark ends the news of its user; one for a second to come, the promise.
LEMMA MarkIsSound ==
    ASSUME UnreadInv, NEW r \in Asker, NEW u \in Reader, NEW ts \in Nat,
           Mark(r, u, ts)
    PROVE  UnreadInv'
<1> USE DEF UnreadInv
<1>1. PICK request : request = [at |-> "mark", user |-> u, ts |-> ts]
  OBVIOUS
<1>2. /\ DOMAIN asker' = Asker
      /\ asker'[r] = request
      /\ \A q \in Asker \ {r} : Keeps(q)
  BY <1>1, OthersGoOn DEF Mark, Start
<1>3. /\ {"at", "user", "ts"} \subseteq DOMAIN asker'[r]
      /\ asker'[r].at = "mark" /\ asker'[r].user = u /\ asker'[r].ts = ts
  BY <1>1, <1>2
<1>4. /\ news' = [news EXCEPT ![u] = {}]
      /\ ahead' = IF ts > second THEN ahead \cup {u} ELSE ahead
      /\ UNCHANGED <<second, rows, pointers, posts>>
  BY DEF Mark
<1>5. UnreadType'
  <2>1. news' \in [Reader -> SUBSET Nat]
    BY <1>4 DEF UnreadType
  <2>2. ASSUME NEW q \in Asker
        PROVE  /\ "at" \in DOMAIN asker'[q]
               /\ asker'[q].at \in {"insert", "point", "mark"} =>
                     /\ {"user", "ts"} \subseteq DOMAIN asker'[q]
                     /\ asker'[q].user \in Reader /\ asker'[q].ts \in Nat
               /\ asker'[q].at = "insert" =>
                     "id" \in DOMAIN asker'[q] /\ asker'[q].id \in Nat
    BY <1>2, <1>3 DEF UnreadType, Keeps, Setter
  <2> QED BY <1>2, <1>4, <2>1, <2>2 DEF UnreadType
<1>6. IdsArePosts'
  BY <1>2, <1>3, <1>4 DEF IdsArePosts, Keeps
<1>7. ASSUME NEW v \in Reader, v # u, NEW at, Later(v, at)
      PROVE  Later(v, at)'
  <2>1. ~Sets(r, v)'
    BY <1>3, <1>7 DEF Sets
  <2> QED BY <1>2, <1>4, <1>7, <2>1, OthersSetNothing
<1>8. PointersArePast'
  <2>1. ASSUME NEW v \in Reader \ ahead' PROVE Later(v, second)'
    <3>1. PICK s \in Nat : s = second /\ Later(v, s)
      BY <1>4 DEF PointersArePast, UnreadType
    <3>2. v = u => ts <= s
      BY <1>4, <2>1, <3>1
    <3>3. Later(v, s)'
      BY <1>2, <1>3, <1>4, <3>1, <3>2 DEF Later, Sets, Keeps, Setter
    <3> QED BY <1>4, <3>1, <3>3
  <2> QED BY <1>4, <2>1 DEF PointersArePast
<1>9. NewsIsLater'
  <2>1. ASSUME NEW v \in Reader \ ahead', NEW id, id \in news'[v]
        PROVE  v # u /\ id \in news[v] /\ v \notin ahead
    BY <1>4, <2>1 DEF UnreadType
  <2>2. ASSUME NEW v \in Reader \ ahead', NEW m \in rows, m.id \in news'[v]
        PROVE  Later(v, m.at)'
    <3>1. Later(v, m.at) /\ v # u
      BY <2>1, <2>2 DEF NewsIsLater
    <3> QED BY <1>7, <3>1
  <2>3. ASSUME NEW v \in Reader \ ahead', NEW q \in Asker,
               asker'[q].at = "insert", asker'[q].id \in news'[v]
        PROVE  Later(v, asker[q].ts)'
    <3>1. q # r
      BY <1>3, <2>3
    <3>2. /\ asker[q].at = "insert" /\ asker'[q].id = asker[q].id
          /\ asker'[q].ts = asker[q].ts
      BY <1>2, <2>3, <3>1 DEF Keeps, Setter
    <3>3. v # u /\ asker[q].id \in news[v] /\ v \notin ahead
      BY <2>1, <2>3, <3>2
    <3>4. PICK at : at = asker[q].ts /\ Later(v, at)
      BY <3>2, <3>3 DEF NewsIsLater
    <3>5. Later(v, at)'
      BY <1>7, <3>3, <3>4
    <3> QED BY <3>2, <3>4, <3>5
  <2> QED BY <1>4, <2>2, <2>3 DEF NewsIsLater
<1> QED BY <1>5, <1>6, <1>8, <1>9

-----------------------------------------------------------------------------
\* A message that was inserted goes on with the pointer of its author.
LEMMA RequestWillPoint ==
    ASSUME NEW r \in Asker, \A q \in Asker \ {r} : Keeps(q),
           {"at", "user", "ts"} \subseteq DOMAIN asker'[r],
           asker'[r].at = "point", asker[r].at = "insert",
           asker'[r].user = asker[r].user, asker'[r].ts = asker[r].ts
    PROVE  \A q \in Asker : Keeps(q)
<1>1. Keeps(r)
  BY DEF Keeps, Setter
<1> QED BY <1>1

\* A request that is past its pointer.
LEMMA RequestIsPast ==
    ASSUME UnreadInv, NEW r \in Asker, NEW E, "at" \in DOMAIN E, E.at \notin Setter,
           \/ asker' = [asker EXCEPT ![r] = E]
           \/ asker' = [Outdated EXCEPT ![r] = E]
    PROVE  DOMAIN asker' = Asker /\ \A q \in Asker : Keeps(q)
<1>1. /\ DOMAIN asker' = Asker /\ asker'[r] = E
      /\ \A q \in Asker \ {r} : Keeps(q)
  BY OthersGoOn DEF UnreadInv
<1>2. Keeps(r)
  BY <1>1 DEF Keeps, Setter
<1> QED BY <1>1, <1>2

\* The steps that change no pointer and add no row.
LEMMA QuietIsSound ==
    ASSUME UnreadInv, DOMAIN asker' = Asker, \A q \in Asker : Keeps(q),
           second' \in Nat, second' >= second, rows' \subseteq rows,
           UNCHANGED <<pointers, posts, news, ahead>>
    PROVE  UnreadInv'
<1>1. DOMAIN pointers' = Reader /\ pointers' = [u \in Reader |-> pointers'[u]]
  BY DEF UnreadInv, UnreadType
<1> QED BY <1>1, WorkIsSound

\* The steps that set a pointer.
LEMMA PointingIsSound ==
    ASSUME UnreadInv, NEW r \in Asker, asker[r].at \in {"point", "mark"},
           SetPointer(asker[r].user, asker[r].ts),
           DOMAIN asker' = Asker, \A q \in Asker : Keeps(q),
           UNCHANGED <<second, rows, posts, news, ahead>>
    PROVE  UnreadInv'
<1>1. Sets(r, asker[r].user)
  BY DEF Sets
<1>2. pointers' = [pointers EXCEPT ![asker[r].user] = asker[r].ts]
  BY DEF SetPointer
<1>3. pointers \in [Reader -> Nat] /\ second \in Nat
  BY DEF UnreadInv, UnreadType
<1>4. DOMAIN pointers' = Reader /\ pointers' = [u \in Reader |-> pointers'[u]]
  BY <1>2, <1>3
<1>5. \A u \in Reader : \/ pointers'[u] = pointers[u]
                        \/ \E q \in Asker : Sets(q, u) /\ pointers'[u] = asker[q].ts
  BY <1>1, <1>2, <1>3
<1> QED BY <1>3, <1>4, <1>5, WorkIsSound

\* No step leaves the invariant.
LEMMA UnreadStep ==
    ASSUME UnreadInv, [UnreadNext]_unreadVars
    PROVE  UnreadInv'
<1> USE UnreadAssumption
<1>0. /\ second \in Nat /\ DOMAIN asker = Asker /\ second >= second
      /\ \A m \in rows : m.at \in Nat
      /\ \A q \in Asker : "at" \in DOMAIN asker[q]
  BY DEF UnreadInv, UnreadType
<1>1. ASSUME UNCHANGED asker PROVE DOMAIN asker' = Asker /\ \A q \in Asker : Keeps(q)
  BY <1>0, <1>1 DEF UnreadInv, UnreadType, Keeps, Setter
<1>2. CASE Pass
  <2>1. second' = second + 1 /\ UNCHANGED <<asker, rows, pointers, posts, news, ahead>>
    BY <1>2 DEF Pass
  <2>2. second' \in Nat /\ second' >= second
    BY <1>0, <2>1
  <2> QED BY <1>1, <2>1, <2>2, QuietIsSound
<1>3. ASSUME NEW r \in Asker, NEW u \in Reader, Post(r, u) PROVE UnreadInv'
  BY <1>3, PostIsSound
<1>4. ASSUME NEW r \in Asker, NEW u \in Reader,
             NEW ts \in {0, second, second + 1} \cup {m.at : m \in rows},
             Mark(r, u, ts)
      PROVE  UnreadInv'
  <2>1. ts \in Nat
    BY <1>0
  <2> QED BY <1>4, <2>1, MarkIsSound
<1>5. ASSUME NEW r \in Asker, InsertRow(r) PROVE UnreadInv'
  <2>1. PICK E : E = [at |-> "point", user |-> asker[r].user, ts |-> asker[r].ts]
    OBVIOUS
  <2>2. PICK m : m = [id |-> asker[r].id, author |-> asker[r].user, at |-> asker[r].ts]
    OBVIOUS
  <2>3. /\ asker[r].at = "insert" /\ asker' = [Outdated EXCEPT ![r] = E]
        /\ rows' = rows \cup {m}
        /\ UNCHANGED <<second, pointers, posts, news, ahead>>
    BY <1>5, <2>1, <2>2 DEF InsertRow
  <2>4. /\ {"at", "user", "ts"} \subseteq DOMAIN E /\ E.at = "point"
        /\ E.user = asker[r].user /\ E.ts = asker[r].ts
    BY <2>1
  <2>5. DOMAIN asker' = Asker /\ \A q \in Asker : Keeps(q)
    BY <2>3, <2>4, OthersGoOn, RequestWillPoint DEF UnreadInv
  <2>6. \A n \in rows' : \/ n \in rows
                         \/ \E q \in Asker : /\ asker[q].at = "insert"
                                            /\ n.id = asker[q].id
                                            /\ n.at = asker[q].ts
    BY <2>2, <2>3
  <2>7. DOMAIN pointers' = Reader /\ pointers' = [u \in Reader |-> pointers'[u]]
    BY <2>3 DEF UnreadInv, UnreadType
  <2> QED BY <1>0, <2>3, <2>5, <2>6, <2>7, WorkIsSound
<1>6. ASSUME NEW r \in Asker, PointAuthor(r) PROVE UnreadInv'
  <2>1. PICK E : E = [at |-> "tell", left |-> Reader \ {asker[r].user}]
    OBVIOUS
  <2>2. "at" \in DOMAIN E /\ E.at \notin Setter
    BY <2>1 DEF Setter
  <2>3. /\ asker[r].at = "point" /\ SetPointer(asker[r].user, asker[r].ts)
        /\ asker' = [Outdated EXCEPT ![r] = E]
        /\ UNCHANGED <<second, rows, posts, news, ahead>>
    BY <1>6, <2>1 DEF PointAuthor
  <2>4. DOMAIN asker' = Asker /\ \A q \in Asker : Keeps(q)
    BY <2>2, <2>3, RequestIsPast
  <2> QED BY <2>3, <2>4, PointingIsSound
<1>7. ASSUME NEW r \in Asker, MovePointer(r) PROVE UnreadInv'
  <2>1. PICK E : E = [at |-> "clear", user |-> asker[r].user,
                      stale |-> asker[r].user \in Behind']
    OBVIOUS
  <2>2. "at" \in DOMAIN E /\ E.at \notin Setter
    BY <2>1 DEF Setter
  <2>3. /\ asker[r].at = "mark" /\ SetPointer(asker[r].user, asker[r].ts)
        /\ asker' = [Outdated EXCEPT ![r] = E]
        /\ UNCHANGED <<second, rows, posts, news, ahead>>
    BY <1>7, <2>1 DEF MovePointer, MoveTo
  <2>4. DOMAIN asker' = Asker /\ \A q \in Asker : Keeps(q)
    BY <2>2, <2>3, RequestIsPast
  <2> QED BY <2>3, <2>4, PointingIsSound
<1>8. ASSUME NEW r \in Asker,
             \/ ReadPointer(r) \/ CountRows(r) \/ SendCount(r)
             \/ SendZero(r) \/ WriteError(r) \/ CountError(r)
      PROVE  UnreadInv'
  <2>1. UNCHANGED <<second, rows, pointers, posts, news, ahead>>
    BY <1>8 DEF ReadPointer, CountRows, SendCount, SendZero, WriteError, CountError
  <2>2. PICK E : /\ asker' = [asker EXCEPT ![r] = E]
                 /\ "at" \in DOMAIN E /\ E.at \notin Setter
    <3>1. ASSUME Finish(r)
          PROVE  \E E : /\ asker' = [asker EXCEPT ![r] = E]
                        /\ "at" \in DOMAIN E /\ E.at \notin Setter
      <4>1. "at" \in DOMAIN NoAsker /\ NoAsker.at \notin Setter
        BY DEF NoAsker, Setter
      <4> QED BY <3>1, <4>1 DEF Finish
    <3>2. ASSUME NEW members, Tell(r, members)
          PROVE  \E E : /\ asker' = [asker EXCEPT ![r] = E]
                        /\ "at" \in DOMAIN E /\ E.at \notin Setter
      <4>1. PICK E : E = [at |-> "tell", left |-> members]
        OBVIOUS
      <4>2. "at" \in DOMAIN E /\ E.at \notin Setter
        BY <4>1 DEF Setter
      <4> QED BY <3>2, <4>1, <4>2 DEF Tell
    <3>3. ASSUME NEW u \in asker[r].left,
                 asker' = [asker EXCEPT ![r] =
                              [at |-> "count", user |-> u, ts |-> pointers[u],
                               left |-> @.left \ {u}, stale |-> FALSE]]
          PROVE  \E E : /\ asker' = [asker EXCEPT ![r] = E]
                        /\ "at" \in DOMAIN E /\ E.at \notin Setter
      <4>1. PICK E : E = [at |-> "count", user |-> u, ts |-> pointers[u],
                          left |-> asker[r].left \ {u}, stale |-> FALSE]
        OBVIOUS
      <4>2. "at" \in DOMAIN E /\ E.at \notin Setter
        BY <4>1 DEF Setter
      <4> QED BY <3>3, <4>1, <4>2
    <3>4. ASSUME CountRows(r)
          PROVE  \E E : /\ asker' = [asker EXCEPT ![r] = E]
                        /\ "at" \in DOMAIN E /\ E.at \notin Setter
      <4>1. PICK E : E = [asker[r] EXCEPT
                             !.at = "send",
                             !.ts = Cardinality(Counted(asker[r].user, asker[r].ts))]
        OBVIOUS
      <4>2. "at" \in DOMAIN E /\ E.at \notin Setter
        BY <1>0, <4>1 DEF Setter
      <4>3. asker' = [asker EXCEPT ![r] = E]
        BY <1>0, <3>4, <4>1 DEF CountRows
      <4> QED BY <4>2, <4>3
    <3> QED BY <1>8, <3>1, <3>2, <3>3, <3>4
            DEF ReadPointer, SendCount, SendZero, WriteError, CountError
  <2>3. DOMAIN asker' = Asker /\ \A q \in Asker : Keeps(q)
    BY <2>2, RequestIsPast
  <2> QED BY <1>0, <2>1, <2>3, QuietIsSound
<1>9. ASSUME NEW m \in rows, DeleteRow(m) PROVE UnreadInv'
  <2>1. /\ rows' \subseteq rows /\ UNCHANGED <<second, pointers, posts, news, ahead>>
        /\ DOMAIN asker' = Asker
    BY <1>9 DEF DeleteRow, Outdated
  <2>2. ASSUME NEW q \in Asker PROVE Keeps(q)
    <3>1. asker'[q] = Outdated[q]
      BY <1>9 DEF DeleteRow
    <3>2. /\ DOMAIN asker'[q] = DOMAIN asker[q]
          /\ \A f \in DOMAIN asker[q] : f # "stale" => asker'[q][f] = asker[q][f]
      BY <3>1, OutdatedGoOn DEF UnreadInv
    <3> QED BY <3>2 DEF Keeps, Setter, UnreadInv, UnreadType
  <2> QED BY <1>0, <2>1, <2>2, QuietIsSound
<1>10. CASE UNCHANGED unreadVars
  BY <1>0, <1>1, <1>10, QuietIsSound DEF unreadVars
<1> QED
  BY <1>2, <1>3, <1>4, <1>5, <1>6, <1>7, <1>8, <1>9, <1>10 DEF UnreadNext

\* For any number of tabs and marks, in whatever order their statements run:
\* a message stamped since is unread, or its reader named a second to come.
THEOREM NewsStaysUnread == UnreadSpec => []NewsIsUnread
<1>1. UnreadInit => UnreadInv
  <2> SUFFICES ASSUME UnreadInit PROVE UnreadInv
    OBVIOUS
  <2>1. \A r \in Asker : "at" \in DOMAIN asker[r] /\ asker[r].at = "idle"
    BY DEF UnreadInit, NoAsker
  <2>2. UnreadType
    BY <2>1 DEF UnreadInit, UnreadType
  <2>3. IdsArePosts /\ PointersArePast /\ NewsIsLater
    BY <2>1 DEF UnreadInit, IdsArePosts, PointersArePast, NewsIsLater, Later, Sets
  <2> QED BY <2>2, <2>3 DEF UnreadInv
<1>2. UnreadInv /\ [UnreadNext]_unreadVars => UnreadInv'
  BY UnreadStep
<1>3. UnreadInv => NewsIsUnread
  BY DEF UnreadInv, NewsIsLater, Later, NewsIsUnread
<1> QED BY <1>1, <1>2, <1>3, PTL DEF UnreadSpec

-----------------------------------------------------------------------------
\* The records a request goes through once its write is done.
WellMade(e) ==
    /\ "at" \in DOMAIN e
    /\ e.at \in {"tell", "count", "send"} =>
          "left" \in DOMAIN e /\ e.left \subseteq Reader
    /\ e.at \in {"count", "send"} => "ts" \in DOMAIN e
    /\ e.at \in {"count", "send", "clear"} =>
          /\ {"user", "stale"} \subseteq DOMAIN e
          /\ e.user \in Reader /\ e.stale \in BOOLEAN

Counting == {"count", "send", "clear"}

\* What this request has read, counted, or set is what is unread.
Truthful(e) ==
    /\ e.at = "count" => Counted(e.user, e.ts) = NewTo(e.user)
    /\ e.at = "send" => e.ts = Cardinality(NewTo(e.user))
    /\ e.at = "clear" => NewTo(e.user) = {}

\* So it is as long as no other request came between.
Fresh(e) ==
    e.at \in Counting /\ e.stale = FALSE =>
        /\ Truthful(e)
        /\ e.at = "count" => e.ts = pointers[e.user]

\* This request is going to tell u what is unread.
WillTell(e, u) ==
    \/ e.at = "point" /\ e.user # u
    \/ e.at \in {"tell", "count", "send"} /\ u \in e.left
    \/ e.at \in Counting /\ e.user = u /\ Truthful(e)

Knows(u) ==
    /\ u \in informed
    /\ u \in overtaken \/ told[u] = Cardinality(NewTo(u))

UsersAreTold ==
    \A u \in Reader \ untold : Knows(u) \/ \E r \in Asker : WillTell(asker[r], u)

TellInv ==
    /\ DOMAIN told = Reader
    /\ \A r \in Asker : WellMade(asker[r]) /\ Fresh(asker[r])
    /\ UsersAreTold

\* A request whose count another changes is stale, the others stay as they are.
LEMMA OutdatedIsStale ==
    ASSUME UnreadType, NEW q \in Asker, WellMade(asker[q])
    PROVE  /\ WellMade(Outdated[q])
           /\ asker[q].at \in Counting /\ Outdated[q].stale = FALSE =>
                 /\ asker[q].stale = FALSE /\ asker[q].user \notin Recounted
                 /\ pointers'[asker[q].user] = pointers[asker[q].user]
<1>1. /\ DOMAIN Outdated[q] = DOMAIN asker[q]
      /\ \A f \in DOMAIN asker[q] : f # "stale" => Outdated[q][f] = asker[q][f]
      /\ asker[q].at \notin Counting => Outdated[q] = asker[q]
  BY OutdatedGoOn DEF Counting
<1>2. ASSUME asker[q].at \in Counting
      PROVE  /\ Outdated[q].stale \in BOOLEAN
             /\ Outdated[q].stale = FALSE =>
                   /\ asker[q].stale = FALSE /\ asker[q].user \notin Recounted
                   /\ pointers'[asker[q].user] = pointers[asker[q].user]
  <2>1. PICK stale : stale = (asker[q].stale \/ asker[q].user \in Recounted
                              \/ pointers'[asker[q].user] # pointers[asker[q].user])
    OBVIOUS
  <2>2. Outdated[q] = [asker[q] EXCEPT !.stale = stale]
    BY <1>2, <2>1 DEF Outdated, Counting
  <2>3. "stale" \in DOMAIN asker[q] /\ asker[q].stale \in BOOLEAN
    BY <1>2 DEF WellMade, Counting
  <2>4. Outdated[q].stale = stale
    BY <2>2, <2>3
  <2>5. stale \in BOOLEAN
    BY <2>1, Zenon
  <2>6. stale = FALSE => /\ asker[q].stale = FALSE /\ asker[q].user \notin Recounted
                         /\ pointers'[asker[q].user] = pointers[asker[q].user]
    BY <2>1, <2>3, Zenon
  <2> QED BY <2>4, <2>5, <2>6
<1>3. WellMade(Outdated[q])
  <2>1. CASE asker[q].at \in Counting
    BY <1>1, <1>2, <2>1 DEF WellMade, Counting
  <2>2. CASE asker[q].at \notin Counting
    BY <1>1, <2>2
  <2> QED BY <2>1, <2>2
<1> QED BY <1>2, <1>3

\* A step of a request that leaves the tables: it tells, or goes on to tell, whom
\* it would have told, and nobody it leaves out counts as told.
LEMMA RequestTells ==
    ASSUME UnreadInv, TellInv, NEW r \in Asker, NEW E,
           asker' = [asker EXCEPT ![r] = E], WellMade(E), Fresh(E),
           UNCHANGED <<rows, pointers>>, DOMAIN told' = Reader,
           \A u \in Reader \ untold' :
              /\ u \notin untold
              /\ Knows(u) => Knows(u)'
              /\ WillTell(asker[r], u) => Knows(u)' \/ WillTell(E, u)
    PROVE  TellInv'
<1>1. /\ asker'[r] = E /\ \A q \in Asker \ {r} : asker'[q] = asker[q]
      /\ DOMAIN asker' = Asker
  BY DEF UnreadInv, UnreadType
<1>2. \A u : NewTo(u)' = NewTo(u)
  BY DEF NewTo
<1>3. \A u, last : Counted(u, last)' = Counted(u, last)
  BY DEF Counted
<1>4. ASSUME NEW e, Fresh(e) PROVE Fresh(e)'
  BY <1>2, <1>3, <1>4 DEF Fresh, Truthful
<1>5. ASSUME NEW e, NEW u, WillTell(e, u) PROVE WillTell(e, u)'
  BY <1>2, <1>3, <1>5 DEF WillTell, Truthful
<1>6. ASSUME NEW q \in Asker PROVE WellMade(asker[q])' /\ Fresh(asker[q])'
  <2>1. PICK e : e = asker'[q] /\ WellMade(e) /\ Fresh(e)
    BY <1>1 DEF TellInv
  <2>2. Fresh(e)'
    BY <1>4, <2>1
  <2> QED BY <2>1, <2>2 DEF WellMade, Fresh, Truthful
<1>7. ASSUME NEW e, NEW u, NEW q \in Asker, WillTell(e, u), asker'[q] = e
      PROVE  WillTell(asker[q], u)'
  <2>1. WillTell(e, u)'
    BY <1>5, <1>7
  <2> QED BY <1>7, <2>1 DEF WillTell, Truthful
<1>8. ASSUME NEW u \in Reader \ untold'
      PROVE  Knows(u)' \/ \E q \in Asker : WillTell(asker[q], u)'
  <2>1. CASE Knows(u)
    BY <2>1
  <2>2. ASSUME NEW q \in Asker, WillTell(asker[q], u)
        PROVE  Knows(u)' \/ \E p \in Asker : WillTell(asker[p], u)'
    <3>1. CASE q = r
      BY <1>1, <1>7, <2>2, <3>1
    <3>2. CASE q # r
      BY <1>1, <1>7, <2>2, <3>2
    <3> QED BY <3>1, <3>2
  <2>3. Knows(u) \/ \E q \in Asker : WillTell(asker[q], u)
    BY DEF TellInv, UsersAreTold
  <2> QED BY <2>1, <2>2, <2>3
<1> QED BY <1>6, <1>8 DEF TellInv, UsersAreTold

\* A step that changes the tables: what it makes stale is marked, and whoever is
\* recounted is told next, or counts as untold.
LEMMA TablesTell ==
    ASSUME UnreadInv, TellInv, UNCHANGED <<told, overtaken>>,
           informed' = informed \ Recounted,
           \A q \in Asker : \/ asker'[q] = Outdated[q]
                            \/ WellMade(asker'[q]) /\ Fresh(asker[q])',
           \A u \in Reader \ untold' :
              \/ \E q \in Asker : WillTell(asker[q], u)'
              \/ /\ u \notin Recounted /\ u \notin untold
                 /\ \A last : Counted(u, last) = NewTo(u)
                                 => Counted(u, last)' = NewTo(u)
                 /\ \A q \in Asker : \/ asker'[q] = Outdated[q]
                                     \/ ~WillTell(asker[q], u)
    PROVE  TellInv'
<1>0. UnreadType
  BY DEF UnreadInv
<1>1. ASSUME NEW u \in Reader, u \notin Recounted PROVE NewTo(u)' = NewTo(u)
  BY <1>1 DEF Recounted
<1>2. ASSUME NEW q \in Asker, asker'[q] = Outdated[q]
      PROVE  /\ WellMade(asker'[q]) /\ asker'[q].at = asker[q].at
             /\ asker[q].at \in {"tell", "count", "send"} => asker'[q].left = asker[q].left
             /\ asker[q].at \in Counting => asker'[q].user = asker[q].user
             /\ asker[q].at \in {"count", "send"} => asker'[q].ts = asker[q].ts
             /\ asker[q].at = "point" => asker'[q] = asker[q]
             /\ asker[q].at \in Counting /\ asker'[q].stale = FALSE =>
                   /\ asker[q].stale = FALSE /\ asker[q].user \notin Recounted
                   /\ pointers'[asker[q].user] = pointers[asker[q].user]
  <2>1. WellMade(asker[q])
    BY DEF TellInv
  <2>2. /\ \A f \in DOMAIN asker[q] : f # "stale" => asker'[q][f] = asker[q][f]
        /\ asker[q].at = "point" => asker'[q] = asker[q]
    BY <1>0, <1>2, OutdatedGoOn
  <2>3. /\ WellMade(asker'[q])
        /\ asker[q].at \in Counting /\ asker'[q].stale = FALSE =>
              /\ asker[q].stale = FALSE /\ asker[q].user \notin Recounted
              /\ pointers'[asker[q].user] = pointers[asker[q].user]
    BY <1>0, <1>2, <2>1, OutdatedIsStale
  <2> QED BY <2>1, <2>2, <2>3 DEF WellMade, Counting
<1>3. ASSUME NEW q \in Asker, asker'[q] = Outdated[q] PROVE Fresh(asker[q])'
  <2> SUFFICES ASSUME asker'[q].at \in Counting, asker'[q].stale = FALSE
               PROVE  /\ Truthful(asker[q])'
                      /\ asker'[q].at = "count" => asker'[q].ts = pointers'[asker'[q].user]
    BY DEF Fresh
  <2>1. PICK u, ts, at : /\ u = asker[q].user /\ ts = asker[q].ts /\ at = asker[q].at
                         /\ u = asker'[q].user
                         /\ at \in Counting /\ asker'[q].at = at
                         /\ at \in {"count", "send"} => asker'[q].ts = ts
    BY <1>2, <1>3
  <2>2. WellMade(asker[q]) /\ Fresh(asker[q])
    BY DEF TellInv
  <2>3. /\ u \in Reader /\ u \notin Recounted /\ pointers'[u] = pointers[u]
        /\ Truthful(asker[q]) /\ (at = "count" => ts = pointers[u])
    BY <1>2, <1>3, <2>1, <2>2 DEF WellMade, Fresh, Counting
  <2>4. NewTo(u)' = NewTo(u)
    BY <1>1, <2>3
  <2>5. at = "count" => Counted(u, ts)' = NewTo(u)'
    BY <2>3 DEF Counted, NewTo
  <2>6. /\ at = "send" => ts = Cardinality(NewTo(u))
        /\ at = "clear" => NewTo(u) = {}
    BY <2>1, <2>3 DEF Truthful
  <2>7. Truthful(asker[q])'
    BY <2>1, <2>4, <2>5, <2>6 DEF Truthful
  <2> QED BY <2>1, <2>3, <2>7
<1>4. \A q \in Asker : WellMade(asker[q])' /\ Fresh(asker[q])'
  BY <1>2, <1>3 DEF WellMade
<1>5. ASSUME NEW u \in Reader, u \notin Recounted, NEW q \in Asker,
             asker'[q] = Outdated[q], WillTell(asker[q], u),
             \A last : Counted(u, last) = NewTo(u) => Counted(u, last)' = NewTo(u)
      PROVE  WillTell(asker[q], u)'
  <2>1. CASE asker[q].at = "point"
    BY <1>2, <1>5, <2>1 DEF WillTell, Counting
  <2>2. CASE asker[q].at \in {"tell", "count", "send"} /\ u \in asker[q].left
    BY <1>2, <1>5, <2>2 DEF WillTell
  <2>3. CASE asker[q].at \in Counting /\ asker[q].user = u /\ Truthful(asker[q])
    <3>1. PICK ts, at : /\ ts = asker[q].ts /\ at = asker[q].at
                        /\ u = asker'[q].user
                        /\ at \in Counting /\ asker'[q].at = at
                        /\ at \in {"count", "send"} => asker'[q].ts = ts
      BY <1>2, <1>5, <2>3
    <3>2. NewTo(u)' = NewTo(u)
      BY <1>1, <1>5
    <3>3. /\ at = "count" => Counted(u, ts)' = NewTo(u)
          /\ at = "send" => ts = Cardinality(NewTo(u))
          /\ at = "clear" => NewTo(u) = {}
      BY <1>5, <2>3, <3>1 DEF Truthful
    <3>4. Truthful(asker[q])'
      BY <3>1, <3>2, <3>3 DEF Truthful
    <3> QED BY <3>1, <3>4 DEF WillTell
  <2> QED BY <1>5, <2>1, <2>2, <2>3 DEF WillTell
<1>6. ASSUME NEW u \in Reader \ untold'
      PROVE  Knows(u)' \/ \E q \in Asker : WillTell(asker[q], u)'
  <2>1. SUFFICES ASSUME
               u \notin Recounted, u \notin untold,
               \A last : Counted(u, last) = NewTo(u) => Counted(u, last)' = NewTo(u),
               \A q \in Asker : asker'[q] = Outdated[q] \/ ~WillTell(asker[q], u)
        PROVE  Knows(u)' \/ \E q \in Asker : WillTell(asker[q], u)'
    BY <1>6
  <2>2. CASE Knows(u)
    <3>1. NewTo(u)' = NewTo(u)
      BY <1>1, <2>1
    <3> QED BY <2>1, <2>2, <3>1 DEF Knows
  <2>3. ASSUME NEW q \in Asker, WillTell(asker[q], u)
        PROVE  WillTell(asker[q], u)'
    BY <1>5, <2>1, <2>3
  <2> QED BY <2>1, <2>2, <2>3 DEF TellInv, UsersAreTold
<1> QED BY <1>4, <1>6 DEF TellInv, UsersAreTold

\* A request that ends, or goes on to tell these members.
LEMMA FinishIsMade ==
    /\ WellMade(NoAsker) /\ Fresh(NoAsker) /\ "at" \in DOMAIN NoAsker
    /\ \A u : ~WillTell(NoAsker, u)
BY DEF NoAsker, WellMade, Fresh, WillTell, Counting

LEMMA TellIsMade ==
    ASSUME NEW members \in SUBSET Reader, NEW E,
           E = [at |-> "tell", left |-> members]
    PROVE  /\ WellMade(E) /\ Fresh(E) /\ Fresh(E)'
           /\ \A u \in members : WillTell(E, u) /\ WillTell(E, u)'
<1>1. E.at = "tell" /\ E.left = members /\ "at" \in DOMAIN E /\ "left" \in DOMAIN E
  OBVIOUS
<1> QED BY <1>1 DEF WellMade, Fresh, WillTell, Counting

\* A request that begins is not going to tell yet.
LEMMA StartTells ==
    ASSUME UnreadInv, TellInv, NEW r \in Asker, NEW request,
           Start(r, request), asker[r].at = "idle",
           "at" \in DOMAIN request, request.at \in {"insert", "mark"},
           UNCHANGED <<rows, pointers, told, histories>>
    PROVE  TellInv'
<1>1. WellMade(request) /\ Fresh(request)
  BY DEF WellMade, Fresh, Counting
<1>2. \A u : ~WillTell(asker[r], u)
  BY DEF WillTell, Counting
<1>3. \A u \in Reader : NewTo(u)' = NewTo(u)
  BY DEF NewTo
<1>4. \A u \in Reader : Knows(u) => Knows(u)'
  BY <1>3 DEF Knows, histories
<1>5. DOMAIN told' = Reader /\ untold' = untold
  BY DEF TellInv, histories
<1>6. asker' = [asker EXCEPT ![r] = request]
  BY DEF Start
<1> QED BY <1>1, <1>2, <1>4, <1>5, <1>6, RequestTells

\* The row of an author is new to the others, whom the request is going to tell.
LEMMA InsertTells ==
    ASSUME UnreadInv, TellInv, NEW r \in Asker, InsertRow(r)
    PROVE  TellInv'
<1>1. PICK u, m : /\ u = asker[r].user
                  /\ m = [id |-> asker[r].id, author |-> asker[r].user,
                          at |-> asker[r].ts]
  OBVIOUS
<1>2. PICK E : E = [at |-> "point", user |-> asker[r].user, ts |-> asker[r].ts]
  OBVIOUS
<1>3. /\ asker[r].at = "insert" /\ asker' = [Outdated EXCEPT ![r] = E]
      /\ rows' = rows \cup {m} /\ m.author = u
      /\ informed' = informed \ Recounted /\ untold' = untold \cap {u}
      /\ UNCHANGED <<told, pointers, overtaken>>
  BY <1>1, <1>2 DEF InsertRow
<1>4. "at" \in DOMAIN E /\ E.at = "point" /\ E.user = u
  BY <1>1, <1>2
<1>5. DOMAIN Outdated = Asker
  BY DEF Outdated
<1>6. asker'[r] = E /\ \A q \in Asker \ {r} : asker'[q] = Outdated[q]
  BY <1>3, <1>5
<1>7. WellMade(asker'[r]) /\ Fresh(asker[r])'
  BY <1>4, <1>6 DEF WellMade, Fresh, Counting
<1>8. ASSUME NEW v \in Reader \ untold'
      PROVE  \/ \E q \in Asker : WillTell(asker[q], v)'
             \/ /\ v \notin Recounted /\ v \notin untold
                /\ \A last : Counted(v, last) = NewTo(v)
                                => Counted(v, last)' = NewTo(v)
                /\ \A q \in Asker : \/ asker'[q] = Outdated[q]
                                    \/ ~WillTell(asker[q], v)
  <2>1. CASE v # u
    <3>1. WillTell(asker[r], v)'
      BY <1>4, <1>6, <2>1 DEF WillTell
    <3> QED BY <3>1
  <2>2. CASE v = u
    <3>1. NewTo(v)' = NewTo(v)
      BY <1>3, <2>2 DEF NewTo
    <3>2. \A last : Counted(v, last)' = Counted(v, last)
      BY <1>3, <2>2 DEF Counted
    <3>3. v \notin untold /\ v \notin Recounted
      BY <1>3, <1>8, <2>2, <3>1 DEF Recounted
    <3>4. ~WillTell(asker[r], v)
      BY <1>3 DEF WillTell, Counting
    <3> QED BY <1>6, <3>2, <3>3, <3>4
  <2> QED BY <2>1, <2>2
<1> QED BY <1>3, <1>6, <1>7, <1>8, TablesTell

\* The pointer of an author moves; the others are going to be told.
LEMMA PointTells ==
    ASSUME UnreadInv, TellInv, NEW r \in Asker, PointAuthor(r)
    PROVE  TellInv'
<1>1. PICK u, ts : u = asker[r].user /\ ts = asker[r].ts
  OBVIOUS
<1>2. PICK E : E = [at |-> "tell", left |-> Reader \ {u}]
  OBVIOUS
<1>3. /\ asker[r].at = "point" /\ asker' = [Outdated EXCEPT ![r] = E]
      /\ informed' = informed \ Recounted /\ untold' = untold \cup Recounted
      /\ UNCHANGED <<told, rows, overtaken>>
  BY <1>1, <1>2 DEF PointAuthor
<1>5. DOMAIN Outdated = Asker
  BY DEF Outdated
<1>6. asker'[r] = E /\ \A q \in Asker \ {r} : asker'[q] = Outdated[q]
  BY <1>3, <1>5
<1>7. WellMade(E) /\ Fresh(E)' /\ \A v \in Reader \ {u} : WillTell(E, v)'
  BY <1>2, TellIsMade
<1>8. ASSUME NEW v \in Reader \ untold'
      PROVE  \/ \E q \in Asker : WillTell(asker[q], v)'
             \/ /\ v \notin Recounted /\ v \notin untold
                /\ \A last : Counted(v, last) = NewTo(v)
                                => Counted(v, last)' = NewTo(v)
                /\ \A q \in Asker : \/ asker'[q] = Outdated[q]
                                    \/ ~WillTell(asker[q], v)
  <2>1. CASE v # u
    <3>1. WillTell(E, v)'
      BY <1>7, <2>1
    <3>2. WillTell(asker[r], v)'
      BY <1>6, <3>1 DEF WillTell, Truthful
    <3> QED BY <3>2
  <2>2. CASE v = u
    <3>1. v \notin untold /\ v \notin Recounted
      BY <1>3, <1>8
    <3>2. \A last : Counted(v, last)' = Counted(v, last)
      BY <1>3 DEF Counted
    <3>3. ~WillTell(asker[r], v)
      BY <1>1, <1>3, <2>2 DEF WillTell, Counting
    <3> QED BY <1>6, <3>1, <3>2, <3>3
  <2> QED BY <2>1, <2>2
<1>9. WellMade(asker'[r]) /\ Fresh(asker[r])'
  BY <1>6, <1>7 DEF Fresh, Truthful
<1> QED BY <1>3, <1>6, <1>8, <1>9, TablesTell

\* A mark has moved the pointer; its user is told 0 next, which is the count if
\* nothing is unread.
LEMMA MoveTells ==
    ASSUME UnreadInv, TellInv, NEW r \in Asker, MovePointer(r)
    PROVE  TellInv'
<1>1. PICK u, ts : u = asker[r].user /\ ts = asker[r].ts
  OBVIOUS
<1>2. PICK stale : stale = (u \in Behind')
  OBVIOUS
<1>3. PICK E : E = [at |-> "clear", user |-> u, stale |-> stale]
  OBVIOUS
<1>4. /\ asker[r].at = "mark" /\ asker' = [Outdated EXCEPT ![r] = E]
      /\ pointers' = [pointers EXCEPT ![u] = ts]
      /\ informed' = informed \ Recounted
      /\ untold' = IF u \in Behind' THEN untold \cup {u} ELSE untold \ {u}
      /\ UNCHANGED <<told, rows, overtaken>>
  BY <1>1, <1>2, <1>3 DEF MovePointer, SetPointer, MoveTo
<1>5. DOMAIN Outdated = Asker
  BY DEF Outdated
<1>6. asker'[r] = E /\ \A q \in Asker \ {r} : asker'[q] = Outdated[q]
  BY <1>4, <1>5
<1>7. /\ u \in Reader /\ pointers \in [Reader -> Nat]
  BY <1>1, <1>4 DEF UnreadInv, UnreadType
<1>8. /\ DOMAIN E = {"at", "user", "stale"} /\ E.at = "clear"
      /\ E.user = u /\ E.stale = stale
  BY <1>3
<1>9. stale \in BOOLEAN /\ (stale = FALSE => u \notin Behind')
  <2>1. CASE u \in Behind'
    BY <1>2, <2>1
  <2>2. CASE u \notin Behind'
    BY <1>2, <2>2
  <2> QED BY <2>1, <2>2
<1>10. u \notin Behind' => NewTo(u)' = {}
  BY <1>7 DEF Behind
<1>11. WellMade(E)
  BY <1>7, <1>8, <1>9 DEF WellMade
<1>12. WellMade(asker'[r]) /\ Fresh(asker[r])'
  BY <1>6, <1>8, <1>9, <1>10, <1>11 DEF Fresh, Truthful
<1>13. ASSUME NEW v \in Reader \ untold'
       PROVE  \/ \E q \in Asker : WillTell(asker[q], v)'
              \/ /\ v \notin Recounted /\ v \notin untold
                 /\ \A last : Counted(v, last) = NewTo(v)
                                 => Counted(v, last)' = NewTo(v)
                 /\ \A q \in Asker : \/ asker'[q] = Outdated[q]
                                     \/ ~WillTell(asker[q], v)
  <2>1. CASE v = u
    <3>1. NewTo(v)' = {}
      BY <1>4, <1>10, <1>13, <2>1
    <3>2. WillTell(asker[r], v)'
      BY <1>6, <1>8, <2>1, <3>1 DEF WillTell, Truthful, Counting
    <3> QED BY <3>2
  <2>2. CASE v # u
    <3>1. pointers'[v] = pointers[v]
      BY <1>4, <1>7, <2>2
    <3>2. NewTo(v)' = NewTo(v)
      BY <1>4, <3>1 DEF NewTo
    <3>3. v \notin untold /\ v \notin Recounted
      BY <1>4, <1>13, <2>2, <3>2 DEF Recounted
    <3>4. \A last : Counted(v, last)' = Counted(v, last)
      BY <1>4 DEF Counted
    <3>5. ~WillTell(asker[r], v)
      BY <1>4 DEF WillTell, Counting
    <3> QED BY <1>6, <3>3, <3>4, <3>5
  <2> QED BY <2>1, <2>2
<1> QED BY <1>4, <1>6, <1>12, <1>13, TablesTell

\* A deletion makes the counts stale and leaves those it changes untold.
LEMMA DeletionTells ==
    ASSUME UnreadInv, TellInv, NEW m \in rows, DeleteRow(m)
    PROVE  TellInv'
<1>1. /\ rows' = rows \ {m} /\ asker' = Outdated
      /\ informed' = informed \ Recounted /\ untold' = untold \cup Recounted
      /\ UNCHANGED <<told, pointers, overtaken>>
  BY DEF DeleteRow
<1>2. ASSUME NEW v \in Reader \ untold'
      PROVE  /\ v \notin Recounted /\ v \notin untold
             /\ \A last : Counted(v, last) = NewTo(v) => Counted(v, last)' = NewTo(v)
  <2>1. v \notin Recounted /\ v \notin untold
    BY <1>1, <1>2
  <2>2. NewTo(v)' = NewTo(v)
    BY <2>1 DEF Recounted
  <2>3. m \notin NewTo(v)
    BY <1>1, <2>2 DEF NewTo
  <2>4. ASSUME NEW last, Counted(v, last) = NewTo(v)
        PROVE  Counted(v, last)' = NewTo(v)
    <3>1. Counted(v, last)' = Counted(v, last) \ {m}
      BY <1>1 DEF Counted
    <3> QED BY <2>3, <2>4, <3>1
  <2> QED BY <2>1, <2>4
<1> QED BY <1>1, <1>2, TablesTell

\* The event about u: it is the count if the request was going to tell u, or if
\* nothing made it stale; if something did, it is overtaken.
LEMMA SendingTells ==
    ASSUME TellInv, NEW r \in Asker, NEW u \in Reader, NEW count,
           asker[r].at \in Counting, asker[r].user = u,
           Truthful(asker[r]) => count = Cardinality(NewTo(u)),
           told'[u] = count, \A v \in Reader \ {u} : told'[v] = told[v],
           informed \subseteq informed',
           count = Cardinality(NewTo(u)) => u \in informed',
           overtaken \subseteq overtaken' \cup {u},
           asker[r].stale = TRUE => u \in overtaken',
           UNCHANGED <<rows, pointers>>
    PROVE  /\ Truthful(asker[r]) => Knows(u)'
           /\ \A v \in Reader : Knows(v) => Knows(v)'
<1>1. \A v : NewTo(v)' = NewTo(v)
  BY DEF NewTo
<1>4. ASSUME Truthful(asker[r]) PROVE Knows(u)'
  BY <1>1, <1>4 DEF Knows
<1>5. ASSUME Knows(u) PROVE Knows(u)'
  <2>1. asker[r].stale \in BOOLEAN /\ Fresh(asker[r])
    BY DEF TellInv, WellMade, Counting
  <2>2. CASE asker[r].stale = TRUE
    BY <1>5, <2>2 DEF Knows
  <2>3. CASE asker[r].stale = FALSE
    BY <1>4, <2>1, <2>3 DEF Fresh, Counting
  <2> QED BY <2>1, <2>2, <2>3
<1>6. ASSUME NEW v \in Reader, v # u, Knows(v) PROVE Knows(v)'
  BY <1>1, <1>6 DEF Knows
<1> QED BY <1>4, <1>5, <1>6

LEMMA SendTells ==
    ASSUME UnreadInv, TellInv, NEW r \in Asker, SendCount(r)
    PROVE  TellInv'
<1>1. WellMade(asker[r]) /\ asker[r].at = "send"
  BY DEF TellInv, SendCount
<1>2. PICK left : left = asker[r].left
  OBVIOUS
<1>3. PICK u \in Reader : u = asker[r].user
  BY <1>1 DEF WellMade
<1>4. PICK E : E = [at |-> "tell", left |-> left]
  OBVIOUS
<1>5. asker' = [asker EXCEPT ![r] = E] /\ UNCHANGED <<rows, pointers, untold>>
  BY <1>2, <1>4 DEF SendCount, Tell, SendUnread
<1>6. WellMade(E) /\ Fresh(E) /\ \A v \in left : WillTell(E, v)
  BY <1>1, <1>2, <1>4, TellIsMade DEF WellMade
<1>7. /\ DOMAIN told' = Reader /\ (Truthful(asker[r]) => Knows(u)')
      /\ \A v \in Reader : Knows(v) => Knows(v)'
  <2>1. PICK count : count = asker[r].ts
    OBVIOUS
  <2>2. Truthful(asker[r]) => count = Cardinality(NewTo(u))
    BY <1>1, <1>3, <2>1 DEF Truthful
  <2>3. /\ told'[u] = count /\ \A v \in Reader \ {u} : told'[v] = told[v]
        /\ informed \subseteq informed'
        /\ count = Cardinality(NewTo(u)) => u \in informed'
        /\ overtaken \subseteq overtaken' \cup {u}
        /\ asker[r].stale = TRUE => u \in overtaken'
        /\ DOMAIN told' = Reader
    BY <1>3, <2>1 DEF SendCount, SendUnread, TellInv
  <2>4. asker[r].at \in Counting /\ asker[r].user = u
    BY <1>1, <1>3 DEF Counting
  <2>5. /\ Truthful(asker[r]) => Knows(u)'
        /\ \A v \in Reader : Knows(v) => Knows(v)'
    BY <1>5, <2>2, <2>3, <2>4, SendingTells
  <2> QED BY <2>3, <2>5
<1>8. ASSUME NEW v \in Reader, WillTell(asker[r], v)
      PROVE  Knows(v)' \/ WillTell(E, v)
  BY <1>1, <1>2, <1>3, <1>6, <1>7, <1>8 DEF WillTell
<1> QED BY <1>5, <1>6, <1>7, <1>8, RequestTells

LEMMA ZeroTells ==
    ASSUME UnreadInv, TellInv, NEW r \in Asker, SendZero(r)
    PROVE  TellInv'
<1>1. WellMade(asker[r]) /\ asker[r].at = "clear"
  BY DEF TellInv, SendZero
<1>2. PICK u \in Reader : u = asker[r].user
  BY <1>1 DEF WellMade
<1>3. asker' = [asker EXCEPT ![r] = NoAsker] /\ UNCHANGED <<rows, pointers, untold>>
  BY DEF SendZero, Finish, SendUnread
<1>4. /\ DOMAIN told' = Reader /\ (Truthful(asker[r]) => Knows(u)')
      /\ \A v \in Reader : Knows(v) => Knows(v)'
  <2>1. Truthful(asker[r]) => 0 = Cardinality(NewTo(u))
    BY <1>1, <1>2, FS_EmptySet DEF Truthful
  <2>2. /\ told'[u] = 0 /\ \A v \in Reader \ {u} : told'[v] = told[v]
        /\ informed \subseteq informed'
        /\ 0 = Cardinality(NewTo(u)) => u \in informed'
        /\ overtaken \subseteq overtaken' \cup {u}
        /\ asker[r].stale = TRUE => u \in overtaken'
        /\ DOMAIN told' = Reader
    BY <1>2 DEF SendZero, SendUnread, TellInv
  <2>3. asker[r].at \in Counting
    BY <1>1 DEF Counting
  <2>4. UNCHANGED <<rows, pointers>>
    BY <1>3
  <2> QED BY <1>2, <2>1, <2>2, <2>3, <2>4, SendingTells
<1>5. ASSUME NEW v \in Reader, WillTell(asker[r], v) PROVE Knows(v)'
  BY <1>1, <1>2, <1>4, <1>5 DEF WillTell
<1> QED BY <1>3, <1>4, <1>5, FinishIsMade, RequestTells

\* The pointer and the count are read one after the other; a failure leaves whom
\* it does not tell untold.
LEMMA CountTells ==
    ASSUME UnreadInv, TellInv, NEW r \in Asker,
           ReadPointer(r) \/ CountRows(r) \/ WriteError(r) \/ CountError(r)
    PROVE  TellInv'
<1>0. DOMAIN asker = Asker /\ WellMade(asker[r]) /\ Fresh(asker[r])
  BY DEF UnreadInv, UnreadType, TellInv
<1>1. /\ UNCHANGED <<rows, pointers, told, informed, overtaken>>
      /\ untold \subseteq untold' /\ DOMAIN told' = Reader
  BY DEF ReadPointer, CountRows, WriteError, CountError, histories, TellInv
<1>2. ASSUME NEW u \in Reader, Knows(u) PROVE Knows(u)'
  <2>1. NewTo(u)' = NewTo(u)
    BY <1>1 DEF NewTo
  <2> QED BY <1>1, <1>2, <2>1 DEF Knows
<1>3. ASSUME NEW E, asker' = [asker EXCEPT ![r] = E], WellMade(E), Fresh(E),
             \A u \in Reader \ untold' : WillTell(asker[r], u) => WillTell(E, u)
      PROVE  TellInv'
  <2>1. \A u \in Reader \ untold' :
           /\ u \notin untold
           /\ Knows(u) => Knows(u)'
           /\ WillTell(asker[r], u) => Knows(u)' \/ WillTell(E, u)
    BY <1>1, <1>2, <1>3
  <2> QED BY <1>1, <1>3, <2>1, RequestTells
<1>4. CASE ReadPointer(r) /\ Finish(r) /\ asker[r].left = {}
  <2>1. \A u : ~WillTell(asker[r], u)
    BY <1>4 DEF ReadPointer, WillTell, Counting
  <2> QED BY <1>3, <1>4, <2>1, FinishIsMade DEF Finish
<1>5. ASSUME ReadPointer(r), NEW v \in asker[r].left,
             asker' = [asker EXCEPT ![r] =
                          [at |-> "count", user |-> v, ts |-> pointers[v],
                           left |-> @.left \ {v}, stale |-> FALSE]]
      PROVE  TellInv'
  <2>1. PICK E : E = [at |-> "count", user |-> v, ts |-> pointers[v],
                      left |-> asker[r].left \ {v}, stale |-> FALSE]
    OBVIOUS
  <2>2. asker[r].at = "tell" /\ asker' = [asker EXCEPT ![r] = E]
    BY <1>5, <2>1 DEF ReadPointer
  <2>3. asker[r].left \subseteq Reader
    BY <1>0, <2>2 DEF WellMade
  <2>4. /\ DOMAIN E = {"at", "user", "ts", "left", "stale"} /\ E.at = "count"
        /\ E.user = v /\ E.ts = pointers[v] /\ E.left = asker[r].left \ {v}
        /\ E.stale = FALSE
    BY <2>1
  <2>5. WellMade(E)
    BY <1>5, <2>3, <2>4 DEF WellMade
  <2>6. Truthful(E) /\ Fresh(E)
    BY <2>4 DEF Truthful, Fresh, Counted, NewTo
  <2>7. \A u : WillTell(asker[r], u) => WillTell(E, u)
    BY <2>2, <2>4, <2>6 DEF WillTell, Counting
  <2> QED BY <1>3, <2>2, <2>5, <2>6, <2>7
<1>6. CASE CountRows(r)
  <2>1. PICK u, ts, n : /\ u = asker[r].user /\ ts = asker[r].ts
                        /\ n = Cardinality(Counted(u, ts))
    OBVIOUS
  <2>2. PICK E : E = [[asker[r] EXCEPT !.at = "send"] EXCEPT !.ts = n]
    OBVIOUS
  <2>3. asker[r].at = "count" /\ asker' = [asker EXCEPT ![r] = E]
    BY <1>0, <1>6, <2>1, <2>2 DEF CountRows
  <2>4. {"at", "user", "ts", "left", "stale"} \subseteq DOMAIN asker[r]
    BY <1>0, <2>3 DEF WellMade
  <2>5. /\ DOMAIN E = DOMAIN asker[r] /\ E.at = "send" /\ E.ts = n
        /\ E.user = u /\ E.left = asker[r].left /\ E.stale = asker[r].stale
    BY <2>1, <2>2, <2>4
  <2>6. WellMade(E)
    BY <1>0, <2>1, <2>3, <2>4, <2>5 DEF WellMade
  <2>7. Truthful(asker[r]) => Truthful(E)
    BY <2>1, <2>3, <2>5 DEF Truthful
  <2>8. Fresh(E)
    BY <1>0, <2>3, <2>5, <2>7 DEF Fresh, Counting
  <2>9. \A v : WillTell(asker[r], v) => WillTell(E, v)
    BY <2>1, <2>3, <2>5, <2>7 DEF WillTell, Counting
  <2> QED BY <1>3, <2>3, <2>6, <2>8, <2>9
<1>7. CASE WriteError(r)
  <2>1. \A u \in Reader \ untold' : ~WillTell(asker[r], u)
    BY <1>7 DEF WriteError, WillTell, Counting
  <2> QED BY <1>3, <1>7, <2>1, FinishIsMade DEF WriteError, Finish
<1>8. CASE CountError(r)
  <2>1. PICK left : left = asker[r].left
    OBVIOUS
  <2>2. PICK E : E = [at |-> "tell", left |-> left]
    OBVIOUS
  <2>3. /\ asker[r].at = "count" /\ asker' = [asker EXCEPT ![r] = E]
        /\ untold' = untold \cup {asker[r].user}
    BY <1>8, <2>1, <2>2 DEF CountError, Tell
  <2>4. left \in SUBSET Reader
    BY <1>0, <2>1, <2>3 DEF WellMade
  <2>5. WellMade(E) /\ Fresh(E) /\ \A v \in left : WillTell(E, v)
    BY <2>2, <2>4, TellIsMade
  <2>6. \A u \in Reader \ untold' : WillTell(asker[r], u) => WillTell(E, u)
    BY <2>1, <2>3, <2>5 DEF WillTell, Counting
  <2> QED BY <1>3, <2>3, <2>5, <2>6
<1> QED BY <1>4, <1>5, <1>6, <1>7, <1>8 DEF ReadPointer

\* Where the tables, the requests and the events are as they were, so is this.
LEMMA UnchangedTells ==
    ASSUME TellInv, UNCHANGED <<rows, pointers, asker, told, informed, untold, overtaken>>
    PROVE  TellInv'
<1>1. \A u : NewTo(u)' = NewTo(u)
  BY DEF NewTo
<1>2. \A u, last : Counted(u, last)' = Counted(u, last)
  BY DEF Counted
<1>3. \A r \in Asker : (WellMade(asker[r]) /\ Fresh(asker[r]))'
  BY <1>1, <1>2 DEF TellInv, WellMade, Fresh, Truthful
<1>4. \A r \in Asker : \A u : WillTell(asker[r], u) => WillTell(asker[r], u)'
  BY <1>1, <1>2 DEF WillTell, Truthful
<1>5. \A u : Knows(u) => Knows(u)'
  BY <1>1 DEF Knows
<1> QED BY <1>3, <1>4, <1>5 DEF TellInv, UsersAreTold

\* No step leaves the invariant.
LEMMA TellStep ==
    ASSUME UnreadInv, TellInv, [UnreadNext]_unreadVars
    PROVE  TellInv'
<1>1. CASE Pass
  BY <1>1, UnchangedTells DEF Pass, histories
<1>2. ASSUME NEW r \in Asker, NEW u \in Reader, Post(r, u) PROVE TellInv'
  <2>1. PICK request : request = [at |-> "insert", user |-> u, id |-> posts + 1,
                                  ts |-> second]
    OBVIOUS
  <2>2. "at" \in DOMAIN request /\ request.at = "insert"
    BY <2>1
  <2>3. /\ asker[r].at = "idle" /\ Start(r, request)
        /\ UNCHANGED <<rows, pointers, told, histories>>
    BY <1>2, <2>1 DEF Post
  <2> QED BY <2>2, <2>3, StartTells
<1>3. ASSUME NEW r \in Asker, NEW u \in Reader, NEW ts, Mark(r, u, ts) PROVE TellInv'
  <2>1. PICK request : request = [at |-> "mark", user |-> u, ts |-> ts]
    OBVIOUS
  <2>2. "at" \in DOMAIN request /\ request.at = "mark"
    BY <2>1
  <2>3. /\ asker[r].at = "idle" /\ Start(r, request)
        /\ UNCHANGED <<rows, pointers, told, histories>>
    BY <1>3, <2>1 DEF Mark
  <2> QED BY <2>2, <2>3, StartTells
<1>4. CASE UNCHANGED unreadVars
  BY <1>4, UnchangedTells DEF unreadVars
<1> QED
  BY <1>1, <1>2, <1>3, <1>4, InsertTells, PointTells, MoveTells, SendTells,
     ZeroTells, CountTells, DeletionTells DEF UnreadNext

\* At first nothing is under way or told.
LEMMA UnreadStarts == UnreadInit => UnreadInv /\ TellInv
<1>1. UnreadInit => UnreadInv
  <2> SUFFICES ASSUME UnreadInit PROVE UnreadInv
    OBVIOUS
  <2>1. \A r \in Asker : "at" \in DOMAIN asker[r] /\ asker[r].at = "idle"
    BY DEF UnreadInit, NoAsker
  <2>2. UnreadType
    BY <2>1 DEF UnreadInit, UnreadType
  <2>3. IdsArePosts /\ PointersArePast /\ NewsIsLater
    BY <2>1 DEF UnreadInit, IdsArePosts, PointersArePast, NewsIsLater, Later, Sets
  <2> QED BY <2>2, <2>3 DEF UnreadInv
<1>2. UnreadInit => TellInv
  <2> SUFFICES ASSUME UnreadInit PROVE TellInv
    OBVIOUS
  <2>1. \A r \in Asker : WellMade(asker[r]) /\ Fresh(asker[r])
    BY FinishIsMade DEF UnreadInit
  <2>2. \A u \in Reader : NewTo(u) = {}
    BY DEF UnreadInit, NewTo
  <2>3. UsersAreTold
    BY <2>2, FS_EmptySet DEF UnreadInit, UsersAreTold, Knows
  <2> QED BY <2>1, <2>3 DEF UnreadInit, TellInv
<1> QED BY <1>1, <1>2

\* For any readers and requests, overlapping or not: once no request is under
\* way, every user was told the present count since it last changed, and the last
\* event is that count, unless it had been counted before and was sent after; but
\* for those whose count was last changed by what tells nothing.
THEOREM ToldStaysTrue == UnreadSpec => []ToldIsTrue
<1>1. UnreadInit => UnreadInv /\ TellInv
  BY UnreadStarts
<1>2. UnreadInv /\ TellInv /\ [UnreadNext]_unreadVars => UnreadInv' /\ TellInv'
  BY UnreadStep, TellStep
<1>3. TellInv => ToldIsTrue
  <2> SUFFICES ASSUME TellInv, Quiet, NEW u \in Reader \ untold PROVE Knows(u)
    BY DEF ToldIsTrue, Knows
  <2>1. \A r \in Asker : ~WillTell(asker[r], u)
    BY DEF Quiet, WillTell, Counting
  <2> QED BY <2>1 DEF TellInv, UsersAreTold
<1> QED BY <1>1, <1>2, <1>3, PTL DEF UnreadSpec

-----------------------------------------------------------------------------
(* The bounds of what is counted.                                          *)

\* A request's step, and what it will insert, write or send.
InBounds(e) ==
    /\ e.at \in {"idle", "insert", "point", "tell", "count", "send", "mark", "clear"}
    /\ e.at = "insert" => e.id \in 1 .. posts /\ e.ts \in Second
    /\ e.at \in {"point", "mark"} => e.ts \in 0 .. MaxSecond + 1
    /\ e.at = "send" => e.ts \in 0 .. MaxPosts

\* No two messages share an id, in the table or on their way there.
IdsAreOwn ==
    /\ \A m, n \in rows : m.id = n.id => m = n
    /\ \A r \in Asker : asker[r].at = "insert" =>
          /\ \A m \in rows : m.id # asker[r].id
          /\ \A q \in Asker \ {r} :
                asker[q].at = "insert" => asker[q].id # asker[r].id

CountsInv ==
    /\ UnreadTypeOK /\ IdsAreOwn
    /\ \A r \in Asker : InBounds(asker[r])

\* A step of another leaves a request what it is about to do.
SameWork(q) ==
    /\ asker'[q].at = asker[q].at
    /\ asker[q].at = "insert" => asker'[q].id = asker[q].id
    /\ asker[q].at \in {"insert", "point", "mark", "send"} =>
          asker'[q].ts = asker[q].ts

\* However many of the rows are counted, they are no more than were stamped.
LEMMA RowsAreFew ==
    ASSUME CountsInv, NEW S \in SUBSET rows
    PROVE  Cardinality(S) \in 0 .. MaxPosts
<1>1. PICK f : f = [m \in S |-> m.id]
  OBVIOUS
<1>2. f \in [S -> Id]
  BY <1>1 DEF CountsInv, UnreadTypeOK, Message
<1>3. f \in Injection(S, Id)
  <2>1. \A m, n \in S : f[m] = f[n] => m = n
    BY <1>1 DEF CountsInv, IdsAreOwn
  <2> QED BY <1>2, <2>1 DEF Injection, IsInjective
<1>4. IsFiniteSet(Id) /\ Cardinality(Id) = MaxPosts
  <2>1. Cardinality(1 .. MaxPosts) = IF 1 > MaxPosts THEN 0 ELSE MaxPosts - 1 + 1
    BY UnreadAssumption, FS_Interval
  <2>2. IsFiniteSet(1 .. MaxPosts)
    BY UnreadAssumption, FS_Interval
  <2> QED BY <2>1, <2>2, UnreadAssumption DEF Id
<1>5. IsFiniteSet(S) /\ Cardinality(S) <= MaxPosts
  BY <1>3, <1>4, FS_Injection
<1> QED BY <1>5, FS_CardinalityType, UnreadAssumption

\* A request whose count another's step makes stale goes on with its work, as
\* do those it does not concern.
LEMMA OutdatedSameWork ==
    ASSUME UnreadInv, TellInv, NEW q \in Asker, asker'[q] \in {asker[q], Outdated[q]}
    PROVE  SameWork(q)
<1>1. /\ "at" \in DOMAIN asker[q]
      /\ asker[q].at = "insert" => "id" \in DOMAIN asker[q]
      /\ asker[q].at \in {"insert", "point", "mark", "send"} => "ts" \in DOMAIN asker[q]
  BY DEF UnreadInv, UnreadType, TellInv, WellMade
<1>2. \A f \in DOMAIN asker[q] : f # "stale" => Outdated[q][f] = asker[q][f]
  BY OutdatedGoOn DEF UnreadInv
<1> QED BY <1>1, <1>2 DEF SameWork

\* A step of one request leaves the others their work.
LEMMA OthersSameWork ==
    ASSUME UnreadInv, TellInv, NEW r \in Asker, NEW E,
           \/ asker' = [asker EXCEPT ![r] = E]
           \/ asker' = [Outdated EXCEPT ![r] = E]
    PROVE  asker'[r] = E /\ \A q \in Asker \ {r} : SameWork(q)
<1>1. DOMAIN Outdated = Asker /\ DOMAIN asker = Asker
  BY DEF Outdated, UnreadInv, UnreadType
<1>2. asker'[r] = E /\ \A q \in Asker \ {r} : asker'[q] \in {asker[q], Outdated[q]}
  BY <1>1
<1> QED BY <1>2, OutdatedSameWork

\* Requests that go on with their work stay in bounds.
LEMMA SameWorkInBounds ==
    ASSUME CountsInv, NEW q \in Asker, SameWork(q), posts' \in Nat, posts' >= posts
    PROVE  InBounds(asker[q])'
<1>1. /\ InBounds(asker[q]) /\ posts \in Nat
  BY UnreadAssumption DEF CountsInv, UnreadTypeOK
<1>2. 1 .. posts \subseteq 1 .. posts'
  BY <1>1
<1> QED BY <1>1, <1>2 DEF SameWork, InBounds

\* A step of one request: it inserts its message, or takes none.
LEMMA RequestInBounds ==
    ASSUME UnreadInv, CountsInv, NEW r \in Asker, NEW E, NEW R, InBounds(E),
           asker'[r] = E, \A q \in Asker \ {r} : SameWork(q), E.at # "insert",
           posts' = posts,
           \/ rows' \subseteq rows
           \/ /\ rows' = rows \cup {R}
              /\ asker[r].at = "insert" /\ R.id = asker[r].id
    PROVE  IdsAreOwn' /\ \A q \in Asker : InBounds(asker[q])'
<1>2. ASSUME NEW q \in Asker \ {r}, asker'[q].at = "insert"
      PROVE  asker[q].at = "insert" /\ asker'[q].id = asker[q].id
  BY <1>2 DEF SameWork
<1>3. \A q \in Asker : InBounds(asker[q])'
  BY DEF CountsInv, InBounds, SameWork
<1>4. IdsAreOwn'
  <2>1. \A m, n \in rows' : m.id = n.id => m = n
    BY DEF CountsInv, IdsAreOwn
  <2>2. ASSUME NEW p \in Asker, asker'[p].at = "insert"
        PROVE  /\ \A m \in rows' : m.id # asker'[p].id
               /\ \A q \in Asker \ {p} :
                     asker'[q].at = "insert" => asker'[q].id # asker'[p].id
    <3>1. p # r /\ asker[p].at = "insert" /\ asker'[p].id = asker[p].id
      BY <1>2, <2>2
    <3>2. \A m \in rows : m.id # asker[p].id
      BY <2>2, <3>1 DEF CountsInv, IdsAreOwn
    <3>3. asker[r].at = "insert" => asker[r].id # asker[p].id
      BY <2>2, <3>1 DEF CountsInv, IdsAreOwn
    <3>4. \A q \in Asker \ {p} : asker'[q].at = "insert" => asker'[q].id # asker'[p].id
      <4>1. ASSUME NEW q \in Asker \ {p}, asker'[q].at = "insert"
            PROVE  asker'[q].id # asker'[p].id
        <5>1. q # r /\ asker[q].at = "insert" /\ asker'[q].id = asker[q].id
          BY <1>2, <4>1
        <5> QED BY <2>2, <3>1, <4>1, <5>1 DEF CountsInv, IdsAreOwn
      <4> QED BY <4>1
    <3> QED BY <3>1, <3>2, <3>3, <3>4
  <2> QED BY <2>1, <2>2 DEF IdsAreOwn
<1> QED BY <1>3, <1>4

\* A step that disturbs requests, and begins one in N: it has an id of its own.
LEMMA OthersInBounds ==
    ASSUME UnreadInv, CountsInv, NEW N, rows' \subseteq rows,
           posts' \in Nat, posts' >= posts, \A p, q \in N : p = q,
           \A q \in Asker \ N : SameWork(q),
           \A q \in Asker \cap N : /\ InBounds(asker[q])'
                                   /\ asker'[q].at = "insert" =>
                                         asker'[q].id = posts + 1
    PROVE  IdsAreOwn' /\ \A q \in Asker : InBounds(asker[q])'
<1>0. posts \in Nat
  BY UnreadAssumption DEF CountsInv, UnreadTypeOK
<1>1. \A q \in Asker : InBounds(asker[q])'
  BY SameWorkInBounds
<1>2. \A m \in rows : m.id \in Nat /\ m.id <= posts
  BY DEF UnreadInv, UnreadType, IdsArePosts
<1>3. ASSUME NEW q \in Asker \ N, asker'[q].at = "insert"
      PROVE  /\ asker[q].at = "insert" /\ asker'[q].id = asker[q].id
             /\ asker[q].id \in Nat /\ asker[q].id <= posts
  BY <1>0, <1>3 DEF SameWork, CountsInv, InBounds
<1>4. ASSUME NEW p \in Asker, asker'[p].at = "insert"
      PROVE  /\ \A m \in rows' : m.id # asker'[p].id
             /\ \A q \in Asker \ {p} :
                   asker'[q].at = "insert" => asker'[q].id # asker'[p].id
  <2>1. CASE p \in N
    <3>1. asker'[p].id = posts + 1
      BY <1>4, <2>1
    <3>2. \A q \in Asker \ {p} : q \notin N
      BY <2>1
    <3> QED BY <1>0, <1>2, <1>3, <3>1, <3>2
  <2>2. CASE p \notin N
    <3>1. /\ asker[p].at = "insert" /\ asker'[p].id = asker[p].id
          /\ asker[p].id \in Nat /\ asker[p].id <= posts
      BY <1>3, <1>4, <2>2
    <3>2. \A m \in rows : m.id # asker[p].id
      BY <3>1 DEF CountsInv, IdsAreOwn
    <3>3. ASSUME NEW q \in Asker \ {p}, asker'[q].at = "insert"
          PROVE  asker'[q].id # asker'[p].id
      <4>1. CASE q \in N
        BY <1>0, <3>1, <3>3, <4>1
      <4>2. CASE q \notin N
        BY <1>3, <3>1, <3>3, <4>2 DEF CountsInv, IdsAreOwn
      <4> QED BY <4>1, <4>2
    <3> QED BY <3>1, <3>2, <3>3
  <2> QED BY <2>1, <2>2
<1>5. IdsAreOwn'
  <2>1. \A m, n \in rows' : m.id = n.id => m = n
    BY DEF CountsInv, IdsAreOwn
  <2> QED BY <1>4, <2>1 DEF IdsAreOwn
<1> QED BY <1>1, <1>5

\* The request that begins, among the others.
LEMMA StartInBounds ==
    ASSUME UnreadInv, TellInv, CountsInv, NEW r \in Asker, NEW request,
           Start(r, request), rows' = rows, posts' \in Nat, posts' >= posts,
           \/ /\ request.at = "insert"
              /\ request.id = posts + 1 /\ posts' = posts + 1
              /\ request.ts \in Second
           \/ request.at = "mark" /\ request.ts \in 0 .. MaxSecond + 1
    PROVE  IdsAreOwn' /\ \A q \in Asker : InBounds(asker[q])'
<1>1. asker'[r] = request /\ \A q \in Asker \ {r} : SameWork(q)
  BY OthersSameWork DEF Start
<1>2. posts \in Nat
  BY UnreadAssumption DEF CountsInv, UnreadTypeOK
<1>3. InBounds(request)'
  <2>1. posts' = posts + 1 => posts + 1 \in 1 .. posts'
    BY <1>2
  <2> QED BY <2>1 DEF InBounds
<1>4. InBounds(asker[r])' /\ (asker'[r].at = "insert" => asker'[r].id = posts + 1)
  BY <1>1, <1>3 DEF InBounds
<1>5. PICK N : N = {r}
  OBVIOUS
<1> QED BY <1>1, <1>4, <1>5, OthersInBounds

\* The counts and the bounds, where a step leaves the clock, the history and the
\* numbers of posts and marks alone.
LEMMA CountsGoOn ==
    ASSUME CountsInv, UNCHANGED <<second, posts, marks, news, ahead>>,
           rows' \subseteq Message, pointers' \in [Reader -> 0 .. MaxSecond + 1],
           told' \in [Reader -> 0 .. MaxPosts], informed' \subseteq Reader,
           untold' \subseteq Reader, overtaken' \subseteq Reader,
           IdsAreOwn', \A q \in Asker : InBounds(asker[q])'
    PROVE  CountsInv'
<1>1. \A q \in Asker : asker'[q].at \in
         {"idle", "insert", "point", "tell", "count", "send", "mark", "clear"}
  BY DEF InBounds
<1> QED BY <1>1 DEF CountsInv, UnreadTypeOK

\* A message stamped, and a pointer to be moved.
LEMMA BeginningCounts ==
    ASSUME UnreadInv, TellInv, CountsInv, NEW r \in Asker, NEW u \in Reader,
           \/ Post(r, u)
           \/ \E ts \in 0 .. MaxSecond + 1 : Mark(r, u, ts)
    PROVE  CountsInv'
<1>1. /\ second \in Second /\ posts \in 0 .. MaxPosts /\ marks \in 0 .. MaxMarks
      /\ news \in [Reader -> SUBSET Id]
  BY DEF CountsInv, UnreadTypeOK
<1>2. CASE Post(r, u)
  <2>1. PICK request : request = [at |-> "insert", user |-> u, id |-> posts + 1,
                                  ts |-> second]
    OBVIOUS
  <2>2. request.at = "insert" /\ request.ts = second /\ request.id = posts + 1
    BY <2>1
  <2>3. /\ Start(r, request) /\ posts < MaxPosts /\ posts' = posts + 1
        /\ UNCHANGED <<second, rows, pointers, told, marks, ahead, histories>>
        /\ news' = [v \in Reader |-> IF v = u THEN {} ELSE news[v] \cup {posts + 1}]
    BY <1>2, <2>1 DEF Post
  <2>4. posts' \in 0 .. MaxPosts /\ posts + 1 \in Id /\ posts' \in Nat /\ posts' >= posts
    BY <1>1, <2>3, UnreadAssumption DEF Id
  <2>5. news' \in [Reader -> SUBSET Id]
    BY <1>1, <2>3, <2>4
  <2>7. IdsAreOwn' /\ \A q \in Asker : InBounds(asker[q])'
    BY <1>1, <2>2, <2>3, <2>4, StartInBounds
  <2>8. \A q \in Asker : asker'[q].at \in
           {"idle", "insert", "point", "tell", "count", "send", "mark", "clear"}
    BY <2>7 DEF InBounds
  <2> QED BY <2>3, <2>4, <2>5, <2>7, <2>8 DEF CountsInv, UnreadTypeOK, histories
<1>3. ASSUME NEW ts \in 0 .. MaxSecond + 1, Mark(r, u, ts)
      PROVE  CountsInv'
  <2>1. PICK request : request = [at |-> "mark", user |-> u, ts |-> ts]
    OBVIOUS
  <2>2. request.at = "mark" /\ request.ts = ts
    BY <2>1
  <2>3. /\ Start(r, request) /\ marks < MaxMarks /\ marks' = marks + 1
        /\ UNCHANGED <<second, rows, pointers, told, posts, histories>>
        /\ news' = [news EXCEPT ![u] = {}]
        /\ ahead' = ahead \cup {u} \/ ahead' = ahead
    BY <1>3, <2>1 DEF Mark
  <2>4. marks' \in 0 .. MaxMarks /\ posts' \in Nat /\ posts' >= posts
    BY <1>1, <2>3, UnreadAssumption
  <2>5. news' \in [Reader -> SUBSET Id]
    BY <1>1, <2>3
  <2>7. IdsAreOwn' /\ \A q \in Asker : InBounds(asker[q])'
    BY <2>2, <2>3, <2>4, StartInBounds
  <2>8. \A q \in Asker : asker'[q].at \in
           {"idle", "insert", "point", "tell", "count", "send", "mark", "clear"}
    BY <2>7 DEF InBounds
  <2>9. ahead' \subseteq Reader
    BY <2>3 DEF CountsInv, UnreadTypeOK
  <2> QED BY <2>3, <2>4, <2>5, <2>7, <2>8, <2>9
         DEF CountsInv, UnreadTypeOK, histories
<1> QED BY <1>2, <1>3

\* A request of a step has its user, and the fields of its step.
LEMMA RequestFields ==
    ASSUME UnreadInv, TellInv, CountsInv, NEW r \in Asker
    PROVE  /\ DOMAIN asker = Asker /\ InBounds(asker[r]) /\ "at" \in DOMAIN asker[r]
           /\ asker[r].at \in {"insert", "point", "count", "send", "mark"} =>
                 "ts" \in DOMAIN asker[r]
           /\ asker[r].at \in {"insert", "point", "count", "send", "mark", "clear"} =>
                 asker[r].user \in Reader
  BY DEF UnreadInv, UnreadType, TellInv, WellMade, CountsInv

\* A message comes into the table as it was stamped.
LEMMA InsertingCounts ==
    ASSUME UnreadInv, TellInv, CountsInv, NEW r \in Asker, InsertRow(r)
    PROVE  CountsInv'
<1>1. PICK u, ts, id : u = asker[r].user /\ ts = asker[r].ts /\ id = asker[r].id
  OBVIOUS
<1>2. /\ asker[r].at = "insert" /\ u \in Reader /\ ts \in Second /\ id \in 1 .. posts
      /\ posts \in 0 .. MaxPosts
  BY <1>1, RequestFields DEF InsertRow, InBounds, CountsInv, UnreadTypeOK
<1>3. PICK R \in Message : R = [id |-> id, author |-> u, at |-> ts] /\ R.id = id
  <2>1. id \in Id
    BY <1>2, UnreadAssumption DEF Id
  <2>2. [id |-> id, author |-> u, at |-> ts] \in Message
    BY <1>2, <2>1 DEF Message
  <2> QED BY <2>2
<1>4. PICK E : E = [at |-> "point", user |-> u, ts |-> ts]
  OBVIOUS
<1>5. InBounds(E) /\ E.at = "point"
  BY <1>2, <1>4, UnreadAssumption DEF InBounds, Second
<1>6. /\ rows' = rows \cup {R} /\ asker' = [Outdated EXCEPT ![r] = E]
      /\ informed' \subseteq informed /\ untold' \subseteq untold
      /\ overtaken' = overtaken
      /\ UNCHANGED <<second, pointers, told, posts, marks, news, ahead>>
  BY <1>1, <1>3, <1>4, RequestFields DEF InsertRow
<1>7. IdsAreOwn' /\ \A q \in Asker : InBounds(asker[q])'
  <2>1. asker'[r] = E /\ \A q \in Asker \ {r} : SameWork(q)
    BY <1>6, OthersSameWork
  <2> QED BY <1>1, <1>2, <1>3, <1>5, <1>6, <2>1, RequestInBounds
<1>8. /\ rows' \subseteq Message /\ informed' \subseteq Reader
      /\ untold' \subseteq Reader /\ overtaken' \subseteq Reader
  BY <1>3, <1>6 DEF CountsInv, UnreadTypeOK
<1> QED BY <1>6, <1>7, <1>8, CountsGoOn DEF CountsInv, UnreadTypeOK

\* A request that goes on to its next step, and what it writes or sends.
LEMMA RequestCounts ==
    ASSUME UnreadInv, TellInv, CountsInv, NEW r \in Asker, NEW E,
           \/ asker' = [asker EXCEPT ![r] = E]
           \/ asker' = [Outdated EXCEPT ![r] = E],
           InBounds(E), E.at # "insert",
           UNCHANGED <<second, rows, posts, marks, news, ahead>>,
           informed' \subseteq Reader, untold' \subseteq Reader,
           overtaken' \subseteq Reader,
           \/ pointers' = pointers
           \/ \E u \in Reader, ts \in 0 .. MaxSecond + 1 :
                 pointers' = [pointers EXCEPT ![u] = ts],
           \/ told' = told
           \/ \E u \in Reader, n \in 0 .. MaxPosts : told' = [told EXCEPT ![u] = n]
    PROVE  CountsInv'
<1>1. /\ pointers' \in [Reader -> 0 .. MaxSecond + 1]
      /\ told' \in [Reader -> 0 .. MaxPosts] /\ rows' \subseteq Message
  BY DEF CountsInv, UnreadTypeOK
<1>2. PICK R : R = {}
  OBVIOUS
<1>3. IdsAreOwn' /\ \A q \in Asker : InBounds(asker[q])'
  <2>1. asker'[r] = E /\ \A q \in Asker \ {r} : SameWork(q)
    BY OthersSameWork
  <2> QED BY <1>2, <2>1, RequestInBounds
<1> QED BY <1>1, <1>3, CountsGoOn

\* The steps of a request that is under way.
LEMMA WorkingCounts ==
    ASSUME UnreadInv, TellInv, CountsInv, NEW r \in Asker,
           \/ PointAuthor(r) \/ ReadPointer(r) \/ CountRows(r) \/ SendCount(r)
           \/ MovePointer(r) \/ SendZero(r) \/ WriteError(r) \/ CountError(r)
    PROVE  CountsInv'
<1>0. 0 \in 0 .. MaxPosts
  BY UnreadAssumption
<1>H. informed' \subseteq Reader /\ untold' \subseteq Reader /\ overtaken' \subseteq Reader
  <2>1. /\ informed \subseteq Reader /\ untold \subseteq Reader /\ overtaken \subseteq Reader
        /\ Recounted \subseteq Reader
    BY DEF CountsInv, UnreadTypeOK, Recounted
  <2>2. asker[r].at \in {"point", "count", "send", "mark", "clear"} => asker[r].user \in Reader
    BY RequestFields
  <2> QED BY <2>1, <2>2 DEF PointAuthor, ReadPointer, CountRows, SendCount, MovePointer,
             SendZero, WriteError, CountError, SendUnread, histories
<1>1. PICK u, ts : u = asker[r].user /\ ts = asker[r].ts
  OBVIOUS
<1>2. ASSUME NEW members, Tell(r, members)
      PROVE  \E E : asker' = [asker EXCEPT ![r] = E] /\ InBounds(E) /\ E.at = "tell"
  <2>1. PICK E : E = [at |-> "tell", left |-> members]
    OBVIOUS
  <2>2. E.at = "tell"
    BY <2>1
  <2> QED BY <1>2, <2>1, <2>2, RequestFields DEF Tell, InBounds
<1>3. ASSUME Finish(r)
      PROVE  \E E : asker' = [asker EXCEPT ![r] = E] /\ InBounds(E) /\ E.at = "idle"
  <2>1. NoAsker.at = "idle"
    BY DEF NoAsker
  <2> QED BY <1>3, <2>1 DEF Finish, InBounds
<1>4. CASE PointAuthor(r)
  <2>0. PICK E : E = [at |-> "tell", left |-> Reader \ {u}]
    OBVIOUS
  <2>1. /\ asker[r].at = "point" /\ asker' = [Outdated EXCEPT ![r] = E]
        /\ pointers' = [pointers EXCEPT ![u] = ts]
        /\ UNCHANGED <<second, rows, told, posts, marks, news, ahead>>
    BY <1>1, <1>4, <2>0 DEF PointAuthor, SetPointer
  <2>2. u \in Reader /\ ts \in 0 .. MaxSecond + 1
    BY <1>1, <2>1, RequestFields DEF InBounds
  <2>3. InBounds(E) /\ E.at = "tell"
    BY <2>0 DEF InBounds
  <2> QED BY <1>H, <2>1, <2>2, <2>3, RequestCounts
<1>5. CASE ReadPointer(r)
  <2>1. UNCHANGED <<second, rows, pointers, told, posts, marks, news, ahead>>
    BY <1>5 DEF ReadPointer
  <2>2. ASSUME NEW v \in asker[r].left,
               asker' = [asker EXCEPT ![r] =
                            [at |-> "count", user |-> v, ts |-> pointers[v],
                             left |-> @.left \ {v}, stale |-> FALSE]]
        PROVE  \E E : asker' = [asker EXCEPT ![r] = E] /\ InBounds(E) /\ E.at = "count"
    <3>1. PICK E : E = [at |-> "count", user |-> v, ts |-> pointers[v],
                        left |-> asker[r].left \ {v}, stale |-> FALSE]
      OBVIOUS
    <3>2. E.at = "count"
      BY <3>1
    <3> QED BY <2>2, <3>1, <3>2, RequestFields DEF InBounds
  <2>3. PICK E : /\ asker' = [asker EXCEPT ![r] = E] /\ InBounds(E)
                 /\ E.at \in {"idle", "count"}
    BY <1>3, <1>5, <2>2 DEF ReadPointer
  <2> QED BY <1>H, <2>1, <2>3, RequestCounts
<1>6. CASE CountRows(r)
  <2>1. PICK n : n = Cardinality(Counted(u, ts))
    OBVIOUS
  <2>2. n \in 0 .. MaxPosts
    <3>1. Counted(u, ts) \in SUBSET rows
      BY DEF Counted
    <3>2. \A S \in SUBSET rows : Cardinality(S) \in 0 .. MaxPosts
      BY RowsAreFew
    <3> QED BY <2>1, <3>1, <3>2
  <2>3. PICK E : E = [[asker[r] EXCEPT !.at = "send"] EXCEPT !.ts = n]
    OBVIOUS
  <2>4. /\ asker[r].at = "count" /\ asker' = [asker EXCEPT ![r] = E]
        /\ UNCHANGED <<second, rows, pointers, told, posts, marks, news, ahead>>
    BY <1>1, <1>6, <2>1, <2>3, RequestFields DEF CountRows
  <2>5. E.at = "send" /\ E.ts = n
    BY <2>3, <2>4, RequestFields
  <2>6. InBounds(E)
    BY <2>2, <2>5 DEF InBounds
  <2> QED BY <1>H, <2>4, <2>5, <2>6, RequestCounts
<1>7. CASE SendCount(r)
  <2>1. /\ asker[r].at = "send" /\ Tell(r, asker[r].left)
        /\ told' = [told EXCEPT ![u] = ts]
        /\ UNCHANGED <<second, rows, pointers, posts, marks, news, ahead>>
    BY <1>1, <1>7 DEF SendCount, SendUnread
  <2>2. u \in Reader /\ ts \in 0 .. MaxPosts
    BY <1>1, <2>1, RequestFields DEF InBounds
  <2>3. PICK E : asker' = [asker EXCEPT ![r] = E] /\ InBounds(E) /\ E.at = "tell"
    BY <1>2, <2>1
  <2> QED BY <1>H, <2>1, <2>2, <2>3, RequestCounts
<1>8. CASE MovePointer(r)
  <2>1. PICK E : E = [at |-> "clear", user |-> u, stale |-> u \in Behind']
    OBVIOUS
  <2>2. /\ asker[r].at = "mark" /\ asker' = [Outdated EXCEPT ![r] = E]
        /\ pointers' = [pointers EXCEPT ![u] = ts]
        /\ UNCHANGED <<second, rows, told, posts, marks, news, ahead>>
    BY <1>1, <1>8, <2>1 DEF MovePointer, SetPointer, MoveTo
  <2>3. u \in Reader /\ ts \in 0 .. MaxSecond + 1
    BY <1>1, <2>2, RequestFields DEF InBounds
  <2>4. InBounds(E) /\ E.at = "clear"
    BY <2>1 DEF InBounds
  <2> QED BY <1>H, <2>2, <2>3, <2>4, RequestCounts
<1>9. CASE SendZero(r)
  <2>1. /\ asker[r].at = "clear" /\ Finish(r)
        /\ told' = [told EXCEPT ![u] = 0]
        /\ UNCHANGED <<second, rows, pointers, posts, marks, news, ahead>>
    BY <1>1, <1>9 DEF SendZero, SendUnread
  <2>2. u \in Reader
    BY <1>1, <2>1, RequestFields
  <2>3. PICK E : asker' = [asker EXCEPT ![r] = E] /\ InBounds(E) /\ E.at = "idle"
    BY <1>3, <2>1
  <2> QED BY <1>0, <1>H, <2>1, <2>2, <2>3, RequestCounts
<1>10. CASE WriteError(r) \/ CountError(r)
  <2>1. /\ UNCHANGED <<second, rows, pointers, told, posts, marks, news, ahead>>
        /\ Finish(r) \/ Tell(r, asker[r].left)
    BY <1>10 DEF WriteError, CountError
  <2>2. PICK E : /\ asker' = [asker EXCEPT ![r] = E] /\ InBounds(E)
                 /\ E.at \in {"idle", "tell"}
    BY <1>2, <1>3, <2>1
  <2> QED BY <1>H, <2>1, <2>2, RequestCounts
<1> QED BY <1>4, <1>5, <1>6, <1>7, <1>8, <1>9, <1>10

\* No step leaves the bounds.
LEMMA CountsStep ==
    ASSUME UnreadInv, TellInv, CountsInv, [UnreadNext]_unreadVars
    PROVE  CountsInv'
<1>1. CASE Pass
  <2>1. /\ second < MaxSecond /\ second' = second + 1
        /\ UNCHANGED <<rows, pointers, asker, told, posts, marks, news, ahead, histories>>
    BY <1>1 DEF Pass
  <2>2. second' \in Second
    BY <2>1, UnreadAssumption DEF CountsInv, UnreadTypeOK, Second
  <2> QED BY <2>1, <2>2 DEF CountsInv, UnreadTypeOK, IdsAreOwn, InBounds, histories
<1>2. ASSUME NEW r \in Asker, NEW u \in Reader,
             NEW ts \in {0, second, second + 1} \cup {m.at : m \in rows},
             Mark(r, u, ts)
      PROVE  CountsInv'
  <2>1. /\ second \in 0 .. MaxSecond + 1 /\ second + 1 \in 0 .. MaxSecond + 1
        /\ \A m \in rows : m.at \in 0 .. MaxSecond + 1
    BY UnreadAssumption DEF CountsInv, UnreadTypeOK, Message, Second
  <2>2. ts \in 0 .. MaxSecond + 1
    BY <2>1, UnreadAssumption
  <2> QED BY <1>2, <2>2, BeginningCounts
<1>3. ASSUME NEW m \in rows, DeleteRow(m) PROVE CountsInv'
  <2>1. /\ rows' = rows \ {m} /\ informed' \subseteq informed
        /\ untold' = untold \cup Recounted /\ overtaken' = overtaken
        /\ UNCHANGED <<second, pointers, told, posts, marks, news, ahead>>
    BY <1>3 DEF DeleteRow
  <2>2. \A q \in Asker : SameWork(q)
    BY <1>3, OutdatedSameWork DEF DeleteRow
  <2>3. PICK N : N = {}
    OBVIOUS
  <2>4. posts' \in Nat /\ posts' >= posts
    BY <2>1, UnreadAssumption DEF CountsInv, UnreadTypeOK
  <2>5. IdsAreOwn' /\ \A q \in Asker : InBounds(asker[q])'
    BY <2>1, <2>2, <2>3, <2>4, OthersInBounds
  <2>6. /\ rows' \subseteq Message /\ informed' \subseteq Reader
        /\ untold' \subseteq Reader /\ overtaken' \subseteq Reader
    BY <2>1 DEF CountsInv, UnreadTypeOK, Recounted
  <2> QED BY <2>1, <2>5, <2>6, CountsGoOn DEF CountsInv, UnreadTypeOK
<1>4. CASE UNCHANGED unreadVars
  BY <1>4 DEF unreadVars, CountsInv, UnreadTypeOK, IdsAreOwn, InBounds
<1> QED BY <1>1, <1>2, <1>3, <1>4, BeginningCounts, InsertingCounts, WorkingCounts
           DEF UnreadNext

\* Whatever is posted, marked, deleted and counted at once: no count that is told
\* exceeds the messages that may be posted, for each has a row of its own (api.rs
\* post_message, reads.rs unread_count); the rest are the types of the requests.
THEOREM UnreadTypesHold == UnreadSpec => []UnreadTypeOK
<1>1. UnreadInit => UnreadInv /\ TellInv
  BY UnreadStarts
<1>2. UnreadInit => CountsInv
  <2> SUFFICES ASSUME UnreadInit PROVE CountsInv
    OBVIOUS
  <2>1. \A r \in Asker : asker[r].at = "idle"
    BY DEF UnreadInit, NoAsker
  <2>2. UnreadTypeOK
    BY <2>1, UnreadAssumption DEF UnreadInit, UnreadTypeOK, Second
  <2> QED BY <2>1, <2>2 DEF UnreadInit, CountsInv, IdsAreOwn, InBounds
<1>3. /\ UnreadInv /\ TellInv /\ CountsInv
      /\ [UnreadNext]_unreadVars
      => UnreadInv' /\ TellInv' /\ CountsInv'
  BY UnreadStep, TellStep, CountsStep
<1>4. CountsInv => UnreadTypeOK
  BY DEF CountsInv
<1> QED BY <1>1, <1>2, <1>3, <1>4, PTL DEF UnreadSpec

-----------------------------------------------------------------------------
(* Pages.                                                                  *)

Before(m, n) == Precedes(m, n.at, n.id)

RowsType ==
    /\ clock \in 1 .. MaxClock
    /\ stored \subseteq StoredMessage /\ IsFiniteSet(stored)
    /\ \A m, n \in stored : m.id = n.id => m = n
    /\ \A m \in stored : m.id \notin unused
    /\ steady \subseteq stored
    /\ got \in [MessageId -> Nat]
    /\ \A i \in MessageId : i \in unused => got[i] = 0
    /\ page.ts \in 1 .. End /\ page.id \in Nil .. MaxIds
    /\ DOMAIN page = {"at", "ts", "id"}
    /\ page = [at |-> page.at, ts |-> page.ts, id |-> page.id]
    /\ page.at \in {"idle", "cursor", "read", "over"}
    /\ unused \subseteq MessageId
    /\ skipped \subseteq 1 .. MaxClock /\ spoiled \in BOOLEAN

\* The client has been sent what comes after this cursor, and nothing else.
SentUpTo(ts, id) ==
    \A m \in stored :
        /\ Precedes(m, ts, id) => got[m.id] = 0
        /\ m \in steady /\ m.at \notin skipped /\ ~Precedes(m, ts, id) =>
              got[m.id] = 1

\* The cursor of the page under way is the end of what was sent.
CursorIsTheEnd ==
    /\ page.at = "idle" => page.ts = End /\ \A i \in MessageId : got[i] = 0
    /\ page.at \in {"idle", "read"} => SentUpTo(page.ts, page.id)
    /\ page.at = "cursor" =>
          /\ page.id \notin unused
          /\ \A m \in stored : m.id = page.id => SentUpTo(m.at, m.id)

PagesInv ==
    /\ RowsType
    /\ ~spoiled => CursorIsTheEnd /\ PagesAreComplete

-----------------------------------------------------------------------------
\* The order of the pages is a strict order of seconds and ids, ...
LEMMA BeforeIsOrder ==
    /\ \A m \in StoredMessage : ~Before(m, m)
    /\ \A m, n \in StoredMessage : m = n \/ Before(m, n) \/ Before(n, m)
    /\ \A m, n, o \in StoredMessage :
          Before(m, n) /\ Before(n, o) => Before(m, o)
<1>1. \A m \in StoredMessage :
         /\ m.at \in Int /\ m.id \in Int /\ m = [id |-> m.id, at |-> m.at]
  BY PagingAssumption DEF StoredMessage, MessageId
<1>2. \A m, n \in StoredMessage : m.at = n.at /\ m.id = n.id => m = n
  BY <1>1
<1> QED BY <1>1, <1>2 DEF Before, Precedes

\* ... in which finitely many messages have a last one ...
LEMMA LastExists ==
    ASSUME NEW Q \in SUBSET StoredMessage, IsFiniteSet(Q), Q # {}
    PROVE  \E m \in Q : \A n \in Q : n = m \/ Before(n, m)
<1> DEFINE After(m) == {n \in Q : Before(m, n)}
           Afters == {After(m) : m \in Q}
<1>1. Afters \subseteq FiniteSubsetsOf(Q) /\ Afters # {}
  <2>1. \A m \in Q : After(m) \in SUBSET Q /\ IsFiniteSet(After(m))
    BY FS_Subset
  <2> QED BY <2>1 DEF FiniteSubsetsOf
<1>2. PICK A \in Afters : \A B \in Afters : <<B, A>> \notin StrictSubsetOrdering(Q)
  BY <1>1, FS_StrictSubsetOrderingWellFounded, WFMin
<1>3. PICK m \in Q : A = After(m)
  BY <1>2
<1>4. ASSUME NEW n \in Q, Before(m, n)
      PROVE  FALSE
  <2>1. After(n) \subseteq After(m)
    BY <1>4, BeforeIsOrder
  <2>2. n \in After(m) /\ n \notin After(n)
    BY <1>4, BeforeIsOrder
  <2>3. <<After(n), After(m)>> \in StrictSubsetOrdering(Q)
    BY <2>1, <2>2 DEF StrictSubsetOrdering
  <2> QED BY <1>2, <1>3, <2>3
<1> QED BY <1>4, BeforeIsOrder

\* ... and a first one.
LEMMA FirstExists ==
    ASSUME NEW Q \in SUBSET StoredMessage, IsFiniteSet(Q), Q # {}
    PROVE  \E m \in Q : \A n \in Q : n = m \/ Before(m, n)
<1> DEFINE Until(m) == {n \in Q : Before(n, m)}
           Untils == {Until(m) : m \in Q}
<1>1. Untils \subseteq FiniteSubsetsOf(Q) /\ Untils # {}
  <2>1. \A m \in Q : Until(m) \in SUBSET Q /\ IsFiniteSet(Until(m))
    BY FS_Subset
  <2> QED BY <2>1 DEF FiniteSubsetsOf
<1>2. PICK A \in Untils : \A B \in Untils : <<B, A>> \notin StrictSubsetOrdering(Q)
  BY <1>1, FS_StrictSubsetOrderingWellFounded, WFMin
<1>3. PICK m \in Q : A = Until(m)
  BY <1>2
<1>4. ASSUME NEW n \in Q, Before(n, m)
      PROVE  FALSE
  <2>1. Until(n) \subseteq Until(m)
    BY <1>4, BeforeIsOrder
  <2>2. n \in Until(m) /\ n \notin Until(n)
    BY <1>4, BeforeIsOrder
  <2>3. <<Until(n), Until(m)>> \in StrictSubsetOrdering(Q)
    BY <2>1, <2>2 DEF StrictSubsetOrdering
  <2> QED BY <1>2, <1>3, <2>3
<1> QED BY <1>4, BeforeIsOrder

\* What comes after a message of a page, and is not on an earlier one, is on
\* the page.
LEMMA NewestHasNoGap ==
    ASSUME NEW P \in SUBSET StoredMessage, IsFiniteSet(P),
           NEW l \in Newest(P), NEW m \in P, Before(l, m)
    PROVE  m \in Newest(P)
<1> DEFINE After(n) == {o \in P : Before(n, o)}
<1>1. l \in P /\ Cardinality(After(l)) < PageSize
  BY DEF Newest, Before
<1>2. After(m) \subseteq After(l)
  BY <1>1, BeforeIsOrder
<1>3. /\ IsFiniteSet(After(l)) /\ IsFiniteSet(After(m))
      /\ Cardinality(After(m)) <= Cardinality(After(l))
  <2>1. After(l) \in SUBSET P
    OBVIOUS
  <2>2. IsFiniteSet(After(l))
    BY <2>1, FS_Subset
  <2> QED BY <1>2, <2>2, FS_Subset
<1>4. Cardinality(After(m)) \in Int /\ Cardinality(After(l)) \in Int
  BY <1>3, FS_CardinalityType
<1>5. Cardinality(After(m)) < PageSize
  BY <1>1, <1>3, <1>4, PagingAssumption
<1> QED BY <1>5 DEF Newest, Before

\* A page that is not full holds all there is.
LEMMA ShortPageIsLast ==
    ASSUME NEW P \in SUBSET StoredMessage, IsFiniteSet(P),
           Cardinality(Newest(P)) < PageSize
    PROVE  Newest(P) = P
<1> DEFINE After(n) == {o \in P : Before(n, o)}
           Missed == P \ Newest(P)
<1>1. SUFFICES ASSUME Missed # {}
               PROVE  FALSE
  BY DEF Newest
<1>2. Missed \in SUBSET StoredMessage /\ IsFiniteSet(Missed)
  BY FS_Subset
<1>3. PICK m \in Missed : \A n \in Missed : n = m \/ Before(n, m)
  BY <1>1, <1>2, LastExists
<1>4. After(m) \subseteq Newest(P)
  BY <1>3, BeforeIsOrder
<1>5. IsFiniteSet(Newest(P))
  BY FS_Subset DEF Newest
<1>6. IsFiniteSet(After(m)) /\ Cardinality(After(m)) <= Cardinality(Newest(P))
  BY <1>4, <1>5, FS_Subset
<1>7. Cardinality(After(m)) \in Int /\ Cardinality(Newest(P)) \in Int
  BY <1>5, <1>6, FS_CardinalityType
<1>8. Cardinality(After(m)) < PageSize
  BY <1>6, <1>7, PagingAssumption
<1> QED BY <1>3, <1>8 DEF Newest, Before

-----------------------------------------------------------------------------
\* The types of what a page does to the number of times messages were sent.
LEMMA SentType ==
    ASSUME RowsType, NEW sent,
           got' = [i \in MessageId |->
                      IF \E m \in sent : m.id = i THEN got[i] + 1 ELSE got[i]]
    PROVE  /\ got' \in [MessageId -> Nat]
           /\ sent \subseteq stored =>
                 /\ \A i \in MessageId : i \in unused => got'[i] = 0
                 /\ \A m \in stored :
                       got'[m.id] = IF m \in sent THEN got[m.id] + 1 ELSE got[m.id]
<1>1. got' \in [MessageId -> Nat]
  BY DEF RowsType
<1>2. ASSUME sent \subseteq stored, NEW i \in MessageId, i \in unused
      PROVE  got'[i] = 0
  BY <1>2 DEF RowsType
<1>3. ASSUME sent \subseteq stored, NEW m \in stored
      PROVE  got'[m.id] = IF m \in sent THEN got[m.id] + 1 ELSE got[m.id]
  <2>1. m.id \in MessageId
    BY DEF RowsType, StoredMessage
  <2>2. m \in sent <=> \E n \in sent : n.id = m.id
    BY <1>3 DEF RowsType
  <2> QED BY <2>1, <2>2
<1> QED BY <1>1, <1>2, <1>3

\* A page is sent to the client, who goes on with the cursor it chooses.
LEMMA PageReadIsSound ==
    ASSUME PagesInv, ReadPage
    PROVE  PagesInv'
<1> DEFINE P == {m \in stored : Precedes(m, page.ts, page.id)}
           sent == PageBefore(page.ts, page.id)
<1>1. /\ sent = Newest(P) /\ sent \subseteq P /\ P \subseteq stored
      /\ P \in SUBSET StoredMessage /\ IsFiniteSet(P) /\ IsFiniteSet(sent)
  <2>1. sent = Newest(P)
    BY DEF PageBefore
  <2>2. sent \subseteq P
    BY <2>1 DEF Newest
  <2>3. P \in SUBSET stored
    OBVIOUS
  <2>4. IsFiniteSet(P)
    BY <2>3, FS_Subset DEF PagesInv, RowsType
  <2> QED BY <2>1, <2>2, <2>3, <2>4, FS_Subset DEF PagesInv, RowsType
<1>2. /\ page.at = "read"
      /\ UNCHANGED <<clock, stored, unused, steady, spoiled>>
      /\ got' = [i \in MessageId |->
                    IF \E m \in sent : m.id = i THEN got[i] + 1 ELSE got[i]]
  BY DEF ReadPage
<1>3. /\ got' \in [MessageId -> Nat]
      /\ \A i \in MessageId : i \in unused => got'[i] = 0
      /\ \A m \in stored :
            got'[m.id] = IF m \in sent THEN got[m.id] + 1 ELSE got[m.id]
  <2>1. PICK S : S = sent
    OBVIOUS
  <2>2. /\ RowsType /\ S \subseteq stored
        /\ got' = [i \in MessageId |->
                      IF \E m \in S : m.id = i THEN got[i] + 1 ELSE got[i]]
    BY <1>1, <1>2, <2>1 DEF PagesInv
  <2>3. /\ got' \in [MessageId -> Nat]
        /\ \A i \in MessageId : i \in unused => got'[i] = 0
        /\ \A m \in stored :
              got'[m.id] = IF m \in S THEN got[m.id] + 1 ELSE got[m.id]
    BY <2>2, SentType
  <2> QED BY <2>1, <2>3
<1>4. PICK last : last = CHOOSE m \in sent :
                             \A n \in sent : n = m \/ Precedes(m, n.at, n.id)
  OBVIOUS
<1>5. ASSUME Cardinality(sent) = PageSize
      PROVE  /\ last \in sent
             /\ \A n \in sent : n = last \/ Before(last, n)
  <2>1. sent # {}
    BY <1>5, FS_EmptySet, PagingAssumption
  <2>2. \E m \in sent : \A n \in sent : n = m \/ Before(m, n)
    BY <1>1, <2>1, FirstExists
  <2> QED BY <1>4, <2>2 DEF Before
<1>6. \/ /\ Cardinality(sent) < PageSize
         /\ page' = [page EXCEPT !.at = "over"]
         /\ UNCHANGED skipped
      \/ /\ Cardinality(sent) = PageSize
         /\ page' = [at |-> "cursor", ts |-> End, id |-> last.id]
         /\ UNCHANGED skipped
      \/ /\ Cardinality(sent) = PageSize
         /\ page' = [at |-> "read", ts |-> last.at, id |-> Nil]
         /\ skipped' = skipped \cup {last.at}
  BY <1>4 DEF ReadPage
<1>7. RowsType'
  <2>1. /\ page'.ts \in 1 .. End /\ page'.id \in Nil .. MaxIds
        /\ DOMAIN page' = {"at", "ts", "id"}
        /\ page' = [at |-> page'.at, ts |-> page'.ts, id |-> page'.id]
        /\ page'.at \in {"idle", "cursor", "read", "over"}
        /\ skipped' \subseteq 1 .. MaxClock
    <3>1. CASE page' = [page EXCEPT !.at = "over"] /\ skipped' = skipped
      BY <3>1 DEF PagesInv, RowsType
    <3>2. CASE Cardinality(sent) = PageSize
      <4>1. last \in StoredMessage
        BY <1>1, <1>5, <3>2
      <4>2. last.id \in MessageId /\ last.at \in 1 .. MaxClock
        BY <4>1 DEF StoredMessage
      <4>3. ASSUME page' = [at |-> "cursor", ts |-> End, id |-> last.id], skipped' = skipped
            PROVE  /\ page'.ts \in 1 .. End /\ page'.id \in Nil .. MaxIds
                   /\ DOMAIN page' = {"at", "ts", "id"}
                   /\ page' = [at |-> page'.at, ts |-> page'.ts, id |-> page'.id]
                   /\ page'.at = "cursor" /\ skipped' \subseteq 1 .. MaxClock
        BY <4>2, <4>3, PagingAssumption DEF End, Nil, MessageId, PagesInv, RowsType
      <4>4. ASSUME page' = [at |-> "read", ts |-> last.at, id |-> Nil],
                   skipped' = skipped \cup {last.at}
            PROVE  /\ page'.ts \in 1 .. End /\ page'.id \in Nil .. MaxIds
                   /\ DOMAIN page' = {"at", "ts", "id"}
                   /\ page' = [at |-> page'.at, ts |-> page'.ts, id |-> page'.id]
                   /\ page'.at = "read" /\ skipped' \subseteq 1 .. MaxClock
        BY <4>2, <4>4, PagingAssumption DEF End, Nil, PagesInv, RowsType
      <4> QED BY <1>6, <3>1, <4>3, <4>4
    <3> QED BY <1>6, <3>1, <3>2
  <2> QED BY <1>2, <1>3, <2>1 DEF PagesInv, RowsType
<1>8. ASSUME ~spoiled
      PROVE  (CursorIsTheEnd /\ PagesAreComplete)'
  <2>1. SentUpTo(page.ts, page.id) /\ \A i \in MessageId : got[i] <= 1
    BY <1>2, <1>8 DEF PagesInv, CursorIsTheEnd, PagesAreComplete
  <2>2. \A m \in stored : m.id \in MessageId /\ got[m.id] \in Nat
    BY DEF PagesInv, RowsType, StoredMessage
  <2>3. \A m \in sent : got[m.id] = 0 /\ got'[m.id] = 1
    BY <1>1, <1>3, <2>1, <2>2 DEF SentUpTo
  <2>4. \A m \in stored \ sent : got'[m.id] = got[m.id]
    BY <1>3
  <2>5. \A i \in MessageId : got'[i] <= 1
    <3>1. TAKE i \in MessageId
    <3>2. CASE \E m \in sent : m.id = i
      BY <2>3, <3>2
    <3>3. CASE ~ \E m \in sent : m.id = i
      BY <1>2, <2>1, <3>3
    <3> QED BY <3>2, <3>3
  <2>6. \A m \in stored \ P : m \in steady /\ m.at \notin skipped => got'[m.id] = 1
    BY <1>1, <2>1, <2>4 DEF SentUpTo
  <2>7. CASE page' = [page EXCEPT !.at = "over"] /\ skipped' = skipped
             /\ Cardinality(sent) < PageSize
    <3>1. sent = P
      BY <1>1, <2>7, ShortPageIsLast
    <3>2. page'.at = "over"
      BY <2>7 DEF PagesInv, RowsType
    <3>3. \A m \in steady : m.at \notin skipped => got'[m.id] = 1
      BY <2>3, <2>6, <3>1 DEF PagesInv, RowsType
    <3> QED BY <1>2, <2>5, <2>7, <3>2, <3>3 DEF CursorIsTheEnd, PagesAreComplete
  <2>8. ASSUME Cardinality(sent) = PageSize
        PROVE  /\ last \in sent /\ last \in StoredMessage
               /\ \A m \in stored : Before(m, last) => m \in P \ sent
               /\ \A m \in P \ sent : Before(m, last)
    <3>1. last \in sent /\ \A n \in sent : n = last \/ Before(last, n)
      BY <1>5, <2>8
    <3>2. ASSUME NEW m \in stored, Before(m, last)
          PROVE  m \in P \ sent
      <4>1. m \in StoredMessage /\ last \in StoredMessage
        BY <1>1, <3>1 DEF PagesInv, RowsType
      <4>2. m \in P
        <5>1. /\ m.at \in Int /\ m.id \in Int /\ last.at \in Int /\ last.id \in Int
              /\ page.ts \in Int /\ page.id \in Int
          BY <4>1, PagingAssumption DEF StoredMessage, MessageId, PagesInv, RowsType,
                                        End, Nil
        <5>2. Precedes(last, page.ts, page.id)
          BY <1>1, <3>1
        <5> QED BY <3>2, <5>1, <5>2 DEF Before, Precedes
      <4>3. m \notin sent
        BY <3>1, <3>2, <4>1, BeforeIsOrder
      <4> QED BY <4>2, <4>3
    <3>3. ASSUME NEW m \in P \ sent
          PROVE  Before(m, last)
      <4>1. m \in StoredMessage /\ last \in StoredMessage /\ m # last
        BY <1>1, <3>1
      <4>2. ~Before(last, m)
        BY <1>1, <3>1, NewestHasNoGap
      <4> QED BY <4>1, <4>2, BeforeIsOrder
    <3> QED BY <1>1, <3>1, <3>2, <3>3
  <2>9. ASSUME Cardinality(sent) = PageSize, skipped \subseteq skipped',
               NEW ts, NEW id,
               \A m \in stored : Precedes(m, ts, id) => Before(m, last),
               \A m \in stored : Before(m, last) /\ ~Precedes(m, ts, id) =>
                   m.at \in skipped'
        PROVE  SentUpTo(ts, id)'
    <3>1. ASSUME NEW m \in stored, Precedes(m, ts, id)
          PROVE  got'[m.id] = 0
      BY <2>1, <2>4, <2>8, <2>9, <3>1 DEF SentUpTo
    <3>2. ASSUME NEW m \in stored, m \in steady, m.at \notin skipped',
                 ~Precedes(m, ts, id)
          PROVE  got'[m.id] = 1
      <4>1. ~Before(m, last)
        BY <2>9, <3>2
      <4>2. m \in sent \/ m \in stored \ P
        BY <2>8, <2>9, <4>1
      <4> QED BY <2>3, <2>6, <2>9, <3>2, <4>2
    <3> QED BY <1>2, <3>1, <3>2 DEF SentUpTo, Precedes
  <2>10. CASE /\ Cardinality(sent) = PageSize
              /\ page' = [at |-> "cursor", ts |-> End, id |-> last.id]
              /\ skipped' = skipped
    <3>1. SentUpTo(last.at, last.id)'
      BY <2>9, <2>10 DEF Before
    <3>2. last.id \notin unused'
      BY <1>1, <1>2, <2>8, <2>10 DEF PagesInv, RowsType
    <3>3. \A m \in stored' : m.id = last.id => m = last
      BY <1>1, <1>2, <2>8, <2>10 DEF PagesInv, RowsType
    <3>4. page'.at = "cursor" /\ page'.id = last.id
      BY <2>10
    <3>5. \A m \in stored' : m.id = page'.id => SentUpTo(m.at, m.id)'
      BY <1>2, <3>1, <3>3, <3>4
    <3> QED BY <2>5, <3>2, <3>4, <3>5 DEF CursorIsTheEnd, PagesAreComplete
  <2>11. CASE /\ Cardinality(sent) = PageSize
              /\ page' = [at |-> "read", ts |-> last.at, id |-> Nil]
              /\ skipped' = skipped \cup {last.at}
    <3>1. \A m \in stored : m.at \in Int /\ m.id \in Int /\ m.id >= 1
      BY PagingAssumption DEF PagesInv, RowsType, StoredMessage, MessageId
    <3>2. last.at \in Int /\ last.id \in Int
      BY <2>8, <2>11, PagingAssumption DEF StoredMessage, MessageId
    <3>3. \A m \in stored : Precedes(m, last.at, Nil) => Before(m, last)
      BY <3>1, <3>2 DEF Precedes, Before, Nil
    <3>4. \A m \in stored : Before(m, last) /\ ~Precedes(m, last.at, Nil) =>
              m.at \in skipped'
      BY <2>11, <3>1, <3>2 DEF Precedes, Before, Nil
    <3>5. SentUpTo(last.at, Nil)'
      BY <2>9, <2>11, <3>3, <3>4
    <3>6. page'.at = "read" /\ page'.ts = last.at /\ page'.id = Nil
      BY <2>11
    <3> QED BY <2>5, <3>5, <3>6 DEF CursorIsTheEnd, PagesAreComplete
  <2> QED BY <1>6, <2>7, <2>10, <2>11
<1> QED BY <1>2, <1>7, <1>8 DEF PagesInv

-----------------------------------------------------------------------------
\* A message that is posted comes before the first page, or is not asked for.
LEMMA InsertIsSound ==
    ASSUME PagesInv, NEW i \in MessageId, Insert(i)
    PROVE  PagesInv'
<1>0. PICK taken \in 1 .. clock : stored' = stored \cup {[id |-> i, at |-> taken]}
  BY DEF Insert
<1>1. PICK new : new = [id |-> i, at |-> taken]
  OBVIOUS
<1>2. /\ i \in unused /\ stored' = stored \cup {new} /\ unused' = unused \ {i}
      /\ UNCHANGED <<clock, page, got, steady, skipped, spoiled>>
  BY <1>0, <1>1 DEF Insert
<1>3. new \in StoredMessage /\ new.id = i
  <2>1. taken \in 1 .. MaxClock
    BY PagingAssumption DEF PagesInv, RowsType
  <2> QED BY <1>1, <2>1 DEF StoredMessage
<1>4. IsFiniteSet(stored')
  BY <1>2, FS_AddElement DEF PagesInv, RowsType
<1>5. RowsType'
  BY <1>2, <1>3, <1>4 DEF PagesInv, RowsType
<1>6. got[i] = 0 /\ new \notin steady /\ new \notin stored
  BY <1>2, <1>3 DEF PagesInv, RowsType
<1>7. ASSUME NEW ts, NEW id, SentUpTo(ts, id)
      PROVE  SentUpTo(ts, id)'
  BY <1>2, <1>3, <1>6, <1>7 DEF SentUpTo, Precedes
<1>8. ASSUME ~spoiled
      PROVE  CursorIsTheEnd'
  <2>0. PICK ts, id : ts = page.ts /\ id = page.id
    OBVIOUS
  <2>1. page.at \in {"idle", "read"} => SentUpTo(ts, id)'
    BY <1>7, <1>8, <2>0 DEF PagesInv, CursorIsTheEnd
  <2>2. ASSUME page.at = "cursor", NEW m \in stored', m.id = page.id
        PROVE  SentUpTo(m.at, m.id)'
    <3>1. m \in stored
      BY <1>2, <1>3, <1>8, <2>2 DEF PagesInv, CursorIsTheEnd
    <3>2. SentUpTo(m.at, m.id)
      BY <1>8, <2>2, <3>1 DEF PagesInv, CursorIsTheEnd
    <3> QED BY <1>7, <3>2
  <2> QED BY <1>2, <1>8, <2>0, <2>1, <2>2 DEF PagesInv, CursorIsTheEnd
<1>9. ASSUME ~spoiled
      PROVE  PagesAreComplete'
  BY <1>2, <1>9 DEF PagesInv, PagesAreComplete
<1> QED BY <1>2, <1>5, <1>8, <1>9 DEF PagesInv

\* A message that is deleted is not asked for any more.
LEMMA RemoveIsSound ==
    ASSUME PagesInv, NEW m \in stored, Remove(m)
    PROVE  PagesInv'
<1>1. /\ stored' = stored \ {m} /\ steady' = steady \ {m}
      /\ UNCHANGED <<clock, unused, page, got, skipped, spoiled>>
  BY DEF Remove
<1>2. IsFiniteSet(stored')
  BY <1>1, FS_RemoveElement DEF PagesInv, RowsType
<1>3. RowsType'
  BY <1>1, <1>2 DEF PagesInv, RowsType
<1>4. ASSUME NEW ts, NEW id, SentUpTo(ts, id)
      PROVE  SentUpTo(ts, id)'
  BY <1>1, <1>4 DEF SentUpTo, Precedes
<1>5. ASSUME ~spoiled
      PROVE  CursorIsTheEnd'
  <2>0. PICK ts, id : ts = page.ts /\ id = page.id
    OBVIOUS
  <2>1. page.at \in {"idle", "read"} => SentUpTo(ts, id)'
    BY <1>4, <1>5, <2>0 DEF PagesInv, CursorIsTheEnd
  <2>2. ASSUME page.at = "cursor", NEW n \in stored', n.id = page.id
        PROVE  SentUpTo(n.at, n.id)'
    BY <1>1, <1>4, <1>5, <2>2 DEF PagesInv, CursorIsTheEnd
  <2> QED BY <1>1, <1>5, <2>0, <2>1, <2>2 DEF PagesInv, CursorIsTheEnd
<1>6. ASSUME ~spoiled
      PROVE  PagesAreComplete'
  BY <1>1, <1>6 DEF PagesInv, PagesAreComplete
<1> QED BY <1>1, <1>3, <1>5, <1>6 DEF PagesInv

\* The first page has nothing behind it.
LEMMA FirstIsSound ==
    ASSUME PagesInv, FirstPage
    PROVE  PagesInv'
<1>1. /\ page.at = "idle" /\ page' = [page EXCEPT !.at = "read"]
      /\ steady' = stored
      /\ UNCHANGED <<clock, stored, unused, got, skipped, spoiled>>
  BY DEF FirstPage
<1>2. page'.at = "read" /\ page'.ts = page.ts /\ page'.id = page.id
  BY <1>1 DEF PagesInv, RowsType
<1>3. RowsType'
  <2>1. DOMAIN page' = {"at", "ts", "id"}
        /\ page' = [at |-> page'.at, ts |-> page'.ts, id |-> page'.id]
    BY <1>1 DEF PagesInv, RowsType
  <2> QED BY <1>1, <1>2, <2>1 DEF PagesInv, RowsType
<1>4. ASSUME ~spoiled
      PROVE  (CursorIsTheEnd /\ PagesAreComplete)'
  <2>1. page.ts = End /\ \A i \in MessageId : got[i] = 0
    BY <1>1, <1>4 DEF PagesInv, CursorIsTheEnd
  <2>2. \A n \in stored : n.id \in MessageId /\ Precedes(n, End, page.id)
    BY PagingAssumption DEF PagesInv, RowsType, StoredMessage, Precedes, End
  <2>3. SentUpTo(page.ts, page.id)'
    BY <1>1, <2>1, <2>2 DEF SentUpTo, Precedes
  <2> QED BY <1>1, <1>2, <2>1, <2>3 DEF CursorIsTheEnd, PagesAreComplete
<1> QED BY <1>1, <1>3, <1>4 DEF PagesInv

\* A cursor that is there is resolved to where it stands.
LEMMA ResolveIsSound ==
    ASSUME PagesInv, ResolveCursor
    PROVE  PagesInv'
<1>1. /\ page.at = "cursor"
      /\ page' = [page EXCEPT !.at = "read", !.ts = CursorSecond(page.id)]
      /\ spoiled' = (spoiled \/ CursorSecond(page.id) = End)
      /\ UNCHANGED <<clock, stored, unused, got, steady, skipped>>
  BY DEF ResolveCursor
<1>2. CursorSecond(page.id) = End \/
        \E m \in stored : m.id = page.id /\ m.at = CursorSecond(page.id)
  BY DEF CursorSecond
<1>3. CursorSecond(page.id) \in 1 .. End
  BY <1>2, PagingAssumption DEF PagesInv, RowsType, StoredMessage, End
<1>4. /\ page'.at = "read" /\ page'.ts = CursorSecond(page.id)
      /\ page'.id = page.id
      /\ DOMAIN page' = {"at", "ts", "id"}
      /\ page' = [at |-> page'.at, ts |-> page'.ts, id |-> page'.id]
  BY <1>1 DEF PagesInv, RowsType
<1>5. RowsType'
  BY <1>1, <1>3, <1>4 DEF PagesInv, RowsType
<1>6. ASSUME ~spoiled'
      PROVE  (CursorIsTheEnd /\ PagesAreComplete)'
  <2>1. PICK m \in stored : m.id = page.id /\ m.at = CursorSecond(page.id)
    BY <1>1, <1>2, <1>6
  <2>2. SentUpTo(m.at, m.id)
    BY <1>1, <1>6, <2>1 DEF PagesInv, CursorIsTheEnd
  <2>3. SentUpTo(m.at, m.id)'
    BY <1>1, <2>2 DEF SentUpTo, Precedes
  <2>4. page'.ts = m.at /\ page'.id = m.id
    BY <1>4, <2>1
  <2>5. CursorIsTheEnd'
    BY <1>4, <2>3, <2>4 DEF CursorIsTheEnd
  <2>6. PagesAreComplete'
    BY <1>1, <1>4, <1>6 DEF PagesInv, PagesAreComplete
  <2> QED BY <2>5, <2>6
<1> QED BY <1>5, <1>6 DEF PagesInv

\* No step leaves the invariant.
LEMMA PagesStep ==
    ASSUME PagesInv, [PagingNext]_pagingVars
    PROVE  PagesInv'
<1>1. ASSUME UNCHANGED <<stored, unused, page, got, steady, skipped, spoiled>>,
             clock' \in 1 .. MaxClock
      PROVE  PagesInv'
  BY <1>1 DEF PagesInv, RowsType, CursorIsTheEnd, SentUpTo, PagesAreComplete,
              Precedes
<1>2. CASE NextSecond
  <2>1. clock' \in 1 .. MaxClock
    BY <1>2, PagingAssumption DEF NextSecond, PagesInv, RowsType
  <2> QED BY <1>1, <1>2, <2>1 DEF NextSecond
<1>3. CASE UNCHANGED pagingVars
  BY <1>1, <1>3 DEF pagingVars, PagesInv, RowsType
<1> QED BY <1>2, <1>3, InsertIsSound, RemoveIsSound, FirstIsSound,
           ResolveIsSound, PageReadIsSound DEF PagingNext

\* Where a client is in a room, and what it has been sent, at any time.
THEOREM PagesInvariant == PagingSpec => []PagesInv
<1>1. PagingInit => PagesInv
  <2> SUFFICES ASSUME PagingInit PROVE PagesInv
    OBVIOUS
  <2>1. RowsType
    <3>1. PICK f \in [MessageId -> Nat] : f = [i \in MessageId |-> 0]
      OBVIOUS
    <3>2. page = [at |-> "idle", ts |-> End, id |-> Nil] /\ got = f
      BY <3>1 DEF PagingInit
    <3>3. /\ DOMAIN page = {"at", "ts", "id"} /\ page.at = "idle"
          /\ page = [at |-> page.at, ts |-> page.ts, id |-> page.id]
          /\ page.ts \in 1 .. End /\ page.id \in Nil .. MaxIds
      BY <3>2, PagingAssumption DEF End, Nil
    <3>4. \A i \in MessageId : got[i] = 0
      BY <3>1, <3>2
    <3>5. /\ clock \in 1 .. MaxClock /\ unused = MessageId /\ stored = {}
          /\ steady = {} /\ skipped = {} /\ spoiled = FALSE
      BY PagingAssumption DEF PagingInit
    <3> QED BY <3>1, <3>2, <3>3, <3>4, <3>5, FS_EmptySet DEF RowsType
  <2>2. CursorIsTheEnd /\ PagesAreComplete
    BY DEF PagingInit, CursorIsTheEnd, PagesAreComplete, SentUpTo
  <2> QED BY <2>1, <2>2 DEF PagesInv
<1>2. PagesInv /\ [PagingNext]_pagingVars => PagesInv'
  BY PagesStep
<1> QED BY <1>1, <1>2, PTL DEF PagingSpec

\* A client's cursor is a second and an id there may be (messages.rs, the
\* cursor of list_messages), for any number of messages and seconds.
THEOREM PagingTypesHold == PagingSpec => []PagingTypeOK
<1>1. PagesInv => PagingTypeOK
  BY DEF PagesInv, RowsType, PagingTypeOK
<1> QED BY <1>1, PagesInvariant, PTL

\* Whatever is posted and deleted, however long the pages: every message that
\* stays is shown once, but for cursors that were deleted or are seconds.
THEOREM PagesStayComplete == PagingSpec => []PagesAreComplete
<1>1. PagesInv => PagesAreComplete
  BY DEF PagesInv, PagesAreComplete
<1> QED BY <1>1, PagesInvariant, PTL

=============================================================================
