---------------------------- MODULE ChatViewProofs ----------------------------
(***************************************************************************)
(* Proofs about the chat page of ChatView for any rooms, messages, texts,  *)
(* breaks and sockets: what the list shows, whatever races to fill it.     *)
(***************************************************************************)
EXTENDS ChatView, SelectionProofs

\* No element twice.
HasNoTwice(s) == \A i, j \in DOMAIN s : s[i] = s[j] => i = j

\* What is on its way to the page was stored before, histories for their room.
ComesFromTable ==
    /\ HasNoTwice(stored)
    /\ \A m \in Message : told[m] # "no" => m \in Range(stored)
    /\ \A m \in Mine : post[m] = "unsent" => m \notin Range(stored)
    /\ Range(wire) \subseteq Range(stored) /\ Range(unread) \subseteq Range(stored)
    /\ \A m \in Message : Has(list, Shown(m)) => m \in Range(stored)
    /\ \A i \in DOMAIN fetch :
          /\ HasNoTwice(fetch[i].msgs)
          /\ \A m \in Range(fetch[i].msgs) :
                m \in Range(stored) /\ RoomOf(m) = fetch[i].room

\* A message under way, of a text nothing else has, has its place in the list.
UnderWayIsListed ==
    \A m \in Mine : post[m] = "waiting" /\ Unique(m) =>
        Has(list, Temp(m)) \/ Has(list, Shown(m))

JoinsARoom == join # "none" => view # NoRoom

ViewInv ==
    /\ TypeOK /\ JoinsARoom /\ ComesFromTable
    /\ TempsAreUnderWay /\ UnderWayIsListed /\ SentIsShown
    /\ NoDoubles /\ NothingElseIsMissed

-----------------------------------------------------------------------------
(* Sequences.                                                              *)

\* What is in a sequence, by its places.
LEMMA RangeByPlace ==
    ASSUME NEW S, NEW s \in Seq(S)
    PROVE  /\ Range(s) \subseteq S
           /\ DOMAIN s = 1 .. Len(s)
           /\ \A i \in 1 .. Len(s) : s[i] \in Range(s)
           /\ \A x \in Range(s) : \E i \in 1 .. Len(s) : s[i] = x
<1>1. DOMAIN s = 1 .. Len(s) /\ \A i \in 1 .. Len(s) : s[i] \in S
  BY ElementOfSeq
<1> QED BY <1>1 DEF Range

\* What is in a sequence with one element more, and without its first.
LEMMA AppendRange ==
    ASSUME NEW S, NEW s \in Seq(S), NEW x \in S
    PROVE  /\ Append(s, x) \in Seq(S)
           /\ Range(Append(s, x)) = Range(s) \cup {x}
           /\ HasNoTwice(s) /\ x \notin Range(s) => HasNoTwice(Append(s, x))
<1>1. PICK t : t = Append(s, x)
  OBVIOUS
<1>2. /\ t \in Seq(S) /\ Len(t) = Len(s) + 1 /\ t[Len(s) + 1] = x
      /\ \A i \in 1 .. Len(s) : t[i] = s[i]
      /\ DOMAIN t = 1 .. Len(s) + 1 /\ DOMAIN s = 1 .. Len(s) /\ Len(s) \in Nat
  BY <1>1, AppendProperties
<1>3. Range(t) = Range(s) \cup {x}
  <2>1. ASSUME NEW i \in 1 .. Len(s) + 1 PROVE t[i] \in Range(s) \cup {x}
    <3>1. i \in 1 .. Len(s) \/ i = Len(s) + 1
      BY <1>2
    <3> QED BY <1>2, <3>1 DEF Range
  <2>2. ASSUME NEW i \in 1 .. Len(s) PROVE s[i] \in Range(t)
    <3>1. i \in 1 .. Len(s) + 1 /\ t[i] = s[i]
      BY <1>2
    <3> QED BY <1>2, <3>1 DEF Range
  <2>3. x \in Range(t)
    <3>1. Len(s) + 1 \in 1 .. Len(s) + 1
      BY <1>2
    <3> QED BY <1>2, <3>1 DEF Range
  <2> QED BY <1>2, <2>1, <2>2, <2>3 DEF Range
<1>4. ASSUME HasNoTwice(s), x \notin Range(s),
             NEW i \in DOMAIN t, NEW j \in DOMAIN t, t[i] = t[j]
      PROVE  i = j
  <2>1. i \in 1 .. Len(s) => t[i] = s[i] /\ s[i] # x
    BY <1>2, <1>4 DEF Range
  <2>2. j \in 1 .. Len(s) => t[j] = s[j] /\ s[j] # x
    BY <1>2, <1>4 DEF Range
  <2>3. CASE i \in 1 .. Len(s) /\ j \in 1 .. Len(s)
    BY <1>2, <1>4, <2>1, <2>2, <2>3 DEF HasNoTwice
  <2> QED BY <1>2, <1>4, <2>1, <2>2, <2>3
<1> QED BY <1>1, <1>2, <1>3, <1>4 DEF HasNoTwice

\* What is in a sequence is its first element or in its tail.
LEMMA TailRange ==
    ASSUME NEW S, NEW s \in Seq(S), s # <<>>
    PROVE  /\ Tail(s) \in Seq(S) /\ Head(s) \in S
           /\ Range(s) = Range(Tail(s)) \cup {Head(s)}
<1>1. PICK t : t = Tail(s)
  OBVIOUS
<1>2. /\ t \in Seq(S) /\ Head(s) = s[1] /\ Head(s) \in S /\ Len(t) = Len(s) - 1
      /\ \A i \in 1 .. Len(t) : t[i] = s[i + 1]
      /\ DOMAIN t = 1 .. Len(t) /\ DOMAIN s = 1 .. Len(s) /\ Len(s) \in Nat \ {0}
  BY <1>1, HeadTailProperties, EmptySeq
<1>3. ASSUME NEW i \in 1 .. Len(s) PROVE s[i] \in Range(t) \cup {Head(s)}
  <2>1. CASE i = 1
    BY <1>2, <2>1
  <2>2. CASE i # 1
    <3>1. i - 1 \in 1 .. Len(t) /\ t[i - 1] = s[(i - 1) + 1] /\ (i - 1) + 1 = i
      BY <1>2, <2>2
    <3> QED BY <1>2, <3>1 DEF Range
  <2> QED BY <2>1, <2>2
<1>4. ASSUME NEW i \in 1 .. Len(t) PROVE t[i] \in Range(s)
  <2>1. i + 1 \in 1 .. Len(s)
    BY <1>2
  <2> QED BY <1>2, <2>1 DEF Range
<1>5. Head(s) \in Range(s)
  <2>1. 1 \in 1 .. Len(s)
    BY <1>2
  <2> QED BY <1>2, <2>1 DEF Range
<1> QED BY <1>1, <1>2, <1>3, <1>4, <1>5 DEF Range

\* A sequence without the element at a place: the others, each once.
LEMMA RemoveAtEffect ==
    ASSUME NEW S, NEW s \in Seq(S), NEW i \in 1 .. Len(s)
    PROVE  /\ RemoveAt(s, i) \in Seq(S)
           /\ \A k \in DOMAIN RemoveAt(s, i) :
                 \E j \in DOMAIN s : j # i /\ RemoveAt(s, i)[k] = s[j]
           /\ \A j \in DOMAIN s : j # i =>
                 \E k \in DOMAIN RemoveAt(s, i) : RemoveAt(s, i)[k] = s[j]
<1>0. PICK n \in Nat : n = Len(s)
  OBVIOUS
<1>1. PICK p, q : p = SubSeq(s, 1, i - 1) /\ q = SubSeq(s, i + 1, n)
  OBVIOUS
<1>2. /\ p \in Seq(S) /\ Len(p) = i - 1 /\ \A k \in 1 .. i - 1 : p[k] = s[k]
  BY <1>0, <1>1
<1>3. /\ q \in Seq(S) /\ Len(q) = n - i /\ \A k \in 1 .. n - i : q[k] = s[i + k]
  BY <1>0, <1>1
<1>4. PICK t : t = p \o q
  OBVIOUS
<1>5. /\ t \in Seq(S) /\ Len(t) = n - 1
      /\ \A k \in 1 .. i - 1 : t[k] = s[k]
      /\ \A k \in i .. n - 1 : t[k] = s[k + 1]
      /\ DOMAIN t = 1 .. n - 1 /\ DOMAIN s = 1 .. n
  <2>0. p \in Seq(S) /\ q \in Seq(S)
    BY <1>2, <1>3
  <2>1. t \in Seq(S) /\ Len(t) = Len(p) + Len(q)
    BY <1>4, <2>0, ConcatProperties
  <2>2. ASSUME NEW k \in 1 .. i - 1 PROVE t[k] = s[k]
    BY <1>2, <1>3, <1>4
  <2>3. ASSUME NEW k \in i .. n - 1 PROVE t[k] = s[k + 1]
    <3>1. k - (i - 1) \in 1 .. n - i /\ i + (k - (i - 1)) = k + 1
      BY <1>0
    <3>2. t[k] = q[k - Len(p)]
      BY <1>0, <1>2, <1>3, <1>4
    <3> QED BY <1>2, <1>3, <3>1, <3>2
  <2>4. Len(t) = n - 1
    BY <1>0, <1>2, <1>3, <2>1
  <2> QED BY <1>0, <2>1, <2>2, <2>3, <2>4
<1>6. t = RemoveAt(s, i)
  BY <1>0, <1>1, <1>4 DEF RemoveAt
<1>7. ASSUME NEW k \in DOMAIN t PROVE \E j \in DOMAIN s : j # i /\ t[k] = s[j]
  <2>1. CASE k \in 1 .. i - 1
    <3>1. k \in DOMAIN s /\ k # i
      BY <1>0, <1>5, <2>1
    <3> QED BY <1>5, <2>1, <3>1
  <2>2. CASE k \in i .. n - 1
    <3>1. k + 1 \in DOMAIN s /\ k + 1 # i
      BY <1>0, <1>5, <2>2
    <3> QED BY <1>5, <2>2, <3>1
  <2> QED BY <1>0, <1>5, <2>1, <2>2
<1>8. ASSUME NEW j \in DOMAIN s, j # i PROVE \E k \in DOMAIN t : t[k] = s[j]
  <2>1. CASE j < i
    <3>1. j \in 1 .. i - 1 /\ j \in DOMAIN t
      BY <1>0, <1>5, <2>1
    <3> QED BY <1>5, <3>1
  <2>2. CASE j > i
    <3>1. j - 1 \in i .. n - 1 /\ j - 1 \in DOMAIN t /\ (j - 1) + 1 = j
      BY <1>0, <1>5, <2>2
    <3> QED BY <1>5, <3>1
  <2> QED BY <1>0, <1>5, <1>8, <2>1, <2>2
<1> QED BY <1>5, <1>6, <1>7, <1>8

\* A sequence turned round holds what it did.
LEMMA ReverseRange ==
    ASSUME NEW S, NEW s \in Seq(S)
    PROVE  /\ Reverse(s) \in Seq(S) /\ Range(Reverse(s)) = Range(s)
           /\ HasNoTwice(s) => HasNoTwice(Reverse(s))
<1>1. PICK n \in Nat, t \in {Reverse(s)} : n = Len(s) /\ t = Reverse(s)
  OBVIOUS
<1>2. /\ t = [i \in 1 .. n |-> s[(n - i) + 1]] /\ DOMAIN s = 1 .. n
      /\ \A i \in 1 .. n : (n - i) + 1 \in 1 .. n /\ s[i] \in S
  BY <1>1, ElementOfSeq DEF Reverse
<1>3. t \in Seq(S) /\ DOMAIN t = 1 .. n
  BY <1>2
<1>4. ASSUME NEW i \in 1 .. n PROVE t[i] \in Range(s) /\ s[i] \in Range(t)
  <2>1. (n - i) + 1 \in 1 .. n /\ (n - ((n - i) + 1)) + 1 = i
    OBVIOUS
  <2>2. t[i] = s[(n - i) + 1] /\ t[(n - i) + 1] = s[i]
    BY <1>2, <2>1
  <2> QED BY <1>2, <1>3, <2>1, <2>2 DEF Range
<1>5. ASSUME HasNoTwice(s), NEW i \in 1 .. n, NEW j \in 1 .. n, t[i] = t[j]
      PROVE  i = j
  <2>1. s[(n - i) + 1] = s[(n - j) + 1]
    BY <1>2, <1>5
  <2>2. (n - i) + 1 = (n - j) + 1
    BY <1>2, <1>5, <2>1 DEF HasNoTwice
  <2> QED BY <2>2
<1>6. Range(t) = Range(s)
  <2>1. DOMAIN t = 1 .. n /\ DOMAIN s = 1 .. n
    BY <1>2, <1>3
  <2>2. \A i \in 1 .. n : t[i] \in Range(s) /\ s[i] \in Range(t)
    BY <1>4
  <2> QED BY <2>1, <2>2 DEF Range
<1>7. HasNoTwice(s) => HasNoTwice(t)
  BY <1>3, <1>5 DEF HasNoTwice
<1> QED BY <1>1, <1>3, <1>6, <1>7

\* What is kept of a sequence without doubles has none.
LEMMA KeptHasNoTwice ==
    ASSUME NEW S, NEW s \in Seq(S), NEW T, HasNoTwice(s)
    PROVE  HasNoTwice(Kept(s, T))
<1>1. Kept(s, T) \in Seq(S) /\ DOMAIN s = 1 .. Len(s)
  BY KeptInOrder
<1>2. DOMAIN Kept(s, T) = 1 .. Len(Kept(s, T))
  BY <1>1
<1>3. ASSUME NEW j \in 1 .. Len(Kept(s, T)), NEW k \in 1 .. Len(Kept(s, T)), j # k
      PROVE  \E h, i \in 1 .. Len(s) :
                h # i /\ s[h] = Kept(s, T)[j] /\ s[i] = Kept(s, T)[k]
  <2>1. \A x, y \in 1 .. Len(Kept(s, T)) : x # y =>
           \E h, i \in 1 .. Len(s) :
              h # i /\ s[h] = Kept(s, T)[x] /\ s[i] = Kept(s, T)[y]
    BY KeptOnce
  <2> QED BY <1>3, <2>1
<1>4. ASSUME NEW i \in DOMAIN Kept(s, T), NEW j \in DOMAIN Kept(s, T), i # j
      PROVE  Kept(s, T)[i] # Kept(s, T)[j]
  <2>1. PICK h \in 1 .. Len(s), k \in 1 .. Len(s) :
          h # k /\ s[h] = Kept(s, T)[i] /\ s[k] = Kept(s, T)[j]
    <3>1. i \in 1 .. Len(Kept(s, T)) /\ j \in 1 .. Len(Kept(s, T))
      BY <1>2
    <3> QED BY <1>3, <1>4, <3>1
  <2> QED BY <1>1, <2>1 DEF HasNoTwice
<1> QED BY <1>4 DEF HasNoTwice

-----------------------------------------------------------------------------
(* The list.                                                               *)

\* Message m has one entry at most in l.
Once(l, m) == \A i, j \in DOMAIN l : l[i].msg = m /\ l[j].msg = m => i = j

\* An entry is a temporary one or a message shown, never both.
LEMMA EntryForms ==
    /\ \A e \in Entry : /\ e.msg \in Message
                        /\ e.temp = TRUE => e = Temp(e.msg)
                        /\ e.temp # TRUE => e = Shown(e.msg) /\ e.temp = FALSE
    /\ \A m \in Message : /\ Temp(m) \in Entry /\ Shown(m) \in Entry
                          /\ Temp(m).msg = m /\ Shown(m).msg = m
                          /\ Temp(m).temp = TRUE /\ Shown(m).temp = FALSE
                          /\ Temp(m) # Shown(m)
<1>1. \A e \in Entry : /\ e.msg \in Message /\ e.temp \in BOOLEAN
                       /\ e = [msg |-> e.msg, temp |-> e.temp]
  BY DEF Entry
<1>2. \A e \in Entry : /\ e.temp = TRUE => e = Temp(e.msg)
                       /\ e.temp # TRUE => e = Shown(e.msg) /\ e.temp = FALSE
  BY <1>1 DEF Temp, Shown
<1>3. \A m \in Message : /\ Temp(m) \in Entry /\ Shown(m) \in Entry
                         /\ Temp(m).msg = m /\ Shown(m).msg = m
                         /\ Temp(m).temp = TRUE /\ Shown(m).temp = FALSE
  BY DEF Temp, Shown, Entry
<1>4. \A m \in Message : Temp(m) # Shown(m)
  BY <1>3
<1> QED BY <1>1, <1>2, <1>3, <1>4

\* Entries of different messages, or of different forms, differ.
LEMMA EntriesDiffer ==
    \A x, y \in Message : /\ Temp(x) # Shown(y)
                          /\ Temp(x) = Temp(y) => x = y
                          /\ Shown(x) = Shown(y) => x = y
BY EntryForms

\* A temporary entry more, of a message the list does not have.
LEMMA SendEffect ==
    ASSUME NEW l \in Seq(Entry), NEW m \in Message
    PROVE  /\ Append(l, Temp(m)) \in Seq(Entry)
           /\ Range(Append(l, Temp(m))) = Range(l) \cup {Temp(m)}
           /\ (\A e \in Range(l) : e.msg # m) => Once(Append(l, Temp(m)), m)
           /\ \A x \in Message \ {m} : Once(l, x) => Once(Append(l, Temp(m)), x)
<1>1. PICK n, e : e = Temp(m) /\ n = Append(l, e)
  OBVIOUS
<1>2. e \in Entry /\ e.msg = m
  BY <1>1, EntryForms
<1>3. n \in Seq(Entry) /\ Range(n) = Range(l) \cup {e}
  BY <1>1, <1>2, AppendRange
<1>4. /\ DOMAIN n = 1 .. Len(l) + 1 /\ DOMAIN l = 1 .. Len(l) /\ Len(l) \in Nat
      /\ n[Len(l) + 1] = e /\ \A i \in 1 .. Len(l) : n[i] = l[i]
  BY <1>1, <1>2, AppendProperties
<1>5. ASSUME \A d \in Range(l) : d.msg # m PROVE Once(n, m)
  <2>1. \A i \in 1 .. Len(l) : n[i].msg # m
    BY <1>4, <1>5 DEF Range
  <2> QED BY <1>4, <2>1 DEF Once
<1>6. ASSUME NEW x \in Message \ {m}, Once(l, x) PROVE Once(n, x)
  <2>1. \A i \in DOMAIN n : n[i].msg = x => i \in DOMAIN l /\ n[i] = l[i]
    BY <1>2, <1>4
  <2> QED BY <1>6, <2>1 DEF Once
<1> QED BY <1>1, <1>3, <1>5, <1>6

\* The list without an entry.
LEMMA WithoutEffect ==
    ASSUME NEW l \in Seq(Entry), NEW e \in Entry
    PROVE  /\ Without(l, e) \in Seq(Entry)
           /\ Range(Without(l, e)) = Range(l) \ {e}
           /\ \A x \in Message : Once(l, x) => Once(Without(l, e), x)
<1>1. PICK T, n : T = Entry \ {e} /\ n = Kept(l, T) /\ n = Without(l, e)
  BY DEF Without
<1>2. n \in Seq(Entry) /\ DOMAIN l = 1 .. Len(l)
  <2>1. Kept(l, T) \in Seq(Entry)
    BY KeptInOrder
  <2> QED BY <1>1, <2>1
<1>3. Range(n) = Range(l) \cap T /\ Range(l) \subseteq Entry
  BY <1>1, KeptRange, RangeByPlace
<1>4. \A j, k \in 1 .. Len(n) : j # k =>
         \E h, i \in 1 .. Len(l) : h # i /\ l[h] = n[j] /\ l[i] = n[k]
  <2>1. \A j, k \in 1 .. Len(Kept(l, T)) : j # k =>
           \E h, i \in 1 .. Len(l) :
              h # i /\ l[h] = Kept(l, T)[j] /\ l[i] = Kept(l, T)[k]
    BY KeptOnce
  <2>2. n = Kept(l, T)
    BY <1>1
  <2> QED BY <2>1, <2>2
<1>5. ASSUME NEW x \in Message, Once(l, x) PROVE Once(n, x)
  <2>1. DOMAIN n = 1 .. Len(n) /\ DOMAIN l = 1 .. Len(l)
    BY <1>2
  <2>2. ASSUME NEW j \in 1 .. Len(n), NEW k \in 1 .. Len(n),
               n[j].msg = x /\ n[k].msg = x, j # k
        PROVE  FALSE
    <3>1. PICK h \in 1 .. Len(l), i \in 1 .. Len(l) : h # i /\ l[h] = n[j] /\ l[i] = n[k]
      BY <1>4, <2>2
    <3> QED BY <1>5, <2>1, <2>2, <3>1 DEF Once
  <2> QED BY <2>1, <2>2 DEF Once
<1> QED BY <1>1, <1>2, <1>3, <1>5

\* The first of some places in a list.
LEMMA FirstIsOne ==
    ASSUME NEW Q \in SUBSET Nat, Q # {}
    PROVE  First(Q) \in Q
<1>1. \E n \in Q : \A m \in Q : n <= m
  BY LeastExists
<1> QED BY <1>1 DEF First

\* The list after an event shows its message; what it showed it shows still,
\* and no temporary entry of another text is gone.
LEMMA EventEffect ==
    ASSUME NEW l \in Seq(Entry), NEW m \in Message
    PROVE  /\ WithEvent(l, m) \in Seq(Entry)
           /\ Shown(m) \in Range(WithEvent(l, m))
           /\ Range(WithEvent(l, m)) \subseteq Range(l) \cup {Shown(m)}
           /\ \A x \in Message : Has(l, Shown(x)) => Has(WithEvent(l, m), Shown(x))
           /\ \A x \in Message : Has(l, Temp(x)) /\ TextOf(x) # TextOf(m) =>
                 Has(WithEvent(l, m), Temp(x))
           /\ \A x \in Message : Unique(x) /\ Once(l, x) => Once(WithEvent(l, m), x)
<1>1. PICK n, e, Q : n = WithEvent(l, m) /\ e = Shown(m) /\ Q = Twins(l, m)
  OBVIOUS
<1>2. e \in Entry /\ e.msg = m /\ e.temp = FALSE
  BY <1>1, EntryForms
<1>3. /\ DOMAIN l = 1 .. Len(l) /\ Len(l) \in Nat
      /\ \A i \in DOMAIN l : l[i] \in Entry
      /\ Q \subseteq DOMAIN l
      /\ \A i \in DOMAIN l : i \in Q <=>
            l[i].temp = TRUE /\ TextOf(l[i].msg) = TextOf(m)
  <2>1. DOMAIN l = 1 .. Len(l) /\ Len(l) \in Nat /\ \A i \in DOMAIN l : l[i] \in Entry
    BY ElementOfSeq
  <2>2. \A i \in DOMAIN l : l[i].temp \in BOOLEAN
    BY <2>1 DEF Entry
  <2> QED BY <1>1, <2>1, <2>2 DEF Twins
<1>4. CASE Q # {}
  <2>1. PICK i \in Q : n = [l EXCEPT ![i] = e]
    <3>1. First(Q) \in Q
      BY <1>3, <1>4, FirstIsOne
    <3>2. n = Put(l, First(Q), m)
      BY <1>1, <1>4 DEF WithEvent
    <3> QED BY <1>1, <3>1, <3>2 DEF Put
  <2>2. /\ i \in DOMAIN l /\ n \in Seq(Entry) /\ DOMAIN n = DOMAIN l /\ n[i] = e
        /\ \A j \in DOMAIN l \ {i} : n[j] = l[j]
    BY <1>2, <1>3, <2>1, ExceptSeq
  <2>3. l[i].temp = TRUE /\ TextOf(l[i].msg) = TextOf(m)
    BY <1>3
  <2>4. e \in Range(n) /\ Range(n) \subseteq Range(l) \cup {e}
    BY <2>2 DEF Range
  <2>5. ASSUME NEW x \in Message, Has(l, Shown(x)) PROVE Has(n, Shown(x))
    <3>1. PICK j \in DOMAIN l : l[j] = Shown(x)
      BY <2>5 DEF Has, Range
    <3>2. j # i
      BY <2>3, <3>1, EntryForms
    <3> QED BY <2>2, <3>1, <3>2 DEF Has, Range
  <2>6. ASSUME NEW x \in Message, Has(l, Temp(x)), TextOf(x) # TextOf(m)
        PROVE  Has(n, Temp(x))
    <3>1. PICK j \in DOMAIN l : l[j] = Temp(x)
      BY <2>6 DEF Has, Range
    <3>2. j # i
      BY <2>3, <2>6, <3>1, EntryForms
    <3> QED BY <2>2, <3>1, <3>2 DEF Has, Range
  <2>7. ASSUME NEW x \in Message, Unique(x), Once(l, x) PROVE Once(n, x)
    <3>1. l[i].msg \in Message
      BY <1>3, <2>2, EntryForms
    <3>2. l[i].msg = x <=> m = x
      BY <2>3, <2>7, <3>1 DEF Unique
    <3>3. \A j \in DOMAIN l : n[j].msg = x <=> l[j].msg = x
      BY <1>2, <2>2, <3>2
    <3> QED BY <2>2, <2>7, <3>3 DEF Once
  <2> QED BY <1>1, <2>2, <2>4, <2>5, <2>6, <2>7
<1>5. CASE Q = {} /\ Has(l, e)
  <2>1. n = l
    BY <1>1, <1>5 DEF WithEvent
  <2> QED BY <1>1, <1>5, <2>1 DEF Has
<1>6. CASE Q = {} /\ ~Has(l, e)
  <2>1. n = Append(l, e)
    BY <1>1, <1>6 DEF WithEvent
  <2>2. n \in Seq(Entry) /\ Range(n) = Range(l) \cup {e}
    BY <1>2, <2>1, AppendRange
  <2>3. ASSUME NEW x \in Message, Unique(x), Once(l, x) PROVE Once(n, x)
    <3>1. /\ DOMAIN n = 1 .. Len(l) + 1 /\ n[Len(l) + 1] = e
          /\ \A i \in 1 .. Len(l) : n[i] = l[i]
      BY <1>2, <2>1, AppendProperties
    <3>2. \A i \in DOMAIN l : l[i].msg # m
      <4> SUFFICES ASSUME NEW i \in DOMAIN l, l[i].msg = m PROVE FALSE
        OBVIOUS
      <4>1. l[i] \in Entry /\ l[i].temp # TRUE
        BY <1>3, <1>6
      <4>2. l[i] = e
        BY <1>1, <4>1, EntryForms
      <4> QED BY <1>6, <4>2 DEF Has, Range
    <3>3. \A i \in DOMAIN n : (i \in DOMAIN l /\ n[i] = l[i]) \/ i = Len(l) + 1
      BY <1>3, <3>1
    <3>4. CASE x = m
      BY <3>2, <3>3, <3>4 DEF Once
    <3>5. CASE x # m
      <4>1. \A i \in DOMAIN n : n[i].msg = x => i \in DOMAIN l /\ n[i] = l[i]
        BY <1>2, <3>1, <3>3, <3>5
      <4> QED BY <2>3, <4>1 DEF Once
    <3> QED BY <3>4, <3>5
  <2> QED BY <1>1, <2>2, <2>3 DEF Has
<1> QED BY <1>4, <1>5, <1>6

\* The list after an answer: the temporary entry is gone, its message shown if
\* the list had either, and all the others stay.
LEMMA AnswerEffect ==
    ASSUME NEW l \in Seq(Entry), NEW m \in Message
    PROVE  /\ WithAnswer(l, m) \in Seq(Entry)
           /\ ~Has(WithAnswer(l, m), Temp(m))
           /\ \A e \in Range(l) \ {Temp(m)} : e \in Range(WithAnswer(l, m))
           /\ Range(WithAnswer(l, m)) \subseteq Range(l) \cup {Shown(m)}
           /\ Has(l, Temp(m)) \/ Has(l, Shown(m)) => Has(WithAnswer(l, m), Shown(m))
           /\ \A x \in Message : Once(l, x) => Once(WithAnswer(l, m), x)
<1>1. PICK n, e, d : n = WithAnswer(l, m) /\ e = Shown(m) /\ d = Temp(m)
  OBVIOUS
<1>2. e \in Entry /\ d \in Entry /\ e # d /\ e.msg = m /\ d.msg = m
  BY <1>1, EntryForms
<1>3. CASE Has(l, e)
  <2>1. n = Without(l, d)
    BY <1>1, <1>3 DEF WithAnswer
  <2>2. /\ n \in Seq(Entry) /\ Range(n) = Range(l) \ {d}
        /\ \A x \in Message : Once(l, x) => Once(n, x)
    BY <1>2, <2>1, WithoutEffect
  <2> QED BY <1>1, <1>2, <1>3, <2>2 DEF Has
<1>4. CASE ~Has(l, e)
  <2>1. n = [i \in DOMAIN l |-> IF l[i] = d THEN e ELSE l[i]]
    BY <1>1, <1>4 DEF WithAnswer
  <2>2. DOMAIN l = 1 .. Len(l) /\ Len(l) \in Nat /\ \A i \in DOMAIN l : l[i] \in Entry
    BY ElementOfSeq
  <2>3. /\ n \in Seq(Entry) /\ DOMAIN n = DOMAIN l
        /\ \A i \in DOMAIN l : n[i] = IF l[i] = d THEN e ELSE l[i]
    BY <1>2, <2>1, <2>2
  <2>4. \A i \in DOMAIN l : n[i].msg = l[i].msg
    BY <1>2, <2>3
  <2>5. \A x \in Message : Once(l, x) => Once(n, x)
    BY <2>3, <2>4 DEF Once
  <2>6. d \notin Range(n) /\ Range(n) \subseteq Range(l) \cup {e}
    BY <1>2, <2>3 DEF Range
  <2>7. \A c \in Range(l) : c # d => c \in Range(n)
    BY <2>3 DEF Range
  <2>8. d \in Range(l) => e \in Range(n)
    BY <2>3 DEF Range
  <2> QED BY <1>1, <1>4, <2>3, <2>5, <2>6, <2>7, <2>8 DEF Has
<1> QED BY <1>3, <1>4

\* The list after a history without doubles: it shows all of it, has what it had,
\* and no entry twice but of a message that came beside its temporary entry.
LEMMA HistoryEffect ==
    ASSUME NEW l \in Seq(Entry), NEW h \in Seq(Message), HasNoTwice(h)
    PROVE  /\ WithHistory(l, h) \in Seq(Entry)
           /\ Range(WithHistory(l, h)) = Range(l) \cup {Shown(x) : x \in Range(h)}
           /\ \A x \in Message :
                 Once(l, x) /\ (x \in Range(h) => ~Has(l, Temp(x)))
                 => Once(WithHistory(l, h), x)
<1>1. PICK n, T, f : /\ n = WithHistory(l, h) /\ T = {m \in Message : ~Has(l, Shown(m))}
                     /\ f = Kept(h, T) /\ f = Fresh(l, h)
  BY DEF Fresh
<1>2. f \in Seq(Message) /\ Range(f) = Range(h) \cap T /\ HasNoTwice(f)
  <2>1. Kept(h, T) \in Seq(Message)
    BY KeptInOrder
  <2>2. Range(Kept(h, T)) = Range(h) \cap T
    BY KeptRange
  <2>3. HasNoTwice(Kept(h, T))
    BY KeptHasNoTwice
  <2> QED BY <1>1, <2>1, <2>2, <2>3
<1>3. PICK g : g = [i \in DOMAIN f |-> Shown(f[i])] /\ n = l \o g
  BY <1>1 DEF WithHistory
<1>4. /\ DOMAIN f = 1 .. Len(f) /\ Len(f) \in Nat /\ \A i \in DOMAIN f : f[i] \in Message
      /\ DOMAIN l = 1 .. Len(l) /\ Len(l) \in Nat /\ \A i \in DOMAIN l : l[i] \in Entry
  BY <1>2, ElementOfSeq
<1>5. /\ g \in Seq(Entry) /\ Len(g) = Len(f) /\ DOMAIN g = DOMAIN f
      /\ \A i \in DOMAIN f : g[i] = Shown(f[i]) /\ g[i].msg = f[i]
  <2>1. \A i \in DOMAIN f : Shown(f[i]) \in Entry /\ Shown(f[i]).msg = f[i]
    BY <1>4, EntryForms
  <2>2. g \in [1 .. Len(f) -> Entry]
    BY <1>3, <1>4, <2>1
  <2>3. g \in Seq(Entry) /\ Len(g) = Len(f)
    BY <1>4, <2>2
  <2> QED BY <1>3, <1>4, <2>1, <2>3
<1>6. /\ n \in Seq(Entry) /\ Len(n) = Len(l) + Len(f) /\ DOMAIN n = 1 .. Len(l) + Len(f)
      /\ \A i \in 1 .. Len(l) : n[i] = l[i]
      /\ \A i \in Len(l) + 1 .. Len(l) + Len(f) :
            i - Len(l) \in DOMAIN f /\ n[i] = g[i - Len(l)]
  <2>1. n \in Seq(Entry) /\ Len(n) = Len(l) + Len(f)
    BY <1>3, <1>5, ConcatProperties
  <2>2. \A i \in 1 .. Len(l) : n[i] = l[i]
    BY <1>3, <1>5, ConcatProperties
  <2>3. ASSUME NEW i \in Len(l) + 1 .. Len(l) + Len(f)
        PROVE  i - Len(l) \in DOMAIN f /\ n[i] = g[i - Len(l)]
    <3>1. i - Len(l) \in DOMAIN f /\ i \in 1 .. Len(l) + Len(g) /\ ~(i <= Len(l))
      BY <1>4, <1>5
    <3> QED BY <1>3, <1>4, <1>5, <3>1, ConcatProperties
  <2> QED BY <2>1, <2>2, <2>3
<1>7. Range(n) = Range(l) \cup {Shown(x) : x \in Range(h)}
  <2>1. ASSUME NEW i \in DOMAIN n
        PROVE  n[i] \in Range(l) \cup {Shown(x) : x \in Range(h)}
    <3>1. CASE i \in 1 .. Len(l)
      BY <1>4, <1>6, <3>1 DEF Range
    <3>2. CASE i \in Len(l) + 1 .. Len(l) + Len(f)
      <4>1. i - Len(l) \in DOMAIN f /\ n[i] = Shown(f[i - Len(l)])
        BY <1>5, <1>6, <3>2
      <4>2. f[i - Len(l)] \in Range(h)
        BY <1>2, <4>1 DEF Range
      <4> QED BY <4>1, <4>2
    <3> QED BY <1>4, <1>6, <3>1, <3>2
  <2>2. ASSUME NEW e \in Range(l) PROVE e \in Range(n)
    <3>1. PICK i \in DOMAIN l : l[i] = e
      BY DEF Range
    <3>2. i \in DOMAIN n /\ n[i] = e
      BY <1>4, <1>6, <3>1
    <3> QED BY <3>2 DEF Range
  <2>3. ASSUME NEW x \in Range(h) PROVE Shown(x) \in Range(n)
    <3>1. CASE Has(l, Shown(x))
      BY <2>2, <3>1 DEF Has
    <3>2. CASE ~Has(l, Shown(x))
      <4>1. x \in Range(f)
        BY <1>1, <1>2, <3>2, RangeByPlace
      <4>2. PICK j \in DOMAIN f : f[j] = x
        BY <4>1 DEF Range
      <4>3. PICK i : i = Len(l) + j
        OBVIOUS
      <4>4. i \in Len(l) + 1 .. Len(l) + Len(f) /\ i - Len(l) = j /\ i \in DOMAIN n
        BY <1>4, <1>6, <4>2, <4>3
      <4>5. n[i] = Shown(x)
        BY <1>5, <1>6, <4>2, <4>4
      <4> QED BY <4>4, <4>5 DEF Range
    <3> QED BY <3>1, <3>2
  <2> QED BY <2>1, <2>2, <2>3 DEF Range
<1>8. ASSUME NEW x \in Message, Once(l, x), x \in Range(h) => ~Has(l, Temp(x)),
             NEW i \in DOMAIN n, NEW j \in DOMAIN n, n[i].msg = x, n[j].msg = x
      PROVE  i = j
  <2>1. ASSUME NEW k \in DOMAIN n, n[k].msg = x, k \notin DOMAIN l
        PROVE  /\ k - Len(l) \in DOMAIN f /\ f[k - Len(l)] = x
               /\ \A a \in DOMAIN l : l[a].msg # x
    <3>1. k \in Len(l) + 1 .. Len(l) + Len(f)
      BY <1>4, <1>6, <2>1
    <3>2. k - Len(l) \in DOMAIN f /\ f[k - Len(l)] = x
      BY <1>5, <1>6, <2>1, <3>1
    <3>3. x \in Range(h) /\ ~Has(l, Shown(x))
      BY <1>1, <1>2, <3>2 DEF Range
    <3>4. ASSUME NEW a \in DOMAIN l, l[a].msg = x PROVE FALSE
      <4>1. l[a] = Temp(x) \/ l[a] = Shown(x)
        BY <1>4, <3>4, EntryForms
      <4> QED BY <1>8, <3>3, <4>1 DEF Has, Range
    <3> QED BY <3>2, <3>4
  <2>2. \A k \in DOMAIN l : n[k] = l[k]
    BY <1>4, <1>6
  <2>3. CASE i \in DOMAIN l
    <3>1. j \in DOMAIN l
      BY <1>8, <2>1, <2>2, <2>3
    <3> QED BY <1>8, <2>2, <2>3, <3>1 DEF Once
  <2>4. CASE i \notin DOMAIN l
    <3>1. j \notin DOMAIN l
      BY <1>8, <2>1, <2>2, <2>4
    <3>2. i - Len(l) = j - Len(l)
      BY <1>2, <1>8, <2>1, <2>4, <3>1 DEF HasNoTwice
    <3> QED BY <1>4, <1>6, <3>2
  <2> QED BY <2>3, <2>4
<1> QED BY <1>1, <1>6, <1>7, <1>8 DEF Once

-----------------------------------------------------------------------------
(* What a step does to the list, and what the list shows.                  *)

PageStays == list' = list /\ post' = post /\ early' = early

EventShown(m) ==
    list' = WithEvent(list, m) /\ post' = post /\ early' = early

Posted(m, from, to) ==
    post[m] = from /\ post' = [post EXCEPT ![m] = to] /\ early' = early

HistoryShown(h) ==
    /\ list' = WithHistory(list, h) /\ post' = post
    /\ early' = early \cup {m \in Range(h) : Has(list, Temp(m))}

\* The page changes by an event, a post, its answer, its failure or a history.
LEMMA PageSteps ==
    ASSUME TypeOK, [Next]_vars
    PROVE  /\ about' = about
           /\ \/ PageStays
              \/ wire # <<>> /\ RoomOf(Head(wire)) = view /\ EventShown(Head(wire))
              \/ \E m \in Mine :
                   \/ Posted(m, "unsent", "waiting") /\ list' = Append(list, Temp(m))
                   \/ /\ Posted(m, "waiting", "done") /\ told[m] = "event"
                      /\ list' = WithAnswer(list, m)
                   \/ Posted(m, "waiting", "failed") /\ list' = Without(list, Temp(m))
              \/ \E i \in DOMAIN fetch : fetch[i].read /\ HistoryShown(fetch[i].msgs)
<1>1. ASSUME NEW r \in Room \cup {NoRoom}, Enter(r)
      PROVE  about' = about /\ PageStays
  BY <1>1 DEF Enter, server, PageStays
<1>2. ASSUME Open \/ Drop \/ ReadJoin \/ Forward
      PROVE  about' = about /\ PageStays
  BY <1>2 DEF Open, Drop, ReadJoin, Forward, page, server, PageStays
<1>3. ASSUME NEW i \in DOMAIN old, ReadOldJoin(i) \/ Leave(i)
      PROVE  about' = about /\ PageStays
  BY <1>3 DEF ReadOldJoin, Leave, page, server, PageStays
<1>4. ASSUME Receive
      PROVE  /\ about' = about
             /\ \/ PageStays
                \/ wire # <<>> /\ RoomOf(Head(wire)) = view /\ EventShown(Head(wire))
  BY <1>4 DEF Receive, server, PageStays, EventShown
<1>5. ASSUME NEW m \in Mine, Send(m)
      PROVE  /\ about' = about
             /\ Posted(m, "unsent", "waiting") /\ list' = Append(list, Temp(m))
  BY <1>5 DEF Send, server, Posted
<1>6. ASSUME NEW m \in Mine, Answer(m)
      PROVE  /\ about' = about
             /\ Posted(m, "waiting", "done") /\ told[m] = "event"
             /\ list' = WithAnswer(list, m)
  BY <1>6 DEF Answer, server, Posted
<1>7. ASSUME NEW m \in Mine, SendFails(m)
      PROVE  /\ about' = about
             /\ Posted(m, "waiting", "failed") /\ list' = Without(list, Temp(m))
  BY <1>7 DEF SendFails, server, Posted
<1>8. ASSUME NEW m \in Message, Store(m) \/ Announce(m) \/ StopShort(m)
      PROVE  about' = about /\ PageStays
  BY <1>8 DEF Store, Announce, StopShort, page, PageStays
<1>9. ASSUME NEW i \in DOMAIN fetch, ReadHistory(i) \/ LoseHistory(i)
      PROVE  about' = about /\ PageStays
  BY <1>9 DEF ReadHistory, LoseHistory, server, PageStays
<1>10. ASSUME NEW i \in DOMAIN fetch, TakeHistory(i)
       PROVE  about' = about /\ fetch[i].read /\ HistoryShown(fetch[i].msgs)
  BY <1>10 DEF TakeHistory, server, HistoryShown
<1>11. CASE UNCHANGED vars
  BY <1>11 DEF vars, PageStays
<1> QED BY <1>1, <1>2, <1>3, <1>4, <1>5, <1>6, <1>7, <1>8, <1>9, <1>10, <1>11 DEF Next

\* What a fetch has read are messages.
LEMMA FetchedMessages ==
    ASSUME TypeOK, NEW i \in DOMAIN fetch
    PROVE  /\ fetch[i] \in [room : Room, read : BOOLEAN, msgs : Seq(Message)]
           /\ fetch[i].room \in Room /\ fetch[i].msgs \in Seq(Message)
<1>1. PICK S : S = [room : Room, read : BOOLEAN, msgs : Seq(Message)]
  OBVIOUS
<1>2. PICK s \in Seq(S) : s = fetch
  BY <1>1 DEF TypeOK
<1>3. i \in 1 .. Len(s)
  BY <1>2
<1>4. s[i] \in S
  BY <1>3, ElementOfSeq
<1>5. fetch[i] \in [room : Room, read : BOOLEAN, msgs : Seq(Message)]
  BY <1>1, <1>2, <1>4
<1> QED BY <1>5

\* The list and the posts keep their types.
LEMMA PageTypeStep ==
    ASSUME TypeOK, ComesFromTable, [Next]_vars
    PROVE  /\ about' = about
           /\ list' \in Seq(Entry) /\ early' \subseteq Message
           /\ post' \in [Message -> {"unsent", "waiting", "done", "failed"}]
<1>1. /\ list \in Seq(Entry) /\ early \subseteq Message
      /\ post \in [Message -> {"unsent", "waiting", "done", "failed"}]
      /\ wire \in Seq(Message) /\ Mine \subseteq Message
  BY DEF TypeOK, Mine
<1>2. ASSUME PageStays
      PROVE  list' = list /\ early' = early /\ post' = post
  BY <1>2 DEF PageStays
<1>3. ASSUME wire # <<>>, EventShown(Head(wire))
      PROVE  /\ list' \in Seq(Entry) /\ early' = early /\ post' = post
  <2>1. Head(wire) \in Message
    BY <1>1, <1>3, TailRange
  <2>2. WithEvent(list, Head(wire)) \in Seq(Entry)
    BY <1>1, <2>1, EventEffect
  <2> QED BY <1>3, <2>2 DEF EventShown
<1>4. ASSUME NEW m \in Mine,
             \/ Posted(m, "unsent", "waiting") /\ list' = Append(list, Temp(m))
             \/ Posted(m, "waiting", "done") /\ list' = WithAnswer(list, m)
             \/ Posted(m, "waiting", "failed") /\ list' = Without(list, Temp(m))
      PROVE  /\ list' \in Seq(Entry) /\ early' = early
             /\ post' \in [Message -> {"unsent", "waiting", "done", "failed"}]
  <2>1. m \in Message /\ Temp(m) \in Entry
    BY <1>1, EntryForms
  <2>2. /\ Append(list, Temp(m)) \in Seq(Entry)
        /\ WithAnswer(list, m) \in Seq(Entry) /\ Without(list, Temp(m)) \in Seq(Entry)
    BY <1>1, <2>1, SendEffect, AnswerEffect, WithoutEffect
  <2> QED BY <1>1, <1>4, <2>2 DEF Posted
<1>5. ASSUME NEW i \in DOMAIN fetch, HistoryShown(fetch[i].msgs)
      PROVE  list' \in Seq(Entry) /\ early' \subseteq Message /\ post' = post
  <2>1. PICK h \in Seq(Message) : h = fetch[i].msgs /\ HasNoTwice(h)
    BY FetchedMessages DEF ComesFromTable
  <2>2. list' = WithHistory(list, h) /\ post' = post
        /\ early' = early \cup {m \in Range(h) : Has(list, Temp(m))}
    BY <1>5, <2>1 DEF HistoryShown
  <2>3. WithHistory(list, h) \in Seq(Entry) /\ Range(h) \subseteq Message
    BY <1>1, <2>1, HistoryEffect, RangeByPlace
  <2> QED BY <1>1, <2>2, <2>3
<1> QED BY <1>1, <1>2, <1>3, <1>4, <1>5, PageSteps

\* What the list has of a message, in the terms of the properties.
LEMMA ListByMessage ==
    ASSUME NEW l \in Seq(Entry), NEW q
    PROVE  /\ (\A i \in DOMAIN l : l[i].temp => q[l[i].msg] = "waiting")
              <=> \A x \in Message : Has(l, Temp(x)) => q[x] = "waiting"
           /\ \A x \in Message : ~Has(l, Temp(x)) /\ ~Has(l, Shown(x)) =>
                 \A e \in Range(l) : e.msg # x
<1>1. /\ DOMAIN l = 1 .. Len(l) /\ \A i \in DOMAIN l : l[i] \in Entry
      /\ \A i \in DOMAIN l : l[i].temp \in BOOLEAN
  <2>1. DOMAIN l = 1 .. Len(l) /\ \A i \in DOMAIN l : l[i] \in Entry
    BY ElementOfSeq
  <2> QED BY <2>1 DEF Entry
<1>2. ASSUME \A i \in DOMAIN l : l[i].temp => q[l[i].msg] = "waiting",
             NEW x \in Message, Has(l, Temp(x))
      PROVE  q[x] = "waiting"
  <2>1. PICK i \in DOMAIN l : l[i] = Temp(x)
    BY <1>2 DEF Has, Range
  <2>2. l[i].temp = TRUE /\ l[i].msg = x
    BY <2>1, EntryForms
  <2> QED BY <1>2, <2>2
<1>3. ASSUME \A x \in Message : Has(l, Temp(x)) => q[x] = "waiting",
             NEW i \in DOMAIN l, l[i].temp
      PROVE  q[l[i].msg] = "waiting"
  <2>1. l[i].temp = TRUE
    BY <1>1, <1>3
  <2>2. l[i] = Temp(l[i].msg) /\ l[i].msg \in Message
    BY <1>1, <2>1, EntryForms
  <2>3. l[i] \in Range(l)
    BY DEF Range
  <2> QED BY <1>3, <2>2, <2>3 DEF Has
<1>4. ASSUME NEW x \in Message, ~Has(l, Temp(x)), ~Has(l, Shown(x)),
             NEW e \in Range(l), e.msg = x
      PROVE  FALSE
  <2>1. e \in Entry
    BY <1>1 DEF Range
  <2>2. e = Temp(x) \/ e = Shown(x)
    BY <1>4, <2>1, EntryForms
  <2> QED BY <1>4, <2>2 DEF Has
<1> QED BY <1>2, <1>3, <1>4

\* A temporary entry stays while its post is under way, and no longer.
LEMMA TempsStay ==
    ASSUME TypeOK, ComesFromTable, TempsAreUnderWay, [Next]_vars
    PROVE  TempsAreUnderWay'
<1>1. PICK l \in Seq(Entry), n \in Seq(Entry), q \in {post}, p \in {post'} :
        l = list /\ n = list' /\ q = post /\ p = post'
  BY PageTypeStep DEF TypeOK
<1>2. \A x \in Message : Has(l, Temp(x)) => q[x] = "waiting"
  BY <1>1, ListByMessage DEF TempsAreUnderWay
<1>3. SUFFICES \A x \in Message : Has(n, Temp(x)) => p[x] = "waiting"
  BY <1>1, ListByMessage DEF TempsAreUnderWay
<1>4. q \in [Message -> {"unsent", "waiting", "done", "failed"}] /\ Mine \subseteq Message
  BY <1>1 DEF TypeOK, Mine
<1>5. CASE PageStays
  BY <1>1, <1>2, <1>5 DEF PageStays
<1>6. CASE wire # <<>> /\ RoomOf(Head(wire)) = view /\ EventShown(Head(wire))
  <2>1. PICK m \in Message : m = Head(wire) /\ n = WithEvent(l, m) /\ p = q
    BY <1>1, <1>6, TailRange DEF EventShown, TypeOK
  <2>2. Range(n) \subseteq Range(l) \cup {Shown(m)}
    BY <2>1, EventEffect
  <2> QED BY <1>2, <2>1, <2>2, EntriesDiffer DEF Has
<1>7. ASSUME NEW m \in Mine, Posted(m, "unsent", "waiting"), list' = Append(list, Temp(m))
      PROVE  \A x \in Message : Has(n, Temp(x)) => p[x] = "waiting"
  <2>1. p = [q EXCEPT ![m] = "waiting"] /\ n = Append(l, Temp(m))
    BY <1>1, <1>7 DEF Posted
  <2>2. Range(n) = Range(l) \cup {Temp(m)}
    BY <1>4, <2>1, SendEffect
  <2> QED BY <1>2, <1>4, <2>1, <2>2, EntriesDiffer DEF Has
<1>8. ASSUME NEW m \in Mine, Posted(m, "waiting", "done"), list' = WithAnswer(list, m)
      PROVE  \A x \in Message : Has(n, Temp(x)) => p[x] = "waiting"
  <2>1. p = [q EXCEPT ![m] = "done"] /\ n = WithAnswer(l, m)
    BY <1>1, <1>8 DEF Posted
  <2>2. Range(n) \subseteq Range(l) \cup {Shown(m)} /\ ~Has(n, Temp(m))
    BY <1>4, <2>1, AnswerEffect
  <2> QED BY <1>2, <1>4, <2>1, <2>2, EntriesDiffer DEF Has
<1>9. ASSUME NEW m \in Mine, Posted(m, "waiting", "failed"), list' = Without(list, Temp(m))
      PROVE  \A x \in Message : Has(n, Temp(x)) => p[x] = "waiting"
  <2>1. p = [q EXCEPT ![m] = "failed"] /\ n = Without(l, Temp(m)) /\ Temp(m) \in Entry
    BY <1>1, <1>4, <1>9, EntryForms DEF Posted
  <2>2. Range(n) = Range(l) \ {Temp(m)}
    BY <2>1, WithoutEffect
  <2> QED BY <1>2, <1>4, <2>1, <2>2 DEF Has
<1>10. ASSUME NEW i \in DOMAIN fetch, HistoryShown(fetch[i].msgs)
       PROVE  \A x \in Message : Has(n, Temp(x)) => p[x] = "waiting"
  <2>1. PICK h \in Seq(Message) : /\ h = fetch[i].msgs /\ HasNoTwice(h)
                                  /\ n = WithHistory(l, h) /\ p = q
    BY <1>1, <1>10, FetchedMessages DEF ComesFromTable, HistoryShown
  <2>2. /\ Range(n) = Range(l) \cup {Shown(x) : x \in Range(h)}
        /\ Range(h) \subseteq Message
    BY <2>1, HistoryEffect, RangeByPlace
  <2> QED BY <1>2, <2>1, <2>2, EntriesDiffer DEF Has
<1> QED BY <1>5, <1>6, <1>7, <1>8, <1>9, <1>10, PageSteps

\* What the list shows it goes on showing, and it is in the table; a post under
\* way keeps its place, and is shown from the answer on.
LEMMA ShownStays ==
    ASSUME TypeOK, ComesFromTable, UnderWayIsListed, SentIsShown, [Next]_vars
    PROVE  /\ \A x \in Message : Has(list, Shown(x)) => Has(list', Shown(x))
           /\ \A x \in Message : Has(list', Shown(x)) => x \in Range(stored)
           /\ UnderWayIsListed' /\ SentIsShown'
<1>1. PICK l \in Seq(Entry), n \in Seq(Entry), q \in {post}, p \in {post'} :
        l = list /\ n = list' /\ q = post /\ p = post'
  BY PageTypeStep DEF TypeOK
<1>2. /\ \A x \in Message : Has(l, Shown(x)) => x \in Range(stored)
      /\ \A x \in Mine : q[x] = "waiting" /\ Unique(x) =>
                            Has(l, Temp(x)) \/ Has(l, Shown(x))
      /\ \A x \in Mine : q[x] = "done" /\ Unique(x) => Has(l, Shown(x))
  BY <1>1 DEF ComesFromTable, UnderWayIsListed, SentIsShown
<1>3. q \in [Message -> {"unsent", "waiting", "done", "failed"}] /\ Mine \subseteq Message
  BY <1>1 DEF TypeOK, Mine
<1> DEFINE Goal ==
      /\ \A x \in Message : Has(l, Shown(x)) => Has(n, Shown(x))
      /\ \A x \in Message : Has(n, Shown(x)) => x \in Range(stored)
      /\ \A x \in Mine : p[x] = "waiting" /\ Unique(x) =>
                            Has(n, Temp(x)) \/ Has(n, Shown(x))
      /\ \A x \in Mine : p[x] = "done" /\ Unique(x) => Has(n, Shown(x))
<1>4. SUFFICES Goal
  <2>1. about' = about
    BY PageTypeStep
  <2>2. Mine' = Mine /\ \A x : Unique(x)' <=> Unique(x)
    BY <2>1 DEF Mine, Unique, TextOf
  <2> QED BY <1>1, <2>2 DEF UnderWayIsListed, SentIsShown
<1>5. CASE PageStays
  BY <1>1, <1>2, <1>5 DEF PageStays
<1>6. CASE wire # <<>> /\ RoomOf(Head(wire)) = view /\ EventShown(Head(wire))
  <2>1. PICK m \in Message : m = Head(wire) /\ n = WithEvent(l, m) /\ p = q
    BY <1>1, <1>6, TailRange DEF EventShown, TypeOK
  <2>2. m \in Range(stored)
    <3>1. m \in Range(wire)
      BY <1>6, <2>1, TailRange DEF TypeOK
    <3> QED BY <3>1 DEF ComesFromTable
  <2>3. /\ Shown(m) \in Range(n) /\ Range(n) \subseteq Range(l) \cup {Shown(m)}
        /\ \A x \in Message : Has(l, Shown(x)) => Has(n, Shown(x))
        /\ \A x \in Message : Has(l, Temp(x)) /\ TextOf(x) # TextOf(m) => Has(n, Temp(x))
    BY <2>1, EventEffect
  <2>4. \A x \in Message : Has(n, Shown(x)) => x \in Range(stored)
    BY <1>2, <2>2, <2>3, EntriesDiffer DEF Has
  <2>5. ASSUME NEW x \in Mine, p[x] = "waiting", Unique(x)
        PROVE  Has(n, Temp(x)) \/ Has(n, Shown(x))
    <3>1. x = m \/ TextOf(x) # TextOf(m)
      BY <1>3, <2>5 DEF Unique
    <3> QED BY <1>2, <1>3, <2>1, <2>3, <2>5, <3>1 DEF Has
  <2> QED BY <1>2, <1>3, <2>1, <2>3, <2>4, <2>5
<1>7. ASSUME NEW m \in Mine, Posted(m, "unsent", "waiting"), list' = Append(list, Temp(m))
      PROVE  Goal
  <2>1. p = [q EXCEPT ![m] = "waiting"] /\ n = Append(l, Temp(m))
    BY <1>1, <1>7 DEF Posted
  <2>2. Range(n) = Range(l) \cup {Temp(m)}
    BY <1>3, <2>1, SendEffect
  <2>3. \A x \in Message : Has(n, Shown(x)) <=> Has(l, Shown(x))
    BY <1>3, <2>2, EntriesDiffer DEF Has
  <2>4. \A x \in Mine : Has(n, Temp(x)) <=> Has(l, Temp(x)) \/ x = m
    BY <1>3, <2>2, EntriesDiffer DEF Has
  <2> QED BY <1>2, <1>3, <2>1, <2>3, <2>4
<1>8. ASSUME NEW m \in Mine, Posted(m, "waiting", "done"), told[m] = "event",
             list' = WithAnswer(list, m)
      PROVE  Goal
  <2>1. p = [q EXCEPT ![m] = "done"] /\ q[m] = "waiting" /\ n = WithAnswer(l, m)
    BY <1>1, <1>8 DEF Posted
  <2>2. /\ Range(n) \subseteq Range(l) \cup {Shown(m)}
        /\ \A e \in Range(l) \ {Temp(m)} : e \in Range(n)
        /\ Has(l, Temp(m)) \/ Has(l, Shown(m)) => Has(n, Shown(m))
    BY <1>3, <2>1, AnswerEffect
  <2>3. \A x \in Message : Has(l, Shown(x)) => Has(n, Shown(x))
    BY <1>3, <2>2, EntriesDiffer DEF Has
  <2>4. \A x \in Mine \ {m} : Has(l, Temp(x)) => Has(n, Temp(x))
    BY <1>3, <2>2, EntriesDiffer DEF Has
  <2>5. m \in Range(stored)
    BY <1>3, <1>8 DEF ComesFromTable
  <2>6. \A x \in Message : Has(n, Shown(x)) => x \in Range(stored)
    BY <1>2, <1>3, <2>2, <2>5, EntriesDiffer DEF Has
  <2> QED BY <1>2, <1>3, <2>1, <2>2, <2>3, <2>4, <2>6
<1>9. ASSUME NEW m \in Mine, Posted(m, "waiting", "failed"), list' = Without(list, Temp(m))
      PROVE  Goal
  <2>1. p = [q EXCEPT ![m] = "failed"] /\ n = Without(l, Temp(m)) /\ Temp(m) \in Entry
    BY <1>1, <1>3, <1>9, EntryForms DEF Posted
  <2>2. Range(n) = Range(l) \ {Temp(m)}
    BY <2>1, WithoutEffect
  <2>3. \A x \in Message : Has(n, Shown(x)) <=> Has(l, Shown(x))
    BY <1>3, <2>2, EntriesDiffer DEF Has
  <2>4. \A x \in Mine \ {m} : Has(l, Temp(x)) => Has(n, Temp(x))
    BY <1>3, <2>2, EntriesDiffer DEF Has
  <2> QED BY <1>2, <1>3, <2>1, <2>3, <2>4
<1>10. ASSUME NEW i \in DOMAIN fetch, HistoryShown(fetch[i].msgs)
       PROVE  Goal
  <2>1. PICK h \in Seq(Message) : /\ h = fetch[i].msgs /\ HasNoTwice(h)
                                  /\ n = WithHistory(l, h) /\ p = q
    BY <1>1, <1>10, FetchedMessages DEF ComesFromTable, HistoryShown
  <2>2. /\ Range(n) = Range(l) \cup {Shown(x) : x \in Range(h)}
        /\ Range(h) \subseteq Message
    BY <2>1, HistoryEffect, RangeByPlace
  <2>3. Range(h) \subseteq Range(stored)
    BY <2>1 DEF ComesFromTable
  <2>4. \A x \in Message : Has(n, Shown(x)) => x \in Range(stored)
    BY <1>2, <2>2, <2>3, EntriesDiffer DEF Has
  <2> QED BY <1>2, <1>3, <2>1, <2>2, <2>4 DEF Has
<1> QED BY <1>5, <1>6, <1>7, <1>8, <1>9, <1>10, PageSteps

\* No message of a text of its own gets a second entry, but one that a history
\* brings beside its temporary entry.
LEMMA NoDoublesStay ==
    ASSUME TypeOK, ComesFromTable, TempsAreUnderWay, NoDoubles, [Next]_vars
    PROVE  NoDoubles'
<1>1. PICK l \in Seq(Entry), n \in Seq(Entry), e \in {early}, d \in {early'} :
        l = list /\ n = list' /\ e = early /\ d = early'
  BY PageTypeStep DEF TypeOK
<1>2. \A x \in Message \ e : Unique(x) => Once(l, x)
  BY <1>1 DEF NoDoubles, Once
<1>3. Mine \subseteq Message
  BY DEF Mine
<1>4. SUFFICES \A x \in Message \ d : Unique(x) => Once(n, x)
  <2>1. about' = about
    BY PageTypeStep
  <2>2. \A x : Unique(x)' <=> Unique(x)
    BY <2>1 DEF Unique, TextOf
  <2> QED BY <1>1, <2>2 DEF NoDoubles, Once
<1>5. CASE PageStays
  BY <1>1, <1>2, <1>5 DEF PageStays
<1>6. CASE wire # <<>> /\ RoomOf(Head(wire)) = view /\ EventShown(Head(wire))
  <2>1. PICK m \in Message : m = Head(wire) /\ n = WithEvent(l, m) /\ d = e
    BY <1>1, <1>6, TailRange DEF EventShown, TypeOK
  <2>2. \A x \in Message : Unique(x) /\ Once(l, x) => Once(n, x)
    BY <2>1, EventEffect
  <2> QED BY <1>2, <2>1, <2>2
<1>7. ASSUME NEW m \in Mine, Posted(m, "unsent", "waiting"), list' = Append(list, Temp(m))
      PROVE  \A x \in Message \ d : Unique(x) => Once(n, x)
  <2>1. d = e /\ post[m] = "unsent" /\ n = Append(l, Temp(m))
    BY <1>1, <1>7 DEF Posted
  <2>2. ~Has(l, Temp(m))
    <3>1. PICK q : q = post
      OBVIOUS
    <3>2. Has(l, Temp(m)) => q[m] = "waiting"
      BY <1>1, <1>3, <3>1, ListByMessage DEF TempsAreUnderWay
    <3> QED BY <2>1, <3>1, <3>2
  <2>3. ~Has(l, Shown(m))
    BY <1>1, <1>3, <2>1 DEF ComesFromTable
  <2>4. \A c \in Range(l) : c.msg # m
    BY <1>3, <2>2, <2>3, ListByMessage
  <2>5. Once(n, m) /\ \A x \in Message \ {m} : Once(l, x) => Once(n, x)
    BY <1>3, <2>1, <2>4, SendEffect
  <2> QED BY <1>2, <2>1, <2>5
<1>8. ASSUME NEW m \in Mine, Posted(m, "waiting", "done"), list' = WithAnswer(list, m)
      PROVE  \A x \in Message \ d : Unique(x) => Once(n, x)
  <2>1. d = e /\ n = WithAnswer(l, m)
    BY <1>1, <1>8 DEF Posted
  <2>2. \A x \in Message : Once(l, x) => Once(n, x)
    BY <1>3, <2>1, AnswerEffect
  <2> QED BY <1>2, <2>1, <2>2
<1>9. ASSUME NEW m \in Mine, Posted(m, "waiting", "failed"), list' = Without(list, Temp(m))
      PROVE  \A x \in Message \ d : Unique(x) => Once(n, x)
  <2>1. d = e /\ n = Without(l, Temp(m)) /\ Temp(m) \in Entry
    BY <1>1, <1>3, <1>9, EntryForms DEF Posted
  <2>2. \A x \in Message : Once(l, x) => Once(n, x)
    BY <2>1, WithoutEffect
  <2> QED BY <1>2, <2>1, <2>2
<1>10. ASSUME NEW i \in DOMAIN fetch, HistoryShown(fetch[i].msgs)
       PROVE  \A x \in Message \ d : Unique(x) => Once(n, x)
  <2>1. PICK h \in Seq(Message) :
          /\ h = fetch[i].msgs /\ HasNoTwice(h) /\ n = WithHistory(l, h)
          /\ d = e \cup {m \in Range(h) : Has(l, Temp(m))}
    BY <1>1, <1>10, FetchedMessages DEF ComesFromTable, HistoryShown
  <2>2. \A x \in Message :
          Once(l, x) /\ (x \in Range(h) => ~Has(l, Temp(x))) => Once(n, x)
    BY <2>1, HistoryEffect
  <2> QED BY <1>2, <2>1, <2>2
<1> QED BY <1>5, <1>6, <1>7, <1>8, <1>9, <1>10, PageSteps

-----------------------------------------------------------------------------
(* What a step does to the server, the socket and the fetches.             *)

\* The table and the events grow by one message at a time: a post that is under
\* way or given up is stored, and told of once it is.
LEMMA TableSteps ==
    ASSUME [Next]_vars
    PROVE  \/ stored' = stored /\ told' = told
           \/ \E m \in Message :
                /\ m \notin Range(stored) /\ (m \in Mine => post[m] # "unsent")
                /\ stored' = Append(stored, m) /\ told' = told /\ post' = post
           \/ \E m \in Range(stored) :
                /\ m \in Message /\ told[m] = "no" /\ stored' = stored
                /\ \/ told' = [told EXCEPT ![m] = "event"]
                   \/ told' = [told EXCEPT ![m] = "nothing"]
<1>1. ASSUME NEW r \in Room \cup {NoRoom}, Enter(r) PROVE stored' = stored /\ told' = told
  BY <1>1 DEF Enter, server
<1>2. ASSUME Open \/ Drop \/ ReadJoin \/ Forward \/ Receive
      PROVE  stored' = stored /\ told' = told
  BY <1>2 DEF Open, Drop, ReadJoin, Forward, Receive, server
<1>3. ASSUME NEW i, ReadOldJoin(i) \/ Leave(i) PROVE stored' = stored /\ told' = told
  BY <1>3 DEF ReadOldJoin, Leave, server
<1>4. ASSUME NEW m, Send(m) \/ Answer(m) \/ SendFails(m)
      PROVE  stored' = stored /\ told' = told
  BY <1>4 DEF Send, Answer, SendFails, server
<1>5. ASSUME NEW i, ReadHistory(i) \/ TakeHistory(i) \/ LoseHistory(i)
      PROVE  stored' = stored /\ told' = told
  BY <1>5 DEF ReadHistory, TakeHistory, LoseHistory, server
<1>6. ASSUME NEW m \in Message, Store(m)
      PROVE  /\ m \notin Range(stored) /\ (m \in Mine => post[m] # "unsent")
             /\ stored' = Append(stored, m) /\ told' = told /\ post' = post
  BY <1>6 DEF Store, page
<1>7. ASSUME NEW m \in Message, Announce(m)
      PROVE  /\ m \in Range(stored) /\ told[m] = "no" /\ stored' = stored
             /\ told' = [told EXCEPT ![m] = "event"]
  BY <1>7 DEF Announce
<1>8. ASSUME NEW m \in Message, StopShort(m)
      PROVE  /\ m \in Range(stored) /\ told[m] = "no" /\ stored' = stored
             /\ told' = [told EXCEPT ![m] = "nothing"]
  BY <1>8 DEF StopShort
<1>9. CASE UNCHANGED vars
  BY <1>9 DEF vars
<1> QED BY <1>1, <1>2, <1>3, <1>4, <1>5, <1>6, <1>7, <1>8, <1>9 DEF Next

\* The table only grows, and by messages.
LEMMA TableTypeStep ==
    ASSUME TypeOK, [Next]_vars
    PROVE  /\ stored' \in Seq(Message) /\ Range(stored) \subseteq Range(stored')
           /\ told' \in [Message -> {"no", "event", "nothing"}]
<1>1. PICK s \in Seq(Message) : s = stored
  BY DEF TypeOK
<1>2. CASE stored' = stored /\ told' = told
  BY <1>2 DEF TypeOK
<1>3. ASSUME NEW m \in Message, stored' = Append(stored, m), told' = told
      PROVE  /\ stored' \in Seq(Message) /\ Range(stored) \subseteq Range(stored')
             /\ told' \in [Message -> {"no", "event", "nothing"}]
  <2>1. Append(s, m) \in Seq(Message) /\ Range(s) \subseteq Range(Append(s, m))
    BY AppendRange
  <2> QED BY <1>1, <1>3, <2>1 DEF TypeOK
<1>4. ASSUME NEW m \in Message, stored' = stored,
             \/ told' = [told EXCEPT ![m] = "event"]
             \/ told' = [told EXCEPT ![m] = "nothing"]
      PROVE  /\ stored' \in Seq(Message) /\ Range(stored) \subseteq Range(stored')
             /\ told' \in [Message -> {"no", "event", "nothing"}]
  BY <1>4 DEF TypeOK
<1> QED BY <1>2, <1>3, <1>4, TableSteps

\* An event comes to the page by way of the socket's task.
LEMMA WireStep ==
    ASSUME TypeOK, [Next]_vars
    PROVE  /\ wire' \in Seq(Message) /\ unread' \in Seq(Message)
           /\ Range(wire') \subseteq Range(wire) \cup Range(unread)
           /\ Range(unread') \subseteq Range(unread) \cup Range(stored)
<1>1. PICK w \in Seq(Message), u \in Seq(Message) : w = wire /\ u = unread
  BY DEF TypeOK
<1>2. ASSUME wire' = <<>> /\ unread' = <<>>
      PROVE  /\ wire' \in Seq(Message) /\ unread' \in Seq(Message)
             /\ Range(wire') = {} /\ Range(unread') = {}
  BY <1>2 DEF Range
<1>3. ASSUME NEW r \in Room \cup {NoRoom}, Enter(r) PROVE wire' = <<>> /\ unread' = <<>>
  BY <1>3 DEF Enter
<1>4. ASSUME Drop PROVE wire' = <<>> /\ unread' = <<>>
  BY <1>4 DEF Drop
<1>5. CASE Open \/ ReadJoin
  BY <1>5 DEF Open, ReadJoin, TypeOK
<1>6. CASE Forward
  <2>1. u # <<>> /\ unread' = Tail(u) /\ (wire' = Append(w, Head(u)) \/ wire' = w)
    BY <1>1, <1>6 DEF Forward
  <2>2. PICK m \in Message, t \in Seq(Message) :
          m = Head(u) /\ t = Tail(u) /\ Range(u) = Range(t) \cup {m}
    BY <2>1, TailRange
  <2>3. Append(w, m) \in Seq(Message) /\ Range(Append(w, m)) = Range(w) \cup {m}
    BY AppendRange
  <2> QED BY <1>1, <2>1, <2>2, <2>3
<1>7. CASE Receive
  <2>1. w # <<>> /\ wire' = Tail(w) /\ unread' = unread
    BY <1>1, <1>7 DEF Receive
  <2>2. Tail(w) \in Seq(Message) /\ Range(Tail(w)) \subseteq Range(w)
    BY <2>1, TailRange
  <2> QED BY <1>1, <2>1, <2>2
<1>8. ASSUME NEW m \in Message, Announce(m)
      PROVE  /\ wire' = wire
             /\ \/ unread' = unread
                \/ m \in Range(stored) /\ unread' = Append(u, m)
  BY <1>1, <1>8 DEF Announce
<1>9. ASSUME NEW m \in Message, m \in Range(stored), unread' = Append(u, m)
      PROVE  unread' \in Seq(Message) /\ Range(unread') \subseteq Range(unread) \cup Range(stored)
  <2>1. Append(u, m) \in Seq(Message) /\ Range(Append(u, m)) = Range(u) \cup {m}
    BY AppendRange
  <2> QED BY <1>1, <1>9, <2>1
<1>10. ASSUME NEW i, ReadOldJoin(i) \/ Leave(i) PROVE wire' = wire /\ unread' = unread
  BY <1>10 DEF ReadOldJoin, Leave, socket
<1>11. ASSUME NEW m, Send(m) \/ Answer(m) \/ SendFails(m) \/ Store(m) \/ StopShort(m)
       PROVE  wire' = wire /\ unread' = unread
  BY <1>11 DEF Send, Answer, SendFails, Store, StopShort, socket
<1>12. ASSUME NEW i, ReadHistory(i) \/ TakeHistory(i) \/ LoseHistory(i)
       PROVE  wire' = wire /\ unread' = unread
  BY <1>12 DEF ReadHistory, TakeHistory, LoseHistory, socket
<1>13. CASE UNCHANGED vars
  BY <1>13 DEF vars, TypeOK
<1>14. wire' = wire /\ unread' = unread =>
          /\ wire' \in Seq(Message) /\ unread' \in Seq(Message)
          /\ Range(wire') \subseteq Range(wire) \cup Range(unread)
          /\ Range(unread') \subseteq Range(unread) \cup Range(stored)
  BY DEF TypeOK
<1>15. ASSUME NEW m \in Message, Announce(m)
       PROVE  /\ wire' \in Seq(Message) /\ unread' \in Seq(Message)
              /\ Range(wire') \subseteq Range(wire) \cup Range(unread)
              /\ Range(unread') \subseteq Range(unread) \cup Range(stored)
  BY <1>8, <1>9, <1>14, <1>15 DEF TypeOK
<1> QED BY <1>2, <1>3, <1>4, <1>5, <1>6, <1>7, <1>10, <1>11, <1>12, <1>13, <1>14,
           <1>15 DEF Next

\* A fetch that is begun, and one that has read the table.
Begun(r) == [room |-> r, read |-> FALSE, msgs |-> <<>>]
Done(r) == [room |-> r, read |-> TRUE, msgs |-> History(r)]

\* The history of a room: its messages, each once if the table has them once.
LEMMA HistoryIsOfRoom ==
    ASSUME TypeOK, NEW r \in Room
    PROVE  /\ History(r) \in Seq(Message)
           /\ Range(History(r)) = {m \in Range(stored) : RoomOf(m) = r}
           /\ HasNoTwice(stored) => HasNoTwice(History(r))
<1>1. PICK s \in Seq(Message), T \in SUBSET Message :
        s = stored /\ T = {m \in Message : RoomOf(m) = r}
  BY DEF TypeOK
<1>2. PICK k \in Seq(Message) : k = Kept(s, T)
  BY KeptInOrder
<1>3. Range(Kept(s, T)) = Range(s) \cap T /\ Range(s) \subseteq Message
  BY KeptRange, RangeByPlace
<1>4. HasNoTwice(s) => HasNoTwice(Kept(s, T))
  BY KeptHasNoTwice
<1>5. /\ Reverse(k) \in Seq(Message) /\ Range(Reverse(k)) = Range(k)
      /\ HasNoTwice(k) => HasNoTwice(Reverse(k))
  BY ReverseRange
<1>6. History(r) = Reverse(k)
  BY <1>1, <1>2 DEF History
<1> QED BY <1>1, <1>2, <1>3, <1>4, <1>5, <1>6

\* The fetches under way: one begun when a room is entered, one that reads the
\* table, or one less.
LEMMA FetchSteps ==
    ASSUME [Next]_vars, TypeOK
    PROVE  \/ fetch' = fetch
           \/ \E r \in Room : view' = r /\ fetch' = Append(fetch, Begun(r))
           \/ \E i \in DOMAIN fetch :
                /\ fetch[i].read = FALSE
                /\ fetch' = [fetch EXCEPT ![i] = Done(fetch[i].room)]
                /\ view' = view /\ missed' = missed
           \/ \E i \in DOMAIN fetch :
                /\ fetch' = RemoveAt(fetch, i) /\ view' = view
                /\ TakeHistory(i) \/ LoseHistory(i)
<1>1. ASSUME NEW r \in Room \cup {NoRoom}, Enter(r)
      PROVE  \/ fetch' = fetch
             \/ r \in Room /\ view' = r /\ fetch' = Append(fetch, Begun(r))
  BY <1>1 DEF Enter, Begun
<1>2. ASSUME Open \/ Drop \/ ReadJoin \/ Forward \/ Receive PROVE fetch' = fetch
  BY <1>2 DEF Open, Drop, ReadJoin, Forward, Receive, page
<1>3. ASSUME NEW i, ReadOldJoin(i) \/ Leave(i) PROVE fetch' = fetch
  BY <1>3 DEF ReadOldJoin, Leave, page
<1>4. ASSUME NEW m, \/ Send(m) \/ Answer(m) \/ SendFails(m)
                    \/ Store(m) \/ Announce(m) \/ StopShort(m)
      PROVE  fetch' = fetch
  BY <1>4 DEF Send, Answer, SendFails, Store, Announce, StopShort, page
<1>5. ASSUME NEW i \in DOMAIN fetch, ReadHistory(i)
      PROVE  /\ fetch[i].read = FALSE
             /\ fetch' = [fetch EXCEPT ![i] = Done(fetch[i].room)]
             /\ view' = view /\ missed' = missed
  <2>1. PICK f, h : f = fetch[i] /\ h = History(f.room)
    OBVIOUS
  <2>2. f \in [room : Room, read : BOOLEAN, msgs : Seq(Message)]
    BY <2>1, FetchedMessages
  <2>3. /\ ~f.read /\ view' = view /\ missed' = missed
        /\ fetch' = [fetch EXCEPT ![i] = [[f EXCEPT !.read = TRUE] EXCEPT !.msgs = h]]
    BY <1>5, <2>1 DEF ReadHistory
  <2>4. [[f EXCEPT !.read = TRUE] EXCEPT !.msgs = h] = Done(f.room)
    <3>1. PICK g : g = [[f EXCEPT !.read = TRUE] EXCEPT !.msgs = h]
      OBVIOUS
    <3>2. DOMAIN f = {"room", "read", "msgs"} /\ f = [x \in DOMAIN f |-> f[x]]
      BY <2>2
    <3>3. /\ g = [x \in {"room", "read", "msgs"} |-> g[x]]
          /\ g.room = f.room /\ g.read = TRUE /\ g.msgs = h
      BY <3>1, <3>2
    <3>4. g = [room |-> f.room, read |-> TRUE, msgs |-> h]
      BY <3>3
    <3> QED BY <2>1, <3>1, <3>4 DEF Done
  <2>5. f.read \in BOOLEAN
    BY <2>2
  <2> QED BY <2>1, <2>3, <2>4, <2>5
<1>6. ASSUME NEW i \in DOMAIN fetch, TakeHistory(i) \/ LoseHistory(i)
      PROVE  fetch' = RemoveAt(fetch, i) /\ view' = view
  BY <1>6 DEF TakeHistory, LoseHistory
<1>7. CASE UNCHANGED vars
  BY <1>7 DEF vars
<1> QED BY <1>1, <1>2, <1>3, <1>4, <1>5, <1>6, <1>7 DEF Next

\* What is on its way to the page is in the table, once, as long as the table
\* only grows and a history is read from it whole.
LEMMA TableStays ==
    ASSUME ViewInv, [Next]_vars
    PROVE  ComesFromTable'
<1> USE DEF ViewInv
<1>1. PICK s \in Seq(Message), t \in Seq(Message), p \in {post}, q \in {post'},
           o \in {told}, n \in {told'} :
        /\ s = stored /\ t = stored' /\ p = post /\ q = post' /\ o = told /\ n = told'
        /\ Range(s) \subseteq Range(t)
  BY TableTypeStep DEF TypeOK
<1>2. about' = about /\ Mine' = Mine /\ Mine \subseteq Message
  BY PageTypeStep DEF Mine
<1>3. /\ HasNoTwice(t)
      /\ \A m \in Message : n[m] # "no" => m \in Range(t)
      /\ \A m \in Mine : p[m] = "unsent" => m \notin Range(s)
      /\ \A m \in Mine : m \in Range(t) => m \in Range(s) \/ (q = p /\ p[m] # "unsent")
  <2>0. /\ HasNoTwice(s) /\ \A m \in Message : o[m] # "no" => m \in Range(s)
        /\ \A m \in Mine : p[m] = "unsent" => m \notin Range(s)
    BY <1>1 DEF ComesFromTable
  <2>1. CASE stored' = stored /\ told' = told
    BY <1>1, <2>0, <2>1
  <2>2. ASSUME NEW m \in Message, m \notin Range(stored), m \in Mine => post[m] # "unsent",
               stored' = Append(stored, m), told' = told, post' = post
        PROVE  /\ HasNoTwice(t) /\ Range(t) = Range(s) \cup {m} /\ n = o /\ q = p
               /\ m \in Mine => p[m] # "unsent"
    <3>1. Range(Append(s, m)) = Range(s) \cup {m} /\ HasNoTwice(Append(s, m))
      BY <1>1, <2>0, <2>2, AppendRange
    <3> QED BY <1>1, <2>2, <3>1
  <2>3. ASSUME NEW m \in Range(stored), m \in Message, stored' = stored,
               \/ told' = [told EXCEPT ![m] = "event"]
               \/ told' = [told EXCEPT ![m] = "nothing"]
        PROVE  t = s /\ m \in Range(s) /\ \A x \in Message \ {m} : n[x] = o[x]
    <3>1. o \in [Message -> {"no", "event", "nothing"}]
      BY <1>1 DEF TypeOK
    <3> QED BY <1>1, <2>3, <3>1
  <2> DEFINE Goal == /\ HasNoTwice(t)
                     /\ \A m \in Message : n[m] # "no" => m \in Range(t)
                     /\ \A m \in Mine : m \in Range(t) =>
                           m \in Range(s) \/ (q = p /\ p[m] # "unsent")
  <2>4. ASSUME NEW m \in Message, m \notin Range(stored), m \in Mine => post[m] # "unsent",
               stored' = Append(stored, m), told' = told, post' = post
        PROVE  Goal
    <3>1. /\ HasNoTwice(t) /\ Range(t) = Range(s) \cup {m} /\ n = o /\ q = p
          /\ m \in Mine => p[m] # "unsent"
      BY <2>2, <2>4
    <3> QED BY <2>0, <3>1
  <2>5. ASSUME NEW m \in Range(stored), m \in Message, stored' = stored,
               \/ told' = [told EXCEPT ![m] = "event"]
               \/ told' = [told EXCEPT ![m] = "nothing"]
        PROVE  Goal
    <3>1. t = s /\ m \in Range(s) /\ \A x \in Message \ {m} : n[x] = o[x]
      BY <2>3, <2>5
    <3> QED BY <2>0, <3>1
  <2>6. Goal
    <3> HIDE DEF Goal
    <3>1. stored' = stored /\ told' = told => Goal
      BY <1>1, <2>0, <2>1 DEF Goal
    <3> QED BY <2>4, <2>5, <3>1, TableSteps
  <2> QED BY <2>0, <2>6
<1>4. \A m \in Mine : q[m] = "unsent" => p[m] = "unsent"
  <2>1. p \in [Message -> {"unsent", "waiting", "done", "failed"}]
    BY <1>1 DEF TypeOK
  <2>2. CASE q = p
    BY <2>2
  <2>3. ASSUME NEW m \in Mine, NEW v \in {"waiting", "done", "failed"}, q = [p EXCEPT ![m] = v]
        PROVE  \A x \in Mine : q[x] = "unsent" => p[x] = "unsent"
    BY <1>2, <2>1, <2>3
  <2>4. q = p \/ \E m \in Mine, v \in {"waiting", "done", "failed"} : q = [p EXCEPT ![m] = v]
    BY <1>1, PageSteps DEF PageStays, EventShown, Posted, HistoryShown
  <2> QED BY <2>2, <2>3, <2>4
<1>5. \A m \in Mine : q[m] = "unsent" => m \notin Range(t)
  BY <1>3, <1>4
<1>6. Range(wire') \subseteq Range(t) /\ Range(unread') \subseteq Range(t)
  BY <1>1, WireStep DEF ComesFromTable
<1>7. \A m \in Message : Has(list', Shown(m)) => m \in Range(t)
  BY <1>1, ShownStays
<1>8. PICK f \in Seq([room : Room, read : BOOLEAN, msgs : Seq(Message)]),
           g \in {fetch'} : f = fetch /\ g = fetch'
  BY DEF TypeOK
<1> DEFINE Good(z) == /\ HasNoTwice(z.msgs)
                      /\ \A m \in Range(z.msgs) : m \in Range(t) /\ RoomOf(m) = z.room
<1>9. \A i \in DOMAIN g : Good(g[i])
  <2>1. \A i \in DOMAIN f : Good(f[i])
    BY <1>1, <1>8 DEF ComesFromTable
  <2>2. DOMAIN f = 1 .. Len(f)
    BY <1>8
  <2>3. ASSUME NEW r \in Room, g = Append(f, Begun(r))
        PROVE  \A i \in DOMAIN g : Good(g[i])
    <3>1. Begun(r) \in [room : Room, read : BOOLEAN, msgs : Seq(Message)] /\ Begun(r).msgs = <<>>
      BY DEF Begun
    <3>2. Good(Begun(r))
      BY <3>1 DEF Range, HasNoTwice
    <3>3. \A i \in DOMAIN g : (i \in DOMAIN f /\ g[i] = f[i]) \/ g[i] = Begun(r)
      <4>1. PICK b \in [room : Room, read : BOOLEAN, msgs : Seq(Message)] : b = Begun(r)
        BY <3>1
      <4>2. /\ DOMAIN Append(f, b) = 1 .. Len(f) + 1 /\ Append(f, b)[Len(f) + 1] = b
            /\ \A i \in 1 .. Len(f) : Append(f, b)[i] = f[i]
        BY <1>8, AppendProperties
      <4>3. PICK k \in Nat : k = Len(f)
        BY <1>8
      <4> QED BY <2>2, <2>3, <4>1, <4>2, <4>3
    <3> QED BY <2>1, <3>2, <3>3
  <2>4. ASSUME NEW i \in DOMAIN f, g = [f EXCEPT ![i] = Done(f[i].room)]
        PROVE  \A j \in DOMAIN g : Good(g[j])
    <3>1. PICK r \in Room : r = f[i].room
      BY <1>8, <2>4, FetchedMessages
    <3>2. /\ HasNoTwice(History(r))
          /\ Range(History(r)) = {m \in Range(s) : RoomOf(m) = r}
      BY <1>1, HistoryIsOfRoom DEF ComesFromTable
    <3>3. Done(r).msgs = History(r) /\ Done(r).room = r
      BY DEF Done
    <3>4. Good(Done(r))
      BY <1>1, <3>2, <3>3
    <3>5. \A j \in DOMAIN g : j \in DOMAIN f /\ (g[j] = f[j] \/ g[j] = Done(r))
      BY <2>4, <3>1
    <3> QED BY <2>1, <3>4, <3>5
  <2>5. ASSUME NEW i \in DOMAIN f, g = RemoveAt(f, i) PROVE \A j \in DOMAIN g : Good(g[j])
    <3>1. \A j \in DOMAIN RemoveAt(f, i) : \E k \in DOMAIN f : RemoveAt(f, i)[j] = f[k]
      <4>1. PICK S : S = [room : Room, read : BOOLEAN, msgs : Seq(Message)]
        OBVIOUS
      <4>2. f \in Seq(S) /\ i \in 1 .. Len(f)
        BY <1>8, <2>2, <4>1
      <4> QED BY <4>2, RemoveAtEffect
    <3> QED BY <2>1, <2>5, <3>1
  <2> QED BY <1>8, <2>1, <2>3, <2>4, <2>5, FetchSteps
<1>10. \A m : RoomOf(m)' = RoomOf(m)
  BY <1>2 DEF RoomOf
<1> QED BY <1>1, <1>2, <1>3, <1>5, <1>6, <1>7, <1>8, <1>9, <1>10 DEF ComesFromTable

\* A fetch that has read is one of its room.
LEMMA FetchTypeStep ==
    ASSUME TypeOK, [Next]_vars
    PROVE  fetch' \in Seq([room : Room, read : BOOLEAN, msgs : Seq(Message)])
<1>1. PICK S : S = [room : Room, read : BOOLEAN, msgs : Seq(Message)]
  OBVIOUS
<1>2. PICK f \in Seq(S) : f = fetch
  BY <1>1 DEF TypeOK
<1>3. DOMAIN f = 1 .. Len(f) /\ \A i \in DOMAIN f : f[i] \in S
  BY ElementOfSeq
<1>4. ASSUME NEW r \in Room, fetch' = Append(fetch, Begun(r)) PROVE fetch' \in Seq(S)
  <2>1. Begun(r) \in [room : Room, read : BOOLEAN, msgs : Seq(Message)]
    BY DEF Begun
  <2>2. PICK b \in S : b = Begun(r)
    BY <1>1, <2>1
  <2> QED BY <1>2, <1>4, <2>2, AppendProperties
<1>5. ASSUME NEW i \in DOMAIN f, fetch' = [fetch EXCEPT ![i] = Done(fetch[i].room)]
      PROVE  fetch' \in Seq(S)
  <2>1. PICK r \in Room : r = fetch[i].room
    BY <1>2, <1>5, FetchedMessages
  <2>2. PICK d \in S : d = Done(r)
    BY <1>1, HistoryIsOfRoom DEF Done
  <2> QED BY <1>2, <1>5, <2>1, <2>2, ExceptSeq
<1>6. ASSUME NEW i \in DOMAIN f, fetch' = RemoveAt(fetch, i) PROVE fetch' \in Seq(S)
  <2>1. i \in 1 .. Len(f)
    BY <1>3
  <2> QED BY <1>2, <1>6, <2>1, RemoveAtEffect
<1> QED BY <1>1, <1>2, <1>4, <1>5, <1>6, FetchSteps

\* What a step does to the room shown, the socket, its join, the rooms joined,
\* the former tasks and the bound.
LEMMA SocketTypeStep ==
    ASSUME TypeOK, JoinsARoom, [Next]_vars
    PROVE  /\ view' \in Room \cup {NoRoom} /\ breaks' \in 0 .. MaxBreaks
           /\ link' \in {"closed", "open"} /\ join' \in {"none", "queued", "sent"}
           /\ join' = "queued" => link' = "closed"
           /\ join' = "sent" => link' = "open"
           /\ JoinsARoom'
           /\ member' \subseteq Room /\ old' \in Seq(Room \cup {NoRoom})
<1> DEFINE Socket(v, b, k, j) ==
             /\ v \in Room \cup {NoRoom} /\ b \in 0 .. MaxBreaks
             /\ k \in {"closed", "open"} /\ j \in {"none", "queued", "sent"}
             /\ j = "queued" => k = "closed"
             /\ j = "sent" => k = "open"
             /\ j # "none" => v # NoRoom
           Server(m, o) == m \subseteq Room /\ o \in Seq(Room \cup {NoRoom})
           Goal == Socket(view', breaks', link', join') /\ Server(member', old')
           SocketStays == /\ view' = view /\ link' = link /\ join' = join
                          /\ breaks' = breaks \/ (breaks < MaxBreaks /\ breaks' = breaks + 1)
           ServerStays == SocketStays /\ member' = member /\ old' = old
<1> HIDE DEF Socket, Server, Goal, SocketStays, ServerStays
<1>0. Socket(view, breaks, link, join) /\ Server(member, old)
  BY DEF TypeOK, JoinsARoom, Socket, Server
<1>1. PICK R, o : R = Room \cup {NoRoom} /\ o \in Seq(R) /\ o = old
  BY DEF TypeOK
<1>2. Server(member, Former)
  <2>1. PICK r \in R : r = IF join = "sent" THEN view ELSE NoRoom
    BY <1>0, <1>1 DEF Socket
  <2>2. Append(o, r) \in Seq(R)
    BY <1>1, AppendProperties
  <2> QED BY <1>0, <1>1, <2>1, <2>2 DEF Former, Server
<1>3. breaks < MaxBreaks /\ breaks' = breaks + 1 => breaks' \in 0 .. MaxBreaks
  BY <1>0, ViewAssumption DEF Socket
<1>4. ASSUME NEW r \in Room \cup {NoRoom}, Enter(r) PROVE Goal
  <2>1. /\ breaks' \in 0 .. MaxBreaks /\ view' = r /\ link' = "closed"
        /\ member' = member /\ old' = Former
        /\ join' = "none" \/ (r # NoRoom /\ join' = "queued")
    BY <1>3, <1>4 DEF Enter
  <2>2. Socket(view', breaks', link', join')
    BY <1>0, <2>1 DEF Socket
  <2>3. Server(member', old')
    BY <1>2, <2>1 DEF Server
  <2> QED BY <2>2, <2>3 DEF Goal
<1>5. ASSUME Open PROVE Goal
  <2>1. /\ breaks' = breaks /\ view' = view /\ link' = "open"
        /\ member' = member /\ old' = old
        /\ join' = "none" \/ (view # NoRoom /\ join' = "sent")
    BY <1>5 DEF Open, page
  <2>2. Socket(view', breaks', link', join')
    BY <1>0, <2>1 DEF Socket
  <2>3. Server(member', old')
    BY <1>0, <2>1 DEF Server, Socket
  <2> QED BY <2>2, <2>3 DEF Goal
<1>6. ASSUME Drop PROVE Goal
  <2>1. /\ breaks' \in 0 .. MaxBreaks /\ view' = view /\ link' = "closed"
        /\ member' = member /\ old' = Former /\ join' = "none"
    BY <1>3, <1>6 DEF Drop, page
  <2>2. Socket(view', breaks', link', join')
    BY <1>0, <2>1 DEF Socket
  <2>3. Server(member', old')
    BY <1>2, <2>1 DEF Server
  <2> QED BY <2>2, <2>3 DEF Goal
<1>7. ASSUME ReadJoin PROVE Goal
  <2>1. /\ breaks' = breaks /\ view' = view /\ link' = link /\ join' = "none"
        /\ old' = old /\ member' = member \cup {view} /\ join = "sent"
    BY <1>7 DEF ReadJoin, page
  <2>2. Socket(view', breaks', link', join')
    BY <1>0, <2>1 DEF Socket
  <2>3. Server(member', old')
    BY <1>0, <2>1 DEF Server, Socket
  <2> QED BY <2>2, <2>3 DEF Goal
<1>8. SocketStays => Socket(view', breaks', link', join')
  BY <1>0, <1>3 DEF Socket, SocketStays
<1>9. ASSUME NEW i \in DOMAIN old, ReadOldJoin(i) PROVE Goal
  <2>1. SocketStays /\ old[i] # NoRoom /\ member' = member \cup {old[i]}
    BY <1>9 DEF ReadOldJoin, page, socket, SocketStays
  <2>2. /\ old' = [o EXCEPT ![i] = NoRoom] /\ NoRoom \in R /\ i \in DOMAIN o
        /\ o[i] \in R
    BY <1>1, <1>9, ElementOfSeq DEF ReadOldJoin
  <2>3. old' \in Seq(R)
    BY <1>1, <2>2, ExceptSeq
  <2>4. Server(member', old')
    BY <1>0, <1>1, <2>1, <2>2, <2>3 DEF Server
  <2> QED BY <1>8, <2>1, <2>4 DEF Goal
<1>10. ASSUME NEW i \in DOMAIN old, Leave(i) PROVE Goal
  <2>1. SocketStays /\ member' = {} /\ old' = RemoveAt(o, i) /\ i \in 1 .. Len(o)
    BY <1>1, <1>10, ElementOfSeq DEF Leave, page, socket, SocketStays
  <2>2. RemoveAt(o, i) \in Seq(R)
    BY <1>1, <2>1, RemoveAtEffect
  <2>3. Server(member', old')
    BY <1>1, <2>1, <2>2 DEF Server
  <2> QED BY <1>8, <2>1, <2>3 DEF Goal
<1>11. ServerStays => Goal
  BY <1>0, <1>8 DEF ServerStays, Goal
<1>12. ASSUME Forward \/ Receive PROVE Goal
  <2>1. ServerStays
    BY <1>12 DEF Forward, Receive, page, ServerStays, SocketStays
  <2> QED BY <1>11, <2>1
<1>13. ASSUME NEW m, Send(m) \/ Answer(m) \/ SendFails(m) \/ Store(m) \/ Announce(m) \/ StopShort(m)
       PROVE  Goal
  <2>1. ServerStays
    BY <1>13 DEF Send, Answer, SendFails, Store, Announce, StopShort, page, socket,
           ServerStays, SocketStays
  <2> QED BY <1>11, <2>1
<1>14. ASSUME NEW i, ReadHistory(i) \/ TakeHistory(i) \/ LoseHistory(i) PROVE Goal
  <2>1. ServerStays
    BY <1>14 DEF ReadHistory, TakeHistory, LoseHistory, socket, ServerStays, SocketStays
  <2> QED BY <1>11, <2>1
<1>15. ASSUME UNCHANGED vars PROVE Goal
  <2>1. ServerStays
    BY <1>15 DEF vars, ServerStays, SocketStays
  <2> QED BY <1>11, <2>1
<1>16. Goal
  BY <1>4, <1>5, <1>6, <1>7, <1>9, <1>10, <1>12, <1>13, <1>14, <1>15 DEF Next
<1> QED BY <1>16 DEF JoinsARoom, Goal, Socket, Server

\* What is missed are messages.
LEMMA MissedTypeStep ==
    ASSUME TypeOK, [Next]_vars
    PROVE  missed' \subseteq Message
<1>1. PICK w \in Seq(Message), u \in Seq(Message), s \in Seq(Message) :
        w = wire /\ u = unread /\ s = stored
  BY DEF TypeOK
<1>2. Range(w) \subseteq Message /\ Range(u) \subseteq Message /\ Range(s) \subseteq Message
  BY RangeByPlace
<1>3. missed \subseteq Message
  BY DEF TypeOK
<1>4. ASSUME NEW r, Enter(r) PROVE missed' = {}
  BY <1>4 DEF Enter
<1>5. ASSUME Open \/ ReadJoin \/ Receive PROVE missed' = missed
  BY <1>5 DEF Open, ReadJoin, Receive
<1>6. ASSUME Drop PROVE missed' = missed \cup Range(w) \cup Range(u)
  BY <1>1, <1>6 DEF Drop
<1>7. ASSUME Forward PROVE missed' \subseteq missed \cup {Head(u)} /\ Head(u) \in Message
  <2>1. Head(u) \in Message
    BY <1>1, <1>7, TailRange DEF Forward
  <2> QED BY <1>1, <1>7, <2>1 DEF Forward
<1>8. ASSUME NEW i, ReadOldJoin(i) \/ Leave(i) PROVE missed' = missed
  BY <1>8 DEF ReadOldJoin, Leave
<1>9. ASSUME NEW m, Send(m) \/ Answer(m) \/ SendFails(m) \/ Store(m) PROVE missed' = missed
  BY <1>9 DEF Send, Answer, SendFails, Store
<1>10. ASSUME NEW m \in Message, Announce(m) \/ StopShort(m)
       PROVE  missed' \subseteq missed \cup {m}
  BY <1>10 DEF Announce, StopShort
<1>11. ASSUME NEW i, ReadHistory(i) \/ TakeHistory(i) PROVE missed' \subseteq missed
  BY <1>11 DEF ReadHistory, TakeHistory
<1>12. ASSUME NEW i, LoseHistory(i) PROVE missed' \subseteq missed \cup Range(s)
  BY <1>1, <1>12 DEF LoseHistory
<1>13. CASE UNCHANGED vars
  BY <1>3, <1>13 DEF vars
<1> QED BY <1>2, <1>3, <1>4, <1>5, <1>6, <1>7, <1>8, <1>9, <1>10, <1>11, <1>12, <1>13 DEF Next

\* Every step of the page, its socket and the server keeps the types.
LEMMA TypesStay ==
    ASSUME TypeOK, JoinsARoom, ComesFromTable, [Next]_vars
    PROVE  TypeOK' /\ JoinsARoom'
<1>1. about' \in [Message -> [room : Room, text : Text, mine : BOOLEAN]]
  BY PageTypeStep DEF TypeOK
<1> QED BY <1>1, PageTypeStep, TableTypeStep, WireStep, FetchTypeStep, SocketTypeStep,
           MissedTypeStep DEF TypeOK

-----------------------------------------------------------------------------
(* What becomes of a message that is on its way to the page or was missed. *)

\* A history taken is shown.
LEMMA TakenIsShown ==
    ASSUME TypeOK, ComesFromTable, NEW i \in DOMAIN fetch, TakeHistory(i),
           NEW x \in Range(fetch[i].msgs)
    PROVE  x \in Message /\ Has(list', Shown(x))
<1>1. PICK l \in Seq(Entry), h \in Seq(Message) :
        l = list /\ h = fetch[i].msgs /\ HasNoTwice(h)
  BY FetchedMessages DEF TypeOK, ComesFromTable
<1>2. list' = WithHistory(l, h) /\ x \in Range(h)
  BY <1>1 DEF TakeHistory
<1>3. /\ Range(WithHistory(l, h)) = Range(l) \cup {Shown(y) : y \in Range(h)}
      /\ Range(h) \subseteq Message
  BY <1>1, HistoryEffect, RangeByPlace
<1> QED BY <1>2, <1>3 DEF Has

\* A message missed stays so until a history brings it.
LEMMA MissedStays ==
    ASSUME TypeOK, ComesFromTable, [Next]_vars, view' = view, NEW x \in missed
    PROVE  x \in missed' \/ Has(list', Shown(x))
<1>1. ASSUME NEW r, Enter(r) PROVE FALSE
  BY <1>1 DEF Enter
<1>2. CASE Open \/ Drop \/ ReadJoin \/ Forward \/ Receive
  BY <1>2 DEF Open, Drop, ReadJoin, Forward, Receive
<1>3. ASSUME NEW i, ReadOldJoin(i) \/ Leave(i) PROVE x \in missed'
  BY <1>3 DEF ReadOldJoin, Leave
<1>4. ASSUME NEW m, \/ Send(m) \/ Answer(m) \/ SendFails(m)
                    \/ Store(m) \/ Announce(m) \/ StopShort(m)
      PROVE  x \in missed'
  BY <1>4 DEF Send, Answer, SendFails, Store, Announce, StopShort
<1>5. ASSUME NEW i, ReadHistory(i) \/ LoseHistory(i) PROVE x \in missed'
  BY <1>5 DEF ReadHistory, LoseHistory
<1>6. ASSUME NEW i \in DOMAIN fetch, TakeHistory(i)
      PROVE  x \in missed' \/ Has(list', Shown(x))
  <2>1. missed' = missed \ Range(fetch[i].msgs)
    BY <1>6 DEF TakeHistory
  <2> QED BY <1>6, <2>1, TakenIsShown
<1>7. CASE UNCHANGED vars
  BY <1>7 DEF vars
<1> QED BY <1>1, <1>2, <1>3, <1>4, <1>5, <1>6, <1>7 DEF Next

\* A message not yet told of is told to the socket's task, or to none.
LEMMA TellingStays ==
    ASSUME TypeOK, [Next]_vars, NEW x \in Message, told[x] = "no"
    PROVE  told'[x] = "no" \/ x \in Range(unread') \/ x \in missed'
<1>1. PICK u \in Seq(Message), o \in [Message -> {"no", "event", "nothing"}] :
        u = unread /\ o = told
  BY DEF TypeOK
<1>2. ASSUME NEW m \in Message, Announce(m)
      PROVE  told'[x] = "no" \/ x \in Range(unread') \/ x \in missed'
  <2>1. told' = [o EXCEPT ![m] = "event"] /\ (unread' = Append(u, m) \/ m \in missed')
    BY <1>1, <1>2 DEF Announce
  <2>2. Range(Append(u, m)) = Range(u) \cup {m}
    BY <1>1, AppendRange
  <2> QED BY <1>1, <2>1, <2>2
<1>3. ASSUME NEW m \in Message, StopShort(m)
      PROVE  told'[x] = "no" \/ x \in missed'
  BY <1>1, <1>3 DEF StopShort
<1>4. ASSUME \/ \E r \in Room \cup {NoRoom} : Enter(r)
             \/ Open \/ Drop \/ ReadJoin \/ Forward \/ Receive
      PROVE  told' = told
  BY <1>4 DEF Enter, Open, Drop, ReadJoin, Forward, Receive, server
<1>5. ASSUME NEW i, ReadOldJoin(i) \/ Leave(i) PROVE told' = told
  BY <1>5 DEF ReadOldJoin, Leave, server
<1>6. ASSUME NEW m, Send(m) \/ Answer(m) \/ SendFails(m) \/ Store(m) PROVE told' = told
  BY <1>6 DEF Send, Answer, SendFails, Store, server
<1>7. ASSUME NEW i, ReadHistory(i) \/ TakeHistory(i) \/ LoseHistory(i) PROVE told' = told
  BY <1>7 DEF ReadHistory, TakeHistory, LoseHistory, server
<1>8. CASE UNCHANGED vars
  BY <1>8 DEF vars
<1> QED BY <1>2, <1>3, <1>4, <1>5, <1>6, <1>7, <1>8 DEF Next

\* An event of the room shown is forwarded and shown, or missed: the task or
\* the page passes none over.
LEMMA EventStays ==
    ASSUME TypeOK, [Next]_vars, view' = view, NEW x \in Message, RoomOf(x) = view,
           x \in Range(wire) \cup Range(unread)
    PROVE  x \in Range(wire') \cup Range(unread') \/ Has(list', Shown(x)) \/ x \in missed'
<1>1. PICK w \in Seq(Message), u \in Seq(Message), l \in Seq(Entry) :
        w = wire /\ u = unread /\ l = list
  BY DEF TypeOK
<1>2. ASSUME NEW r, Enter(r) PROVE FALSE
  BY <1>2 DEF Enter
<1>3. CASE Open \/ ReadJoin
  BY <1>3 DEF Open, ReadJoin
<1>4. CASE Drop
  BY <1>4 DEF Drop
<1>5. CASE Forward
  <2>1. u # <<>>
    BY <1>1, <1>5 DEF Forward
  <2>2. PICK m \in Message, t \in Seq(Message) :
          m = Head(u) /\ t = Tail(u) /\ Range(u) = Range(t) \cup {m}
    BY <2>1, TailRange
  <2>3. Range(Append(w, m)) = Range(w) \cup {m}
    BY AppendRange
  <2>4. unread' = t /\ \/ wire' = Append(w, m)
                       \/ wire' = w /\ m \in missed'
    BY <1>1, <1>5, <2>2 DEF Forward
  <2> QED BY <1>1, <2>2, <2>3, <2>4
<1>6. CASE Receive
  <2>1. w # <<>>
    BY <1>1, <1>6 DEF Receive
  <2>2. PICK m \in Message, t \in Seq(Message) :
          m = Head(w) /\ t = Tail(w) /\ Range(w) = Range(t) \cup {m}
    BY <2>1, TailRange
  <2>3. Shown(m) \in Range(WithEvent(l, m))
    BY EventEffect
  <2>4. wire' = t /\ unread' = u /\ (RoomOf(m) = view => list' = WithEvent(l, m))
    BY <1>1, <1>6, <2>2 DEF Receive
  <2> QED BY <1>1, <2>2, <2>3, <2>4 DEF Has
<1>7. ASSUME NEW m \in Message, Announce(m)
      PROVE  x \in Range(wire') \cup Range(unread')
  <2>1. wire' = w /\ (unread' = u \/ unread' = Append(u, m))
    BY <1>1, <1>7 DEF Announce
  <2>2. Range(Append(u, m)) = Range(u) \cup {m}
    BY AppendRange
  <2> QED BY <1>1, <2>1, <2>2
<1>8. ASSUME NEW i, ReadOldJoin(i) \/ Leave(i) PROVE wire' = wire /\ unread' = unread
  BY <1>8 DEF ReadOldJoin, Leave, socket
<1>9. ASSUME NEW m, Send(m) \/ Answer(m) \/ SendFails(m) \/ Store(m) \/ StopShort(m)
      PROVE  wire' = wire /\ unread' = unread
  BY <1>9 DEF Send, Answer, SendFails, Store, StopShort, socket
<1>10. ASSUME NEW i, ReadHistory(i) \/ TakeHistory(i) \/ LoseHistory(i)
       PROVE  wire' = wire /\ unread' = unread
  BY <1>10 DEF ReadHistory, TakeHistory, LoseHistory, socket
<1>11. CASE UNCHANGED vars
  BY <1>11 DEF vars
<1> QED BY <1>2, <1>3, <1>4, <1>5, <1>6, <1>7, <1>8, <1>9, <1>10, <1>11 DEF Next

\* The fetch z will bring m.
Brings(z, m) == IF z.read THEN m \in Range(z.msgs) ELSE z.room = RoomOf(m)

\* A fetch that will bring a message stored goes on doing so, until it shows it
\* or fails.
LEMMA FetchStays ==
    ASSUME TypeOK, ComesFromTable, [Next]_vars, NEW x \in Message, x \in Range(stored),
           NEW i \in DOMAIN fetch, Brings(fetch[i], x)
    PROVE  \/ \E j \in DOMAIN fetch' : Brings(fetch'[j], x)
           \/ Has(list', Shown(x)) \/ x \in missed'
<1>1. PICK S : S = [room : Room, read : BOOLEAN, msgs : Seq(Message)]
  OBVIOUS
<1>2. PICK f \in Seq(S), g \in {fetch'} : f = fetch /\ g = fetch'
  BY <1>1 DEF TypeOK
<1>3. DOMAIN f = 1 .. Len(f) /\ Len(f) \in Nat /\ \A j \in DOMAIN f : f[j] \in S
  BY ElementOfSeq
<1>4. i \in 1 .. Len(f) /\ Brings(f[i], x)
  BY <1>2, <1>3
<1>5. ASSUME NEW r \in Room, g = Append(f, Begun(r))
      PROVE  \E j \in DOMAIN g : Brings(g[j], x)
  <2>1. Begun(r) \in [room : Room, read : BOOLEAN, msgs : Seq(Message)]
    BY DEF Begun
  <2>2. PICK b \in S : b = Begun(r)
    BY <1>1, <2>1
  <2>3. DOMAIN g = 1 .. Len(f) + 1 /\ g[i] = f[i]
    BY <1>4, <1>5, <2>2, AppendProperties
  <2>4. i \in 1 .. Len(f) + 1
    BY <1>3, <1>4
  <2> QED BY <1>4, <2>3, <2>4
<1>6. ASSUME NEW k \in DOMAIN f, f[k].read = FALSE, g = [f EXCEPT ![k] = Done(f[k].room)]
      PROVE  \E j \in DOMAIN g : Brings(g[j], x)
  <2>1. CASE k # i
    BY <1>3, <1>4, <1>6, <2>1
  <2>2. CASE k = i
    <3>1. PICK r \in Room : r = f[i].room
      BY <1>1, <1>3, <1>4
    <3>2. RoomOf(x) = r
      BY <1>4, <1>6, <2>2, <3>1 DEF Brings
    <3>3. x \in Range(History(r))
      BY <3>2, HistoryIsOfRoom
    <3>4. g[i] = Done(r) /\ i \in DOMAIN g
      BY <1>3, <1>4, <1>6, <2>2, <3>1
    <3>5. Done(r).read = TRUE /\ Done(r).msgs = History(r)
      BY DEF Done
    <3> QED BY <3>3, <3>4, <3>5 DEF Brings
  <2> QED BY <2>1, <2>2
<1>7. ASSUME NEW k \in DOMAIN f, g = RemoveAt(f, k), k # i
      PROVE  \E j \in DOMAIN g : Brings(g[j], x)
  <2>0. k \in 1 .. Len(f)
    BY <1>3
  <2>1. \A j \in DOMAIN f : j # k =>
           \E h \in DOMAIN RemoveAt(f, k) : RemoveAt(f, k)[h] = f[j]
    BY <2>0, RemoveAtEffect
  <2> QED BY <1>3, <1>4, <1>7, <2>1
<1>8. CASE TakeHistory(i)
  <2>1. f[i].read
    BY <1>2, <1>8 DEF TakeHistory
  <2>2. x \in Range(fetch[i].msgs)
    BY <1>2, <1>4, <2>1 DEF Brings
  <2> QED BY <1>8, <2>2, TakenIsShown
<1>9. CASE LoseHistory(i)
  <2>1. RoomOf(x) = fetch[i].room
    BY <1>2, <1>4 DEF Brings, ComesFromTable
  <2>2. missed' = missed \cup {m \in Range(stored) : RoomOf(m) = fetch[i].room}
    BY <1>9 DEF LoseHistory
  <2> QED BY <2>1, <2>2
<1>10. ASSUME g = f PROVE \E j \in DOMAIN g : Brings(g[j], x)
  BY <1>3, <1>4, <1>10
<1> QED BY <1>2, <1>5, <1>6, <1>7, <1>8, <1>9, <1>10, FetchSteps

\* However the room, the socket, the posts and the histories overlap, a stored
\* message of the room shown is in the list, on its way or accounted for.
LEMMA NothingElseStays ==
    ASSUME ViewInv, [Next]_vars
    PROVE  NothingElseIsMissed'
<1> USE DEF ViewInv
<1>1. about' = about
  BY PageTypeStep
<1>2. \A m : RoomOf(m)' = RoomOf(m)
  BY <1>1 DEF RoomOf
<1>3. SUFFICES ASSUME NEW x \in Range(stored'), RoomOf(x) = view'
               PROVE  \/ Has(list', Shown(x)) \/ x \in missed'
                      \/ told'[x] = "no" \/ x \in Range(wire') \cup Range(unread')
                      \/ \E i \in DOMAIN fetch' : Brings(fetch'[i], x)
  BY <1>2 DEF NothingElseIsMissed, IsComing, Brings
<1>4. x \in Message /\ RoomOf(x) \in Room
  <2>1. stored' \in Seq(Message)
    BY TableTypeStep
  <2>2. x \in Message
    BY <2>1, RangeByPlace
  <2> QED BY <2>2 DEF TypeOK, RoomOf
<1>5. ASSUME view' # view
      PROVE  \E i \in DOMAIN fetch' : Brings(fetch'[i], x)
  <2>1. PICK r \in Room \cup {NoRoom} : Enter(r)
    <3>1. Open \/ Drop \/ ReadJoin \/ Forward \/ Receive => view' = view
      BY DEF Open, Drop, ReadJoin, Forward, Receive, page
    <3>2. \A i : ReadOldJoin(i) \/ Leave(i) => view' = view
      BY DEF ReadOldJoin, Leave, page
    <3>3. \A m : Send(m) \/ Answer(m) \/ SendFails(m) \/ Store(m) => view' = view
      BY DEF Send, Answer, SendFails, Store, page
    <3>4. \A m : Announce(m) \/ StopShort(m) => view' = view
      BY DEF Announce, StopShort, page
    <3>5. \A i : ReadHistory(i) \/ TakeHistory(i) \/ LoseHistory(i) => view' = view
      BY DEF ReadHistory, TakeHistory, LoseHistory
    <3>6. UNCHANGED vars => view' = view
      BY DEF vars
    <3> QED BY <1>5, <3>1, <3>2, <3>3, <3>4, <3>5, <3>6 DEF Next
  <2>2. RoomOf(x) = r /\ r \in Room /\ r # NoRoom
    BY <1>3, <1>4, <2>1, ViewAssumption DEF Enter
  <2>3. fetch' = Append(fetch, Begun(r))
    BY <2>1, <2>2 DEF Enter, Begun
  <2>4. PICK S : S = [room : Room, read : BOOLEAN, msgs : Seq(Message)]
    OBVIOUS
  <2>5. PICK f \in Seq(S), b \in S : f = fetch /\ b = Begun(r)
    <3>1. Begun(r) \in [room : Room, read : BOOLEAN, msgs : Seq(Message)]
      BY <2>2 DEF Begun
    <3> QED BY <2>4, <3>1 DEF TypeOK
  <2>6. /\ DOMAIN Append(f, b) = 1 .. Len(f) + 1 /\ Len(f) \in Nat
        /\ Append(f, b)[Len(f) + 1] = b
    BY <2>5, AppendProperties
  <2>7. Begun(r).read = FALSE /\ Begun(r).room = r
    BY DEF Begun
  <2>8. Brings(b, x)
    BY <2>2, <2>5, <2>7 DEF Brings
  <2> QED BY <2>3, <2>5, <2>6, <2>8
<1>6. ASSUME view' = view, x \notin Range(stored) PROVE told'[x] = "no"
  <2>1. told[x] = "no"
    BY <1>4, <1>6 DEF ComesFromTable
  <2>2. stored' # stored
    BY <1>3, <1>6
  <2>3. told' = told
    BY <2>2, TableSteps
  <2> QED BY <2>1, <2>3
<1>7. ASSUME view' = view, x \in Range(stored)
      PROVE  \/ Has(list', Shown(x)) \/ x \in missed'
             \/ told'[x] = "no" \/ x \in Range(wire') \cup Range(unread')
             \/ \E i \in DOMAIN fetch' : Brings(fetch'[i], x)
  <2>1. RoomOf(x) = view
    BY <1>3, <1>7
  <2>2. \/ Has(list, Shown(x)) \/ x \in missed
        \/ told[x] = "no" \/ x \in Range(wire) \cup Range(unread)
        \/ \E i \in DOMAIN fetch : Brings(fetch[i], x)
    BY <1>7, <2>1 DEF NothingElseIsMissed, IsComing, Brings
  <2>3. CASE Has(list, Shown(x))
    BY <1>4, <2>3, ShownStays
  <2>4. CASE x \in missed
    BY <1>7, <2>4, MissedStays
  <2>5. CASE told[x] = "no"
    BY <1>4, <2>5, TellingStays
  <2>6. CASE x \in Range(wire) \cup Range(unread)
    BY <1>4, <1>7, <2>1, <2>6, EventStays
  <2>7. ASSUME NEW i \in DOMAIN fetch, Brings(fetch[i], x)
        PROVE  \/ \E j \in DOMAIN fetch' : Brings(fetch'[j], x)
               \/ Has(list', Shown(x)) \/ x \in missed'
    BY <1>4, <1>7, <2>7, FetchStays
  <2> QED BY <2>2, <2>3, <2>4, <2>5, <2>6, <2>7
<1> QED BY <1>5, <1>6, <1>7

-----------------------------------------------------------------------------
(* The theorems.                                                           *)

\* At first nothing is sent, stored or shown.
LEMMA ViewInvInit == Init => ViewInv
<1> SUFFICES ASSUME Init PROVE ViewInv
  OBVIOUS
<1>1. \A S : <<>> \in Seq(S)
  OBVIOUS
<1>2. TypeOK
  BY <1>1, ViewAssumption DEF Init, TypeOK
<1>3. DOMAIN list = {} /\ DOMAIN fetch = {} /\ DOMAIN stored = {} /\ Mine \subseteq Message
  BY DEF Init, Mine
<1>4. Range(stored) = {} /\ Range(list) = {} /\ Range(wire) = {} /\ Range(unread) = {}
  BY DEF Init, Range
<1>5. JoinsARoom /\ ComesFromTable
  BY <1>3, <1>4 DEF Init, JoinsARoom, ComesFromTable, HasNoTwice, Has
<1>6. TempsAreUnderWay /\ NoDoubles /\ NothingElseIsMissed
  BY <1>3, <1>4 DEF TempsAreUnderWay, NoDoubles, NothingElseIsMissed
<1>7. UnderWayIsListed /\ SentIsShown
  BY <1>3 DEF Init, UnderWayIsListed, SentIsShown
<1> QED BY <1>2, <1>5, <1>6, <1>7 DEF ViewInv

\* The invariant holds, and with it what the properties say of the page.
LEMMA ViewInvHolds == Spec => []ViewInv
<1>1. ASSUME ViewInv, [Next]_vars PROVE ViewInv'
  <2>1. TypeOK' /\ JoinsARoom' /\ ComesFromTable' /\ NothingElseIsMissed'
    BY <1>1, TypesStay, TableStays, NothingElseStays DEF ViewInv
  <2>2. TempsAreUnderWay' /\ UnderWayIsListed' /\ SentIsShown' /\ NoDoubles'
    BY <1>1, TempsStay, ShownStays, NoDoublesStay DEF ViewInv
  <2> QED BY <2>1, <2>2 DEF ViewInv
<1> QED BY <1>1, ViewInvInit, PTL DEF Spec

\* The page's list holds entries only, and a join waits only for its socket to
\* open: the types of Chat.tsx and ws.ts, for any rooms and messages.
THEOREM ViewTypesHold == Spec => []TypeOK
<1>1. ViewInv => TypeOK
  BY DEF ViewInv
<1> QED BY <1>1, ViewInvHolds, PTL

\* No temporary entry is left behind: each is one of a post under way, whatever
\* events, answers, failures and histories do to the list (Chat.tsx send, onEvent).
THEOREM TempsStayUnderWay == Spec => []TempsAreUnderWay
<1>1. ViewInv => TempsAreUnderWay
  BY DEF ViewInv
<1> QED BY <1>1, ViewInvHolds, PTL

\* A message of a text of its own is shown from the answer to its post on, for
\* as long as the page lives (Chat.tsx send and the fetch of the effect).
THEOREM SentStaysShown == Spec => []SentIsShown
<1>1. ViewInv => SentIsShown
  BY DEF ViewInv
<1> QED BY <1>1, ViewInvHolds, PTL

\* Such a message is in the list once, by however many of its three sources it
\* comes, but for a history beside its temporary entry (Chat.tsx).
THEOREM NoDoublesEver == Spec => []NoDoubles
<1>1. ViewInv => NoDoubles
  BY DEF ViewInv
<1> QED BY <1>1, ViewInvHolds, PTL

\* The page loses nothing it is handed: a stored message of the room shown is in
\* the list or coming, but those the socket or a failed fetch did not hand over
\* (Chat.tsx onEvent and the fetch of the effect; api.rs handle_socket).
THEOREM NothingElseIsEverMissed == Spec => []NothingElseIsMissed
<1>1. ViewInv => NothingElseIsMissed
  BY DEF ViewInv
<1> QED BY <1>1, ViewInvHolds, PTL

=============================================================================
