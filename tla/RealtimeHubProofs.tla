------------------------- MODULE RealtimeHubProofs -------------------------
(***************************************************************************)
(* Proofs about RealtimeHub for any number of sockets, users and rooms and *)
(* any capacity of the broadcast channel.                                  *)
(***************************************************************************)
EXTENDS RealtimeHub, FiniteSetTheorems, TLAPS

\* A queue bounded by Capacity stays a bounded queue of events.
LEMMA RetainedType ==
    ASSUME NEW q \in Seq(Event), Len(q) <= Capacity, NEW e \in Event
    PROVE  /\ Retained(q, e) \in Seq(Event)
           /\ Len(Retained(q, e)) <= Capacity
<1>1. CASE Len(q) < Capacity
  BY <1>1, HubAssumption DEF Retained
<1>2. CASE ~(Len(q) < Capacity)
  <2>1. q # <<>> /\ Len(q) = Capacity
    BY <1>2, HubAssumption
  <2>2. Tail(q) \in Seq(Event) /\ Len(Tail(q)) = Len(q) - 1
    BY <2>1
  <2> QED BY <1>2, <2>1, <2>2, HubAssumption DEF Retained
<1> QED BY <1>1, <1>2

\* A broadcast leaves every queue a bounded queue of events.
LEMMA BroadcastType ==
    ASSUME TypeOK, NEW e \in Event, Broadcast(e)
    PROVE  /\ unread' \in [Socket -> Seq(Event)]
           /\ \A s \in Socket : Len(unread'[s]) <= Capacity
           /\ lagged' \in [Socket -> BOOLEAN]
<1>1. \A s \in Socket :
        /\ Retained(unread[s], e) \in Seq(Event)
        /\ Len(Retained(unread[s], e)) <= Capacity
  BY RetainedType DEF TypeOK
<1> QED BY <1>1 DEF Broadcast, TypeOK

\* Every reachable state has the types the code declares, and no receiver
\* holds more events than the channel keeps.
THEOREM TypeCorrect == Spec => []TypeOK
<1>1. Init => TypeOK
  BY HubAssumption DEF Init, TypeOK, TaskState, Branch
<1>2. TypeOK /\ [Next]_vars => TypeOK'
  <2> SUFFICES ASSUME TypeOK, [Next]_vars PROVE TypeOK'
    OBVIOUS
  <2> USE HubAssumption
  <2>1. ASSUME NEW s \in Socket, Connect(s) PROVE TypeOK'
    BY <2>1 DEF Connect, NotConnected, Incremented, Goto, Silent, TypeOK, TaskState
  <2>2. ASSUME NEW s \in Socket, AnnounceOnline(s) PROVE TypeOK'
    <3>1. [t |-> "presence", user |-> Owner[s], state |-> "online"] \in Event
      BY DEF Event, PresenceEvent
    <3> QED BY <2>2, <3>1, BroadcastType DEF AnnounceOnline, Goto, TypeOK, TaskState
  <2>3. ASSUME NEW s \in Socket, RecvEvent(s) PROVE TypeOK'
    <3>1. /\ Head(unread[s]) \in Event
          /\ Tail(unread[s]) \in Seq(Event)
          /\ Len(Tail(unread[s])) <= Capacity
      BY <2>3 DEF RecvEvent, TypeOK
    <3>2. unread' \in [Socket -> Seq(Event)] /\ hears' \in [Socket -> SUBSET Branch]
      BY <2>3, <3>1 DEF RecvEvent, NextIteration, TypeOK
    <3>3. \A c \in Socket : Len(unread'[c]) <= Capacity
      BY <2>3, <3>1 DEF RecvEvent, TypeOK
    <3>4. frame' \in [Socket -> Event \cup {NoFrame}]
      BY <2>3, <3>1 DEF RecvEvent, TypeOK
    <3> QED BY <2>3, <3>2, <3>3, <3>4 DEF RecvEvent, TypeOK
  <2>4. ASSUME NEW s \in Socket, RecvLagged(s) \/ RecvDropped(s) PROVE TypeOK'
    <3>1. lagged' \in [Socket -> BOOLEAN]
      BY <2>4 DEF RecvLagged, RecvDropped, Silent, TypeOK
    <3>2. PICK b \in Branch : Disarm(s, b)
      BY <2>4 DEF RecvLagged, RecvDropped, Branch
    <3>3. task' \in [Socket -> TaskState] /\ hears' \in [Socket -> SUBSET Branch]
      BY <3>2 DEF Disarm, Goto, TypeOK, TaskState
    <3>4. /\ UNCHANGED <<wire, counts, ws_members, unread, frame, joined>>
          /\ UNCHANGED announced
      BY <2>4 DEF RecvLagged, RecvDropped, Silent
    <3> QED BY <3>1, <3>3, <3>4 DEF TypeOK
  <2>5. ASSUME NEW s \in Socket, RecvClose(s) PROVE TypeOK'
    BY <2>5 DEF RecvClose, Goto, Silent, TypeOK, TaskState
  <2>6. ASSUME NEW s \in Socket, NEW r \in Room, RecvJoin(s, r) PROVE TypeOK'
    <3>1. hears' \in [Socket -> SUBSET Branch]
      BY <2>6 DEF RecvJoin, RecvFrame, NextIteration, TypeOK
    <3>2. ws_members' \in [Room -> SUBSET User] /\ joined' \in [Socket -> SUBSET Room]
      <4>1. CASE Owner[s] \in Access[r]
        <5>1. ws_members' = [ws_members EXCEPT ![r] = @ \cup {Owner[s]}]
          BY <2>6, <4>1 DEF RecvJoin
        <5>2. joined' = [joined EXCEPT ![s] = @ \cup {r}]
          BY <2>6, <4>1 DEF RecvJoin
        <5> QED BY <5>1, <5>2 DEF TypeOK
      <4>2. CASE Owner[s] \notin Access[r]
        BY <2>6, <4>2 DEF RecvJoin, TypeOK
      <4> QED BY <4>1, <4>2
    <3> QED BY <2>6, <3>1, <3>2 DEF RecvJoin, RecvFrame, Silent, TypeOK
  <2>7. ASSUME NEW s \in Socket, NEW r \in Room, RecvTyping(s, r) PROVE TypeOK'
    <3>1. [t |-> "room", room |-> r] \in Event
      BY DEF Event, RoomEvent
    <3> QED BY <2>7, <3>1, BroadcastType
            DEF RecvTyping, RecvFrame, NextIteration, TypeOK
  <2>8. ASSUME NEW s \in Socket, RecvOther(s) PROVE TypeOK'
    BY <2>8 DEF RecvOther, RecvFrame, NextIteration, Silent, TypeOK
  <2>9. ASSUME NEW s \in Socket, Leave(s) PROVE TypeOK'
    BY <2>9 DEF Leave, MembersWithout, Goto, Silent, TypeOK, TaskState
  <2>10. ASSUME NEW s \in Socket, Detach(s) PROVE TypeOK'
    BY <2>10 DEF Detach, NotConnected, Goto, Silent, TypeOK, TaskState
  <2>11. ASSUME NEW s \in Socket, Expire(s) PROVE TypeOK'
    BY <2>11 DEF Expire, NotConnected, AfterDebounce, Goto, Silent, TypeOK, TaskState
  <2>12. ASSUME NEW s \in Socket, AnnounceOffline(s) PROVE TypeOK'
    <3>1. [t |-> "presence", user |-> Owner[s], state |-> "offline"] \in Event
      BY DEF Event, PresenceEvent
    <3> QED BY <2>12, <3>1, BroadcastType DEF AnnounceOffline, Goto, TypeOK, TaskState
  <2>13. ASSUME NEW s \in Socket, ClientEnds(s) PROVE TypeOK'
    BY <2>13 DEF ClientEnds, Silent, TypeOK
  <2>14. ASSUME NEW r \in Room, RoomBroadcast(r) PROVE TypeOK'
    <3>1. [t |-> "room", room |-> r] \in Event
      BY DEF Event, RoomEvent
    <3> QED BY <2>14, <3>1, BroadcastType DEF RoomBroadcast, TypeOK
  <2>15. ASSUME UNCHANGED vars PROVE TypeOK'
    BY <2>15 DEF vars, TypeOK
  <2> QED
    BY <2>1, <2>2, <2>3, <2>4, <2>5, <2>6, <2>7, <2>8, <2>9, <2>10, <2>11,
       <2>12, <2>13, <2>14, <2>15 DEF Next, Arrive, Serve, ClientSpeaks, Depart
<1> QED BY <1>1, <1>2, PTL DEF Spec

-----------------------------------------------------------------------------
(* Presence.  Six kinds of step matter to it; the rest leave it alone.     *)

Quiet ==
    /\ counts' = counts
    /\ announced' = announced
    /\ \A s \in Socket :
          /\ task'[s] \in Attached <=> task[s] \in Attached
          /\ task[s] = "debounce" => task'[s] = "debounce"
          /\ task[s] = "announce_offline" => task'[s] = "announce_offline"

\* The five steps that change presence, and all the others.
LEMMA PresenceSteps ==
    ASSUME TypeOK, [Next]_vars
    PROVE  \/ Quiet
           \/ \E s \in Socket : \/ Connect(s)
                               \/ AnnounceOnline(s)
                               \/ Detach(s)
                               \/ Expire(s)
                               \/ AnnounceOffline(s)
<1> USE DEF Quiet, Attached, TypeOK
<1>1. ASSUME NEW s \in Socket, RecvEvent(s) \/ RecvClose(s) PROVE Quiet
  BY <1>1 DEF RecvEvent, RecvClose, Goto
<1>2. ASSUME NEW s \in Socket, RecvLagged(s) \/ RecvDropped(s) PROVE Quiet
  BY <1>2 DEF RecvLagged, RecvDropped, Disarm, Goto
<1>3. ASSUME NEW s \in Socket, ClientSpeaks(s) PROVE Quiet
  BY <1>3 DEF ClientSpeaks, RecvJoin, RecvTyping, RecvOther, RecvFrame
<1>4. ASSUME NEW s \in Socket, Leave(s) \/ ClientEnds(s) PROVE Quiet
  BY <1>4 DEF Leave, MembersWithout, ClientEnds, Goto
<1>5. ASSUME NEW r \in Room, RoomBroadcast(r) PROVE Quiet
  BY <1>5 DEF RoomBroadcast
<1>6. ASSUME UNCHANGED vars PROVE Quiet
  BY <1>6 DEF vars
<1> QED BY <1>1, <1>2, <1>3, <1>4, <1>5, <1>6 DEF Next, Arrive, Serve, Depart

\* A user has finitely many sockets attached.
LEMMA AttachedFinite ==
    ASSUME NEW u \in User
    PROVE  IsFiniteSet(AttachedTo(u)) /\ Cardinality(AttachedTo(u)) \in Nat
<1>1. AttachedTo(u) \subseteq Socket
  BY DEF AttachedTo, SocketsOf
<1> QED BY <1>1, FS_Subset, FS_CardinalityType, HubAssumption

\* A socket of u that is attached keeps u's counter above zero.
LEMMA AttachedCounts ==
    ASSUME TypeOK, CountIsSockets, NEW u \in User,
           NEW s \in SocketsOf(u), task[s] \in Attached
    PROVE  counts[u] \in Nat /\ counts[u] > 0
<1>1. s \in AttachedTo(u)
  BY DEF AttachedTo
<1>2. Cardinality(AttachedTo(u)) # 0
  BY <1>1, AttachedFinite, FS_EmptySet
<1> QED BY <1>2, AttachedFinite, HubAssumption DEF CountIsSockets, TypeOK

\* The counters follow the sockets that attach and detach.
LEMMA CountStep ==
    ASSUME TypeOK, CountIsSockets, [Next]_vars
    PROVE  CountIsSockets'
<1> SUFFICES ASSUME NEW u \in User
             PROVE  Cardinality(AttachedTo(u)') =
                        IF counts'[u] = Absent THEN 0 ELSE counts'[u]
  BY DEF CountIsSockets
<1> USE HubAssumption
<1>0. Cardinality(AttachedTo(u)) = IF counts[u] = Absent THEN 0 ELSE counts[u]
  BY DEF CountIsSockets
<1>1. CASE Quiet
  <2>1. AttachedTo(u)' = AttachedTo(u)
    BY <1>1 DEF Quiet, AttachedTo, SocketsOf
  <2> QED BY <1>0, <1>1, <2>1 DEF Quiet
<1>2. ASSUME NEW s \in Socket, Connect(s)
      PROVE  Cardinality(AttachedTo(u)') = IF counts'[u] = Absent THEN 0 ELSE counts'[u]
  <2>1. CASE u = Owner[s]
    <3>1. AttachedTo(u)' = AttachedTo(u) \cup {s} /\ s \notin AttachedTo(u)
      BY <1>2, <2>1 DEF Connect, NotConnected, Incremented, Goto, AttachedTo, SocketsOf, Attached, TypeOK
    <3>2. Cardinality(AttachedTo(u)') = Cardinality(AttachedTo(u)) + 1
      BY <3>1, AttachedFinite, FS_AddElement
    <3> QED BY <1>0, <1>2, <2>1, <3>2, AttachedFinite DEF Connect, NotConnected, Incremented, TypeOK
  <2>2. CASE u # Owner[s]
    <3>1. AttachedTo(u)' = AttachedTo(u)
      BY <1>2, <2>2 DEF Connect, NotConnected, Incremented, Goto, AttachedTo, SocketsOf, Attached, TypeOK
    <3> QED BY <1>0, <1>2, <2>2, <3>1 DEF Connect, NotConnected, Incremented, TypeOK
  <2> QED BY <2>1, <2>2
<1>3. ASSUME NEW s \in Socket, AnnounceOnline(s) \/ AnnounceOffline(s)
      PROVE  Cardinality(AttachedTo(u)') = IF counts'[u] = Absent THEN 0 ELSE counts'[u]
  <2>1. AttachedTo(u)' = AttachedTo(u)
    BY <1>3 DEF AnnounceOnline, AnnounceOffline, Goto, AttachedTo, SocketsOf, Attached, TypeOK
  <2> QED BY <1>0, <1>3, <2>1 DEF AnnounceOnline, AnnounceOffline
<1>4. ASSUME NEW s \in Socket, Detach(s)
      PROVE  Cardinality(AttachedTo(u)') = IF counts'[u] = Absent THEN 0 ELSE counts'[u]
  <2>1. CASE u = Owner[s]
    <3>1. s \in SocketsOf(u) /\ task[s] \in Attached
      BY <1>4, <2>1 DEF Detach, NotConnected, SocketsOf, Attached
    <3>2. counts[u] \in Nat /\ counts[u] > 0
      BY <3>1, AttachedCounts
    <3>3. AttachedTo(u)' = AttachedTo(u) \ {s} /\ s \in AttachedTo(u)
      BY <1>4, <3>1 DEF Detach, NotConnected, Goto, AttachedTo, SocketsOf, Attached, TypeOK
    <3>4. Cardinality(AttachedTo(u)') = Cardinality(AttachedTo(u)) - 1
      BY <3>3, AttachedFinite, FS_RemoveElement
    <3>5. counts'[u] = counts[u] - 1
      BY <1>4, <2>1, <3>2 DEF Detach, NotConnected, TypeOK
    <3> QED BY <1>0, <3>2, <3>4, <3>5
  <2>2. CASE u # Owner[s]
    <3>1. AttachedTo(u)' = AttachedTo(u)
      BY <1>4, <2>2 DEF Detach, NotConnected, Goto, AttachedTo, SocketsOf, Attached, TypeOK
    <3> QED BY <1>0, <1>4, <2>2, <3>1 DEF Detach, NotConnected, TypeOK
  <2> QED BY <2>1, <2>2
<1>5. ASSUME NEW s \in Socket, Expire(s)
      PROVE  Cardinality(AttachedTo(u)') = IF counts'[u] = Absent THEN 0 ELSE counts'[u]
  <2>1. AttachedTo(u)' = AttachedTo(u)
    BY <1>5 DEF Expire, NotConnected, AfterDebounce, Goto, AttachedTo, SocketsOf, Attached, TypeOK
  <2> QED BY <1>0, <1>5, <2>1 DEF Expire, NotConnected, AfterDebounce, TypeOK
<1> QED BY <1>1, <1>2, <1>3, <1>4, <1>5, PresenceSteps

\* A counter comes to zero in a debounce, and leaves it with it.
LEMMA ZeroStep ==
    ASSUME TypeOK, CountIsSockets, ZeroIsDebouncing, [Next]_vars
    PROVE  ZeroIsDebouncing'
<1> SUFFICES ASSUME NEW u \in User, counts'[u] = 0
             PROVE  \E s \in SocketsOf(u) : task'[s] = "debounce"
  BY DEF ZeroIsDebouncing, SocketsOf
<1> USE HubAssumption
<1>1. CASE Quiet
  BY <1>1 DEF Quiet, ZeroIsDebouncing, SocketsOf
<1>2. ASSUME NEW s \in Socket, Connect(s)
      PROVE  \E x \in SocketsOf(u) : task'[x] = "debounce"
  <2>1. counts'[Owner[s]] # 0
    BY <1>2 DEF Connect, NotConnected, Incremented, TypeOK
  <2>2. counts[u] = 0
    BY <1>2, <2>1 DEF Connect, NotConnected, Incremented, TypeOK
  <2> QED BY <1>2, <2>2 DEF Connect, NotConnected, Incremented, Goto, ZeroIsDebouncing, SocketsOf, TypeOK
<1>3. ASSUME NEW s \in Socket, AnnounceOnline(s) \/ AnnounceOffline(s)
      PROVE  \E x \in SocketsOf(u) : task'[x] = "debounce"
  BY <1>3 DEF AnnounceOnline, AnnounceOffline, Goto, ZeroIsDebouncing, SocketsOf, TypeOK
<1>4. ASSUME NEW s \in Socket, Detach(s)
      PROVE  \E x \in SocketsOf(u) : task'[x] = "debounce"
  BY <1>4 DEF Detach, NotConnected, Goto, ZeroIsDebouncing, SocketsOf, TypeOK
<1>5. ASSUME NEW s \in Socket, Expire(s)
      PROVE  \E x \in SocketsOf(u) : task'[x] = "debounce"
  <2>1. counts[u] = 0 /\ u # Owner[s]
    BY <1>5 DEF Expire, NotConnected, AfterDebounce, TypeOK
  <2> QED BY <1>5, <2>1 DEF Expire, NotConnected, AfterDebounce, Goto, ZeroIsDebouncing, SocketsOf, TypeOK
<1> QED BY <1>1, <1>2, <1>3, <1>4, <1>5, PresenceSteps

\* Who leaves the list is announced by the task that took it off.
LEMMA PhantomStep ==
    ASSUME TypeOK, CountIsSockets, NoPhantomOnline, [Next]_vars
    PROVE  NoPhantomOnline'
<1> SUFFICES ASSUME NEW u \in User, counts'[u] = Absent, announced'[u] = "online"
             PROVE  \E s \in SocketsOf(u) : task'[s] = "announce_offline"
  BY DEF NoPhantomOnline, SocketsOf
<1> USE HubAssumption
<1>1. CASE Quiet
  BY <1>1 DEF Quiet, NoPhantomOnline, SocketsOf
<1>2. ASSUME NEW s \in Socket, Connect(s)
      PROVE  \E x \in SocketsOf(u) : task'[x] = "announce_offline"
  <2>1. counts'[Owner[s]] # Absent
    BY <1>2 DEF Connect, NotConnected, Incremented, TypeOK
  <2> QED BY <1>2, <2>1 DEF Connect, NotConnected, Incremented, Goto, NoPhantomOnline, SocketsOf, TypeOK
<1>3. ASSUME NEW s \in Socket, AnnounceOnline(s)
      PROVE  \E x \in SocketsOf(u) : task'[x] = "announce_offline"
  <2>1. s \in SocketsOf(Owner[s]) /\ task[s] \in Attached /\ Owner[s] \in User
    BY <1>3 DEF AnnounceOnline, SocketsOf, Attached
  <2>2. counts[Owner[s]] # Absent
    BY <2>1, AttachedCounts
  <2>3. u # Owner[s]
    BY <1>3, <2>2 DEF AnnounceOnline
  <2> QED BY <1>3, <2>3 DEF AnnounceOnline, Goto, NoPhantomOnline, SocketsOf, TypeOK
<1>4. ASSUME NEW s \in Socket, AnnounceOffline(s)
      PROVE  \E x \in SocketsOf(u) : task'[x] = "announce_offline"
  <2>1. u # Owner[s]
    BY <1>4 DEF AnnounceOffline, TypeOK
  <2> QED BY <1>4, <2>1 DEF AnnounceOffline, Goto, NoPhantomOnline, SocketsOf, TypeOK
<1>5. ASSUME NEW s \in Socket, Detach(s)
      PROVE  \E x \in SocketsOf(u) : task'[x] = "announce_offline"
  <2>1. counts[u] = Absent
    BY <1>5 DEF Detach, NotConnected, TypeOK
  <2> QED BY <1>5, <2>1 DEF Detach, NotConnected, Goto, NoPhantomOnline, SocketsOf, TypeOK
<1>6. ASSUME NEW s \in Socket, Expire(s)
      PROVE  \E x \in SocketsOf(u) : task'[x] = "announce_offline"
  <2>1. CASE u = Owner[s]
    BY <1>6, <2>1 DEF Expire, NotConnected, AfterDebounce, Goto, SocketsOf, TypeOK
  <2>2. CASE u # Owner[s]
    BY <1>6, <2>2 DEF Expire, NotConnected, AfterDebounce, Goto, NoPhantomOnline, SocketsOf, TypeOK
  <2> QED BY <2>1, <2>2
<1> QED BY <1>1, <1>2, <1>3, <1>4, <1>5, <1>6, PresenceSteps

-----------------------------------------------------------------------------
(* Rooms.  Joining and leaving change ws_members; no other step ends the   *)
(* life of a socket whose user is a member.                                *)

Live(s) == task[s] \in {"open", "leaving"}

\* The two steps that change ws_members, and all the others.
LEMMA MemberSteps ==
    ASSUME TypeOK, [Next]_vars
    PROVE  \/ \E s \in Socket : Leave(s)
           \/ \E s \in Socket, r \in Room : RecvJoin(s, r)
           \/ ws_members' = ws_members /\ \A s \in Socket : Live(s) => Live(s)'
<1> USE DEF Live, TypeOK
<1>1. ASSUME NEW s \in Socket, Arrive(s) \/ Detach(s) \/ Expire(s) \/ AnnounceOffline(s)
      PROVE  ws_members' = ws_members /\ \A x \in Socket : Live(x) => Live(x)'
  BY <1>1 DEF Arrive, Connect, AnnounceOnline, Detach, Expire, AnnounceOffline, Goto
<1>2. ASSUME NEW s \in Socket, Serve(s)
      PROVE  ws_members' = ws_members /\ \A x \in Socket : Live(x) => Live(x)'
  BY <1>2 DEF Serve, RecvEvent, RecvLagged, RecvDropped, RecvClose, Disarm, Goto
<1>3. ASSUME NEW s \in Socket, ClientEnds(s)
      PROVE  ws_members' = ws_members /\ \A x \in Socket : Live(x) => Live(x)'
  BY <1>3 DEF ClientEnds
<1>4. ASSUME NEW s \in Socket, NEW r \in Room, RecvTyping(s, r)
      PROVE  ws_members' = ws_members /\ \A x \in Socket : Live(x) => Live(x)'
  BY <1>4 DEF RecvTyping, RecvFrame
<1>5. ASSUME NEW s \in Socket, RecvOther(s)
      PROVE  ws_members' = ws_members /\ \A x \in Socket : Live(x) => Live(x)'
  BY <1>5 DEF RecvOther, RecvFrame
<1>6. ASSUME NEW r \in Room, RoomBroadcast(r)
      PROVE  ws_members' = ws_members /\ \A x \in Socket : Live(x) => Live(x)'
  BY <1>6 DEF RoomBroadcast
<1>7. ASSUME UNCHANGED vars
      PROVE  ws_members' = ws_members /\ \A x \in Socket : Live(x) => Live(x)'
  BY <1>7 DEF vars
<1> QED BY <1>1, <1>2, <1>3, <1>4, <1>5, <1>6, <1>7 DEF Next, ClientSpeaks, Depart

\* A join adds its user to one room, if it may be there.
LEMMA JoinEffect ==
    ASSUME TypeOK, NEW s \in Socket, NEW q \in Room, RecvJoin(s, q), NEW r \in Room
    PROVE  \/ ws_members'[r] = ws_members[r]
           \/ /\ r = q
              /\ Owner[s] \in Access[r]
              /\ ws_members'[r] = ws_members[r] \cup {Owner[s]}
<1>1. CASE Owner[s] \in Access[q]
  <2>1. ws_members' = [ws_members EXCEPT ![q] = @ \cup {Owner[s]}]
    BY <1>1 DEF RecvJoin
  <2> QED BY <1>1, <2>1 DEF TypeOK
<1>2. CASE Owner[s] \notin Access[q]
  BY <1>2 DEF RecvJoin
<1> QED BY <1>1, <1>2

\* A member leaves the rooms before its last socket ends.
LEMMA GhostStep ==
    ASSUME TypeOK, NoGhostMembers, [Next]_vars
    PROVE  NoGhostMembers'
<1> SUFFICES ASSUME NEW r \in Room, NEW u \in ws_members'[r]
             PROVE  \E s \in SocketsOf(u) : Live(s)'
  BY DEF NoGhostMembers, Live, SocketsOf
<1> USE HubAssumption
<1>1. CASE ws_members' = ws_members /\ \A s \in Socket : Live(s) => Live(s)'
  BY <1>1 DEF NoGhostMembers, Live, SocketsOf
<1>2. ASSUME NEW s \in Socket, Leave(s) PROVE \E x \in SocketsOf(u) : Live(x)'
  <2>1. u \in ws_members[r] /\ u # Owner[s]
    BY <1>2 DEF Leave, MembersWithout
  <2>2. PICK x \in SocketsOf(u) : Live(x)
    BY <2>1 DEF NoGhostMembers, Live
  <2>3. x # s /\ task'[x] = task[x]
    BY <1>2, <2>1, <2>2 DEF Leave, MembersWithout, Goto, SocketsOf, TypeOK
  <2> QED BY <2>2, <2>3 DEF Live
<1>3. ASSUME NEW s \in Socket, NEW q \in Room, RecvJoin(s, q)
      PROVE  \E x \in SocketsOf(u) : Live(x)'
  <2>1. task' = task /\ task[s] = "open"
    BY <1>3 DEF RecvJoin, RecvFrame
  <2>2. CASE u \in ws_members[r]
    BY <2>1, <2>2 DEF NoGhostMembers, Live
  <2>3. CASE u \notin ws_members[r]
    <3>1. u = Owner[s]
      BY <1>3, <2>3, JoinEffect
    <3> QED BY <2>1, <3>1 DEF Live, SocketsOf
  <2> QED BY <2>2, <2>3
<1> QED BY <1>1, <1>2, <1>3, MemberSteps

\* No step admits, or forwards to, a user without access.
LEMMA ConfidentialStep ==
    ASSUME TypeOK, RoomConfidentiality, [Next]_vars
    PROVE  RoomConfidentiality'
<1>1. \A r \in Room : ws_members'[r] \subseteq Access[r]
  <2>1. ASSUME NEW s \in Socket, Leave(s), NEW r \in Room
        PROVE  ws_members'[r] \subseteq Access[r]
    BY <2>1 DEF Leave, MembersWithout, RoomConfidentiality
  <2>2. ASSUME NEW s \in Socket, NEW q \in Room, RecvJoin(s, q), NEW r \in Room
        PROVE  ws_members'[r] \subseteq Access[r]
    BY <2>2, JoinEffect DEF RoomConfidentiality
  <2> QED BY <2>1, <2>2, MemberSteps DEF RoomConfidentiality
<1>2. ASSUME NEW s \in Socket, NEW r \in Room, frame'[s] = [t |-> "room", room |-> r]
      PROVE  Owner[s] \in Access[r]
  <2>1. CASE frame'[s] = frame[s]
    BY <1>2, <2>1 DEF RoomConfidentiality
  <2>2. CASE frame'[s] # frame[s]
    <3>1. PICK x \in Socket : RecvEvent(x)
      BY <2>2 DEF Next, vars, Arrive, Serve, ClientSpeaks, Depart, Connect,
         AnnounceOnline, RecvLagged, RecvDropped, RecvClose, RecvJoin, RecvTyping,
         RecvOther, RecvFrame, Leave, Detach, Expire, AnnounceOffline, ClientEnds,
         RoomBroadcast
    <3>2. x = s /\ frame'[s] = Head(unread[s]) /\ Forwards(s, Head(unread[s]))
      BY <2>2, <3>1 DEF RecvEvent, TypeOK
    <3>3. Owner[s] \in ws_members[r]
      BY <1>2, <3>2 DEF Forwards
    <3> QED BY <3>3 DEF RoomConfidentiality
  <2> QED BY <2>1, <2>2
<1> QED BY <1>1, <1>2 DEF RoomConfidentiality

-----------------------------------------------------------------------------
\* The inductive invariant holds of every reachable state: the presence
\* counters count the attached sockets, an entry at zero is in a debounce,
\* nobody unlisted stays advertised as online, ws_members has no ghosts and
\* admits and forwards to nobody without access.
THEOREM HubInvariant == Spec => []HubInv
<1>1. Init => HubInv
  <2> SUFFICES ASSUME Init PROVE HubInv
    OBVIOUS
  <2>1. TypeOK
    BY HubAssumption DEF Init, TypeOK, TaskState, Branch
  <2>2. CountIsSockets
    <3> SUFFICES ASSUME NEW u \in User PROVE Cardinality(AttachedTo(u)) = 0
      BY DEF Init, CountIsSockets
    <3>1. AttachedTo(u) = {}
      BY DEF Init, AttachedTo, SocketsOf, Attached
    <3> QED BY <3>1, FS_EmptySet
  <2>3. ZeroIsDebouncing
    BY HubAssumption DEF Init, ZeroIsDebouncing
  <2>4. NoPhantomOnline /\ NoGhostMembers
    BY DEF Init, NoPhantomOnline, NoGhostMembers, None
  <2>5. RoomConfidentiality
    BY DEF Init, RoomConfidentiality, NoFrame, None
  <2> QED BY <2>1, <2>2, <2>3, <2>4, <2>5 DEF HubInv
<1>2. HubInv /\ [Next]_vars /\ TypeOK' => HubInv'
  BY CountStep, ZeroStep, PhantomStep, GhostStep, ConfidentialStep DEF HubInv
<1> QED BY <1>1, <1>2, TypeCorrect, PTL DEF Spec

\* No client is ever sent an event of a room its user may not enter.
COROLLARY Confidentiality == Spec => []RoomConfidentiality
<1>1. HubInv => RoomConfidentiality
  BY DEF HubInv
<1> QED BY <1>1, HubInvariant, PTL

\* The presence counters agree with the socket tasks.
COROLLARY PresenceAgrees == Spec => []CountIsSockets
<1>1. HubInv => CountIsSockets
  BY DEF HubInv
<1> QED BY <1>1, HubInvariant, PTL

\* No user is left listed as online for ever: a zero has its debounce.
COROLLARY ZeroHasDebounce == Spec => []ZeroIsDebouncing
<1>1. HubInv => ZeroIsDebouncing
  BY DEF HubInv
<1> QED BY <1>1, HubInvariant, PTL

\* Who is no longer listed is not left advertised as online.
COROLLARY AnnouncedAgrees == Spec => []NoPhantomOnline
<1>1. HubInv => NoPhantomOnline
  BY DEF HubInv
<1> QED BY <1>1, HubInvariant, PTL

\* Membership of a room ends with the last live socket.
COROLLARY MembersAreLive == Spec => []NoGhostMembers
<1>1. HubInv => NoGhostMembers
  BY DEF HubInv
<1> QED BY <1>1, HubInvariant, PTL

-----------------------------------------------------------------------------
(* The refinement of OnlineUsers.                                          *)

AttachedSockets == {s \in Socket : task[s] \in Attached}
ListedUsers == {u \in User : counts[u] # Absent}

\* Every step of the hub is one of OnlineUsers, or none.
LEMMA PromiseStep ==
    ASSUME HubInv, [Next]_vars
    PROVE  [Promise!Next]_(Promise!presence)
<1> USE HubAssumption DEF HubInv
<1> DEFINE A == AttachedSockets
           L == ListedUsers
<1> SUFFICES ASSUME A' # A \/ L' # L
             PROVE  Promise!Next
  BY DEF Promise!presence, AttachedSockets, ListedUsers
<1>1. ~Quiet
  BY DEF Quiet, AttachedSockets, ListedUsers
<1>2. ASSUME NEW s \in Socket, Connect(s) PROVE Promise!Attach(s)
  <2>1. s \notin A /\ A' = A \cup {s}
    BY <1>2 DEF Connect, NotConnected, Incremented, Goto, AttachedSockets, Attached, TypeOK
  <2>2. L' = L \cup {Owner[s]}
    BY <1>2 DEF Connect, NotConnected, Incremented, ListedUsers, TypeOK
  <2> QED BY <2>1, <2>2 DEF Promise!Attach, AttachedSockets, ListedUsers
<1>3. ASSUME NEW s \in Socket, AnnounceOnline(s) \/ AnnounceOffline(s) PROVE FALSE
  <2>1. A' = A
    BY <1>3 DEF AnnounceOnline, AnnounceOffline, Goto, AttachedSockets, Attached, TypeOK
  <2>2. L' = L
    BY <1>3 DEF AnnounceOnline, AnnounceOffline, ListedUsers
  <2> QED BY <2>1, <2>2
<1>4. ASSUME NEW s \in Socket, Detach(s) PROVE Promise!Detach(s)
  <2>1. s \in A /\ A' = A \ {s}
    BY <1>4 DEF Detach, NotConnected, Goto, AttachedSockets, Attached, TypeOK
  <2>2. s \in SocketsOf(Owner[s]) /\ Owner[s] \in User
    BY DEF SocketsOf
  <2>3. counts[Owner[s]] \in Nat /\ counts[Owner[s]] > 0
    BY <2>1, <2>2, AttachedCounts DEF AttachedSockets
  <2>4. L' = L
    BY <1>4, <2>3 DEF Detach, NotConnected, ListedUsers, TypeOK
  <2> QED BY <2>1, <2>4 DEF Promise!Detach, AttachedSockets, ListedUsers
<1>5. ASSUME NEW s \in Socket, Expire(s) PROVE Promise!GoOffline(Owner[s])
  <2> DEFINE u == Owner[s]
  <2>1. A' = A
    BY <1>5 DEF Expire, NotConnected, AfterDebounce, Goto, AttachedSockets, Attached, TypeOK
  <2>2. counts[u] \in {Absent, 0}
    <3> SUFFICES ASSUME counts[u] \notin {Absent, 0} PROVE FALSE
      OBVIOUS
    <3>1. L' = L
      BY <1>5 DEF Expire, NotConnected, AfterDebounce, ListedUsers, TypeOK
    <3> QED BY <2>1, <3>1
  <2>3. L' = L \ {u}
    BY <1>5, <2>2 DEF Expire, NotConnected, AfterDebounce, ListedUsers, TypeOK
  <2>4. u \in L
    BY <2>1, <2>3
  <2>5. A \cap SocketsOf(u) = {}
    BY <2>2, AttachedCounts DEF AttachedSockets
  <2> QED BY <2>1, <2>3, <2>4, <2>5
          DEF Promise!GoOffline, Promise!SocketsOf, SocketsOf, AttachedSockets, ListedUsers
<1> QED
  BY <1>1, <1>2, <1>3, <1>4, <1>5, PresenceSteps DEF Promise!Next

\* The counters, debounces and tasks of the code implement OnlineUsers:
\* every step is an Attach, a Detach, a GoOffline or a stutter of it.
THEOREM HubKeepsPromise == Spec => PromiseKept
<1>1. Init => Promise!Init
  BY DEF Init, Promise!Init, Attached
<1>2. HubInv /\ [Next]_vars => [Promise!Next]_(Promise!presence)
  BY PromiseStep
<1> QED BY <1>1, <1>2, HubInvariant, PTL DEF Spec, PromiseKept, Promise!Spec

=============================================================================
