-------------------------- MODULE ChatStoreProofs --------------------------
(***************************************************************************)
(* Proofs about ChatStore for any number of requests, users, keys, slugs   *)
(* and messages.                                                           *)
(***************************************************************************)
EXTENDS ChatStore, TLAPS

\* What a request has established when it waits between two statements: a
\* direct room is asked for by one of its two users, it is in the table when
\* they are entered, and a message for it is from one of them.
WorkIsSound ==
    \A q \in Request :
        /\ req[q].at \in {"dm_room", "dm_caller", "dm_other"} =>
              /\ req[q].room.dm
              /\ req[q].user \in req[q].room.slug
              /\ req[q].other \in req[q].room.slug
        /\ req[q].at \in {"dm_caller", "dm_other"} => req[q].room \in rooms
        /\ req[q].at = "insert" =>
              /\ req[q].room.dm => req[q].user \in req[q].room.slug

StoreInv ==
    /\ TypeOK
    /\ WorkIsSound
    /\ OncePerKey
    /\ RepliesAreAnchored
    /\ PrivateDms

-----------------------------------------------------------------------------
(* What the kinds of work look like.                                       *)

DmStep == {"dm_room", "dm_caller", "dm_other"}
TextStep == {"post_books", "post_event", "edit_books", "reread", "edit_event"}
EraseStep == {"erase", "erase_books", "erase_event"}

\* A request that is over.
LEMMA IdleIsWork == Idle \in Work /\ Idle.at = "idle"
BY DEF Idle, Work

\* A request that opens a direct room knows it and its two users.
LEMMA DmWork ==
    ASSUME NEW w \in Work, w.at \in DmStep
    PROVE  /\ w.room \in RoomId /\ w.user \in User /\ w.other \in User
           /\ \A there \in DmStep :
                 /\ [w EXCEPT !.at = there] \in Work
                 /\ [w EXCEPT !.at = there].at = there
                 /\ [w EXCEPT !.at = there].room = w.room
                 /\ [w EXCEPT !.at = there].user = w.user
                 /\ [w EXCEPT !.at = there].other = w.other
<1>1. w \in [at : DmStep, room : RoomId, user : User, other : User]
  BY DEF Work, DmStep
<1>2. \A there \in DmStep :
         [w EXCEPT !.at = there] \in [at : DmStep, room : RoomId, user : User, other : User]
  BY <1>1
<1> QED BY <1>1, <1>2 DEF Work, DmStep

\* A post that is still to be inserted knows what it will insert.
LEMMA InsertWork ==
    ASSUME NEW w \in Work, w.at = "insert"
    PROVE  /\ w.room \in RoomId /\ w.user \in User
           /\ w.key \in Key \cup {NoKey}
           /\ w.reply \in Message \cup {NoReply}
           /\ w.text \in Text
BY DEF Work

\* A request that gave a message its text goes on to where it may.
LEMMA TextWork ==
    ASSUME NEW w \in Work, w.at \in TextStep
    PROVE  /\ w.msg \in Message /\ w.text \in Text
           /\ \A there \in TextStep :
                 /\ [w EXCEPT !.at = there] \in Work
                 /\ [w EXCEPT !.at = there].at = there
<1>1. w \in [at : TextStep, msg : Message, text : Text]
  BY DEF Work, TextStep
<1>2. \A there \in TextStep :
         [w EXCEPT !.at = there] \in [at : TextStep, msg : Message, text : Text]
  BY <1>1
<1> QED BY <1>1, <1>2 DEF Work, TextStep

\* A request that deletes a message goes on to where it may.
LEMMA EraseWork ==
    ASSUME NEW w \in Work, w.at \in EraseStep
    PROVE  /\ w.msg \in Message
           /\ \A there \in EraseStep :
                 /\ [w EXCEPT !.at = there] \in Work
                 /\ [w EXCEPT !.at = there].at = there
<1>1. w \in [at : EraseStep, msg : Message]
  BY DEF Work, EraseStep
<1>2. \A there \in EraseStep :
         [w EXCEPT !.at = there] \in [at : EraseStep, msg : Message]
  BY <1>1
<1> QED BY <1>1, <1>2 DEF Work, EraseStep

\* A row is not the absence of one, with or without another text.
LEMMA RowIsThere ==
    ASSUME NEW r \in Row
    PROVE  r # NoRow
BY DEF Row, NoRow

\* A row with another text is the row of the same message.
LEMMA EditedRow ==
    ASSUME NEW r \in Row, NEW t \in Text
    PROVE  /\ [r EXCEPT !.text = t] \in Row
           /\ [r EXCEPT !.text = t].author = r.author
           /\ [r EXCEPT !.text = t].room = r.room
           /\ [r EXCEPT !.text = t].key = r.key
           /\ [r EXCEPT !.text = t].reply = r.reply
BY DEF Row

\* A message that is stored has a row.
LEMMA StoredRow ==
    ASSUME TypeOK, NEW m \in Stored
    PROVE  m \in Message /\ row[m] \in Row
BY DEF TypeOK, Stored

-----------------------------------------------------------------------------
(* Types and the work of the requests.                                     *)

\* A request that takes sound work up leaves the others as they are.
LEMMA TakesUp ==
    ASSUME TypeOK, WorkIsSound, NEW q \in Request, NEW w \in Work,
           req' = [req EXCEPT ![q] = w],
           rooms \subseteq rooms',
           w.at \in DmStep =>
              /\ w.room.dm /\ w.user \in w.room.slug /\ w.other \in w.room.slug,
           w.at \in {"dm_caller", "dm_other"} => w.room \in rooms',
           w.at = "insert" => (w.room.dm => w.user \in w.room.slug)
    PROVE  req' \in [Request -> Work] /\ WorkIsSound'
<1>1. req' \in [Request -> Work]
  BY DEF TypeOK
<1>2. \A p \in Request : req'[p] = IF p = q THEN w ELSE req[p]
  BY DEF TypeOK
<1>3. WorkIsSound'
  <2> SUFFICES ASSUME NEW p \in Request
               PROVE  /\ req'[p].at \in {"dm_room", "dm_caller", "dm_other"} =>
                            /\ req'[p].room.dm
                            /\ req'[p].user \in req'[p].room.slug
                            /\ req'[p].other \in req'[p].room.slug
                      /\ req'[p].at \in {"dm_caller", "dm_other"} =>
                            req'[p].room \in rooms'
                      /\ req'[p].at = "insert" =>
                            /\ req'[p].room.dm => req'[p].user \in req'[p].room.slug
    BY DEF WorkIsSound
  <2>1. CASE p = q
    BY <1>2, <2>1 DEF DmStep
  <2>2. CASE p # q
    BY <1>2, <2>2 DEF WorkIsSound
  <2> QED BY <2>1, <2>2
<1> QED BY <1>1, <1>3

\* A request that ends leaves the others as they are.
LEMMA Finishes ==
    ASSUME TypeOK, WorkIsSound, NEW q \in Request, Finish(q),
           rooms \subseteq rooms'
    PROVE  req' \in [Request -> Work] /\ WorkIsSound'
<1>1. Idle \in Work /\ Idle.at \notin DmStep /\ Idle.at # "insert"
  BY IdleIsWork DEF DmStep
<1>2. req' = [req EXCEPT ![q] = Idle]
  BY DEF Finish
<1> QED BY <1>1, <1>2, TakesUp DEF DmStep

\* The direct room of two users has them for its slug.
LEMMA DirectRoom ==
    ASSUME NEW u \in User, NEW other \in User
    PROVE  /\ Direct({u, other}) \in RoomId
           /\ Direct({u, other}).dm
           /\ Direct({u, other}).slug = {u, other}
BY DEF Direct, RoomId

\* The handlers' first statements keep types and sound work.
LEMMA ArrivalType ==
    ASSUME TypeOK, WorkIsSound, PrivateDms, NEW q \in Request, Arrive(q)
    PROVE  TypeOK' /\ WorkIsSound'
<1>1. PICK u \in User :
        \/ \E other \in User : GetDm(q, u, other)
        \/ \E r \in rooms, k \in Key \cup {NoKey}, reply \in Message \cup {NoReply},
              t \in Text : Post(q, u, r, k, reply, t)
        \/ \E m \in Message : (\E t \in Text : Edit(q, u, m, t)) \/ Delete(q, u, m)
  BY DEF Arrive
<1>2. ASSUME NEW other \in User, GetDm(q, u, other)
      PROVE  TypeOK' /\ WorkIsSound'
  <2> DEFINE r == Direct({u, other})
             w == [at |-> "dm_room", room |-> r, user |-> u, other |-> other]
  <2>1. r \in RoomId /\ r.dm /\ r.slug = {u, other}
    BY DirectRoom
  <2>2. UNCHANGED <<rooms, members, made, row, told, raced, unreported>>
    BY <1>2 DEF GetDm, tables
  <2>3. CASE r \in rooms
    <3>1. handed' = handed \cup {r} /\ req' = req
      BY <1>2, <2>3 DEF GetDm
    <3> QED BY <2>2, <2>3, <3>1 DEF TypeOK, WorkIsSound
  <2>4. CASE r \notin rooms
    <3>1. handed' = handed /\ req' = [req EXCEPT ![q] = w]
      BY <1>2, <2>4 DEF GetDm
    <3>2. w \in Work
      BY <2>1 DEF Work
    <3>3. /\ w.at \in DmStep /\ w.at \notin {"dm_caller", "dm_other"} /\ w.at # "insert"
          /\ w.room.dm /\ w.user \in w.room.slug /\ w.other \in w.room.slug
      BY <2>1 DEF DmStep
    <3> HIDE DEF w
    <3>4. req' \in [Request -> Work] /\ WorkIsSound'
      BY <2>2, <3>1, <3>2, <3>3, TakesUp
    <3> QED BY <2>2, <3>1, <3>4 DEF TypeOK
  <2> QED BY <2>3, <2>4
<1>3. ASSUME NEW r \in rooms, NEW k \in Key \cup {NoKey},
             NEW reply \in Message \cup {NoReply}, NEW t \in Text,
             Post(q, u, r, k, reply, t)
      PROVE  TypeOK' /\ WorkIsSound'
  <2> DEFINE w == [at |-> "insert", user |-> u, room |-> r, key |-> k,
                   reply |-> reply, text |-> t]
  <2>1. /\ req' = [req EXCEPT ![q] = w]
        /\ UNCHANGED <<rooms, members, made, row, told, handed, raced, unreported>>
    BY <1>3 DEF Post, tables
  <2>2. w \in Work
    BY DEF TypeOK, Work
  <2>3. r.dm => u \in r.slug
    <3> SUFFICES ASSUME r.dm PROVE u \in r.slug
      OBVIOUS
    <3>1. [room |-> r, user |-> u] \in members
      BY <1>3 DEF Post, CanAccess
    <3> QED BY <3>1 DEF PrivateDms
  <2>4. w.at \notin DmStep /\ w.room = r /\ w.user = u
    BY DEF DmStep
  <2> HIDE DEF w
  <2>5. req' \in [Request -> Work] /\ WorkIsSound'
    BY <2>1, <2>2, <2>3, <2>4, TakesUp DEF DmStep
  <2> QED BY <2>1, <2>5 DEF TypeOK
<1>4. ASSUME NEW m \in Message, NEW t \in Text, Edit(q, u, m, t)
      PROVE  TypeOK' /\ WorkIsSound'
  <2> DEFINE w == [at |-> "edit_books", msg |-> m, text |-> t]
  <2>1. /\ req' = [req EXCEPT ![q] = w]
        /\ raced' \in {raced, raced \cup {m}}
        /\ UNCHANGED <<rooms, members, made, told, handed, unreported>>
    BY <1>4 DEF Edit, Begin
  <2>2. row[m] \in Row
    BY <1>4 DEF Edit, TypeOK
  <2>3. row' \in [Message -> Row \cup {NoRow}]
    BY <1>4, <2>2, EditedRow DEF Edit, TypeOK
  <2>4. w \in Work /\ w.at \notin DmStep /\ w.at # "insert"
    BY DEF Work, DmStep
  <2> HIDE DEF w
  <2>5. req' \in [Request -> Work] /\ WorkIsSound'
    BY <2>1, <2>4, TakesUp DEF DmStep
  <2> QED BY <2>1, <2>3, <2>5 DEF TypeOK
<1>5. ASSUME NEW m \in Message, Delete(q, u, m)
      PROVE  TypeOK' /\ WorkIsSound'
  <2> DEFINE w == [at |-> "erase", msg |-> m]
  <2>1. /\ req' = [req EXCEPT ![q] = w]
        /\ raced' \in {raced, raced \cup {m}}
        /\ UNCHANGED <<rooms, members, made, row, told, handed, unreported>>
    BY <1>5 DEF Delete, Begin, tables
  <2>2. w \in Work /\ w.at \notin DmStep /\ w.at # "insert"
    BY DEF Work, DmStep
  <2> HIDE DEF w
  <2>3. req' \in [Request -> Work] /\ WorkIsSound'
    BY <2>1, <2>2, TakesUp DEF DmStep
  <2> QED BY <2>1, <2>3 DEF TypeOK
<1> QED BY <1>1, <1>2, <1>3, <1>4, <1>5

\* A request that goes on or ends, next to the tables it leaves alone.
LEMMA GoesOn ==
    ASSUME TypeOK, WorkIsSound, NEW q \in Request, NEW there, Goto(q, there),
           \/ req[q].at \in TextStep /\ there \in TextStep
           \/ req[q].at \in EraseStep /\ there \in EraseStep,
           rooms \subseteq rooms'
    PROVE  req' \in [Request -> Work] /\ WorkIsSound'
<1>0. req[q] \in Work
  BY DEF TypeOK
<1>1. PICK w \in Work : w = [req[q] EXCEPT !.at = there] /\ w.at = there
  BY <1>0, TextWork, EraseWork
<1>2. req' = [req EXCEPT ![q] = w]
  BY <1>1 DEF Goto
<1>3. w.at \notin DmStep /\ w.at # "insert"
  BY <1>1 DEF DmStep, TextStep, EraseStep
<1> QED BY <1>2, <1>3, TakesUp DEF DmStep

\* So do the three statements that make a direct room, ...
LEMMA RoomStepType ==
    ASSUME TypeOK, WorkIsSound, NEW q \in Request,
           InsertDm(q) \/ InsertCaller(q) \/ InsertOther(q)
    PROVE  TypeOK' /\ WorkIsSound'
<1>0. req[q] \in Work /\ req[q].at \in DmStep
  BY DEF InsertDm, InsertCaller, InsertOther, DmStep, TypeOK
<1>1. /\ req[q].room \in RoomId /\ req[q].user \in User /\ req[q].other \in User
      /\ req[q].room.dm
      /\ req[q].user \in req[q].room.slug /\ req[q].other \in req[q].room.slug
  BY <1>0, DmWork DEF WorkIsSound, DmStep
<1>2. CASE InsertDm(q)
  <2>1. UNCHANGED <<members, made, row, told, handed, raced, unreported>>
    BY <1>2 DEF InsertDm
  <2>2. CASE SlugTaken(req[q].room.slug)
    <3>1. Finish(q) /\ rooms' = rooms
      BY <1>2, <2>2 DEF InsertDm
    <3>2. req' \in [Request -> Work] /\ WorkIsSound'
      BY <3>1, Finishes
    <3> QED BY <2>1, <3>1, <3>2 DEF TypeOK
  <2>3. CASE ~SlugTaken(req[q].room.slug)
    <3>1. Goto(q, "dm_caller") /\ rooms' = rooms \cup {req[q].room}
      BY <1>2, <2>3 DEF InsertDm
    <3>2. PICK w \in Work : /\ w = [req[q] EXCEPT !.at = "dm_caller"]
                            /\ w.at = "dm_caller" /\ w.room = req[q].room
                            /\ w.user = req[q].user /\ w.other = req[q].other
      BY <1>0, DmWork DEF DmStep
    <3>3. req' = [req EXCEPT ![q] = w]
      BY <3>1, <3>2 DEF Goto
    <3>4. /\ w.room.dm /\ w.user \in w.room.slug /\ w.other \in w.room.slug
          /\ w.room \in rooms' /\ w.at # "insert" /\ rooms \subseteq rooms'
      BY <1>1, <3>1, <3>2
    <3>5. req' \in [Request -> Work] /\ WorkIsSound'
      BY <3>2, <3>3, <3>4, TakesUp
    <3>6. rooms' \subseteq RoomId /\ handed' \subseteq rooms'
      BY <1>1, <2>1, <3>1 DEF TypeOK
    <3>7. members' \subseteq [room : rooms', user : User]
      BY <2>1, <3>1 DEF TypeOK
    <3> QED BY <2>1, <3>5, <3>6, <3>7 DEF TypeOK
  <2> QED BY <2>2, <2>3
<1>3. CASE InsertCaller(q)
  <2>1. /\ UNCHANGED <<rooms, made, row, told, handed, raced, unreported>>
        /\ Goto(q, "dm_other") /\ req[q].room \in rooms
        /\ members' = members \cup {[room |-> req[q].room, user |-> req[q].user]}
    BY <1>3 DEF InsertCaller, WorkIsSound
  <2>2. PICK w \in Work : /\ w = [req[q] EXCEPT !.at = "dm_other"]
                          /\ w.at = "dm_other" /\ w.room = req[q].room
                          /\ w.user = req[q].user /\ w.other = req[q].other
    BY <1>0, DmWork DEF DmStep
  <2>3. req' = [req EXCEPT ![q] = w]
    BY <2>1, <2>2 DEF Goto
  <2>4. /\ w.room.dm /\ w.user \in w.room.slug /\ w.other \in w.room.slug
        /\ w.room \in rooms' /\ w.at # "insert" /\ rooms \subseteq rooms'
    BY <1>1, <2>1, <2>2
  <2>6. req' \in [Request -> Work] /\ WorkIsSound'
    BY <2>2, <2>3, <2>4, TakesUp
  <2>5. members' \subseteq [room : rooms', user : User]
    BY <1>1, <2>1 DEF TypeOK
  <2> QED BY <2>1, <2>5, <2>6 DEF TypeOK
<1>4. CASE InsertOther(q)
  <2>1. /\ UNCHANGED <<rooms, made, row, told, raced, unreported>>
        /\ Finish(q) /\ req[q].room \in rooms
        /\ members' = members \cup {[room |-> req[q].room, user |-> req[q].other]}
        /\ handed' = handed \cup {req[q].room}
    BY <1>4 DEF InsertOther, WorkIsSound
  <2>2. req' \in [Request -> Work] /\ WorkIsSound'
    BY <2>1, Finishes
  <2>3. members' \subseteq [room : rooms', user : User]
    BY <1>1, <2>1 DEF TypeOK
  <2> QED BY <2>1, <2>2, <2>3 DEF TypeOK
<1> QED BY <1>2, <1>3, <1>4

\* ... the insertion of a message, ...
LEMMA InsertType ==
    ASSUME TypeOK, WorkIsSound, NEW q \in Request, InsertMessage(q)
    PROVE  TypeOK' /\ WorkIsSound'
<1> DEFINE p == req[q]
<1>0. p \in Work /\ p.at = "insert"
  BY DEF InsertMessage, TypeOK
<1>1. UNCHANGED <<rooms, members, told, handed, raced, unreported>>
  BY DEF InsertMessage
<1>2. CASE Refused(p)
  <2>1. Finish(q) /\ UNCHANGED <<made, row>>
    BY <1>2 DEF InsertMessage
  <2>2. req' \in [Request -> Work] /\ WorkIsSound'
    BY <1>1, <2>1, Finishes
  <2> QED BY <1>1, <2>1, <2>2 DEF TypeOK
<1>3. CASE ~Refused(p)
  <2> DEFINE new == [author |-> p.user, room |-> p.room, key |-> p.key,
                     reply |-> p.reply, text |-> p.text]
             w == [at |-> "post_books", msg |-> made + 1, text |-> p.text]
  <2>1. /\ made < MaxMessages /\ made' = made + 1
        /\ row' = [row EXCEPT ![made + 1] = new]
        /\ req' = [req EXCEPT ![q] = w]
    BY <1>3 DEF InsertMessage, NextMessage
  <2>2. made + 1 \in Message /\ made' \in 0 .. MaxMessages
    BY <2>1, StoreAssumption DEF TypeOK, Message
  <2>3. new \in Row
    BY <1>0, InsertWork, StoreAssumption DEF Row, Message, NoReply
  <2>4. w \in Work /\ w.at \notin DmStep /\ w.at # "insert"
    BY <1>0, <2>2, InsertWork DEF Work, DmStep
  <2> HIDE DEF new, w
  <2>5. req' \in [Request -> Work] /\ WorkIsSound'
    BY <1>1, <2>1, <2>4, TakesUp DEF DmStep
  <2>6. row' \in [Message -> Row \cup {NoRow}]
    BY <2>1, <2>2, <2>3 DEF TypeOK
  <2> QED BY <1>1, <2>2, <2>5, <2>6 DEF TypeOK
<1> QED BY <1>2, <1>3

\* ... and whatever follows the first change of a message.
LEMMA MessageStepType ==
    ASSUME TypeOK, WorkIsSound, NEW q \in Request,
           \/ KeepBooks(q) \/ Announce(q) \/ Reread(q)
           \/ Erase(q) \/ AnnounceDeletion(q) \/ WriteFails(q)
    PROVE  TypeOK' /\ WorkIsSound'
<1>0. req[q] \in Work
  BY DEF TypeOK
<1>1. CASE KeepBooks(q)
  <2>1. PICK there \in TextStep \cup EraseStep :
          /\ Goto(q, there)
          /\ \/ req[q].at \in TextStep /\ there \in TextStep
             \/ req[q].at \in EraseStep /\ there \in EraseStep
    BY <1>1 DEF KeepBooks, TextStep, EraseStep
  <2>2. UNCHANGED <<rooms, members, made, row, told, handed, raced, unreported>>
    BY <1>1 DEF KeepBooks, tables
  <2>3. req' \in [Request -> Work] /\ WorkIsSound'
    BY <2>1, <2>2, GoesOn
  <2> QED BY <2>2, <2>3 DEF TypeOK
<1>2. CASE Announce(q) \/ AnnounceDeletion(q)
  <2>1. /\ Finish(q)
        /\ UNCHANGED <<rooms, members, made, row, handed, raced, unreported>>
    BY <1>2 DEF Announce, AnnounceDeletion, tables
  <2>2. req' \in [Request -> Work] /\ WorkIsSound'
    BY <2>1, Finishes
  <2>3. told' \in [Message -> Text \cup {Nothing, Deleted}]
    BY <1>0, <1>2, TextWork, EraseWork
       DEF Announce, AnnounceDeletion, TypeOK, TextStep, EraseStep
  <2> QED BY <2>1, <2>2, <2>3 DEF TypeOK
<1>3. CASE Reread(q)
  <2> DEFINE m == req[q].msg
  <2>0. req[q].at = "reread" /\ m \in Message
    BY <1>0, <1>3, TextWork DEF Reread, TextStep
  <2>1. UNCHANGED <<rooms, members, made, row, told, handed, raced, unreported>>
    BY <1>3 DEF Reread, tables
  <2>2. CASE row[m] = NoRow
    <3>1. Finish(q)
      BY <1>3, <2>2 DEF Reread
    <3> QED BY <2>1, <3>1, Finishes DEF TypeOK
  <2>3. CASE row[m] # NoRow
    <3>1. row[m].text \in Text
      BY <2>0, <2>3 DEF TypeOK, Row
    <3>2. req[q] \in [at : TextStep, msg : Message, text : Text]
      BY <1>0, <2>0 DEF Work, TextStep
    <3> DEFINE w == [req[q] EXCEPT !.at = "edit_event", !.text = row[m].text]
    <3>3. w \in [at : TextStep, msg : Message, text : Text] /\ w.at = "edit_event"
      BY <3>1, <3>2 DEF TextStep
    <3>4. w \in Work /\ w.at \notin DmStep /\ w.at # "insert"
      BY <3>3 DEF Work, TextStep, DmStep
    <3>5. req' = [req EXCEPT ![q] = w]
      BY <1>3, <2>3 DEF Reread
    <3> HIDE DEF w
    <3>6. req' \in [Request -> Work] /\ WorkIsSound'
      BY <2>1, <3>4, <3>5, TakesUp DEF DmStep
    <3> QED BY <2>1, <3>6 DEF TypeOK
  <2> QED BY <2>2, <2>3
<1>4. CASE Erase(q)
  <2>1. UNCHANGED <<rooms, members, made, told, handed, raced, unreported>>
    BY <1>4 DEF Erase
  <2>2. row' \in [Message -> Row \cup {NoRow}]
    BY <1>4 DEF Erase, TypeOK
  <2>3. req' \in [Request -> Work] /\ WorkIsSound'
    <3>1. CASE Finish(q)
      BY <2>1, <3>1, Finishes
    <3>2. CASE Goto(q, "erase_books")
      <4>1. req[q].at \in EraseStep /\ "erase_books" \in EraseStep
        BY <1>4 DEF Erase, EraseStep
      <4> QED BY <2>1, <3>2, <4>1, GoesOn
    <3> QED BY <1>4, <3>1, <3>2 DEF Erase
  <2> QED BY <2>1, <2>2, <2>3 DEF TypeOK
<1>5. CASE WriteFails(q)
  <2>1. Finish(q) /\ UNCHANGED <<rooms, members, made, row, told, handed, raced>>
    BY <1>5 DEF WriteFails, tables
  <2>2. req' \in [Request -> Work] /\ WorkIsSound'
    BY <2>1, Finishes
  <2>3. unreported' \subseteq Message
    BY <1>0, <1>5, TextWork, EraseWork DEF WriteFails, TypeOK, TextStep, EraseStep
  <2> QED BY <2>1, <2>2, <2>3 DEF TypeOK
<1> QED BY <1>1, <1>2, <1>3, <1>4, <1>5

\* No step leaves the types or makes work unsound.
LEMMA StoreTypeStep ==
    ASSUME TypeOK, WorkIsSound, PrivateDms, [Next]_vars
    PROVE  TypeOK' /\ WorkIsSound'
<1>1. ASSUME NEW slug \in Slug, CreateRoom(slug) PROVE TypeOK' /\ WorkIsSound'
  <2>1. /\ rooms' = rooms \cup {Public(slug)}
        /\ UNCHANGED <<members, made, row, req, told, handed, raced, unreported>>
    BY <1>1 DEF CreateRoom
  <2>2. Public(slug) \in RoomId
    BY StoreAssumption DEF Public, RoomId
  <2>3. members' \subseteq [room : rooms', user : User]
    BY <2>1 DEF TypeOK
  <2>4. WorkIsSound'
    BY <2>1 DEF WorkIsSound
  <2> QED BY <2>1, <2>2, <2>3, <2>4 DEF TypeOK
<1>2. ASSUME NEW q \in Request, Arrive(q) PROVE TypeOK' /\ WorkIsSound'
  BY <1>2, ArrivalType
<1>3. ASSUME NEW q \in Request, Proceed(q) PROVE TypeOK' /\ WorkIsSound'
  BY <1>3, RoomStepType, InsertType, MessageStepType DEF Proceed
<1>4. CASE UNCHANGED vars
  BY <1>4 DEF vars, TypeOK, WorkIsSound
<1> QED BY <1>1, <1>2, <1>3, <1>4 DEF Next

-----------------------------------------------------------------------------
(* The tables.                                                             *)

\* What the statements do to the table of messages: nothing, a new row that
\* breaks no constraint, another text, or the end of a row without replies.
RowStep ==
    \/ row' = row
    \/ \E m \in Message, new \in Row :
          /\ row' = [row EXCEPT ![m] = new]
          /\ ~KeyTaken(new.author, new.key) /\ MayReplyTo(new.reply)
          /\ new.room.dm => new.author \in new.room.slug
    \/ \E m \in Stored, new \in Row :
          /\ row' = [row EXCEPT ![m] = new]
          /\ new.author = row[m].author /\ new.key = row[m].key
          /\ new.reply = row[m].reply /\ new.room = row[m].room
    \/ \E m \in Message :
          /\ row' = [row EXCEPT ![m] = NoRow]
          /\ ~IsRepliedTo(m)

\* Any step changes the rows as one statement does: it inserts a row, gives
\* one another text, erases one, or leaves them all.
LEMMA EveryRowStep ==
    ASSUME TypeOK, WorkIsSound, [Next]_vars
    PROVE  RowStep
<1>1. CASE row' = row
  BY <1>1 DEF RowStep
<1>2. ASSUME NEW q \in Request, NEW u \in User, NEW m \in Message,
             NEW t \in Text, Edit(q, u, m, t)
      PROVE  RowStep
  <2>1. m \in Stored /\ row[m] \in Row
    BY <1>2 DEF Edit, Stored, TypeOK
  <2>2. PICK new \in Row : /\ new = [row[m] EXCEPT !.text = t]
                           /\ new.author = row[m].author /\ new.key = row[m].key
                           /\ new.reply = row[m].reply /\ new.room = row[m].room
    BY <2>1, EditedRow
  <2>3. row' = [row EXCEPT ![m] = new]
    BY <1>2, <2>2 DEF Edit
  <2> QED BY <2>1, <2>2, <2>3 DEF RowStep
<1>3. ASSUME NEW q \in Request, InsertMessage(q)
      PROVE  RowStep
  <2> DEFINE p == req[q]
  <2>0. p \in Work /\ p.at = "insert"
    BY <1>3 DEF InsertMessage, TypeOK
  <2>1. CASE ~Refused(p)
    <3> DEFINE new == [author |-> p.user, room |-> p.room, key |-> p.key,
                       reply |-> p.reply, text |-> p.text]
    <3>1. made < MaxMessages /\ row' = [row EXCEPT ![made + 1] = new]
      BY <1>3, <2>1 DEF InsertMessage, NextMessage
    <3>2. made + 1 \in Message
      BY <3>1, StoreAssumption DEF TypeOK, Message
    <3>3. new \in Row
      BY <2>0, InsertWork, StoreAssumption DEF Row, Message, NoReply
    <3>4. ~KeyTaken(new.author, new.key) /\ MayReplyTo(new.reply)
      BY <2>1 DEF Refused
    <3>5. new.room.dm => new.author \in new.room.slug
      BY <2>0 DEF WorkIsSound
    <3> HIDE DEF new
    <3> QED BY <3>1, <3>2, <3>3, <3>4, <3>5 DEF RowStep
  <2> QED BY <1>1, <1>3, <2>1 DEF InsertMessage
<1>4. ASSUME NEW q \in Request, Erase(q)
      PROVE  RowStep
  <2>1. req[q].msg \in Message
    BY <1>4, EraseWork DEF Erase, EraseStep, TypeOK
  <2> QED BY <1>1, <1>4, <2>1 DEF Erase, RowStep
<1>5. ASSUME NEW q \in Request, Arrive(q) PROVE RowStep
  <2>1. PICK u \in User :
          \/ \E other \in User : GetDm(q, u, other)
          \/ \E r \in rooms, k \in Key \cup {NoKey}, reply \in Message \cup {NoReply},
                t \in Text : Post(q, u, r, k, reply, t)
          \/ \E m \in Message : (\E t \in Text : Edit(q, u, m, t)) \/ Delete(q, u, m)
    BY <1>5 DEF Arrive
  <2> QED BY <1>1, <1>2, <2>1 DEF GetDm, Post, Delete, tables
<1>6. ASSUME NEW q \in Request, Proceed(q) PROVE RowStep
  <2>1. CASE \/ InsertDm(q) \/ InsertCaller(q) \/ InsertOther(q)
            \/ KeepBooks(q) \/ Announce(q) \/ Reread(q)
            \/ AnnounceDeletion(q) \/ WriteFails(q)
    BY <1>1, <2>1 DEF InsertDm, InsertCaller, InsertOther, KeepBooks, Announce,
                      Reread, AnnounceDeletion, WriteFails, tables
  <2> QED BY <1>3, <1>4, <1>6, <2>1 DEF Proceed
<1>7. CASE (\E slug \in Slug : CreateRoom(slug)) \/ UNCHANGED vars
  BY <1>1, <1>7 DEF CreateRoom, vars
<1> QED BY <1>5, <1>6, <1>7 DEF Next

\* A statement that passes the constraint on keys keeps them unique.
LEMMA KeysStayUnique ==
    ASSUME TypeOK, OncePerKey, RowStep
    PROVE  OncePerKey'
<1> SUFFICES ASSUME NEW m \in Stored', NEW n \in Stored',
                    row'[m].author = row'[n].author,
                    row'[m].key = row'[n].key,
                    row'[m].key # NoKey
             PROVE  m = n
  BY DEF OncePerKey
<1>1. m \in Message /\ n \in Message /\ row'[m] # NoRow /\ row'[n] # NoRow
  BY DEF Stored
<1>2. CASE row' = row
  BY <1>1, <1>2 DEF Stored, OncePerKey
<1>3. ASSUME NEW x \in Message, NEW new \in Row, row' = [row EXCEPT ![x] = new],
             ~KeyTaken(new.author, new.key)
      PROVE  m = n
  <2>1. \A y \in Message : row'[y] = IF y = x THEN new ELSE row[y]
    BY <1>3 DEF TypeOK
  <2>2. \A y \in Stored : ~(row[y].author = new.author /\ row[y].key = new.key)
                        \/ new.key = NoKey
    BY <1>3 DEF KeyTaken
  <2>3. CASE m = x /\ n # x
    BY <1>1, <2>1, <2>2, <2>3 DEF Stored
  <2>4. CASE n = x /\ m # x
    BY <1>1, <2>1, <2>2, <2>4 DEF Stored
  <2>5. CASE m # x /\ n # x
    BY <1>1, <2>1, <2>5 DEF Stored, OncePerKey
  <2> QED BY <2>3, <2>4, <2>5
<1>4. ASSUME NEW x \in Stored, NEW new \in Row, row' = [row EXCEPT ![x] = new],
             new.author = row[x].author, new.key = row[x].key
      PROVE  m = n
  <2>1. \A y \in Message : row'[y] = IF y = x THEN new ELSE row[y]
    BY <1>4 DEF TypeOK
  <2>2. m \in Stored /\ n \in Stored
    BY <1>1, <2>1 DEF Stored
  <2>3. \A y \in {m, n} : row'[y].author = row[y].author /\ row'[y].key = row[y].key
    BY <1>1, <1>4, <2>1
  <2> QED BY <2>2, <2>3 DEF OncePerKey
<1>5. ASSUME NEW x \in Message, row' = [row EXCEPT ![x] = NoRow]
      PROVE  m = n
  <2>1. \A y \in Message : row'[y] = IF y = x THEN NoRow ELSE row[y]
    BY <1>5 DEF TypeOK
  <2> QED BY <1>1, <2>1 DEF Stored, OncePerKey
<1> QED BY <1>2, <1>3, <1>4, <1>5 DEF RowStep

\* A statement that passes the foreign key keeps replies anchored.
LEMMA RepliesStayAnchored ==
    ASSUME TypeOK, RepliesAreAnchored, RowStep
    PROVE  RepliesAreAnchored'
<1> SUFFICES ASSUME NEW m \in Stored'
             PROVE  row'[m].reply = NoReply \/ row'[m].reply \in Stored'
  BY DEF RepliesAreAnchored, MayReplyTo
<1>1. m \in Message /\ row'[m] # NoRow
  BY DEF Stored
<1>2. \A y \in Stored : row[y].reply = NoReply \/ row[y].reply \in Stored
  BY DEF RepliesAreAnchored, MayReplyTo
<1>3. CASE row' = row
  BY <1>1, <1>2, <1>3 DEF Stored
<1>4. ASSUME NEW x \in Message, NEW new \in Row, row' = [row EXCEPT ![x] = new],
             MayReplyTo(new.reply) \/ (x \in Stored /\ new.reply = row[x].reply)
      PROVE  row'[m].reply = NoReply \/ row'[m].reply \in Stored'
  <2>1. \A y \in Message : row'[y] = IF y = x THEN new ELSE row[y]
    BY <1>4 DEF TypeOK
  <2>2. Stored \subseteq Stored'
    BY <2>1, RowIsThere DEF Stored
  <2>3. CASE m = x
    BY <1>1, <1>2, <1>4, <2>1, <2>2, <2>3 DEF MayReplyTo
  <2>4. CASE m # x
    BY <1>1, <1>2, <2>1, <2>2, <2>4 DEF Stored
  <2> QED BY <2>3, <2>4
<1>5. ASSUME NEW x \in Message, row' = [row EXCEPT ![x] = NoRow], ~IsRepliedTo(x)
      PROVE  row'[m].reply = NoReply \/ row'[m].reply \in Stored'
  <2>1. \A y \in Message : row'[y] = IF y = x THEN NoRow ELSE row[y]
    BY <1>5 DEF TypeOK
  <2>2. m # x /\ m \in Stored /\ row'[m] = row[m]
    BY <1>1, <2>1 DEF Stored
  <2>3. row[m].reply # x
    BY <1>5, <2>2 DEF IsRepliedTo
  <2> QED BY <1>2, <2>1, <2>2, <2>3 DEF Stored
<1>6. \A x \in Stored : x \in Message
  BY DEF Stored
<1> QED BY <1>3, <1>4, <1>5, <1>6 DEF RowStep

\* No statement lets a third user into a direct room.
LEMMA DmsStayPrivate ==
    ASSUME TypeOK, WorkIsSound, PrivateDms, RowStep, [Next]_vars
    PROVE  PrivateDms'
<1>1. \A e \in members' : e.room.dm => e.user \in e.room.slug
  <2>1. CASE members' = members
    BY <2>1 DEF PrivateDms
  <2>2. ASSUME NEW q \in Request, InsertCaller(q) \/ InsertOther(q)
        PROVE  \A e \in members' : e.room.dm => e.user \in e.room.slug
    <3>1. /\ req[q].user \in req[q].room.slug
          /\ req[q].other \in req[q].room.slug
      BY <2>2 DEF InsertCaller, InsertOther, WorkIsSound
    <3> QED BY <2>2, <3>1 DEF InsertCaller, InsertOther, PrivateDms
  <2>3. ASSUME NEW q \in Request, Arrive(q)
        PROVE  members' = members
    BY <2>3 DEF Arrive, GetDm, Post, Edit, Delete, tables
  <2>4. ASSUME NEW q \in Request,
               \/ InsertDm(q) \/ InsertMessage(q) \/ KeepBooks(q)
               \/ Announce(q) \/ Reread(q) \/ Erase(q)
               \/ AnnounceDeletion(q) \/ WriteFails(q)
        PROVE  members' = members
    BY <2>4 DEF InsertDm, InsertMessage, KeepBooks, Announce, Reread, Erase,
                AnnounceDeletion, WriteFails, tables
  <2>5. CASE (\E slug \in Slug : CreateRoom(slug)) \/ UNCHANGED vars
    BY <2>1, <2>5 DEF CreateRoom, vars
  <2> QED BY <2>1, <2>2, <2>3, <2>4, <2>5 DEF Next, Proceed
<1>2. ASSUME NEW m \in Stored', row'[m].room.dm
      PROVE  row'[m].author \in row'[m].room.slug
  <2>1. m \in Message /\ row'[m] # NoRow
    BY DEF Stored
  <2>2. \A y \in Stored : row[y].room.dm => row[y].author \in row[y].room.slug
    BY DEF PrivateDms
  <2>3. CASE row' = row
    BY <1>2, <2>1, <2>2, <2>3 DEF Stored
  <2>4. ASSUME NEW x \in Message, NEW new \in Row \cup {NoRow},
               row' = [row EXCEPT ![x] = new],
               \/ new = NoRow
               \/ new.room.dm => new.author \in new.room.slug
               \/ x \in Stored /\ new.author = row[x].author /\ new.room = row[x].room
        PROVE  row'[m].author \in row'[m].room.slug
    <3>1. \A y \in Message : row'[y] = IF y = x THEN new ELSE row[y]
      BY <2>4 DEF TypeOK
    <3>2. CASE m = x
      BY <1>2, <2>1, <2>2, <2>4, <3>1, <3>2
    <3>3. CASE m # x
      BY <1>2, <2>1, <2>2, <3>1, <3>3 DEF Stored
    <3> QED BY <3>2, <3>3
  <2> QED BY <2>3, <2>4 DEF RowStep, Stored
<1> QED BY <1>1, <1>2 DEF PrivateDms

\* What the tables and the requests under way have in common between any two
\* statements.
THEOREM StoreInvariant == Spec => []StoreInv
<1>1. Init => StoreInv
  <2> SUFFICES ASSUME Init PROVE StoreInv
    OBVIOUS
  <2>1. TypeOK
    BY IdleIsWork, StoreAssumption DEF Init, TypeOK
  <2>2. WorkIsSound
    BY IdleIsWork DEF Init, WorkIsSound
  <2>3. Stored = {} /\ members = {}
    BY DEF Init, Stored
  <2>4. OncePerKey /\ RepliesAreAnchored /\ PrivateDms
    BY <2>3 DEF OncePerKey, RepliesAreAnchored, PrivateDms
  <2> QED BY <2>1, <2>2, <2>4 DEF StoreInv
<1>2. StoreInv /\ [Next]_vars => StoreInv'
  BY StoreTypeStep, EveryRowStep, KeysStayUnique, RepliesStayAnchored,
     DmsStayPrivate DEF StoreInv
<1> QED BY <1>1, <1>2, PTL DEF Spec

\* The tables and the work between two statements are well-typed; members
\* and the rooms handed out are of rooms that exist.
COROLLARY StoreTypeCorrect == Spec => []TypeOK
<1>1. StoreInv => TypeOK
  BY DEF StoreInv
<1> QED BY <1>1, StoreInvariant, PTL

\* A key of an author never stands in two rows.
COROLLARY KeysAreUnique == Spec => []OncePerKey
<1>1. StoreInv => OncePerKey
  BY DEF StoreInv
<1> QED BY <1>1, StoreInvariant, PTL

\* No reply outlives the message it answers.
COROLLARY RepliesKeepTheirAnchor == Spec => []RepliesAreAnchored
<1>1. StoreInv => RepliesAreAnchored
  BY DEF StoreInv
<1> QED BY <1>1, StoreInvariant, PTL

\* Nobody but its two users is ever a member of a direct room or has a
\* message in it.
COROLLARY DmsArePrivate == Spec => []PrivateDms
<1>1. StoreInv => PrivateDms
  BY DEF StoreInv
<1> QED BY <1>1, StoreInvariant, PTL

-----------------------------------------------------------------------------
(* The events.                                                             *)

\* What the work w on message m knows of the row it will speak of: it has the
\* text that will be told, is there, is what was told, or is no more.
Promised(w, m) ==
    /\ w.at \in {"post_books", "post_event", "edit_books", "edit_event"} =>
          row[m] # NoRow /\ row[m].text = w.text
    /\ w.at = "reread" => row[m] # NoRow
    /\ w.at = "erase" => told[m] = Truth(m)
    /\ w.at \in {"erase_books", "erase_event"} => row[m] = NoRow

\* A message that only ever had one request at a time, none of which failed
\* half-way, was told as it is, or that request will tell it.
MessageIsTold(m) ==
    /\ m > made => row[m] = NoRow /\ Handlers(m) = {}
    /\ m \notin raced => \A p, q \in Handlers(m) : p = q
    /\ m \in 1..made /\ m \notin raced \cup unreported =>
          /\ Handlers(m) = {} => told[m] = Truth(m)
          /\ \A q \in Handlers(m) : Promised(req[q], m)

EventsInv == \A m \in Message : MessageIsTold(m)

HasMessage(w) == "msg" \in DOMAIN w

\* The kinds of work that are about a message.
LEMMA MessageWork ==
    ASSUME NEW w \in Work
    PROVE  /\ HasMessage(w) <=> w.at \in TextStep \cup EraseStep
           /\ HasMessage(w) => w.msg \in Message
<1>1. CASE w.at \in TextStep \cup EraseStep
  BY <1>1 DEF Work, TextStep, EraseStep, HasMessage
<1>2. CASE w.at \notin TextStep \cup EraseStep
  <2>1. \/ w \in [at : {"idle"}]
        \/ w \in [at : {"dm_room", "dm_caller", "dm_other"}, room : RoomId,
                   user : User, other : User]
        \/ w \in [at : {"insert"}, user : User, room : RoomId,
                   key : Key \cup {NoKey}, reply : Message \cup {NoReply}, text : Text]
    BY <1>2 DEF Work, TextStep, EraseStep
  <2>2. ~HasMessage(w)
    BY <2>1 DEF HasMessage
  <2> QED BY <1>2, <2>2
<1> QED BY <1>1, <1>2

\* A request that takes up the work w is the only one that changes.
LEMMA OneRequest ==
    ASSUME TypeOK, NEW q \in Request, NEW w, req' = [req EXCEPT ![q] = w],
           NEW n
    PROVE  /\ req'[q] = w
           /\ \A p \in Request \ {q} : req'[p] = req[p]
           /\ \A p \in Request \ {q} : p \in Handlers(n)' <=> p \in Handlers(n)
           /\ q \in Handlers(n)' <=> HasMessage(w) /\ w.msg = n
           /\ Handlers(n) \subseteq Request /\ Handlers(n)' \subseteq Request
<1>1. req'[q] = w /\ \A p \in Request \ {q} : req'[p] = req[p]
  BY DEF TypeOK
<1> QED BY <1>1 DEF Handlers, HasMessage

\* A step of q is nothing to a message that q is not about.
LEMMA OthersAreTold ==
    ASSUME TypeOK, EventsInv, NEW q \in Request, NEW w,
           req' = [req EXCEPT ![q] = w],
           NEW n \in Message, q \notin Handlers(n), ~(HasMessage(w) /\ w.msg = n),
           row'[n] = row[n], told'[n] = told[n],
           n \in raced' <=> n \in raced, n \in unreported' <=> n \in unreported,
           made' = made \/ (made' = made + 1 /\ n # made + 1)
    PROVE  MessageIsTold(n)'
<1>1. Handlers(n)' = Handlers(n) /\ \A p \in Handlers(n) : req'[p] = req[p]
  <2>1. q \notin Handlers(n)'
    BY OneRequest
  <2>2. \A p \in Request \ {q} :
           /\ req'[p] = req[p]
           /\ p \in Handlers(n)' <=> p \in Handlers(n)
    BY OneRequest
  <2>3. Handlers(n) \subseteq Request /\ Handlers(n)' \subseteq Request
    BY OneRequest
  <2> QED BY <2>1, <2>2, <2>3
<1>2. MessageIsTold(n) /\ n \in Nat /\ made \in Nat /\ made' \in Nat
  BY StoreAssumption DEF EventsInv, Message, TypeOK
<1>3. n > made' <=> n > made
  BY <1>2
<1>4. n \in 1..made' <=> n \in 1..made
  BY <1>2 DEF Message
<1>5. Truth(n)' = Truth(n)
  BY DEF Truth
<1>6. \A p \in Handlers(n) : Promised(req[p], n) => Promised(req[p], n)'
  BY <1>1, <1>5 DEF Promised
<1> QED BY <1>1, <1>2, <1>3, <1>4, <1>5, <1>6 DEF MessageIsTold

\* Steps of requests that are about no message, before and after.
LEMMA NoMessageStep ==
    ASSUME TypeOK, EventsInv, NEW q \in Request, NEW w,
           req' = [req EXCEPT ![q] = w],
           ~HasMessage(req[q]), ~HasMessage(w),
           UNCHANGED <<made, row, told, raced, unreported>>
    PROVE  EventsInv'
<1>1. \A n \in Message : q \notin Handlers(n)
  BY DEF Handlers, HasMessage
<1> QED BY <1>1, OthersAreTold DEF EventsInv, Message

\* A request about m goes on, or ends, with what it has to know.
LEMMA RequestGoesOn ==
    ASSUME TypeOK, EventsInv, NEW q \in Request, NEW w, NEW m \in Message,
           HasMessage(req[q]), req[q].msg = m,
           req' = [req EXCEPT ![q] = w], HasMessage(w) => w.msg = m,
           \A n \in Message \ {m} : row'[n] = row[n] /\ told'[n] = told[n],
           made' = made, raced' = raced,
           unreported' = unreported \/ unreported' = unreported \cup {m},
           m \notin raced /\ m \notin unreported' /\ Promised(req[q], m) =>
              /\ HasMessage(w) => Promised(w, m)'
              /\ ~HasMessage(w) => (told[m] = Truth(m))'
    PROVE  EventsInv'
<1>1. q \in Handlers(m) /\ \A n \in Message \ {m} : q \notin Handlers(n)
  BY DEF Handlers, HasMessage
<1>2. \A n \in Message \ {m} : MessageIsTold(n)'
  BY <1>1, OthersAreTold
<1>3. MessageIsTold(m) /\ ~(m > made) /\ m \in 1..made
  BY <1>1, StoreAssumption DEF EventsInv, MessageIsTold, Message, TypeOK
<1>4. /\ Handlers(m)' \subseteq Handlers(m)
      /\ q \in Handlers(m)' <=> HasMessage(w)
      /\ req'[q] = w
  BY <1>1, OneRequest
<1>5. ASSUME m \in raced
      PROVE  MessageIsTold(m)'
  BY <1>3, <1>5 DEF MessageIsTold
<1>6. ASSUME m \notin raced /\ m \in unreported'
      PROVE  MessageIsTold(m)'
  BY <1>3, <1>4, <1>6 DEF MessageIsTold
<1>7. ASSUME m \notin raced /\ m \notin unreported'
      PROVE  MessageIsTold(m)'
  <2>1. m \notin unreported /\ Promised(req[q], m)
    BY <1>1, <1>3, <1>7 DEF MessageIsTold
  <2>2. Handlers(m) = {q} /\ Handlers(m)' = (IF HasMessage(w) THEN {q} ELSE {})
    BY <1>1, <1>3, <1>4, <1>7 DEF MessageIsTold
  <2>3. \A p \in Handlers(m)' : Promised(req[p], m)'
    <3> SUFFICES ASSUME HasMessage(w) PROVE Promised(req[q], m)'
      BY <2>2
    <3>1. Promised(w, m)'
      BY <1>7, <2>1
    <3> QED BY <1>4, <3>1 DEF Promised
  <2>4. Handlers(m)' = {} => (told[m] = Truth(m))'
    BY <1>7, <2>1, <2>2
  <2>5. \A p, r \in Handlers(m)' : p = r
    BY <2>2
  <2> QED BY <1>3, <2>3, <2>4, <2>5 DEF MessageIsTold
<1>8. MessageIsTold(m)'
  BY <1>5, <1>6, <1>7
<1> QED BY <1>2, <1>8 DEF EventsInv, Message

\* A request about m begins, alone or in the middle of others.
LEMMA RequestBegins ==
    ASSUME TypeOK, EventsInv, NEW q \in Request, NEW w, NEW m \in Message,
           ~HasMessage(req[q]), HasMessage(w), w.msg = m,
           req' = [req EXCEPT ![q] = w],
           \A n \in Message \ {m} : row'[n] = row[n],
           UNCHANGED <<told, unreported>>,
           \/ made' = made /\ m <= made
           \/ made' = made + 1 /\ m = made + 1,
           raced' = IF Handlers(m) = {} THEN raced ELSE raced \cup {m},
           m \notin raced \cup unreported /\ Handlers(m) = {} => Promised(w, m)'
    PROVE  EventsInv'
<1>1. \A n \in Message : q \notin Handlers(n)
  BY DEF Handlers, HasMessage
<1>2. \A n \in Message \ {m} : MessageIsTold(n)'
  <2>1. \A n \in Message \ {m} : n \in raced' <=> n \in raced
    OBVIOUS
  <2> QED BY <1>1, <2>1, OthersAreTold
<1>3. ~(m > made')
  BY StoreAssumption DEF Message, TypeOK
<1>4. /\ \A p \in Handlers(m)' : p = q \/ p \in Handlers(m)
      /\ q \in Handlers(m)' /\ req'[q] = w
  BY OneRequest
<1>5. ASSUME Handlers(m) # {}
      PROVE  MessageIsTold(m)'
  <2>1. m \in raced'
    BY <1>5
  <2> QED BY <1>3, <2>1 DEF MessageIsTold
<1>6. ASSUME Handlers(m) = {}
      PROVE  MessageIsTold(m)'
  <2>1. Handlers(m)' = {q}
    BY <1>4, <1>6
  <2>2. m \notin raced \cup unreported => Promised(req[q], m)'
    <3> SUFFICES ASSUME m \notin raced \cup unreported PROVE Promised(req[q], m)'
      OBVIOUS
    <3>1. Promised(w, m)'
      BY <1>6
    <3> QED BY <1>4, <3>1 DEF Promised
  <2> QED BY <1>3, <1>6, <2>1, <2>2 DEF MessageIsTold
<1>7. MessageIsTold(m)'
  BY <1>5, <1>6
<1> QED BY <1>2, <1>7 DEF EventsInv, Message

\* The kinds of work, by the field that names a message.
LEMMA KindsOfWork ==
    ASSUME TypeOK, NEW q \in Request
    PROVE  /\ HasMessage(req[q]) <=> req[q].at \in TextStep \cup EraseStep
           /\ HasMessage(req[q]) => req[q].msg \in Message
           /\ ~HasMessage(Idle)
BY MessageWork DEF TypeOK, Idle, HasMessage

\* The steps that make rooms and members speak of no message.
LEMMA RoomsTellNothing ==
    ASSUME TypeOK, EventsInv, NEW q \in Request,
           \/ \E u \in User, other \in User : GetDm(q, u, other)
           \/ InsertDm(q) \/ InsertCaller(q) \/ InsertOther(q)
           \/ WriteFails(q) /\ ~HasMessage(req[q])
           \/ \E u \in User, r \in rooms, k \in Key \cup {NoKey},
                 reply \in Message \cup {NoReply}, t \in Text :
                    Post(q, u, r, k, reply, t)
    PROVE  EventsInv'
<1>1. ~HasMessage(req[q])
  BY KindsOfWork DEF GetDm, InsertDm, InsertCaller, InsertOther, Post, Working,
                     TextStep, EraseStep
<1>2. UNCHANGED <<made, row, told, raced>>
  BY DEF GetDm, InsertDm, InsertCaller, InsertOther, WriteFails, Post, tables
<1>3. unreported' = unreported
  BY <1>1, KindsOfWork DEF GetDm, InsertDm, InsertCaller, InsertOther, WriteFails,
                           Post, TextStep, EraseStep
<1>4. CASE req' = req
  BY <1>2, <1>3, <1>4 DEF EventsInv, MessageIsTold, Promised, Truth, Handlers
<1>5. ASSUME NEW w, req' = [req EXCEPT ![q] = w], ~HasMessage(w)
      PROVE  EventsInv'
  BY <1>1, <1>2, <1>3, <1>5, NoMessageStep
<1>6. CASE Finish(q)
  BY <1>5, <1>6, KindsOfWork DEF Finish
<1>7. ASSUME NEW there, Goto(q, there)
      PROVE  EventsInv'
  <2>1. PICK w : w = [req[q] EXCEPT !.at = there]
    OBVIOUS
  <2>2. ~HasMessage(w)
    BY <1>1, <2>1 DEF HasMessage
  <2> QED BY <1>5, <1>7, <2>1, <2>2 DEF Goto
<1>8. ASSUME NEW u \in User, NEW other \in User, GetDm(q, u, other)
      PROVE  EventsInv'
  <2>1. PICK w : w = [at |-> "dm_room", room |-> Direct({u, other}),
                      user |-> u, other |-> other]
    OBVIOUS
  <2>2. ~HasMessage(w)
    BY <2>1 DEF HasMessage
  <2> QED BY <1>4, <1>5, <1>8, <2>1, <2>2 DEF GetDm
<1>9. ASSUME NEW u \in User, NEW r \in rooms, NEW k \in Key \cup {NoKey},
             NEW reply \in Message \cup {NoReply}, NEW t \in Text,
             Post(q, u, r, k, reply, t)
      PROVE  EventsInv'
  <2>1. PICK w : w = [at |-> "insert", user |-> u, room |-> r, key |-> k,
                      reply |-> reply, text |-> t]
    OBVIOUS
  <2>2. ~HasMessage(w)
    BY <2>1 DEF HasMessage
  <2> QED BY <1>5, <1>9, <2>1, <2>2 DEF Post
<1> QED BY <1>6, <1>7, <1>8, <1>9 DEF InsertDm, InsertCaller, InsertOther, WriteFails

\* A message that was inserted will be told with its text.
LEMMA InsertTells ==
    ASSUME TypeOK, EventsInv, NEW q \in Request, InsertMessage(q)
    PROVE  EventsInv'
<1>1. /\ ~HasMessage(req[q]) /\ req[q] \in Work /\ req[q].at = "insert"
      /\ UNCHANGED <<told, raced, unreported>>
  BY KindsOfWork DEF InsertMessage, TextStep, EraseStep, TypeOK
<1>2. CASE Refused(req[q])
  <2>1. Finish(q) /\ UNCHANGED <<made, row>>
    BY <1>2 DEF InsertMessage
  <2> QED BY <1>1, <2>1, NoMessageStep, KindsOfWork DEF Finish
<1>3. CASE ~Refused(req[q])
  <2>1. PICK w : w = [at |-> "post_books", msg |-> made + 1, text |-> req[q].text]
    OBVIOUS
  <2>2. PICK new : new = [author |-> req[q].user, room |-> req[q].room,
                          key |-> req[q].key, reply |-> req[q].reply,
                          text |-> req[q].text]
    OBVIOUS
  <2>3. /\ made < MaxMessages /\ made' = made + 1
        /\ row' = [row EXCEPT ![made + 1] = new]
        /\ req' = [req EXCEPT ![q] = w]
    BY <1>3, <2>1, <2>2 DEF InsertMessage, NextMessage
  <2>4. PICK m \in Message : m = made + 1
    BY <2>3, StoreAssumption DEF Message, TypeOK
  <2>5. HasMessage(w) /\ w.msg = m /\ w.at = "post_books" /\ w.text = req[q].text
    BY <2>1, <2>4 DEF HasMessage
  <2>6. new \in Row /\ new.text = req[q].text
    <3>1. /\ req[q].user \in User /\ req[q].room \in RoomId
          /\ req[q].key \in Key \cup {NoKey} /\ req[q].text \in Text
          /\ req[q].reply \in Message \cup {NoReply}
      BY <1>1, InsertWork
    <3>2. req[q].reply \in Nat
      BY <3>1, StoreAssumption DEF Message, NoReply
    <3> QED BY <2>2, <3>1, <3>2 DEF Row
  <2>7. row'[m] = new /\ \A n \in Message \ {m} : row'[n] = row[n]
    BY <2>3, <2>4 DEF TypeOK
  <2>8. Promised(w, m)'
    BY <2>5, <2>6, <2>7, RowIsThere DEF Promised
  <2>9. Handlers(m) = {}
    BY <2>4, StoreAssumption DEF EventsInv, MessageIsTold, TypeOK
  <2> QED BY <1>1, <2>3, <2>4, <2>5, <2>7, <2>8, <2>9, RequestBegins
<1> QED BY <1>2, <1>3

\* An edit or a deletion begins with the row, which is there.
LEMMA ChangeWillBeTold ==
    ASSUME TypeOK, EventsInv, NEW q \in Request, NEW u \in User,
           NEW m \in Message,
           (\E t \in Text : Edit(q, u, m, t)) \/ Delete(q, u, m)
    PROVE  EventsInv'
<1>1. row[m] \in Row /\ m \in Nat /\ made \in Nat
  <2>1. row[m] # NoRow
    BY DEF Edit, Delete
  <2>2. row[m] \in Row \cup {NoRow}
    BY DEF TypeOK
  <2> QED BY <2>1, <2>2, StoreAssumption DEF TypeOK, Message
<1>2. m <= made /\ ~HasMessage(req[q])
  BY <1>1, RowIsThere, KindsOfWork DEF EventsInv, MessageIsTold, Edit, Delete, Begin,
                                      Working, TextStep, EraseStep
<1>3. /\ UNCHANGED <<told, unreported, made>>
      /\ raced' = IF Handlers(m) = {} THEN raced ELSE raced \cup {m}
  BY DEF Edit, Delete, Begin, tables
<1>4. ASSUME NEW t \in Text, Edit(q, u, m, t)
      PROVE  EventsInv'
  <2>1. PICK w : w = [at |-> "edit_books", msg |-> m, text |-> t]
    OBVIOUS
  <2>2. PICK new \in Row : new = [row[m] EXCEPT !.text = t] /\ new.text = t
    <3>1. [row[m] EXCEPT !.text = t].text = t
      BY <1>1 DEF Row
    <3> QED BY <1>1, <3>1, EditedRow
  <2>3. row' = [row EXCEPT ![m] = new] /\ req' = [req EXCEPT ![q] = w]
    BY <1>4, <2>1, <2>2 DEF Edit, Begin
  <2>4. row'[m] = new /\ \A n \in Message \ {m} : row'[n] = row[n]
    BY <2>3 DEF TypeOK
  <2>5. HasMessage(w) /\ w.msg = m /\ w.at = "edit_books" /\ w.text = t
    BY <2>1 DEF HasMessage
  <2>6. Promised(w, m)'
    BY <2>2, <2>4, <2>5, RowIsThere DEF Promised
  <2> QED BY <1>2, <1>3, <2>3, <2>4, <2>5, <2>6, RequestBegins
<1>5. CASE Delete(q, u, m)
  <2>1. PICK w : w = [at |-> "erase", msg |-> m]
    OBVIOUS
  <2>2. row' = row /\ req' = [req EXCEPT ![q] = w]
    BY <1>5, <2>1 DEF Delete, Begin, tables
  <2>3. HasMessage(w) /\ w.msg = m /\ w.at = "erase"
    BY <2>1 DEF HasMessage
  <2>4. m \notin unreported /\ Handlers(m) = {} /\ m \notin raced =>
            told[m] = Truth(m)
    BY <1>1, <1>2 DEF EventsInv, MessageIsTold, Message
  <2>5. m \notin raced \cup unreported /\ Handlers(m) = {} => Promised(w, m)'
    BY <1>3, <2>2, <2>3, <2>4 DEF Promised, Truth
  <2> QED BY <1>2, <1>3, <2>2, <2>3, <2>5, RequestBegins
<1> QED BY <1>4, <1>5

\* Work that goes on stays about its message, and ends without one.
LEMMA WorkGoesOn ==
    ASSUME TypeOK, NEW q \in Request, HasMessage(req[q]), NEW there,
           \/ req[q].at \in TextStep /\ there \in TextStep
           \/ req[q].at \in EraseStep /\ there \in EraseStep,
           NEW w, w = [req[q] EXCEPT !.at = there]
    PROVE  /\ HasMessage(w) /\ w.msg = req[q].msg /\ w.at = there
           /\ there \in TextStep => w.text = req[q].text
<1>1. req[q] \in Work
  BY DEF TypeOK
<1>2. CASE req[q].at \in TextStep
  <2>1. req[q] \in [at : TextStep, msg : Message, text : Text]
    BY <1>1, <1>2 DEF Work, TextStep
  <2> QED BY <1>2, <2>1 DEF HasMessage, TextStep, EraseStep
<1>3. CASE req[q].at \in EraseStep
  <2>1. req[q] \in [at : EraseStep, msg : Message]
    BY <1>1, <1>3 DEF Work, EraseStep
  <2> QED BY <1>3, <2>1 DEF HasMessage, TextStep, EraseStep
<1> QED BY <1>2, <1>3

\* What follows the first change of a message, up to its event or a failure.
LEMMA ProceedTells ==
    ASSUME TypeOK, EventsInv, NEW q \in Request,
           \/ KeepBooks(q) \/ Announce(q) \/ Reread(q)
           \/ Erase(q) \/ AnnounceDeletion(q)
           \/ WriteFails(q) /\ HasMessage(req[q])
    PROVE  EventsInv'
<1>1. PICK m \in Message : HasMessage(req[q]) /\ req[q].msg = m
  BY KindsOfWork DEF KeepBooks, Announce, Reread, Erase, AnnounceDeletion,
                     TextStep, EraseStep
<1>2. /\ UNCHANGED <<made, raced>>
      /\ unreported' = unreported \/ unreported' = unreported \cup {m}
      /\ \A n \in Message \ {m} : row'[n] = row[n] /\ told'[n] = told[n]
  BY <1>1 DEF KeepBooks, Announce, Reread, Erase, AnnounceDeletion, WriteFails,
              tables, TypeOK
<1>3. ASSUME NEW w, req' = [req EXCEPT ![q] = w], HasMessage(w) => w.msg = m,
             m \notin raced /\ m \notin unreported' /\ Promised(req[q], m) =>
                /\ HasMessage(w) => Promised(w, m)'
                /\ ~HasMessage(w) => (told[m] = Truth(m))'
      PROVE  EventsInv'
  BY <1>1, <1>2, <1>3, RequestGoesOn
<1>4. CASE KeepBooks(q)
  <2>1. PICK there : /\ Goto(q, there)
                     /\ \/ req[q].at = "post_books" /\ there = "post_event"
                        \/ req[q].at = "edit_books" /\ there = "reread"
                        \/ req[q].at = "erase_books" /\ there = "erase_event"
    BY <1>4 DEF KeepBooks
  <2>2. PICK w : w = [req[q] EXCEPT !.at = there]
    OBVIOUS
  <2>3. HasMessage(w) /\ w.msg = m /\ w.at = there
        /\ (there \in TextStep => w.text = req[q].text)
    BY <1>1, <2>1, <2>2, WorkGoesOn DEF TextStep, EraseStep
  <2>4. UNCHANGED <<row, told>>
    BY <1>4 DEF KeepBooks, tables
  <2>5. Promised(req[q], m) => Promised(w, m)'
    BY <2>1, <2>3, <2>4 DEF Promised, TextStep
  <2> QED BY <1>3, <2>1, <2>2, <2>3, <2>5 DEF Goto
<1>5. CASE Announce(q)
  <2>1. /\ told'[m] = req[q].text /\ row' = row
        /\ req[q].at \in {"post_event", "edit_event"}
    BY <1>1, <1>5 DEF Announce, tables, TypeOK
  <2>2. Promised(req[q], m) => (told[m] = Truth(m))'
    BY <2>1 DEF Promised, Truth
  <2> QED BY <1>3, <1>5, <2>2, KindsOfWork DEF Announce, Finish
<1>6. CASE Reread(q)
  <2>1. req[q].at = "reread" /\ UNCHANGED <<row, told>>
    BY <1>6 DEF Reread, tables
  <2>2. CASE row[m] = NoRow
    <3>1. Finish(q)
      BY <1>1, <1>6, <2>2 DEF Reread
    <3>2. ~Promised(req[q], m)
      BY <2>1, <2>2 DEF Promised
    <3> QED BY <1>3, <3>1, <3>2, KindsOfWork DEF Finish
  <2>3. CASE row[m] # NoRow
    <3>1. PICK w : w = [req[q] EXCEPT !.at = "edit_event", !.text = row[m].text]
      OBVIOUS
    <3>2. req' = [req EXCEPT ![q] = w]
      BY <1>1, <1>6, <2>3, <3>1 DEF Reread
    <3>3. req[q] \in [at : TextStep, msg : Message, text : Text]
      BY <2>1 DEF TypeOK, Work, TextStep
    <3>4. HasMessage(w) /\ w.msg = m /\ w.at = "edit_event" /\ w.text = row[m].text
      BY <1>1, <3>1, <3>3 DEF HasMessage
    <3>5. Promised(w, m)'
      BY <2>1, <2>3, <3>4 DEF Promised
    <3> QED BY <1>3, <3>2, <3>4, <3>5
  <2> QED BY <2>2, <2>3
<1>7. CASE Erase(q)
  <2>1. req[q].at = "erase" /\ told' = told
    BY <1>7 DEF Erase
  <2>2. CASE IsRepliedTo(m)
    <3>1. Finish(q) /\ row' = row
      BY <1>1, <1>7, <2>2 DEF Erase
    <3>2. Promised(req[q], m) => (told[m] = Truth(m))'
      BY <2>1, <3>1 DEF Promised, Truth
    <3> QED BY <1>3, <3>1, <3>2, KindsOfWork DEF Finish
  <2>3. CASE ~IsRepliedTo(m)
    <3>1. Goto(q, "erase_books") /\ row'[m] = NoRow
      BY <1>1, <1>7, <2>3 DEF Erase, TypeOK
    <3>2. PICK w : w = [req[q] EXCEPT !.at = "erase_books"]
      OBVIOUS
    <3>3. HasMessage(w) /\ w.msg = m /\ w.at = "erase_books"
      BY <1>1, <2>1, <3>2, WorkGoesOn DEF TextStep, EraseStep
    <3>4. Promised(w, m)'
      BY <3>1, <3>3 DEF Promised
    <3> QED BY <1>3, <3>1, <3>2, <3>3, <3>4 DEF Goto
  <2> QED BY <2>2, <2>3
<1>8. CASE AnnounceDeletion(q)
  <2>1. told'[m] = Deleted /\ row' = row /\ req[q].at = "erase_event"
    BY <1>1, <1>8 DEF AnnounceDeletion, tables, TypeOK
  <2>2. Promised(req[q], m) => (told[m] = Truth(m))'
    BY <2>1 DEF Promised, Truth
  <2> QED BY <1>3, <1>8, <2>2, KindsOfWork DEF AnnounceDeletion, Finish
<1>9. CASE WriteFails(q)
  <2>1. UNCHANGED <<row, told>> /\ Finish(q)
    BY <1>9 DEF WriteFails, tables
  <2>2. m \notin unreported' => req[q].at = "erase"
    BY <1>1, <1>9, KindsOfWork DEF WriteFails, TextStep, EraseStep
  <2>3. m \notin unreported' /\ Promised(req[q], m) => (told[m] = Truth(m))'
    BY <2>1, <2>2 DEF Promised, Truth
  <2> QED BY <1>3, <2>1, <2>3, KindsOfWork DEF Finish
<1> QED BY <1>4, <1>5, <1>6, <1>7, <1>8, <1>9

\* No step leaves the invariant.
LEMMA EventsStep ==
    ASSUME TypeOK, EventsInv, [Next]_vars
    PROVE  EventsInv'
<1>1. CASE UNCHANGED <<made, row, req, told, raced, unreported>>
  BY <1>1 DEF EventsInv, MessageIsTold, Promised, Truth, Handlers
<1>2. ASSUME NEW slug \in Slug, CreateRoom(slug) PROVE EventsInv'
  BY <1>1, <1>2 DEF CreateRoom
<1>3. ASSUME NEW q \in Request, Arrive(q) PROVE EventsInv'
  BY <1>3, RoomsTellNothing, ChangeWillBeTold DEF Arrive
<1>4. ASSUME NEW q \in Request, Proceed(q) PROVE EventsInv'
  BY <1>4, RoomsTellNothing, InsertTells, ProceedTells DEF Proceed
<1> QED BY <1>1, <1>2, <1>3, <1>4 DEF Next, vars

\* However posts, edits and deletions fail and interleave: what was told last
\* of a message is what the table holds, once its requests are over, but for
\* messages two requests worked on at once or one left half-way.
THEOREM EventsStayTrue == Spec => []EventsTellTheTable
<1>1. Init => EventsInv
  BY StoreAssumption DEF Init, EventsInv, MessageIsTold, Handlers, Idle, Message
<1>2. TypeOK /\ EventsInv /\ [Next]_vars => EventsInv'
  BY EventsStep
<1>3. TypeOK /\ EventsInv => EventsTellTheTable
  BY StoreAssumption DEF EventsInv, MessageIsTold, EventsTellTheTable, Message, TypeOK
<1> QED BY <1>1, <1>2, <1>3, StoreTypeCorrect, PTL DEF Spec

=============================================================================
