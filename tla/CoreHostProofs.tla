--------------------------- MODULE CoreHostProofs ---------------------------
(***************************************************************************)
(* Proofs about the plugin host next to a plugin that does as it likes,    *)
(* for any calls and any size of the pipes, and about the settings of      *)
(* family_chat, wherever they come from.                                   *)
(***************************************************************************)
EXTENDS AnyPlugin, Startup, TLAPS

Pipe == {q \in Seq(Envelope) : Len(q) <= PipeSize}

\* What a reader leaves of a pipe is a pipe, and what it takes an envelope.
LEMMA PipeAfterRead ==
    ASSUME NEW q \in Pipe, q # <<>>
    PROVE  Head(q) \in Envelope /\ Tail(q) \in Pipe
<1>1. q \in Seq(Envelope) /\ Len(q) <= PipeSize
  BY DEF Pipe
<1>2. Head(q) \in Envelope /\ Tail(q) \in Seq(Envelope) /\ Len(Tail(q)) = Len(q) - 1
  BY <1>1
<1>3. Len(q) \in Nat /\ PipeSize \in Nat
  BY <1>1, HostAssumption
<1>4. Len(Tail(q)) <= PipeSize
  BY <1>1, <1>2, <1>3
<1> QED BY <1>2, <1>4 DEF Pipe

\* A pipe with room is still a pipe when an envelope has been written.
LEMMA PipeAfterWrite ==
    ASSUME NEW q \in Pipe, HasRoom(q), NEW e \in Envelope
    PROVE  Append(q, e) \in Pipe
BY HostAssumption DEF Pipe, HasRoom

\* What is written into the plugin's pipe leaves it a pipe.
LEMMA WrittenType ==
    ASSUME toPlugin \in Pipe, NEW e \in Envelope, Written(e)
    PROVE  toPlugin' \in Pipe
BY PipeAfterWrite DEF Written

\* The lines of the protocol are envelopes.
LEMMA EnvelopeType ==
    ASSUME NEW id \in Caller \cup {NoId},
           NEW what \in {"core.hello", "system.ready", "timer.tick",
                         "sample.ping", "plugin.init", "plugin.start",
                         "plugin.stop", "event.subscribe",
                         "timer.set_interval", "log.write", "other"}
    PROVE  /\ Event(what) \in Envelope
           /\ Request(what, id) \in Envelope
           /\ Response(what, id) \in Envelope
           /\ [kind |-> "garbage", what |-> what, id |-> NoId] \in Envelope
BY DEF Event, Request, Response, Envelope, NoId

\* A step of start_plugin, with the lines it writes, keeps the types.
LEMMA HandshakeType ==
    ASSUME TypeOK, NEW from, NEW expected, NEW to, NEW task,
           from # "running", to \in {"await_start", "running"},
           task = (IF to = "running" THEN "on" ELSE "off"),
           NEW es \in Seq(Envelope), Handshake(from, expected, to, es, task)
    PROVE  TypeOK'
<1>0. toCore \in Pipe /\ toPlugin \in Pipe
  BY DEF TypeOK, Pipe
<1>1. CASE HandshakeFails(expected)
  <2>1. toCore' \in Pipe
    BY <1>0, <1>1, PipeAfterRead DEF Handshake
  <2>2. /\ stage # "running" /\ stage' = "failed"
        /\ UNCHANGED <<toPlugin, reader, alive, reply, ticking, pending, call, answer>>
    BY <1>1 DEF Handshake
  <2> QED BY <2>1, <2>2 DEF TypeOK, Pipe
<1>2. CASE ~HandshakeFails(expected)
  <2>1. /\ stage' = to /\ reader' = task /\ toCore' = Tail(toCore)
        /\ toCore # <<>>
        /\ toPlugin' = toPlugin \o es
        /\ Len(toPlugin) + Len(es) <= PipeSize
        /\ UNCHANGED <<alive, reply, ticking, pending, call, answer>>
    BY <1>2 DEF Handshake
  <2>2. toCore' \in Pipe
    BY <1>0, <2>1, PipeAfterRead
  <2>3. toPlugin' \in Seq(Envelope) /\ Len(toPlugin') <= PipeSize
    BY <2>1 DEF TypeOK
  <2> QED BY <2>1, <2>2, <2>3 DEF TypeOK, Pipe
<1> QED BY <1>1, <1>2

\* The calls that can be answered: written, and not dropped.
MadeCalls == {c \in Caller : call[c] \in {"waiting", "answered"}}

\* The envelopes of this kind in a pipe carry ids of S.
IdsIn(sort, q, S) == \A i \in DOMAIN q : q[i].kind = sort => q[i].id \in S

\* The plugin has read, and answers, only requests that were written; so no
\* response comes for a call that has failed or is about to write.
IdsAreMade ==
    /\ heard \subseteq MadeCalls
    /\ IdsIn("request", toPlugin, MadeCalls)
    /\ IdsIn("response", toCore, MadeCalls)

\* What the reader task has to write is never a request.
ReplyIsNoRequest == reply.kind # "request"

HostInv ==
    /\ TypeOK
    /\ IdsAreMade
    /\ ReplyIsNoRequest
    /\ PendingIsInFlight
    /\ OwnAnswer

\* No step of the host or of the plugin leaves the types.
LEMMA HostTypeStep ==
    ASSUME TypeOK, IdsAreMade, [Next]_vars
    PROVE  TypeOK'
<1>0. toCore \in Pipe /\ toPlugin \in Pipe
  BY DEF TypeOK, Pipe
<1>1. CASE SendHello
  <2>1. toPlugin' \in Pipe
    BY <1>0, <1>1, WrittenType, EnvelopeType DEF SendHello, NoId
  <2> QED BY <1>1, <2>1 DEF SendHello, TypeOK, Pipe
<1>2. CASE AcceptInit
  <2>1. <<Response("plugin.init", NoId)>> \in Seq(Envelope)
    BY EnvelopeType
  <2>2. PICK es \in Seq(Envelope) : es = <<Response("plugin.init", NoId)>>
    BY <2>1
  <2>3. Handshake("await_init", "plugin.init", "await_start", es, "off")
    BY <1>2, <2>2 DEF AcceptInit
  <2> QED BY <2>3, HandshakeType
<1>3. CASE AcceptStart
  <2>1. <<Response("plugin.start", NoId), Event("system.ready")>> \in Seq(Envelope)
    BY EnvelopeType
  <2>2. PICK es \in Seq(Envelope) :
            es = <<Response("plugin.start", NoId), Event("system.ready")>>
    BY <2>1
  <2>3. Handshake("await_start", "plugin.start", "running", es, "on")
    BY <1>3, <2>2 DEF AcceptStart
  <2> QED BY <2>3, HandshakeType
<1>4. CASE ReadRequest
  <2>1. Head(toCore) \in Envelope /\ toCore' \in Pipe
    BY <1>0, <1>4, PipeAfterRead DEF ReadRequest
  <2>2. reply' \in Envelope
    BY <1>4, <2>1 DEF ReadRequest, Response, Envelope
  <2>3. ticking' \in BOOLEAN
    BY <1>4 DEF ReadRequest
  <2> QED BY <1>4, <2>1, <2>2, <2>3 DEF ReadRequest, TypeOK, Pipe
<1>5. CASE ReadResponse
  <2>1. Head(toCore) \in Envelope /\ toCore' \in Pipe
    BY <1>0, <1>5, PipeAfterRead DEF ReadResponse
  <2>2. Head(toCore).id \in Caller \cup {NoId}
    BY <2>1 DEF Envelope
  <2>3. /\ pending' \subseteq Caller
        /\ call' \in [Caller -> {"idle", "registered", "waiting", "answered", "failed"}]
        /\ answer' \in [Caller -> Caller \cup {NoId}]
    BY <1>5, <2>2 DEF ReadResponse, WaiterOf, TypeOK
  <2> QED BY <1>5, <2>1, <2>3 DEF ReadResponse, TypeOK, Pipe
<1>6. CASE ReadEvent
  <2>1. toCore' \in Pipe
    BY <1>0, <1>6, PipeAfterRead DEF ReadEvent
  <2> QED BY <1>6, <2>1 DEF ReadEvent, TypeOK, Pipe
<1>7. CASE ReaderStops
  <2>1. toCore' \in Pipe
    BY <1>0, <1>7, PipeAfterRead DEF ReaderStops
  <2> QED BY <1>7, <2>1 DEF ReaderStops, TypeOK, Pipe
<1>8. CASE WriteReply
  <2>1. toPlugin' \in Pipe
    BY <1>0, <1>8, WrittenType DEF WriteReply, TypeOK
  <2> QED BY <1>8, <2>1 DEF WriteReply, TypeOK, Pipe
<1>9. ASSUME NEW c \in Caller, Register(c) PROVE TypeOK'
  BY <1>9 DEF Register, TypeOK
<1>10. ASSUME NEW c \in Caller, WriteCall(c) PROVE TypeOK'
  <2>1. Request(Method, c) \in Envelope
    BY EnvelopeType, HostAssumption
  <2>2. toPlugin' \in Pipe
    BY <1>0, <1>10, <2>1, WrittenType DEF WriteCall
  <2> QED BY <1>10, <2>2 DEF WriteCall, TypeOK, Pipe
<1>11. CASE Tick
  <2>1. toPlugin' \in Pipe
    BY <1>0, <1>11, WrittenType, EnvelopeType DEF Tick, NoId
  <2> QED BY <1>11, <2>1 DEF Tick, TypeOK, Pipe
<1>12. CASE Read
  <2>1. toPlugin' \in Pipe
    BY <1>0, <1>12, PipeAfterRead DEF Read
  <2> QED BY <1>12, <2>1 DEF Read, TypeOK, Pipe
<1>13. CASE Send
  <2>1. PICK e \in Sendable : toCore' = Append(toCore, e)
    BY <1>13 DEF Send
  <2>2. e \in Envelope
    <3>1. e.id \in Caller \cup {NoId} /\ Method \in {"sample.ping", "plugin.stop"}
      BY HostAssumption DEF Sendable, IdsAreMade, MadeCalls, Request, Response, Event
    <3> QED BY <3>1, EnvelopeType DEF Sendable, IdsAreMade, MadeCalls, NoId
  <2>3. toCore' \in Pipe
    BY <1>0, <1>13, <2>1, <2>2, PipeAfterWrite DEF Send
  <2> QED BY <1>13, <2>3 DEF Send, TypeOK, Pipe
<1>15. CASE Die
  <2>1. toPlugin' \in Seq(Envelope) /\ Len(toPlugin') <= PipeSize
    BY <1>15, HostAssumption DEF Die
  <2> QED BY <1>15, <2>1 DEF Die, TypeOK
<1>14. CASE UNCHANGED vars
  BY <1>14 DEF vars, hostVars, TypeOK
<1> QED BY <1>1, <1>2, <1>3, <1>4, <1>5, <1>6, <1>7, <1>8, <1>9, <1>10, <1>11, <1>12, <1>13, <1>14, <1>15
    DEF Next, HostNext, Reader

\* Reading takes no foreign id out of a pipe that has none.
LEMMA IdsAfterRead ==
    ASSUME NEW q \in Pipe, q # <<>>, NEW sort, NEW S, IdsIn(sort, q, S)
    PROVE  /\ IdsIn(sort, Tail(q), S)
           /\ Head(q).kind = sort => Head(q).id \in S
<1>1. q \in Seq(Envelope) /\ Len(q) \in Nat \ {0}
  BY DEF Pipe
<1>2. Tail(q) \in Seq(Envelope) /\ Len(Tail(q)) = Len(q) - 1
  BY <1>1
<1>3. \A i \in 1 .. Len(q) - 1 : Tail(q)[i] = q[i + 1] /\ i + 1 \in 1 .. Len(q)
  BY <1>1
<1>4. DOMAIN q = 1 .. Len(q) /\ DOMAIN Tail(q) = 1 .. Len(q) - 1
  BY <1>1, <1>2
<1>5. IdsIn(sort, Tail(q), S)
  BY <1>3, <1>4 DEF IdsIn
<1>6. Head(q) = q[1] /\ 1 \in DOMAIN q
  BY <1>1
<1> QED BY <1>5, <1>6 DEF IdsIn

\* Writing a line with an id of S leaves a pipe with ids of S only.
LEMMA IdsAfterWrite ==
    ASSUME NEW q \in Pipe, NEW sort, NEW S, IdsIn(sort, q, S),
           NEW e, e.kind = sort => e.id \in S
    PROVE  IdsIn(sort, Append(q, e), S)
<1>1. q \in Seq(Envelope) /\ Len(q) \in Nat
  BY DEF Pipe
<1>2. DOMAIN q = 1 .. Len(q) /\ DOMAIN Append(q, e) = 1 .. Len(q) + 1
  BY <1>1
<1>3. Append(q, e)[Len(q) + 1] = e
  BY <1>1
<1>4. \A i \in 1 .. Len(q) : Append(q, e)[i] = q[i]
  BY <1>1
<1>5. \A i \in 1 .. Len(q) + 1 : i = Len(q) + 1 \/ i \in 1 .. Len(q)
  BY <1>1
<1> QED BY <1>2, <1>3, <1>4, <1>5 DEF IdsIn

\* A call that can be answered stays one.
LEMMA MadeStays ==
    ASSUME TypeOK, [Next]_vars
    PROVE  MadeCalls \subseteq MadeCalls'
<1>1. CASE call' = call
  BY <1>1 DEF MadeCalls
<1>2. CASE ReadResponse
  BY <1>2 DEF ReadResponse, MadeCalls, TypeOK
<1>3. ASSUME NEW c \in Caller, Register(c) \/ WriteCall(c)
      PROVE  MadeCalls \subseteq MadeCalls'
  BY <1>3 DEF Register, WriteCall, MadeCalls, TypeOK
<1>4. CASE SendHello \/ AcceptInit \/ AcceptStart \/ WriteReply \/ Tick
  BY <1>4, <1>1 DEF SendHello, AcceptInit, AcceptStart, Handshake, WriteReply, Tick
<1>5. CASE ReadRequest \/ ReadEvent \/ ReaderStops
  BY <1>5, <1>1 DEF ReadRequest, ReadEvent, ReaderStops
<1>6. CASE Read \/ Send \/ Die \/ UNCHANGED vars
  BY <1>6, <1>1 DEF Read, Send, Die, vars, hostVars
<1> QED BY <1>2, <1>3, <1>4, <1>5, <1>6 DEF Next, HostNext, Reader

\* What the two ends do to the pipes, between states where S can be answered
\* and states where T can, never brings the id of another call in.
LEMMA PipesStayMade ==
    ASSUME NEW q \in Pipe, NEW r, NEW sort, NEW S, NEW T, S \subseteq T,
           IdsIn(sort, q, S),
           NEW e, e.kind = sort => e.id \in T,
           \/ r = q
           \/ q # <<>> /\ r = Tail(q)
           \/ r = Append(q, e)
    PROVE  IdsIn(sort, r, T)
<1>1. IdsIn(sort, q, T)
  BY DEF IdsIn
<1>2. CASE q # <<>> /\ r = Tail(q)
  BY <1>1, <1>2, IdsAfterRead
<1>3. CASE r = Append(q, e)
  BY <1>1, <1>3, IdsAfterWrite
<1> QED BY <1>1, <1>2, <1>3

\* Handshakes and the rest of the host write no request but those of calls.
LEMMA HostIsMade ==
    ASSUME TypeOK, IdsAreMade, [Next]_vars, UNCHANGED heard,
           toCore' = toCore \/ (toCore # <<>> /\ toCore' = Tail(toCore)),
           NEW e \in Envelope, e.kind = "request" => e.id \in MadeCalls',
           toPlugin' = toPlugin \/ toPlugin' = Append(toPlugin, e)
    PROVE  IdsAreMade'
<1>0. toCore \in Pipe /\ toPlugin \in Pipe
  BY DEF TypeOK, Pipe
<1>1. MadeCalls \subseteq MadeCalls'
  BY MadeStays
<1>2. IdsIn("request", toPlugin', MadeCalls')
  BY <1>0, <1>1, PipesStayMade DEF IdsAreMade
<1>3. IdsIn("response", toCore', MadeCalls')
  <2>1. Event("other").kind # "response"
    BY DEF Event
  <2> QED BY <1>0, <1>1, <2>1, PipesStayMade DEF IdsAreMade
<1> QED BY <1>1, <1>2, <1>3 DEF IdsAreMade

\* system.ready carries no id: no call is in the pipes before the start.
LEMMA StartIsMade ==
    ASSUME TypeOK, IdsAreMade, [Next]_vars, UNCHANGED heard, AcceptStart
    PROVE  IdsAreMade'
<1> DEFINE ok == Response("plugin.start", NoId)
           ready == Event("system.ready")
<1>0. toCore \in Pipe /\ toPlugin \in Pipe
  BY DEF TypeOK, Pipe
<1>1. MadeCalls \subseteq MadeCalls'
  BY MadeStays
<1>2. ok.kind = "response" /\ ready.kind = "event"
  BY DEF Response, Event
<1>3. /\ toCore' = toCore \/ (toCore # <<>> /\ toCore' = Tail(toCore))
      /\ \/ toPlugin' = toPlugin
         \/ /\ toPlugin' = toPlugin \o <<ok, ready>>
            /\ Len(toPlugin) + 2 <= PipeSize
  BY DEF AcceptStart, Handshake
<1>4. IdsIn("response", toCore', MadeCalls')
  BY <1>0, <1>1, <1>2, <1>3, PipesStayMade DEF IdsAreMade
<1>5. IdsIn("request", toPlugin, MadeCalls')
  BY <1>1 DEF IdsAreMade, IdsIn
<1>6. CASE toPlugin' = toPlugin
  BY <1>1, <1>4, <1>5, <1>6 DEF IdsAreMade
<1>7. CASE toPlugin' = toPlugin \o <<ok, ready>> /\ Len(toPlugin) + 2 <= PipeSize
  <2>1. ok \in Envelope /\ ready \in Envelope
    BY EnvelopeType DEF NoId
  <2>2. toPlugin' = Append(Append(toPlugin, ok), ready)
    BY <1>0, <1>7, <2>1 DEF Pipe
  <2>3. Append(toPlugin, ok) \in Pipe
    BY <1>0, <1>7, <2>1, PipeAfterWrite, HostAssumption DEF HasRoom, Pipe
  <2>4. IdsIn("request", Append(toPlugin, ok), MadeCalls')
    BY <1>0, <1>2, <1>5, IdsAfterWrite
  <2>5. IdsIn("request", Append(Append(toPlugin, ok), ready), MadeCalls')
    BY <1>2, <2>3, <2>4, IdsAfterWrite
  <2> QED BY <1>1, <1>4, <2>2, <2>5 DEF IdsAreMade
<1> QED BY <1>3, <1>6, <1>7

\* No step brings the id of a call into a pipe before it was registered.
LEMMA IdsStayMade ==
    ASSUME TypeOK, IdsAreMade, ReplyIsNoRequest, [Next]_vars
    PROVE  IdsAreMade'
<1>0. /\ toCore \in Pipe /\ toPlugin \in Pipe
      /\ MadeCalls \subseteq MadeCalls'
  BY MadeStays DEF TypeOK, Pipe
<1>1. CASE HostNext /\ UNCHANGED heard
  <2>0. Event("other") \in Envelope /\ Event("other").kind # "request"
    BY EnvelopeType DEF Event, NoId
  <2>1. CASE SendHello \/ Tick
    <3>1. PICK what \in {"core.hello", "timer.tick"} : Written(Event(what))
      BY <2>1 DEF SendHello, Tick
    <3>2. Event(what) \in Envelope /\ Event(what).kind # "request"
      BY EnvelopeType DEF Event, NoId
    <3>3. PICK e \in Envelope : e = Event(what)
      BY <3>2
    <3>4. toCore' = toCore \/ (toCore # <<>> /\ toCore' = Tail(toCore))
      BY <2>1 DEF SendHello, Tick
    <3>5. toPlugin' = toPlugin \/ toPlugin' = Append(toPlugin, e)
      BY <3>1, <3>3 DEF Written
    <3> QED BY <1>1, <3>2, <3>3, <3>4, <3>5, HostIsMade
  <2>2. CASE AcceptInit
    <3>1. PICK e \in Envelope : e = Response("plugin.init", NoId)
      BY EnvelopeType
    <3>2. e.kind # "request"
      BY <3>1 DEF Response
    <3>3. toPlugin' = toPlugin \/ toPlugin' = toPlugin \o <<e>>
      BY <2>2, <3>1 DEF AcceptInit, Handshake
    <3>4. toPlugin \o <<e>> = Append(toPlugin, e)
      BY <1>0 DEF Pipe
    <3>5. toCore' = toCore \/ (toCore # <<>> /\ toCore' = Tail(toCore))
      BY <2>2 DEF AcceptInit, Handshake
    <3> QED BY <1>1, <3>2, <3>3, <3>4, <3>5, HostIsMade
  <2>3. CASE AcceptStart
    BY <1>1, <2>3, StartIsMade
  <2>4. CASE ReadRequest \/ ReadResponse \/ ReadEvent \/ ReaderStops
    <3>1. toCore' = toCore \/ (toCore # <<>> /\ toCore' = Tail(toCore))
      BY <2>4 DEF ReadRequest, ReadResponse, ReadEvent, ReaderStops
    <3>2. toPlugin' = toPlugin
      BY <2>4 DEF ReadRequest, ReadResponse, ReadEvent, ReaderStops
    <3> QED BY <1>1, <2>0, <3>1, <3>2, HostIsMade
  <2>5. CASE WriteReply
    <3>1. PICK e \in Envelope : e = reply
      BY DEF TypeOK
    <3>2. toPlugin' = toPlugin \/ toPlugin' = Append(toPlugin, e)
      BY <2>5, <3>1 DEF WriteReply, Written
    <3>3. e.kind # "request"
      BY <3>1 DEF ReplyIsNoRequest
    <3>4. toCore' = toCore \/ (toCore # <<>> /\ toCore' = Tail(toCore))
      BY <2>5 DEF WriteReply
    <3> QED BY <1>1, <3>2, <3>3, <3>4, HostIsMade
  <2>6. ASSUME NEW c \in Caller, Register(c) PROVE IdsAreMade'
    <3>1. toPlugin' = toPlugin \/ toPlugin' = Append(toPlugin, Event("other"))
      BY <2>6 DEF Register
    <3>2. toCore' = toCore \/ (toCore # <<>> /\ toCore' = Tail(toCore))
      BY <2>6 DEF Register
    <3> QED BY <1>1, <2>0, <3>1, <3>2, HostIsMade
  <2>7. ASSUME NEW c \in Caller, WriteCall(c) PROVE IdsAreMade'
    <3>1. CASE alive
      <4>1. PICK e \in Envelope : e = Request(Method, c)
        BY EnvelopeType, HostAssumption
      <4>2. c \in MadeCalls'
        BY <2>7, <3>1 DEF WriteCall, MadeCalls, TypeOK
      <4>3. e.id \in MadeCalls'
        BY <4>1, <4>2 DEF Request
      <4>4. toPlugin' = toPlugin \/ toPlugin' = Append(toPlugin, e)
        BY <2>7, <4>1 DEF WriteCall, Written
      <4>5. toCore' = toCore \/ (toCore # <<>> /\ toCore' = Tail(toCore))
        BY <2>7 DEF WriteCall
      <4> QED BY <1>1, <4>3, <4>4, <4>5, HostIsMade
    <3>2. CASE ~alive
      <4>1. toPlugin' = toPlugin \/ toPlugin' = Append(toPlugin, Event("other"))
        BY <2>7, <3>2 DEF WriteCall, Written
      <4>2. toCore' = toCore \/ (toCore # <<>> /\ toCore' = Tail(toCore))
        BY <2>7 DEF WriteCall
      <4> QED BY <1>1, <2>0, <4>1, <4>2, HostIsMade
    <3> QED BY <3>1, <3>2
  <2> QED BY <1>1, <2>1, <2>2, <2>3, <2>4, <2>5, <2>6, <2>7 DEF HostNext, Reader
<1>2. CASE Read
  <2>1. toPlugin # <<>> /\ toPlugin' = Tail(toPlugin) /\ toCore' = toCore
    BY <1>2 DEF Read
  <2>2. IdsIn("request", toPlugin, MadeCalls')
    BY <1>0 DEF IdsAreMade, IdsIn
  <2>3. /\ IdsIn("request", toPlugin', MadeCalls')
        /\ Head(toPlugin).kind = "request" => Head(toPlugin).id \in MadeCalls'
    BY <1>0, <2>1, <2>2, IdsAfterRead
  <2>4. IdsIn("response", toCore', MadeCalls')
    BY <1>0, <2>1 DEF IdsAreMade, IdsIn
  <2>5. heard' \subseteq MadeCalls'
    BY <1>0, <1>2, <2>3 DEF Read, IdsAreMade
  <2> QED BY <2>3, <2>4, <2>5 DEF IdsAreMade
<1>3. CASE Send
  <2>1. PICK e \in Sendable : toCore' = Append(toCore, e)
    BY <1>3 DEF Send
  <2>2. e.kind = "response" => e.id \in MadeCalls'
    BY <1>0 DEF Sendable, Request, Response, Event, IdsAreMade
  <2>3. IdsIn("response", toCore', MadeCalls')
    BY <1>0, <2>1, <2>2, PipesStayMade DEF IdsAreMade
  <2>4. toPlugin' = toPlugin /\ heard' = heard
    BY <1>3 DEF Send
  <2>5. IdsIn("request", toPlugin', MadeCalls')
    BY <1>0, <2>4 DEF IdsAreMade, IdsIn
  <2> QED BY <1>0, <2>3, <2>4, <2>5 DEF IdsAreMade
<1>4. CASE Die \/ UNCHANGED vars
  <2>1. toPlugin' \in {<<>>, toPlugin} /\ toCore' = toCore /\ heard' = heard
    BY <1>4 DEF Die, vars, hostVars
  <2>2. IdsIn("request", toPlugin', MadeCalls')
    BY <1>0, <2>1 DEF IdsAreMade, IdsIn
  <2>3. IdsIn("response", toCore', MadeCalls')
    BY <1>0, <2>1 DEF IdsAreMade, IdsIn
  <2> QED BY <1>0, <2>1, <2>2, <2>3 DEF IdsAreMade
<1> QED BY <1>1, <1>2, <1>3, <1>4 DEF Next

\* Only a response takes a call off the map, and it has been written then.
LEMMA PendingStays ==
    ASSUME TypeOK, IdsAreMade, PendingIsInFlight, OwnAnswer, [Next]_vars
    PROVE  PendingIsInFlight' /\ OwnAnswer'
<1>1. CASE ReadResponse
  <2>1. toCore \in Pipe /\ toCore # <<>>
    BY <1>1 DEF ReadResponse, TypeOK, Pipe
  <2>2. Head(toCore).kind = "response"
    BY <1>1 DEF ReadResponse
  <2>3. Head(toCore).id \in MadeCalls
    BY <2>1, <2>2, IdsAfterRead DEF IdsAreMade
  <2>4. CASE UNCHANGED <<pending, call, answer>>
    BY <2>4 DEF PendingIsInFlight, OwnAnswer
  <2>5. ASSUME NEW c \in WaiterOf(Head(toCore).id),
               pending' = pending \ {c},
               call' = [call EXCEPT ![c] =
                          IF @ \in {"registered", "waiting"} THEN "answered" ELSE @],
               answer' = [answer EXCEPT ![c] = Head(toCore).id]
        PROVE  PendingIsInFlight' /\ OwnAnswer'
    <3>1. c = Head(toCore).id /\ c \in Caller /\ call[c] = "waiting"
      BY <2>3, <2>5 DEF WaiterOf, MadeCalls, PendingIsInFlight
    <3>2. call' = [call EXCEPT ![c] = "answered"]
      BY <2>5, <3>1 DEF TypeOK
    <3>3. PendingIsInFlight'
      BY <2>5, <3>1, <3>2 DEF PendingIsInFlight, TypeOK
    <3>4. OwnAnswer'
      BY <2>5, <3>1, <3>2 DEF OwnAnswer, TypeOK
    <3> QED BY <3>3, <3>4
  <2> QED BY <1>1, <2>4, <2>5 DEF ReadResponse
<1>2. ASSUME NEW c \in Caller, Register(c) PROVE PendingIsInFlight' /\ OwnAnswer'
  BY <1>2 DEF Register, PendingIsInFlight, OwnAnswer, TypeOK
<1>3. ASSUME NEW c \in Caller, WriteCall(c) PROVE PendingIsInFlight' /\ OwnAnswer'
  BY <1>3 DEF WriteCall, PendingIsInFlight, OwnAnswer, TypeOK
<1>4. CASE UNCHANGED <<pending, call, answer>>
  BY <1>4 DEF PendingIsInFlight, OwnAnswer
<1>5. CASE SendHello \/ AcceptInit \/ AcceptStart \/ WriteReply \/ Tick
  BY <1>5, <1>4 DEF SendHello, AcceptInit, AcceptStart, Handshake, WriteReply, Tick
<1>6. CASE ReadRequest \/ ReadEvent \/ ReaderStops
  BY <1>6, <1>4 DEF ReadRequest, ReadEvent, ReaderStops
<1>7. CASE Read \/ Send \/ Die \/ UNCHANGED vars
  BY <1>7, <1>4 DEF Read, Send, Die, vars, hostVars
<1> QED BY <1>1, <1>2, <1>3, <1>5, <1>6, <1>7 DEF Next, HostNext, Reader

\* What the reader task has to write is an answer or an event.
LEMMA ReplyStays ==
    ASSUME ReplyIsNoRequest, [Next]_vars
    PROVE  ReplyIsNoRequest'
<1>1. CASE ReadRequest
  BY <1>1 DEF ReadRequest, ReplyIsNoRequest, Response
<1>2. CASE reply' = reply
  BY <1>2 DEF ReplyIsNoRequest
<1>3. CASE SendHello \/ AcceptInit \/ AcceptStart \/ WriteReply \/ Tick
  BY <1>3, <1>2 DEF SendHello, AcceptInit, AcceptStart, Handshake, WriteReply, Tick
<1>4. CASE ReadResponse \/ ReadEvent \/ ReaderStops
  BY <1>4, <1>2 DEF ReadResponse, ReadEvent, ReaderStops
<1>5. ASSUME NEW c \in Caller, Register(c) \/ WriteCall(c) PROVE ReplyIsNoRequest'
  BY <1>5, <1>2 DEF Register, WriteCall
<1>6. CASE Read \/ Send \/ Die \/ UNCHANGED vars
  BY <1>6, <1>2 DEF Read, Send, Die, vars, hostVars
<1> QED BY <1>1, <1>3, <1>4, <1>5, <1>6 DEF Next, HostNext, Reader

\* What the two ends may rely on, in every reachable state: types, ids only of
\* calls that were made, a map of the calls under way, own answers.
THEOREM HostInvariant == Spec => []HostInv
<1>1. Init => HostInv
  <2> SUFFICES ASSUME Init PROVE HostInv
    OBVIOUS
  <2>1. TypeOK
    <3>1. <<>> \in Seq(Envelope) /\ Len(<<>>) <= PipeSize
      BY HostAssumption
    <3>2. Event("other") \in Envelope
      BY EnvelopeType DEF NoId
    <3> QED BY <3>1, <3>2 DEF Init, HostInit, TypeOK, NoId
  <2>2. IdsAreMade /\ ReplyIsNoRequest
    BY DEF Init, HostInit, IdsAreMade, IdsIn, ReplyIsNoRequest, Event
  <2>3. PendingIsInFlight /\ OwnAnswer
    BY DEF Init, HostInit, PendingIsInFlight, OwnAnswer
  <2> QED BY <2>1, <2>2, <2>3 DEF HostInv
<1>2. HostInv /\ [Next]_vars => HostInv'
  BY HostTypeStep, IdsStayMade, PendingStays, ReplyStays DEF HostInv
<1> QED BY <1>1, <1>2, PTL DEF Spec

\* Every reachable state is well-typed, and start_plugin and the reader task
\* never read the pipe at the same time, whatever the plugin sends, in whatever
\* order, and whenever it dies.
THEOREM HostTypeCorrect == Spec => []TypeOK
<1>1. HostInv => TypeOK
  BY DEF HostInv
<1> QED BY <1>1, HostInvariant, PTL

\* The map of pending requests holds the calls that wait and those whose
\* write failed, and nothing else.
THEOREM PendingCorrect == Spec => []PendingIsInFlight
<1>1. HostInv => PendingIsInFlight
  BY DEF HostInv
<1> QED BY <1>1, HostInvariant, PTL

\* A call that is answered is given its own response.
THEOREM AnswersMatch == Spec => []OwnAnswer
<1>1. HostInv => OwnAnswer
  BY DEF HostInv
<1> QED BY <1>1, HostInvariant, PTL

-----------------------------------------------------------------------------
\* The first setting given of four, the last of which is, is the one that the
\* nested defaults of Config::load come to.
LEMMA FirstOfFour ==
    ASSUME NEW a, NEW b, NEW c, NEW v
    PROVE  FirstOf(<<a, b, c, {v}>>) = Over(a, Over(b, Over(c, v)))
<1> DEFINE settings == <<a, b, c, {v}>>
           given == {i \in DOMAIN settings : settings[i] # {}}
           Least(i) == i \in given /\ \A j \in given : i <= j
<1>1. /\ DOMAIN settings = 1 .. 4 /\ 4 \in given
      /\ settings[1] = a /\ settings[2] = b /\ settings[3] = c /\ settings[4] = {v}
  OBVIOUS
<1>2. \A i \in given : i \in 1 .. 4
  BY <1>1
<1>3. ASSUME NEW i \in 1 .. 4, Least(i)
      PROVE  FirstOf(settings) = CHOOSE x \in settings[i] : TRUE
  <2>1. \A j \in given : (\A h \in given : j <= h) <=> j = i
    BY <1>2, <1>3
  <2>2. i = CHOOSE j \in given : \A h \in given : j <= h
    BY <1>3, <2>1
  <2> QED BY <2>2 DEF FirstOf
<1>4. CASE a # {}
  <2>1. Least(1)
    BY <1>1, <1>2, <1>4
  <2>2. FirstOf(settings) = CHOOSE x \in a : TRUE
    BY <1>1, <1>3, <2>1
  <2> QED BY <1>4, <2>2 DEF Over
<1>5. CASE a = {} /\ b # {}
  <2>1. Least(2)
    BY <1>1, <1>2, <1>5
  <2>2. FirstOf(settings) = CHOOSE x \in b : TRUE
    BY <1>1, <1>3, <2>1
  <2>3. Over(a, Over(b, Over(c, v))) = CHOOSE x \in b : TRUE
    BY <1>5 DEF Over
  <2> QED BY <2>2, <2>3
<1>6. CASE a = {} /\ b = {} /\ c # {}
  <2>1. Least(3)
    BY <1>1, <1>2, <1>6
  <2>2. FirstOf(settings) = CHOOSE x \in c : TRUE
    BY <1>1, <1>3, <2>1
  <2>3. Over(a, Over(b, Over(c, v))) = CHOOSE x \in c : TRUE
    BY <1>6 DEF Over
  <2> QED BY <2>2, <2>3
<1>7. CASE a = {} /\ b = {} /\ c = {}
  <2>1. Least(4)
    BY <1>1, <1>2, <1>7
  <2>2. FirstOf(settings) = CHOOSE x \in {v} : TRUE
    BY <1>1, <1>3, <2>1
  <2>3. (CHOOSE x \in {v} : TRUE) = v
    OBVIOUS
  <2>4. Over(a, Over(b, Over(c, v))) = v
    BY <1>7 DEF Over
  <2> QED BY <2>2, <2>3, <2>4
<1> QED BY <1>4, <1>5, <1>6, <1>7

\* The port family_chat serves when no address is given as a whole is the first
\* of command line, environment, file and default, wherever the settings come
\* from and whatever the core and the other plugins do.
THEOREM PrecedenceHolds == StartupSpec => []FollowsPrecedence
<1>1. FollowsPrecedence
  <2> SUFFICES ASSUME NEW s \in sources, s.cliBind = {} /\ s.envBind = {}
               PROVE  BoundTo(s).port = Stated(s)
    BY DEF FollowsPrecedence
  <2>1. BoundTo(s).port = Port(s)
    BY DEF BoundTo, Over
  <2>2. Stated(s) = Port(s)
    BY FirstOfFour DEF Stated, Port
  <2> QED BY <2>1, <2>2
<1> QED BY <1>1, PTL

=============================================================================
