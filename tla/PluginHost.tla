----------------------------- MODULE PluginHost -----------------------------
(***************************************************************************)
(* The core's side of one plugin (core/src/plugin_host.rs, ipc.rs and      *)
(* services/timer.rs): the handshake of start_plugin, the reader task that *)
(* serves the plugin's requests and hands responses to waiting calls,      *)
(* PluginManager::call, and the timers that write ticks.                   *)
(*                                                                         *)
(* Core and plugin talk over two pipes of envelopes, one per line.  All    *)
(* writers of the core share a lock, so an envelope is written whole, and  *)
(* a writer waits while the pipe is full.  The plugin itself is the        *)
(* business of the modules that extend this one.                           *)
(***************************************************************************)
EXTENDS Naturals, Sequences, FiniteSets

CONSTANTS
    Caller,     \* the calls the core makes, each with a fresh request id
    Method,     \* the method they call
    PipeSize,   \* envelopes a pipe holds
    MaxTicks    \* ticks the plugin may be behind: its timers are that slow

ASSUME HostAssumption ==
    /\ Method \in {"sample.ping", "plugin.stop"}
    /\ PipeSize \in Nat \ {0, 1}
    /\ MaxTicks \in Nat \ {0}

VARIABLES
    stage,      \* how far start_plugin has come
    alive,      \* whether the plugin process runs
    toPlugin,   \* the pipe to the plugin's stdin
    toCore,     \* the pipe from the plugin's stdout
    reader,     \* the reader task: off, on, replying, stopped
    reply,      \* the response the reader task has to write
    ticking,    \* whether a timer runs for the plugin
    pending,    \* request ids with a waiting oneshot sender
    call,       \* call[c]: where a call stands
    answer      \* answer[c]: the id in the response call c was given

hostVars == <<stage, alive, toPlugin, toCore, reader, reply, ticking, pending,
              call, answer>>

-----------------------------------------------------------------------------
NoId == "none"

Envelope == [kind : {"request", "response", "event", "garbage"},
             what : {"core.hello", "system.ready", "timer.tick", "sample.ping",
                     "plugin.init", "plugin.start", "plugin.stop",
                     "event.subscribe", "timer.set_interval", "log.write",
                     "other"},
             id : Caller \cup {NoId}]

Event(what) == [kind |-> "event", what |-> what, id |-> NoId]
Request(what, id) == [kind |-> "request", what |-> what, id |-> id]
Response(what, id) == [kind |-> "response", what |-> what, id |-> id]

HasRoom(pipe) == Len(pipe) < PipeSize

\* What write_envelope does: wait for room, or fail when nobody reads.
Written(e) ==
    IF alive THEN HasRoom(toPlugin) /\ toPlugin' = Append(toPlugin, e)
             ELSE UNCHANGED toPlugin

HostInit ==
    /\ stage = "spawned"
    /\ alive = TRUE
    /\ toPlugin = <<>>
    /\ toCore = <<>>
    /\ reader = "off"
    /\ reply = Event("other")
    /\ ticking = FALSE
    /\ pending = {}
    /\ call = [c \in Caller |-> "idle"]
    /\ answer = [c \in Caller |-> NoId]

-----------------------------------------------------------------------------
(* start_plugin.  The pipe is all but empty meanwhile, so a request is     *)
(* read and acknowledged in one step.                                      *)

SendHello ==
    /\ stage = "spawned"
    /\ Written(Event("core.hello"))
    /\ stage' = IF alive THEN "await_init" ELSE "failed"
    /\ UNCHANGED <<alive, toCore, reader, reply, ticking, pending, call, answer>>

\* The pipe's end, a broken line or a plugin gone by the time the answer is
\* written: start_plugin fails, and start_all with it.
HandshakeFails(expected) ==
    \/ toCore = <<>> /\ ~alive
    \/ toCore # <<>> /\ (Head(toCore) # Request(expected, NoId) \/ ~alive)

Handshake(from, expected, to, envelopes, task) ==
    /\ stage = from
    /\ \/ /\ HandshakeFails(expected)
          /\ stage' = "failed"
          /\ toCore' = IF toCore = <<>> THEN <<>> ELSE Tail(toCore)
          /\ UNCHANGED <<toPlugin, reader>>
       \/ /\ toCore # <<>> /\ ~HandshakeFails(expected)
          /\ Len(toPlugin) + Len(envelopes) <= PipeSize
          /\ toPlugin' = toPlugin \o envelopes
          /\ toCore' = Tail(toCore)
          /\ stage' = to
          /\ reader' = task
    /\ UNCHANGED <<alive, reply, ticking, pending, call, answer>>

\* Mutant of AcceptInit: the reader task is spawned a line too early.
AcceptInitAndRead ==
    Handshake("await_init", "plugin.init", "await_start",
              <<Response("plugin.init", NoId)>>, "on")

AcceptInit ==
    Handshake("await_init", "plugin.init", "await_start",
              <<Response("plugin.init", NoId)>>, "off")

AcceptStart ==
    Handshake("await_start", "plugin.start", "running",
              <<Response("plugin.start", NoId), Event("system.ready")>>, "on")

-----------------------------------------------------------------------------
(* The reader task.                                                        *)

\* Every request that names a method is answered, an unknown one with an
\* error; the effect comes first.
ReadRequest ==
    /\ reader = "on"
    /\ toCore # <<>> /\ Head(toCore).kind = "request"
    /\ toCore' = Tail(toCore)
    /\ ticking' = (ticking \/ Head(toCore).what = "timer.set_interval")
    /\ reply' = Response(Head(toCore).what, Head(toCore).id)
    /\ reader' = "replying"
    /\ UNCHANGED <<stage, alive, toPlugin, pending, call, answer>>

\* Mutant of WaiterOf: any call that waits.
AnyWaiter(id) == pending

\* The call a response is for: the one whose id it carries.
WaiterOf(id) == pending \cap {id}

\* A response goes to the call it is for, if that still waits.
ReadResponse ==
    LET id == Head(toCore).id
    IN  /\ reader = "on"
        /\ toCore # <<>> /\ Head(toCore).kind = "response"
        /\ toCore' = Tail(toCore)
        /\ \/ /\ WaiterOf(id) = {}
              /\ UNCHANGED <<pending, call, answer>>
           \/ \E c \in WaiterOf(id) :
                 /\ pending' = pending \ {c}
                 /\ call' = [call EXCEPT ![c] =
                               IF @ \in {"registered", "waiting"} THEN "answered" ELSE @]
                 /\ answer' = [answer EXCEPT ![c] = id]
        /\ UNCHANGED <<stage, alive, toPlugin, reader, reply, ticking>>

ReadEvent ==
    /\ reader = "on"
    /\ toCore # <<>> /\ Head(toCore).kind = "event"
    /\ toCore' = Tail(toCore)
    /\ UNCHANGED <<stage, alive, toPlugin, reader, reply, ticking, pending, call, answer>>

\* A line that is no envelope, or the end of the pipe, ends the task.
ReaderStops ==
    /\ reader = "on"
    /\ IF toCore = <<>> THEN ~alive ELSE Head(toCore).kind = "garbage"
    /\ toCore' = IF toCore = <<>> THEN <<>> ELSE Tail(toCore)
    /\ reader' = "stopped"
    /\ UNCHANGED <<stage, alive, toPlugin, reply, ticking, pending, call, answer>>

\* A reply that cannot be written is dropped.
WriteReply ==
    /\ reader = "replying"
    /\ Written(reply)
    /\ reader' = "on"
    /\ UNCHANGED <<stage, alive, toCore, reply, ticking, pending, call, answer>>

-----------------------------------------------------------------------------
(* PluginManager::call: the sender is registered before the request is     *)
(* written, and stays registered when the write fails.                     *)

\* Mutant of Register: the sender is not kept.
RegisterNothing(c) ==
    /\ stage = "running"
    /\ call[c] = "idle"
    /\ call' = [call EXCEPT ![c] = "registered"]
    /\ UNCHANGED <<stage, alive, toPlugin, toCore, reader, reply, ticking,
                   pending, answer>>

Register(c) ==
    /\ stage = "running"
    /\ call[c] = "idle"
    /\ pending' = pending \cup {c}
    /\ call' = [call EXCEPT ![c] = "registered"]
    /\ UNCHANGED <<stage, alive, toPlugin, toCore, reader, reply, ticking, answer>>

WriteCall(c) ==
    /\ call[c] = "registered"
    /\ Written(Request(Method, c))
    /\ call' = [call EXCEPT ![c] = IF alive THEN "waiting" ELSE "failed"]
    /\ UNCHANGED <<stage, alive, toCore, reader, reply, ticking, pending, answer>>

\* A timer fires; a tick that cannot be written is dropped.
UnreadTicks == {i \in DOMAIN toPlugin : toPlugin[i] = Event("timer.tick")}

Tick ==
    /\ ticking
    /\ Cardinality(UnreadTicks) < MaxTicks
    /\ Written(Event("timer.tick"))
    /\ UNCHANGED <<stage, alive, toCore, reader, reply, ticking, pending, call, answer>>

-----------------------------------------------------------------------------
Reader == ReadRequest \/ ReadResponse \/ ReadEvent \/ ReaderStops

HostNext ==
    \/ SendHello \/ AcceptInit \/ AcceptStart
    \/ Reader \/ WriteReply
    \/ \E c \in Caller : Register(c) \/ WriteCall(c)
    \/ Tick

\* The tasks of the core run; the writer lock is handed out in the order it
\* was asked for, so a writer gets its turn even if timers write too.
HostFairness ==
    /\ WF_hostVars(SendHello \/ AcceptInit \/ AcceptStart)
    /\ WF_hostVars(Reader)
    /\ WF_hostVars(WriteReply)
    /\ \A c \in Caller : WF_hostVars(WriteCall(c))
    /\ WF_hostVars(Tick)

-----------------------------------------------------------------------------
\* The state has the types of the code, and the pipe from the plugin has one
\* reader: start_plugin until the handshake is over, the reader task then.
TypeOK ==
    /\ stage \in {"spawned", "await_init", "await_start", "running", "failed"}
    /\ alive \in BOOLEAN
    /\ toPlugin \in Seq(Envelope) /\ Len(toPlugin) <= PipeSize
    /\ toCore \in Seq(Envelope) /\ Len(toCore) <= PipeSize
    /\ reader \in {"off", "on", "replying", "stopped"}
    /\ reply \in Envelope
    /\ ticking \in BOOLEAN
    /\ pending \subseteq Caller
    /\ call \in [Caller -> {"idle", "registered", "waiting", "answered", "failed"}]
    /\ answer \in [Caller -> Caller \cup {NoId}]
    /\ (reader = "off") <=> (stage # "running")

\* The map of pending requests holds the calls that wait, and nothing else
\* but the calls whose request could not be written: an answered call has
\* left it, and no call that still waits has been dropped from it.
PendingIsInFlight ==
    pending = {c \in Caller : call[c] \in {"registered", "waiting", "failed"}}

\* A call is given the response that carries its own id, whatever order the
\* responses of several calls come in and however often they come.
OwnAnswer ==
    \A c \in Caller : call[c] = "answered" => answer[c] = c

=============================================================================
