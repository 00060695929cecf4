---------------------------- MODULE SamplePlugin ----------------------------
(***************************************************************************)
(* sample_plugin (plugins/sample_plugin/src/main.rs) under the plugin host.*)
(*                                                                         *)
(* After each request the plugin reads one envelope and takes it for the   *)
(* response, without looking: the system.ready event that follows the      *)
(* response to plugin.start makes it take every later response for the     *)
(* answer to the request after.                                            *)
(***************************************************************************)
EXTENDS PluginHost

VARIABLES
    at,         \* what the plugin reads next
    swallowed   \* pings read where a response was expected (history)

vars == <<hostVars, at, swallowed>>

Positions == {"hello", "init_response", "start_response",
              "subscribe_response", "timer_response", "loop", "log_response"}

Init ==
    /\ HostInit
    /\ at = "hello"
    /\ swallowed = {}

\* The plugin reads an envelope, goes on to another read, and writes first.
Step(from, to, envelopes) ==
    /\ alive
    /\ at = from
    /\ toPlugin # <<>>
    /\ Len(toCore) + Len(envelopes) <= PipeSize
    /\ toPlugin' = Tail(toPlugin)
    /\ toCore' = toCore \o envelopes
    /\ at' = to
    /\ UNCHANGED <<stage, alive, reader, reply, ticking, pending, call, answer>>

\* The first line must be an event.
Hello ==
    /\ toPlugin # <<>> /\ Head(toPlugin).kind = "event"
    /\ Step("hello", "init_response", <<Request("plugin.init", NoId)>>)
    /\ UNCHANGED swallowed

\* Whatever comes is taken for the response.
TakeResponse(from, to, envelopes) ==
    /\ Step(from, to, envelopes)
    /\ swallowed' = IF Head(toPlugin).kind = "request"
                    THEN swallowed \cup {Head(toPlugin).id} ELSE swallowed

GetReady ==
    \/ TakeResponse("init_response", "start_response",
                    <<Request("plugin.start", NoId)>>)
    \/ TakeResponse("start_response", "subscribe_response",
                    <<Request("event.subscribe", NoId)>>)
    \/ TakeResponse("subscribe_response", "timer_response",
                    <<Request("timer.set_interval", NoId)>>)
    \/ TakeResponse("timer_response", "loop", <<>>)

\* The main loop: a tick is logged, a ping is answered with its own id.
LogTick ==
    /\ toPlugin # <<>> /\ Head(toPlugin) = Event("timer.tick")
    /\ Step("loop", "log_response", <<Request("log.write", NoId)>>)
    /\ UNCHANGED swallowed

\* Mutant of AnswerPing: the response does not carry the request's id.
AnswerWithoutId ==
    /\ toPlugin # <<>> /\ Head(toPlugin).what = "sample.ping"
    /\ Step("loop", "loop", <<Response("sample.ping", NoId)>>)
    /\ UNCHANGED swallowed

AnswerPing ==
    /\ toPlugin # <<>> /\ Head(toPlugin).what = "sample.ping"
    /\ Step("loop", "loop", <<Response("sample.ping", Head(toPlugin).id)>>)
    /\ UNCHANGED swallowed

\* Mutant of IgnoreOther: the loop waits for ever on a response.
IgnoreEvents ==
    /\ toPlugin # <<>>
    /\ Head(toPlugin).kind = "event" /\ Head(toPlugin) # Event("timer.tick")
    /\ Step("loop", "loop", <<>>)
    /\ UNCHANGED swallowed

IgnoreOther ==
    /\ toPlugin # <<>>
    /\ Head(toPlugin).what \notin {"sample.ping", "timer.tick"}
    /\ Step("loop", "loop", <<>>)
    /\ UNCHANGED swallowed

LogDone == TakeResponse("log_response", "loop", <<>>)

Run == Hello \/ GetReady \/ LogTick \/ AnswerPing \/ IgnoreOther \/ LogDone

Next ==
    \/ HostNext /\ UNCHANGED <<at, swallowed>>
    \/ Run

Spec == Init /\ [][Next]_vars
FairSpec == Spec /\ HostFairness /\ WF_vars(Run)

-----------------------------------------------------------------------------
\* A call that waits is answered in the end, unless the plugin took its
\* request for a response: no other mishap keeps a caller waiting for ever.
HeardCallsReturn ==
    \A c \in Caller :
        call[c] = "waiting" ~> (call[c] = "answered" \/ c \in swallowed)

\* README: the plugin logs "a message every second"; though it loses step
\* with the responses, it never stops turning ticks into log requests.
TicksAreLogged ==
    []<>(reader = "replying" /\ reply.what = "log.write")

=============================================================================
