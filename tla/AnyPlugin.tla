----------------------------- MODULE AnyPlugin -----------------------------
(***************************************************************************)
(* The plugin host with a plugin that does as it likes: it reads when it   *)
(* wants to, sends any envelope or a line that is none, answers a request  *)
(* late, twice or never, and may die.  The only thing it cannot do is to   *)
(* guess the id of a request it has not read: ids are random UUIDs.        *)
(***************************************************************************)
EXTENDS PluginHost

VARIABLE heard      \* ids of the requests the plugin has read

vars == <<hostVars, heard>>

Sendable ==
    {Request(m, NoId) : m \in {"plugin.init", "plugin.start",
                               "timer.set_interval", "other"}}
        \cup {Response(Method, id) : id \in heard}
        \cup {Event("other"), [kind |-> "garbage", what |-> "other", id |-> NoId]}

Init == HostInit /\ heard = {}

Read ==
    /\ alive
    /\ toPlugin # <<>>
    /\ toPlugin' = Tail(toPlugin)
    /\ heard' = IF Head(toPlugin).kind = "request"
                THEN heard \cup {Head(toPlugin).id} ELSE heard
    /\ UNCHANGED <<stage, alive, toCore, reader, reply, ticking, pending, call, answer>>

Send ==
    /\ alive
    /\ HasRoom(toCore)
    /\ \E e \in Sendable : toCore' = Append(toCore, e)
    /\ UNCHANGED <<stage, alive, toPlugin, reader, reply, ticking, pending, call,
                   answer, heard>>

\* The process dies: what it has written can still be read.
Die ==
    /\ alive
    /\ alive' = FALSE
    /\ toPlugin' = <<>>
    /\ UNCHANGED <<stage, toCore, reader, reply, ticking, pending, call, answer, heard>>

Next ==
    \/ HostNext /\ UNCHANGED heard
    \/ Read
    \/ Send
    \/ Die

Spec == Init /\ [][Next]_vars

=============================================================================
