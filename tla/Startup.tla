------------------------------- MODULE Startup -------------------------------
(* homecore run, from the discovery of the plugins to their end: main.rs,    *)
(* PluginManager::discover, start_all and start_plugin of the core, and the  *)
(* side of the plugins: core_bridge.rs and main.rs of family_chat (which may *)
(* also run by itself), sample_plugin, and plugins that misbehave.  What the *)
(* core and one plugin do after the handshake is the business of PluginHost. *)
EXTENDS ChatConfig, Sequences, FiniteSets

CONSTANTS
    Plugin,
    KindsOf,        \* the kinds each plugin may be of
    Sources         \* where family_chat finds its settings

Kind == {"chat", "sample", "unreadable", "missing", "mute", "rude"}

ASSUME StartupAssumption == KindsOf \in [Plugin -> SUBSET Kind]

VARIABLES
    kind,           \* the kind of each plugin, chosen at the start
    core,           \* new, starting, running, failed, gone, or absent
    found,          \* PluginManager.plugins
    todo,           \* keys start_all has not taken yet
    turn,           \* the plugin under start_plugin and its next step
    process,        \* the plugins' processes
    stdin, stdout,  \* their pipes
    http,           \* the server of family_chat
    sources,        \* what Config::load has read
    crashed         \* history: processes that died

startupVars == <<kind, core, found, todo, turn, process, stdin, stdout, http,
                 sources, crashed>>

NoTurn == [of |-> {}, next |-> "none"]

StartupInit ==
    /\ kind \in {k \in [Plugin -> Kind] : \A p \in Plugin : k[p] \in KindsOf[p]}
    /\ core = "new"
    /\ found = {} /\ todo = {} /\ turn = NoTurn
    /\ process = [p \in Plugin |-> "none"]
    /\ stdin = [p \in Plugin |-> <<>>] /\ stdout = [p \in Plugin |-> <<>>]
    /\ http = "none"
    /\ sources = {} /\ crashed = {}

HasEnded == core \in {"failed", "gone"}
IsDown(p) == process[p] \in {"none", "ended"}

-----------------------------------------------------------------------------
(* The core.                                                                 *)

(* discover reads every directory with a plugin.toml; one that cannot be     *)
(* parsed is an error.  In safe mode nothing is discovered.                  *)
Discover ==
    /\ core = "new"
    /\ \E S \in SUBSET Plugin :
          /\ found' = S /\ todo' = S
          /\ core' = IF \E p \in S : kind[p] = "unreadable"
                     THEN "failed" ELSE "starting"
    /\ UNCHANGED <<kind, turn, process, stdin, stdout, http, sources, crashed>>

SafeMode ==
    /\ core = "new"
    /\ core' = "running"
    /\ UNCHANGED <<kind, found, todo, turn, process, stdin, stdout, http,
                   sources, crashed>>

(* start_all takes the keys in the order of a hash map, one after the other, *)
(* and stops at the first that fails.                                        *)
Spawn(p) ==
    /\ core = "starting" /\ turn = NoTurn /\ p \in todo
    /\ todo' = todo \ {p}
    /\ IF kind[p] = "missing"
       THEN core' = "failed" /\ UNCHANGED <<turn, process>>
       ELSE /\ process' = [process EXCEPT ![p] = "loading"]
            /\ turn' = [of |-> {p}, next |-> "hello"]
            /\ UNCHANGED core
    /\ UNCHANGED <<kind, found, stdin, stdout, http, sources, crashed>>

WriteTo(p, messages, next) ==
    IF IsDown(p)
    THEN core' = "failed" /\ UNCHANGED <<turn, stdin>>
    ELSE /\ stdin' = [stdin EXCEPT ![p] = @ \o messages]
         /\ turn' = next
         /\ UNCHANGED core

WriteHello(p) ==
    /\ core = "starting" /\ turn = [of |-> {p}, next |-> "hello"]
    /\ WriteTo(p, <<"hello">>, [of |-> {p}, next |-> "init"])
    /\ UNCHANGED <<kind, found, todo, process, stdout, http, sources, crashed>>

(* read_envelope: the plugin's next line, or the end of its output.          *)
Expect(p, request, messages, next) ==
    /\ core = "starting" /\ turn = [of |-> {p}, next |-> request]
    /\ \/ /\ stdout[p] # <<>> /\ Head(stdout[p]) = request
          /\ WriteTo(p, messages, next)
          /\ stdout' = [stdout EXCEPT ![p] = Tail(@)]
       \/ /\ \/ stdout[p] # <<>> /\ Head(stdout[p]) # request
             \/ stdout[p] = <<>> /\ IsDown(p)
          /\ core' = "failed"
          /\ UNCHANGED <<turn, stdin, stdout>>
    /\ UNCHANGED <<kind, found, todo, process, http, sources, crashed>>

(* A variant with a fault: plugin.init is taken and not answered.            *)
ExpectInitOnly(p) == Expect(p, "init", <<>>, [of |-> {p}, next |-> "start"])

ExpectInit(p) ==
    Expect(p, "init", <<"ok">>, [of |-> {p}, next |-> "start"])

ExpectStart(p) == Expect(p, "start", <<"ok", "ready">>, NoTurn)

AllStarted ==
    /\ core = "starting" /\ turn = NoTurn /\ todo = {}
    /\ core' = "running"
    /\ UNCHANGED <<kind, found, todo, turn, process, stdin, stdout, http,
                   sources, crashed>>

(* Ctrl+C, or a kill of the core alone.                                      *)
Kill ==
    /\ core \in {"starting", "running"}
    /\ core' = "gone"
    /\ UNCHANGED <<kind, found, todo, turn, process, stdin, stdout, http,
                   sources, crashed>>

CoreStep ==
    \/ Discover \/ SafeMode \/ AllStarted
    \/ \E p \in Plugin : Spawn(p) \/ WriteHello(p) \/ ExpectInit(p)
                         \/ ExpectStart(p)

-----------------------------------------------------------------------------
(* The plugins.                                                              *)

Ends(p) ==
    /\ process' = [process EXCEPT ![p] = "ended"]
    /\ http' = IF kind[p] = "chat" THEN "none" ELSE http

Becomes(p, at) ==
    /\ process' = [process EXCEPT ![p] = at]
    /\ UNCHANGED http

(* family_chat loads its configuration before it reads or writes anything:   *)
(* an error ends it.  The core passes it no option but --stdio.              *)
Load(p) ==
    /\ process[p] = "loading"
    /\ IF kind[p] # "chat"
       THEN Becomes(p, "greeted") /\ UNCHANGED sources
       ELSE \E s \in Sources :
               /\ core # "absent" => s.cliPort = {} /\ s.cliBind = {}
               /\ sources' = {s}
               /\ IF IsRejected(s) THEN Ends(p)
                  ELSE IF core # "absent" THEN Becomes(p, "greeted")
                  ELSE /\ process' = [process EXCEPT ![p] = "serves"]
                       /\ http' = "binding"
    /\ UNCHANGED <<kind, core, found, todo, turn, stdin, stdout, crashed>>

(* By itself, without the core and its protocol.                             *)
Standalone(p) ==
    /\ core = "new" /\ kind[p] = "chat"
    /\ core' = "absent"
    /\ process' = [process EXCEPT ![p] = "loading"]
    /\ UNCHANGED <<kind, found, todo, turn, stdin, stdout, http, sources, crashed>>

(* Takes a line and sends its own; a core that is gone reads none, and the   *)
(* plugin ends.                                                              *)
Converse(p, from, line, to) ==
    /\ process[p] = from
    /\ stdin[p] # <<>>
    /\ stdin' = [stdin EXCEPT ![p] = Tail(@)]
    /\ IF HasEnded
       THEN Ends(p) /\ UNCHANGED stdout
       ELSE /\ stdout' = [stdout EXCEPT ![p] = Append(@, line)]
            /\ Becomes(p, to)
    /\ UNCHANGED <<kind, core, found, todo, turn, sources, crashed>>

SendInit(p) ==
    \/ kind[p] \in {"chat", "sample"} /\ Converse(p, "greeted", "init", "initiated")
    \/ kind[p] = "rude" /\ Converse(p, "greeted", "other", "initiated")

SendStart(p) == Converse(p, "initiated", "start", "started")

Consume(p) ==
    /\ stdin[p] # <<>>
    /\ stdin' = [stdin EXCEPT ![p] = Tail(@)]
    /\ UNCHANGED <<kind, core, found, todo, turn, stdout, sources, crashed>>

(* The response to plugin.start is read; family_chat spawns its server.      *)
EnterLoop(p) ==
    /\ process[p] = "started"
    /\ Consume(p)
    /\ process' = [process EXCEPT ![p] = "loops"]
    /\ http' = IF kind[p] = "chat" THEN "binding" ELSE http

(* The loop drops what it does not know, like system.ready.                  *)
Drop(p) ==
    /\ process[p] = "loops" \/ (process[p] = "greeted" /\ kind[p] = "mute")
    /\ Consume(p)
    /\ UNCHANGED <<process, http>>

(* A variant with a fault: the handshake goes on at the end of its input.    *)
AtEofInLoop(p) == HasEnded /\ process[p] = "loops"

(* A plugin that reads when the core is gone, or has given it up, finds the  *)
(* end of its input and ends, at whatever line of its code it reads.         *)
AtEof(p) ==
    HasEnded /\ process[p] \in {"greeted", "initiated", "started", "loops"}

EndOfInput(p) ==
    /\ AtEof(p) /\ stdin[p] = <<>>
    /\ Ends(p)
    /\ UNCHANGED <<kind, core, found, todo, turn, stdin, stdout, sources, crashed>>

(* The server binds its address, or fails: as a plugin family_chat goes on   *)
(* without it.                                                               *)
Serve(p) ==
    /\ kind[p] = "chat" /\ http = "binding"
    /\ \/ http' = "serving" /\ UNCHANGED process
       \/ IF process[p] = "serves" THEN Ends(p)
          ELSE http' = "failed" /\ UNCHANGED process
    /\ UNCHANGED <<kind, core, found, todo, turn, stdin, stdout, sources, crashed>>

Crash(p) ==
    /\ ~IsDown(p)
    /\ Ends(p)
    /\ crashed' = crashed \cup {p}
    /\ UNCHANGED <<kind, core, found, todo, turn, stdin, stdout, sources>>

PluginStep(p) ==
    \/ Load(p) \/ SendInit(p) \/ SendStart(p) \/ EnterLoop(p) \/ Drop(p)
    \/ EndOfInput(p)

StartupNext ==
    \/ CoreStep \/ Kill
    \/ \E p \in Plugin : PluginStep(p) \/ Standalone(p) \/ Serve(p) \/ Crash(p)

(* The core's only task goes on, and the operating system runs every plugin; *)
(* nobody has to start the core, kill anything or open a port.               *)
StartupFairness ==
    /\ WF_startupVars(core = "starting" /\ CoreStep)
    /\ \A p \in Plugin : WF_startupVars(PluginStep(p))

StartupSpec == StartupInit /\ [][StartupNext]_startupVars /\ StartupFairness

-----------------------------------------------------------------------------
(* Why start_all may fail at p: there is no such program, it ended before    *)
(* the handshake was over, or it sends something else.                       *)
IsToBlame(p) ==
    \/ kind[p] \in {"unreadable", "missing", "rude"} \/ p \in crashed
    \/ kind[p] = "chat" /\ \E s \in sources : IsRejected(s)

(* start_all returns: every plugin found has done its handshake and is in    *)
(* its loop, or one of them is to blame; host and plugin never wait for each *)
(* other, in whatever order the plugins come.  There is no timeout: a plugin *)
(* that says nothing makes start_all wait for ever.                          *)
StartReturns ==
    core = "starting" ~>
        \/ core = "gone"
        \/ core = "failed" /\ \E p \in found : IsToBlame(p)
        \/ core = "running" /\ \A p \in found : process[p] \in {"loops", "ended"}
        \/ \E p \in turn.of : kind[p] = "mute"

(* No plugin outlives the core, though nobody kills or waits for any: when   *)
(* start_all fails, at whichever plugin and line, or the core is killed, its *)
(* ends of the pipes close, and every process reads the end of its input.    *)
EveryPluginEnds == HasEnded ~> \A p \in Plugin : IsDown(p)

(* plugins/family_chat/README.md, "Configuration": CLI > ENV > config file > *)
(* built-in defaults, for the port of a server whose address is not given as *)
(* a whole.                                                                  *)
FirstOf(settings) ==
    LET given == {i \in DOMAIN settings : settings[i] # {}}
    IN  CHOOSE v \in settings[CHOOSE i \in given : \A j \in given : i <= j] : TRUE

Stated(s) ==
    FirstOf(<<s.cliPort, Parsed(s.envPort), s.filePort, {DefaultPort}>>)

FollowsPrecedence ==
    http = "serving" =>
        \A s \in sources :
            s.cliBind = {} /\ s.envBind = {} => BoundTo(s).port = Stated(s)

=============================================================================
