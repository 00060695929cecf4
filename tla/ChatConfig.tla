----------------------------- MODULE ChatConfig -----------------------------
(* The configuration of family_chat (config.rs, Config::load): a port from   *)
(* the command line, the environment, a file or the default, and an address  *)
(* that replaces host and port.  A setting that may be missing is a set of   *)
(* at most one value.  logging, resolved like the port, the data directory   *)
(* and the upload size are left out.                                         *)
EXTENDS Integers

DefaultPort == 8787

Over(setting, value) == IF setting = {} THEN value ELSE CHOOSE v \in setting : TRUE

(* A variable that is not a u16 is ignored.                                  *)
Parsed(setting) == setting \cap 0 .. 65535

(* A variant with a fault: the file overrides the environment.               *)
PortFileLast(s) ==
    Over(s.cliPort, Over(s.filePort, Over(Parsed(s.envPort), DefaultPort)))

Port(s) ==
    Over(s.cliPort, Over(Parsed(s.envPort), Over(s.filePort, DefaultPort)))

IsRejected(s) == s.file = "invalid" \/ Port(s) \notin 1024 .. 65535

(* The address the server binds.                                             *)
BoundTo(s) ==
    Over(s.cliBind, Over(s.envBind, [host |-> "127.0.0.1", port |-> Port(s)]))

=============================================================================
