---------------------------- MODULE MCPluginHost ----------------------------
(* The core for TLC, in two parts that one run checks side by side: one      *)
(* plugin that does as it likes (AnyPlugin), and the start of several        *)
(* (Startup).                                                                *)
EXTENDS AnyPlugin, Startup

CONSTANTS chat, sample, other

VARIABLE part

MCKindsOf == [p \in Plugin |->
    IF p = chat THEN {"chat"} ELSE IF p = sample THEN {"sample"}
    ELSE Kind \ {"chat", "sample"}]

Setting(values) == {{}} \cup {{v} : v \in values}

NoSetting == [cliPort |-> {}, cliBind |-> {}, envPort |-> {}, envBind |-> {},
              filePort |-> {}, file |-> "valid"]

(* Ports that are fine, below 1024 (80) and no u16 (70000).                  *)
MCSources ==
    {[NoSetting EXCEPT !.cliPort = c, !.envPort = e, !.filePort = f] :
        c \in Setting({80, 2000}), e \in Setting({3000, 70000}),
        f \in Setting({80, 4000})}
    \cup {[NoSetting EXCEPT !.envBind = {[host |-> "0.0.0.0", port |-> 3500]},
                            !.cliPort = c] : c \in Setting({2000})}
    \cup {[NoSetting EXCEPT !.cliBind = {[host |-> "::1", port |-> 2500]}],
          [NoSetting EXCEPT !.file = "invalid"]}

MCInit ==
    /\ Init /\ StartupInit
    /\ part \in {"calls", "startup"}
    /\ part = "calls" => kind[other] = "missing"

MCNext ==
    \/ part = "calls" /\ Next /\ UNCHANGED <<startupVars, part>>
    \/ part = "startup" /\ StartupNext /\ UNCHANGED <<vars, part>>

MCSpec == MCInit /\ [][MCNext]_<<vars, startupVars, part>> /\ StartupFairness

=============================================================================
