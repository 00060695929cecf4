--------------------------- MODULE MCRealtimeHub ---------------------------
(* Instances of RealtimeHub: Alice with two browser tabs; a hall open to    *)
(* her and to Bob, and a diary only Bob may enter.                          *)
EXTENDS RealtimeHub

CONSTANTS alice, bob, tab1, tab2, hall, diary

MCOwner == [s \in Socket |-> alice]
MCAccess == [r \in Room |-> IF r = hall THEN User ELSE {bob}]

=============================================================================
