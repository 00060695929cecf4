------------------------------ MODULE Selection ------------------------------
(* The elements of a sequence that belong to a set, in their order: what     *)
(* retain and filter keep.  It is SelectSeq (the MC modules check that it    *)
(* is), written with the places of the elements instead of a recursion, so   *)
(* that what it keeps can be proved.                                         *)
EXTENDS Naturals, Sequences, FiniteSets

(* The places of s that are kept, and those among them up to i.              *)
KeptPlaces(s, T) == {i \in DOMAIN s : s[i] \in T}
KeptUpTo(s, T, i) == {h \in KeptPlaces(s, T) : h <= i}

(* The place of the j-th element kept.                                       *)
KeptPlace(s, T, j) ==
    CHOOSE i \in KeptPlaces(s, T) : Cardinality(KeptUpTo(s, T, i)) = j

Kept(s, T) ==
    [j \in 1 .. Cardinality(KeptPlaces(s, T)) |-> s[KeptPlace(s, T, j)]]

=============================================================================
