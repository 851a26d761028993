----------------------------- MODULE MCRegistry -----------------------------
(* Instances of Registry for TLC.                                          *)
EXTENDS Registry, TLC

CONSTANTS p1, p2, p3

NameOf  == p1 :> "" @@ p2 :> "a" @@ p3 :> "a"
TwoAliases == {<<"a">>, <<"a", 0>>}

Symmetry == Permutations(Goroutines)
=============================================================================
