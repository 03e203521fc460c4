--------------------------- MODULE MCSDKSession ---------------------------
(* Instances of SDKSession for TLC. *)
EXTENDS SDKSession, TLC

TurnSymmetry == Permutations(Turns)
=============================================================================
