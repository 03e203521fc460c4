------------------------- MODULE MCNativeCompaction -------------------------
(* Instances of NativeCompaction for TLC.  The tasks are model values; the  *)
(* hooks, each called once at any time, are interchangeable.                *)
EXTENDS NativeCompaction, TLC

HookSymmetry == Permutations(Hooks)
=============================================================================
