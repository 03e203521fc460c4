--------------------------- MODULE MCParityRunner ---------------------------
(* The runner alone for TLC: capability "s" has an executor that returns    *)
(* one path at a time.                                                      *)
EXTENDS ParityRunner

OnePath == <<<<"s", "positive">>>>
OncePerPath == [c \in Caps |-> 1]
=============================================================================
