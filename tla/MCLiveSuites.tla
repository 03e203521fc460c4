--------------------------- MODULE MCLiveSuites ---------------------------
(* One live case by itself, for the question whether its tools work.        *)
EXTENDS LiveSuites

MCInit == SandboxInit /\ SuitesInit
MCNext == SuitesNext /\ UNCHANGED sandboxVars
MCSpec == MCInit /\ [][MCNext]_<<case, sandboxVars>>
=============================================================================
