---------------------------- MODULE GatewayStack ----------------------------
(* The live gateway stack and the suites and trials beside it in one module: *)
(* the client with its reader, the observer, the session, the probe and the  *)
(* run of a trial, the sandbox, the live cases and the local trials, and     *)
(* what all of their states have in common.                                  *)
EXTENDS GatewayClient, NormalRun, LiveSuites, LocalTrials, HostProbe

(* Every part has the type its own module gives it.                          *)
GatewayTypeOK ==
  /\ ClientTypeOK /\ ObserverTypeOK /\ LiveTypeOK
  /\ SandboxTypeOK /\ SuitesTypeOK /\ TrialsTypeOK /\ ProbeTypeOK
=============================================================================
