------------------------ MODULE CompactionLifecycle ------------------------
(***************************************************************************)
(* What NativeCompactionLifecycle (compaction.py) promises to the host of  *)
(* a session: "one turn's native compaction with an exactly-once terminal  *)
(* phase".  Every operation is atomic here.  A turn is bound to the        *)
(* lifecycle while its callbacks are installed; a bound turn is told of    *)
(* every compaction that begins (STARTED) and of its end (COMPLETED,       *)
(* FAILED or WATCHDOG, not told apart here).                               *)
(***************************************************************************)
EXTENDS Naturals

CONSTANTS Turns,   \* the turns of one session
          NoTurn   \* no callbacks are installed

VARIABLES bound,   \* the turn whose callbacks are installed, or NoTurn
          active,  \* a compaction has begun and its end is not yet reported
          started, \* started[t]: STARTED events delivered to turn t
          ended    \* ended[t]: terminal phases delivered to turn t

vars == <<bound, active, started, ended>>

Init ==
  /\ bound = NoTurn
  /\ active = FALSE
  /\ started = [t \in Turns |-> 0]
  /\ ended = [t \in Turns |-> 0]

(* The count after the bound turn, if there is one, is told of an event. *)
Told(count) ==
  [t \in Turns |-> IF t = bound THEN count[t] + 1 ELSE count[t]]

Bind(t) ==
  /\ ~active
  /\ bound = NoTurn
  /\ bound' = t
  /\ UNCHANGED <<active, started, ended>>

Begin ==
  /\ ~active
  /\ active' = TRUE
  /\ started' = Told(started)
  /\ UNCHANGED <<bound, ended>>

End ==
  /\ active
  /\ active' = FALSE
  /\ ended' = Told(ended)
  /\ UNCHANGED <<bound, started>>

(* The end of a turn, or of the session, also ends an active compaction. *)
Unbind ==
  /\ active' = FALSE
  /\ ended' = IF active THEN Told(ended) ELSE ended
  /\ bound' = NoTurn
  /\ UNCHANGED started

Next == (\E t \in Turns : Bind(t)) \/ Begin \/ End \/ Unbind

Spec == Init /\ [][Next]_vars
=============================================================================
