----------------------------- MODULE TurnChecks -----------------------------
(* The checks around a turn in one module: the guard over the SDK's         *)
(* messages, the projector of the model, the billing policy, the            *)
(* authentication probe and the admission of an installation and an input.  *)
EXTENDS StreamGuard, EventProjector, Billing, AuthProbe, Admission

(* What is said of the model of a turn was read from this turn's messages,  *)
(* for its receipt and for the host (content_events.py).                    *)
ModelIsProved == EffectiveIsProved /\ NoModelIsGuessed

(* What is admitted to a turn: an installation that is pinned, a text cut   *)
(* once, images within their limits (compatibility.py, turn_input.py).      *)
AdmissionHolds == AdmittedIsPinned /\ TextIsCutOnce /\ ImagesWithinLimits

(* Every check has the type its own module gives it. *)
TurnTypeOK == GuardTypeOK /\ ProjectorTypeOK /\ BillingTypeOK /\ AuthTypeOK
=============================================================================
