------------------------- MODULE MCRuntimeAdapter -------------------------
(* Small instances of RuntimeAdapter for TLC. *)
EXTENDS RuntimeAdapter
CONSTANTS MaxTurns, FirstHost, OtherHost, FirstContract, OtherContract

MCTurns == 1..MaxTurns
(* A request of each host under each contract. *)
MCRequests == {FirstHost, OtherHost} \X {FirstContract, OtherContract}
MCHostOf == [r \in Requests |-> r[1]]
MCContractOf == [r \in Requests |-> r[2]]

(* Hosts and contracts are only ever compared, so that it does not matter   *)
(* which of them the runtime is bound to first, and only one need be        *)
(* followed.  (A symmetry set would say the same at twice the time.)        *)
FirstBinding ==
  host \in {None, FirstHost} /\ contract \in {None, FirstContract}
=============================================================================
