----------------------------- MODULE MCMetering -----------------------------
(* Metering with three requests of one user, who is soon at a cap. *)
EXTENDS Metering, TLC

CONSTANTS a1, a2, a3, ana

MCJobs == {a1, a2, a3}
MCUsers == {ana}
MCOwner == [j \in MCJobs |-> ana]
MCSessionCap == ana :> 2
MCWeeklyCap == ana :> 3
\* The jobs of one user are alike.
MCSymmetry == Permutations(MCJobs)
=============================================================================
