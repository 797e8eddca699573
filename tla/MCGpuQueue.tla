----------------------------- MODULE MCGpuQueue -----------------------------
(* GpuQueue on small instances: three jobs of two users, one chat. *)
EXTENDS GpuQueue, TLC

CONSTANTS j1, j2, j3, ana, bob, c1

MCJobs  == {j1, j2, j3}
MCUsers == {ana, bob}
MCChats == {c1}
\* j1 opens chat c1, j2 is its next turn, j3 another user's.
MCOwner  == (j1 :> ana) @@ (j2 :> ana) @@ (j3 :> bob)
MCChatOf == (j1 :> c1) @@ (j2 :> c1) @@ (j3 :> NoChat)
MCTwoJobs   == {j1, j2}
MCTwoOwner  == (j1 :> ana) @@ (j2 :> ana)
MCTwoChatOf == (j1 :> c1) @@ (j2 :> c1)
MCTitled == {j1}
MCUncapped == {bob}
=============================================================================
