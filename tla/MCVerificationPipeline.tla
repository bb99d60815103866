---------------------- MODULE MCVerificationPipeline ----------------------
(***************************************************************************)
(* Instances of VerificationPipeline.  Windows of 1 and a reveal delay of  *)
(* 1 keep the proportions of the defaults (3600 s, 3600 s, 3700 s): a      *)
(* reveal can be too early, in time and too late.  Retention is shorter    *)
(* than the two windows together, so that evidence can be purged while     *)
(* reveals are still accepted.                                             *)
(* A run explores two, and the variable instance says which one a          *)
(* behaviour belongs to: two requests and one node ("requests"), in which  *)
(* the other node takes no job; or one request and two nodes ("nodes"), in *)
(* which a job that stalls is run by both, and the other request is not    *)
(* sent.                                                                   *)
(***************************************************************************)
EXTENDS VerificationPipeline

CONSTANTS
  r1, r2, k1, n1, n2, api, none, nokey,
  Instances   \* the instances of this run

VARIABLE instance

MCRequests == {r1, r2}
MCKeys == {k1}
SameKey == [r \in MCRequests |-> k1]
MCSpans == {1}
MCNodes == {n1, n2}

MCInit == instance \in Instances /\ PipelineInit

MCNext ==
  /\ UNCHANGED instance
  /\ PipelineNext
  /\ IF instance = "requests" THEN work'[n2] = Free ELSE request'[r2] = IdleRequest

MCSpec == MCInit /\ [][MCNext]_<<instance, vars>>

MCFairSpec == MCSpec /\ PipelineFairness
=============================================================================
