------------------------------ MODULE MCVaults -------------------------------
(***************************************************************************)
(* The contracts that hold the money of verifiers, auditors and the owners *)
(* of jobs, each explored on its own in one run: system says which.  They  *)
(* share nothing in the code either, so a behaviour moves one and leaves   *)
(* the others at their initial states.  The job board is explored twice:   *)
(* one job in ETH with every operation of the contract, and two jobs under *)
(* fixed settings, the second without milestones and in either currency.   *)
(***************************************************************************)
EXTENDS BondVaultWETH, StakingManager, AuditorRegistry, JobBoardEscrow, TLC

CONSTANTS
  AuditorWeth  \* WETH of each auditor, the owner has none

VARIABLE
  system

AuditorsWeth == [a \in Accounts |-> IF a = Owner THEN 0 ELSE AuditorWeth]

auditorVars == <<registryVars, wethOf>>

\* Two milestones whose shares of the budget are rounded, a plan that promises too much,
\* and none.
Plans == {<< >>, 0 :> 3333 @@ 1 :> 6667, 0 :> 9000 @@ 1 :> 9000}

MCInit ==
  /\ system \in {"bonds", "stakes", "registry", "job", "jobs"}
  /\ VaultInit /\ Init /\ RegistryInit /\ JobsInit

OneJob ==
  /\ JobsNext
  /\ nextJobId' <= 2
  /\ jobs'[1].currency = Eth

TwoJobs ==
  /\ JobsNext
  /\ UNCHANGED <<proofs, gifts, disputeWindowSeconds, defaultPassThreshold>>
  /\ jobs'[1].currency = Eth
  /\ jobs'[2].milestoneCount = 0

MCNext ==
  \/ system = "bonds" /\ VaultNext /\ UNCHANGED <<system, vars, auditorVars, boardVars>>
  \/ system = "stakes" /\ Next /\ UNCHANGED <<system, vaultVars, auditorVars, boardVars>>
  \/ system = "registry" /\ RegistryNext /\ UNCHANGED <<system, vaultVars, vars, boardVars>>
  \/ system = "job" /\ OneJob /\ UNCHANGED <<system, vaultVars, vars, auditorVars>>
  \/ system = "jobs" /\ TwoJobs /\ UNCHANGED <<system, vaultVars, vars, auditorVars>>

MCSpec == MCInit /\ [][MCNext]_<<system, vaultVars, vars, auditorVars, boardVars>>

\* Users, tasks, auditors and requests are interchangeable, each among themselves.
Symmetry ==
  Permutations(Holders) \union Permutations(Users) \union Permutations(Tasks)
    \union Permutations(Accounts \ {Owner})
    \union Permutations(RequestHashes)
=============================================================================
