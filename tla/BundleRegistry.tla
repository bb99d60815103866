--------------------------- MODULE BundleRegistry ---------------------------
(***************************************************************************)
(* The evidence bundles disputes are about (contracts/BundleRegistry.sol). *)
(* Hashes and URIs are left out; what remains is who owns a bundle, when   *)
(* it was submitted, and the branch metadata the ladder's L0 check reads.  *)
(* The two forms of registration (one branch, a batch) have one effect per *)
(* branch.                                                                 *)
(***************************************************************************)
EXTENDS Integers

CONSTANTS
  Bundles,
  Submitters,    \* accounts that register bundles
  BranchCounts,  \* branch counts explored (the declared budget is at least that)
  BranchIds,     \* branches explored
  Confidences    \* confidenceBps explored

HIGH_CONFIDENCE_THRESHOLD == 7500

VARIABLES
  bundles,   \* bundle => owner, branchCount, declaredBudget, submittedAt
  branches,  \* bundle => branch => confidenceBps, requiresSupport, supportRoot
  now

bundleVars == <<bundles, branches>>

NoOwner == "0x0"

NoBundle == [owner |-> NoOwner, branchCount |-> 0, declaredBudget |-> 0, submittedAt |-> 0]

NoBranch == [confidenceBps |-> 0, requiresSupport |-> FALSE, supportRoot |-> FALSE]

BundleInit ==
  /\ bundles = [b \in Bundles |-> NoBundle]
  /\ branches = [b \in Bundles |-> [i \in BranchIds |-> NoBranch]]

\* The identifier is a hash of the sender, the time and a nonce: never used before.
registerBundle(b, owner, branchCount, declaredBudget) ==
  /\ bundles[b] = NoBundle
  /\ branchCount > 0
  /\ declaredBudget >= branchCount
  /\ bundles' = [bundles EXCEPT ![b] = [owner |-> owner, branchCount |-> branchCount,
                                        declaredBudget |-> declaredBudget, submittedAt |-> now]]
  /\ UNCHANGED branches

\* supportRoot is whether the root is non-zero.  Nothing prevents a second registration.
registerBranch(b, i, confidenceBps, supportRoot) ==
  /\ bundles[b] # NoBundle
  /\ i <= bundles[b].branchCount
  /\ confidenceBps <= 10000
  /\ branches' = [branches EXCEPT ![b][i] =
       [confidenceBps |-> confidenceBps,
        requiresSupport |-> confidenceBps >= HIGH_CONFIDENCE_THRESHOLD \/ supportRoot,
        supportRoot |-> supportRoot]]
  /\ UNCHANGED bundles

BundleNext ==
  \/ \E b \in Bundles, owner \in Submitters, n, budget \in BranchCounts :
       registerBundle(b, owner, n, budget)
  \/ \E b \in Bundles, i \in BranchIds, c \in Confidences, s \in BOOLEAN :
       registerBranch(b, i, c, s)
=============================================================================
