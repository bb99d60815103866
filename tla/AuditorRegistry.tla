--------------------------- MODULE AuditorRegistry ---------------------------
(***************************************************************************)
(* The auditors the dispute ladder draws its juries from                   *)
(* (contracts/AuditorRegistry.sol): anyone stakes WETH and becomes active  *)
(* at minStake, experts need more, the owner locks, slashes and rewards.   *)
(* The owner is BLSSlashingManager once deployed (scripts/deploy.ts), an   *)
(* account of its own before; here it may call every owner function.       *)
(* reputationBps is left out: only views return it.                        *)
(***************************************************************************)
EXTENDS Integers, FiniteSets, SequencesExt

CONSTANTS
  Accounts,
  Owner,               \* owner of the registry, an account that does not stake
  SlashRecipients,     \* accounts the three-argument slash may pay
  StakeAmounts,        \* amounts of stake and unstake
  OwnerAmounts,        \* amounts of lockStake, slash and reward
  MinStakes,           \* values the owner may set minStake to
  MinExpertStakes,     \* values the owner may set minHumanExpertStake to
  InitialMinStake,
  InitialWeth,         \* account => WETH at deployment: bounds the stakes
  OwnerEth             \* ETH the owner can wrap as rewards

ASSUME RegistryConstants ==
  /\ IsFiniteSet(Accounts)
  /\ Owner \in Accounts
  /\ SlashRecipients \subseteq Accounts
  /\ StakeAmounts \subseteq Nat
  /\ OwnerAmounts \subseteq Nat
  /\ MinStakes \subseteq Nat
  /\ MinExpertStakes \subseteq Nat
  /\ InitialMinStake \in Nat
  /\ InitialWeth \in [Accounts -> Nat]
  /\ OwnerEth \in Nat

VARIABLES
  minStake,
  minHumanExpertStake,
  stakeOf,             \* account => WETH staked
  lockedStake,         \* account => stake the owner locked (nothing unlocks it)
  active,              \* account => may be drawn for a jury
  isHumanExpert,
  humanExpertCount,
  auditorList,         \* accounts in the order of their first stake
  registryWeth,        \* WETH the registry holds
  wethOf,              \* account => WETH outside the contracts
  ownerEth,
  minStakeChanged,     \* history variable: setMinStake was called
  slashedUnlocked      \* history variable: accounts slashed by the three-argument slash

registryVars == <<minStake, minHumanExpertStake, stakeOf, lockedStake, active,
                  isHumanExpert, humanExpertCount, auditorList, registryWeth, ownerEth,
                  minStakeChanged, slashedUnlocked>>

RegistryInit ==
  /\ minStake = InitialMinStake
  /\ minHumanExpertStake = 5 * InitialMinStake
  /\ stakeOf = [a \in Accounts |-> 0]
  /\ lockedStake = [a \in Accounts |-> 0]
  /\ active = [a \in Accounts |-> FALSE]
  /\ isHumanExpert = [a \in Accounts |-> FALSE]
  /\ humanExpertCount = 0
  /\ auditorList = <<>>
  /\ registryWeth = 0
  /\ wethOf = InitialWeth
  /\ ownerEth = OwnerEth
  /\ minStakeChanged = FALSE
  /\ slashedUnlocked = {}

-----------------------------------------------------------------------------

Listed(a) == a \in Range(auditorList)

\* stake and reward activate at minStake and never deactivate.
Activated(a, amount) == [active EXCEPT ![a] = @ \/ amount >= minStake]

\* unstake and slash deactivate below minStake and never activate.
Deactivated(a, amount) == [active EXCEPT ![a] = @ /\ amount >= minStake]

stake(a, amount) ==
  /\ amount > 0
  /\ wethOf[a] >= amount
  /\ wethOf' = [wethOf EXCEPT ![a] = @ - amount]
  /\ registryWeth' = registryWeth + amount
  /\ stakeOf' = [stakeOf EXCEPT ![a] = @ + amount]
  /\ active' = Activated(a, stakeOf[a] + amount)
  /\ auditorList' = IF Listed(a) THEN auditorList ELSE Append(auditorList, a)
  /\ UNCHANGED <<minStake, minHumanExpertStake, lockedStake, isHumanExpert, humanExpertCount,
                 ownerEth, minStakeChanged, slashedUnlocked>>

unstake(a, amount) ==
  /\ amount > 0
  /\ stakeOf[a] >= amount + lockedStake[a]
  /\ stakeOf' = [stakeOf EXCEPT ![a] = @ - amount]
  /\ registryWeth' = registryWeth - amount
  /\ wethOf' = [wethOf EXCEPT ![a] = @ + amount]
  /\ active' = Deactivated(a, stakeOf[a] - amount)
  /\ UNCHANGED <<minStake, minHumanExpertStake, lockedStake, isHumanExpert,
                 humanExpertCount, auditorList, ownerEth, minStakeChanged, slashedUnlocked>>

\* registerAsHumanExpert by the account itself and designateHumanExpert by the owner
\* have the same guards and the same effect.
registerAsHumanExpert(a) ==
  /\ stakeOf[a] >= minHumanExpertStake
  /\ ~isHumanExpert[a]
  /\ active[a]
  /\ isHumanExpert' = [isHumanExpert EXCEPT ![a] = TRUE]
  /\ humanExpertCount' = humanExpertCount + 1
  /\ UNCHANGED <<minStake, minHumanExpertStake, stakeOf, lockedStake, active,
                 auditorList, registryWeth, wethOf, ownerEth, minStakeChanged, slashedUnlocked>>

removeHumanExpert(a) ==
  /\ isHumanExpert[a]
  /\ isHumanExpert' = [isHumanExpert EXCEPT ![a] = FALSE]
  /\ humanExpertCount' = humanExpertCount - 1
  /\ UNCHANGED <<minStake, minHumanExpertStake, stakeOf, lockedStake, active,
                 auditorList, registryWeth, wethOf, ownerEth, minStakeChanged, slashedUnlocked>>

-----------------------------------------------------------------------------
\* The owner.

lockAuditorStake(a, amount) ==
  /\ stakeOf[a] >= lockedStake[a] + amount
  /\ lockedStake' = [lockedStake EXCEPT ![a] = @ + amount]
  /\ UNCHANGED <<minStake, minHumanExpertStake, stakeOf, active, isHumanExpert,
                 humanExpertCount, auditorList, registryWeth, wethOf, ownerEth,
                 minStakeChanged, slashedUnlocked>>

Capped(a, amount) == IF amount > stakeOf[a] THEN stakeOf[a] ELSE amount

\* The stake of `a` falls by `amount` and `to` receives it.
TakeStake(a, amount, to) ==
  /\ stakeOf' = [stakeOf EXCEPT ![a] = @ - amount]
  /\ registryWeth' = registryWeth - amount
  /\ wethOf' = [wethOf EXCEPT ![to] = @ + amount]
  /\ active' = Deactivated(a, stakeOf[a] - amount)

M_LockedAfterSlash(a, amount) == lockedStake[a]

\* The lock shrinks in proportion, rounded against the auditor; with a lock and no
\* stake the division by zero reverts (the guard of slash).
LockedAfterSlash(a, amount) ==
  IF lockedStake[a] > 0 THEN lockedStake[a] - (lockedStake[a] * amount) \div stakeOf[a]
  ELSE 0

\* slash(auditor, amount) of the interface: to the owner, with the lock.
slashAuditor(a, amount) ==
  /\ lockedStake[a] > 0 => stakeOf[a] > 0
  /\ TakeStake(a, Capped(a, amount), Owner)
  /\ lockedStake' = [lockedStake EXCEPT ![a] = LockedAfterSlash(a, Capped(a, amount))]
  /\ UNCHANGED <<minStake, minHumanExpertStake, isHumanExpert, humanExpertCount, auditorList,
                 ownerEth, minStakeChanged, slashedUnlocked>>

\* slash(auditor, amount, to), the one BLSSlashingManager calls: the lock stays.
slashTo(a, amount, to) ==
  /\ TakeStake(a, Capped(a, amount), to)
  /\ slashedUnlocked' = slashedUnlocked \union {a}
  /\ UNCHANGED <<minStake, minHumanExpertStake, lockedStake, isHumanExpert,
                 humanExpertCount, auditorList, ownerEth, minStakeChanged>>

reward(a, amount) ==
  /\ ownerEth >= amount
  /\ ownerEth' = ownerEth - amount
  /\ registryWeth' = registryWeth + amount
  /\ stakeOf' = [stakeOf EXCEPT ![a] = @ + amount]
  /\ active' = Activated(a, stakeOf[a] + amount)
  /\ UNCHANGED <<minStake, minHumanExpertStake, lockedStake, isHumanExpert, humanExpertCount,
                 auditorList, wethOf, minStakeChanged, slashedUnlocked>>

setMinStake(v) ==
  /\ minStake' = v
  /\ minStakeChanged' = TRUE
  /\ UNCHANGED <<minHumanExpertStake, stakeOf, lockedStake, active, isHumanExpert,
                 humanExpertCount, auditorList, registryWeth, wethOf, ownerEth, slashedUnlocked>>

setMinHumanExpertStake(v) ==
  /\ minHumanExpertStake' = v
  /\ UNCHANGED <<minStake, stakeOf, lockedStake, active, isHumanExpert,
                 humanExpertCount, auditorList, registryWeth, wethOf, ownerEth,
                 minStakeChanged, slashedUnlocked>>

RegistryNext ==
  \/ \E a \in Accounts \ {Owner} :
       \/ \E amount \in StakeAmounts : stake(a, amount) \/ unstake(a, amount)
       \/ registerAsHumanExpert(a)
       \/ removeHumanExpert(a)
       \/ \E amount \in OwnerAmounts :
            \/ lockAuditorStake(a, amount)
            \/ slashAuditor(a, amount)
            \/ \E to \in SlashRecipients : slashTo(a, amount, to)
            \/ reward(a, amount)
  \/ \E v \in MinStakes : setMinStake(v)
  \/ \E v \in MinExpertStakes : setMinHumanExpertStake(v)

RegistrySpec == RegistryInit /\ [][RegistryNext]_<<registryVars, wethOf>>

-----------------------------------------------------------------------------
\* What the dispute ladder reads.

\* The elements of s that are in T, in their order: what the loops over a list collect.
Kept(s, T) == FoldLeft(LAMBDA kept, x : IF x \in T THEN Append(kept, x) ELSE kept, <<>>, s)

ActiveAuditors == Kept(auditorList, {a \in Accounts : active[a]})

activeAuditorCount == Len(ActiveAuditors)

\* Indices count from 0.
activeAuditorAt(idx) == ActiveAuditors[idx + 1]

getActiveHumanExperts == Kept(auditorList, {a \in Accounts : isHumanExpert[a] /\ active[a]})

-----------------------------------------------------------------------------

\* The variables stay in the ranges of their Solidity types and the list, which the
\* jury is drawn from by index, never holds an account twice.
RegistryTypeOK ==
  /\ minStake \in Nat
  /\ minHumanExpertStake \in Nat
  /\ stakeOf \in [Accounts -> Nat]
  /\ lockedStake \in [Accounts -> Nat]
  /\ active \in [Accounts -> BOOLEAN]
  /\ isHumanExpert \in [Accounts -> BOOLEAN]
  /\ humanExpertCount \in Nat
  /\ auditorList \in Seq(Accounts)
  /\ IsInjective(auditorList)
  /\ registryWeth \in Nat
  /\ wethOf \in [Accounts -> Nat]
  /\ ownerEth \in Nat
  /\ minStakeChanged \in BOOLEAN
  /\ slashedUnlocked \subseteq Accounts

\* The registry holds exactly the stakes it owes: neither slash pays more than the stake
\* it takes (AuditorRegistry.sol:189 and :314) and rewards are wrapped before they count.
RegistryBacked == registryWeth = SumFunction(stakeOf)

\* stake, unstake, both slashes and reward each decide activity on their own; together
\* they keep an auditor active exactly while its stake reaches minStake, as long as the
\* owner leaves minStake alone (setMinStake does not revisit the auditors).
ActiveMatchesStake ==
  ~minStakeChanged => \A a \in Accounts : active[a] <=> stakeOf[a] >= minStake

\* A lock is covered by stake that cannot be withdrawn, whatever the proportional slash
\* rounds; the three-argument slash leaves the lock alone and is the only way out.
LocksStayCovered ==
  \A a \in Accounts \ slashedUnlocked : lockedStake[a] <= stakeOf[a]

\* humanExpertCount, kept by hand in three functions, is the number of experts.
ExpertsCounted == humanExpertCount = Cardinality({a \in Accounts : isHumanExpert[a]})

\* The books of AuditorRegistry.sol are in order: WETH, stakes, locks, activity, the list
\* juries are drawn from and the number of experts agree through both slashes.
RegistryIsSound ==
  /\ RegistryTypeOK
  /\ RegistryBacked
  /\ ActiveMatchesStake
  /\ LocksStayCovered
  /\ ExpertsCounted
=============================================================================
