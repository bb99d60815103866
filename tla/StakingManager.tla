--------------------------- MODULE StakingManager ---------------------------
(***************************************************************************)
(* The ETH stakes of verifiers and auditors (contracts/StakingManager.sol).*)
(* Every external function of the contract is one action: a transaction    *)
(* either runs to its end or reverts, so its guard is the conjunction of   *)
(* its requires and a reverted call is no step.                            *)
(*                                                                         *)
(* The operators on one stake record (CanLock, Locked, ...) are the bodies *)
(* of the owner-only functions.  After deployment the owner is the         *)
(* marketplace contract, which calls them several times in a transaction:  *)
(* module VerifierMarketplace composes them.                               *)
(***************************************************************************)
EXTENDS Integers, FiniteSets, Functions

CONSTANTS
  Users,              \* accounts that stake
  MIN_VERIFIER_STAKE, \* 0.1 ether, in units of the model
  MIN_AUDITOR_STAKE,  \* 0.5 ether
  UNBONDING_PERIOD,   \* 7 days, in ticks
  Amounts,            \* the amounts a call may carry
  InitialWallet,      \* ETH each user owns initially: bounds what can be staked
  MaxTime             \* last block timestamp explored

ASSUME StakingConstants ==
  /\ IsFiniteSet(Users)
  /\ MIN_VERIFIER_STAKE \in Nat \ {0}
  /\ MIN_AUDITOR_STAKE \in Nat \ {0}
  /\ UNBONDING_PERIOD \in Nat
  /\ Amounts \subseteq Nat
  /\ InitialWallet \in Nat
  /\ MaxTime \in Nat

VARIABLES
  stakes,       \* staker address => Stake record
  totalStaked,  \* stake type => total staked
  slashedPool,  \* ETH taken from slashed stakes and not yet distributed
  ethBalance,   \* ETH held by the contract
  wallet,       \* ETH each user holds outside the contract
  now           \* block.timestamp

stakingVars == <<stakes, totalStaked, slashedPool, ethBalance, wallet>>

SLASH_PERCENTAGE == 50

StakeTypes == {"Verifier", "Auditor"}

Stake == [amount : Nat, lockedAmount : Nat, unbondingAmount : Nat,
          unbondingTime : Nat, stakeType : StakeTypes, active : BOOLEAN]

\* An address the mapping has no entry for reads as this record.
NoStake == [amount |-> 0, lockedAmount |-> 0, unbondingAmount |-> 0,
            unbondingTime |-> 0, stakeType |-> "Verifier", active |-> FALSE]

NewStake(type, value) ==
  [amount |-> value, lockedAmount |-> 0, unbondingAmount |-> 0,
   unbondingTime |-> 0, stakeType |-> type, active |-> TRUE]

StakingInit ==
  /\ stakes = [u \in Users |-> NoStake]
  /\ totalStaked = [t \in StakeTypes |-> 0]
  /\ slashedPool = 0
  /\ ethBalance = 0
  /\ wallet = [u \in Users |-> InitialWallet]

-----------------------------------------------------------------------------
(* What the owner-only functions do to one stake.  A definition named M_... is *)
(* a mutant: no specification uses it, and it states a plausible bug that a *)
(* named property of this module rules out.                                *)

AvailableStake(s) == s.amount - s.lockedAmount

hasVerifierStake(s) ==
  /\ s.active
  /\ s.stakeType = "Verifier"
  /\ AvailableStake(s) >= MIN_VERIFIER_STAKE

CanLock(s, amount) == s.active /\ AvailableStake(s) >= amount

Locked(s, amount) == [s EXCEPT !.lockedAmount = @ + amount]

CanUnlock(s, amount) == s.lockedAmount >= amount

Unlocked(s, amount) == [s EXCEPT !.lockedAmount = @ - amount]

CanSlash(s) == s.active /\ s.lockedAmount > 0

SlashAmount(s) == (s.lockedAmount * SLASH_PERCENTAGE) \div 100

M_Slashed(s) == [s EXCEPT !.lockedAmount = @ - SlashAmount(s)]

Slashed(s) == [s EXCEPT !.lockedAmount = @ - SlashAmount(s),
                        !.amount = @ - SlashAmount(s)]

-----------------------------------------------------------------------------
(* Calls a staker makes.                                                   *)

Pay(u, value) ==
  /\ wallet[u] >= value
  /\ wallet' = [wallet EXCEPT ![u] = @ - value]
  /\ ethBalance' = ethBalance + value

StakeAs(u, type, minimum, value) ==
  /\ value >= minimum
  /\ ~stakes[u].active
  /\ Pay(u, value)
  /\ stakes' = [stakes EXCEPT ![u] = NewStake(type, value)]
  /\ totalStaked' = [totalStaked EXCEPT ![type] = @ + value]
  /\ UNCHANGED <<slashedPool, now>>

stakeAsVerifier(u, value) == StakeAs(u, "Verifier", MIN_VERIFIER_STAKE, value)

stakeAsAuditor(u, value) == StakeAs(u, "Auditor", MIN_AUDITOR_STAKE, value)

addStake(u, value) ==
  /\ stakes[u].active
  /\ value > 0
  /\ Pay(u, value)
  /\ stakes' = [stakes EXCEPT ![u].amount = @ + value]
  /\ totalStaked' = [totalStaked EXCEPT ![stakes[u].stakeType] = @ + value]
  /\ UNCHANGED <<slashedPool, now>>

startUnbonding(u, amount) ==
  /\ stakes[u].active
  /\ amount > 0
  /\ AvailableStake(stakes[u]) >= amount
  /\ stakes[u].unbondingAmount = 0
  /\ stakes' = [stakes EXCEPT ![u].amount = @ - amount,
                              ![u].unbondingAmount = amount,
                              ![u].unbondingTime = now + UNBONDING_PERIOD]
  /\ totalStaked' = [totalStaked EXCEPT ![stakes[u].stakeType] = @ - amount]
  /\ UNCHANGED <<slashedPool, ethBalance, wallet, now>>

UnbondingElapsed(s) == now >= s.unbondingTime

NothingLeft(s) == s.amount = 0 /\ s.lockedAmount = 0

completeUnbonding(u) ==
  LET s == stakes[u] IN
  /\ s.unbondingAmount > 0
  /\ UnbondingElapsed(s)
  /\ stakes' = [stakes EXCEPT ![u].unbondingAmount = 0,
                              ![u].unbondingTime = 0,
                              ![u].active = @ /\ ~NothingLeft(s)]
  /\ ethBalance' = ethBalance - s.unbondingAmount
  /\ wallet' = [wallet EXCEPT ![u] = @ + s.unbondingAmount]
  /\ UNCHANGED <<totalStaked, slashedPool, now>>

StakerCall ==
  \E u \in Users :
    \/ \E value \in Amounts :
         \/ stakeAsVerifier(u, value)
         \/ stakeAsAuditor(u, value)
         \/ addStake(u, value)
         \/ startUnbonding(u, value)
    \/ completeUnbonding(u)

-----------------------------------------------------------------------------
(* Calls of the owner.                                                     *)

lockStake(u, amount) ==
  /\ CanLock(stakes[u], amount)
  /\ stakes' = [stakes EXCEPT ![u] = Locked(@, amount)]
  /\ UNCHANGED <<totalStaked, slashedPool, ethBalance, wallet, now>>

unlockStake(u, amount) ==
  /\ CanUnlock(stakes[u], amount)
  /\ stakes' = [stakes EXCEPT ![u] = Unlocked(@, amount)]
  /\ UNCHANGED <<totalStaked, slashedPool, ethBalance, wallet, now>>

slash(u) ==
  /\ CanSlash(stakes[u])
  /\ stakes' = [stakes EXCEPT ![u] = Slashed(@)]
  /\ slashedPool' = slashedPool + SlashAmount(stakes[u])
  /\ totalStaked' = [totalStaked EXCEPT ![stakes[u].stakeType] = @ - SlashAmount(stakes[u])]
  /\ UNCHANGED <<ethBalance, wallet, now>>

distributeSlashedFunds(recipient, amount) ==
  /\ slashedPool >= amount
  /\ slashedPool' = slashedPool - amount
  /\ ethBalance' = ethBalance - amount
  /\ wallet' = [wallet EXCEPT ![recipient] = @ + amount]
  /\ UNCHANGED <<stakes, totalStaked, now>>

OwnerCall ==
  \E u \in Users :
    \/ \E amount \in Amounts :
         \/ lockStake(u, amount)
         \/ unlockStake(u, amount)
         \/ distributeSlashedFunds(u, amount)
    \/ slash(u)

-----------------------------------------------------------------------------

\* Blocks are mined; MaxTime bounds the clock.
Tick ==
  /\ now < MaxTime
  /\ now' = now + 1
  /\ UNCHANGED stakingVars

Init == StakingInit /\ now = 0

Next == StakerCall \/ OwnerCall \/ Tick

vars == <<stakes, totalStaked, slashedPool, ethBalance, wallet, now>>

Spec == Init /\ [][Next]_vars

-----------------------------------------------------------------------------

StakingTypeOK ==
  /\ stakes \in [Users -> Stake]
  /\ totalStaked \in [StakeTypes -> Nat]
  /\ slashedPool \in Nat
  /\ ethBalance \in Nat
  /\ wallet \in [Users -> Nat]

\* The variables stay in the ranges of their Solidity types: in particular no
\* accepted call of StakingManager.sol ever makes an unsigned amount negative.
TypeOK == StakingTypeOK /\ now \in Nat

\* Locked stake is part of the stake: however locks, unbonding, rounded slashes
\* and top-ups of StakingManager.sol interleave, amount - lockedAmount (read
\* unchecked for underflow by getAvailableStake and hasVerifierStake) is never
\* negative, so a view of the contract never reverts.
LockedWithinStake == \A u \in Users : stakes[u].lockedAmount <= stakes[u].amount

\* Every wei the contract owes (stakes, stakes being unbonded, the slashed
\* pool) is a wei it holds, and it holds no other.
FullyBacked ==
  ethBalance = SumFunction([u \in Users |-> stakes[u].amount + stakes[u].unbondingAmount])
                 + slashedPool

\* totalStaked is the sum of the live stakes of each type, through slashing,
\* unbonding and restaking under the other type.
TotalsAgree ==
  \A t \in StakeTypes :
    totalStaked[t] =
      SumFunction([u \in Users |-> IF stakes[u].stakeType = t THEN stakes[u].amount ELSE 0])

\* A position that completeUnbonding closed holds nothing: stakeAsVerifier and
\* stakeAsAuditor overwrite the record of an inactive staker, and would
\* otherwise erase stake, locks or a pending withdrawal.
InactiveHoldsNothing ==
  \A u \in Users : ~stakes[u].active =>
    stakes[u].amount = 0 /\ stakes[u].lockedAmount = 0 /\ stakes[u].unbondingAmount = 0

\* A staker is paid only what the unbonding period has released or what the
\* owner distributes from the slashed pool: stake leaves the contract no sooner
\* than UNBONDING_PERIOD after it left the staked amount.
PayoutsAreReleased ==
  [][\A u \in Users : wallet'[u] > wallet[u] =>
       \/ /\ wallet'[u] - wallet[u] = stakes[u].unbondingAmount
          /\ stakes[u].unbondingTime <= now
          /\ stakes'[u].unbondingAmount = 0
       \/ wallet'[u] - wallet[u] = slashedPool - slashedPool']_vars

\* The books of StakingManager.sol are in order: four records of the same money (the
\* stakes, their totals, the pool, the balance), each changed by several functions, agree.
StakesAreSound ==
  /\ TypeOK
  /\ LockedWithinStake
  /\ FullyBacked
  /\ TotalsAgree
  /\ InactiveHoldsNothing
=============================================================================
