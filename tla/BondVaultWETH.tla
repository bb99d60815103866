---------------------------- MODULE BondVaultWETH ----------------------------
(***************************************************************************)
(* The WETH bonds of verifiers (contracts/BondVaultWETH.sol): users deposit*)
(* and withdraw, the marketplace locks and unlocks per task, the dispute   *)
(* ladder slashes, and both pay rewards from what they funded.  No contract*)
(* of the repository calls the vault yet, so the marketplace and the ladder*)
(* are arbitrary callers of the functions they are authorised for.         *)
(***************************************************************************)
EXTENDS Integers, FiniteSets, Functions

CONSTANTS
  Holders,
  Tasks,        \* task identifiers
  BondAmounts,      \* the amounts a call may carry
  HolderWeth,  \* WETH (or ETH to wrap) of each user: bounds the deposits
  InitialFunds, \* WETH of the marketplace and the ladder: bounds fundVault
  MaxLock,      \* largest lock of one task explored: slashes leave the locks per task behind
  MaxOverdraft  \* how far beyond the reserve rewards are explored

ASSUME VaultConstants ==
  /\ IsFiniteSet(Holders)
  /\ IsFiniteSet(Tasks)
  /\ BondAmounts \subseteq Nat
  /\ HolderWeth \in Nat
  /\ InitialFunds \in Nat
  /\ MaxLock \in Nat
  /\ MaxOverdraft \in Nat

VARIABLES
  totalBondOf,    \* user => free and locked bond
  totalLockedOf,  \* user => locked bond
  lockedBondOf,   \* task => user => bond locked for the task
  vaultWeth,      \* WETH held by the vault
  paused,
  userWeth,       \* user => WETH outside the vault
  funds,          \* WETH the two authorised contracts own
  reserve,        \* history variable: funded minus paid as rewards (not recorded by the contract)
  slashedUsers    \* history variable: users slashed so far

vaultVars == <<totalBondOf, totalLockedOf, lockedBondOf, vaultWeth, paused, userWeth, funds,
          reserve, slashedUsers>>

VaultInit ==
  /\ totalBondOf = [u \in Holders |-> 0]
  /\ totalLockedOf = [u \in Holders |-> 0]
  /\ lockedBondOf = [t \in Tasks |-> [u \in Holders |-> 0]]
  /\ vaultWeth = 0
  /\ paused = FALSE
  /\ userWeth = [u \in Holders |-> HolderWeth]
  /\ funds = InitialFunds
  /\ reserve = 0
  /\ slashedUsers = {}

freeBondOf(u) == totalBondOf[u] - totalLockedOf[u]

-----------------------------------------------------------------------------

\* deposit and depositETH: the WETH is the user's own or wrapped on the way.
deposit(u, amount) ==
  /\ ~paused
  /\ amount > 0
  /\ userWeth[u] >= amount
  /\ userWeth' = [userWeth EXCEPT ![u] = @ - amount]
  /\ vaultWeth' = vaultWeth + amount
  /\ totalBondOf' = [totalBondOf EXCEPT ![u] = @ + amount]
  /\ UNCHANGED <<totalLockedOf, lockedBondOf, paused, funds, reserve, slashedUsers>>

withdraw(u, amount) ==
  /\ ~paused
  /\ amount > 0
  /\ freeBondOf(u) >= amount
  /\ vaultWeth >= amount
  /\ totalBondOf' = [totalBondOf EXCEPT ![u] = @ - amount]
  /\ vaultWeth' = vaultWeth - amount
  /\ userWeth' = [userWeth EXCEPT ![u] = @ + amount]
  /\ UNCHANGED <<totalLockedOf, lockedBondOf, paused, funds, reserve, slashedUsers>>

lockBond(t, u, amount) ==
  /\ ~paused
  /\ amount > 0
  /\ freeBondOf(u) >= amount
  /\ lockedBondOf[t][u] + amount <= MaxLock
  /\ lockedBondOf' = [lockedBondOf EXCEPT ![t][u] = @ + amount]
  /\ totalLockedOf' = [totalLockedOf EXCEPT ![u] = @ + amount]
  /\ UNCHANGED <<totalBondOf, vaultWeth, paused, userWeth, funds, reserve, slashedUsers>>

\* The second subtraction is checked by the compiler: it reverts below zero.
unlockBond(t, u, amount) ==
  /\ ~paused
  /\ amount > 0
  /\ lockedBondOf[t][u] >= amount
  /\ totalLockedOf[u] >= amount
  /\ lockedBondOf' = [lockedBondOf EXCEPT ![t][u] = @ - amount]
  /\ totalLockedOf' = [totalLockedOf EXCEPT ![u] = @ - amount]
  /\ UNCHANGED <<totalBondOf, vaultWeth, paused, userWeth, funds, reserve, slashedUsers>>

BondTaken(available, amount) == IF amount > available THEN available ELSE amount

\* The share of the locked bond a slash takes, rounded down and capped.
LockedReduction(locked, slashed, available) ==
  LET share == (locked * slashed) \div available
  IN  IF share > locked THEN locked ELSE share

M_slashBond(u, amount, to) ==
  LET available == totalBondOf[u]
      slashed == BondTaken(available, amount)
  IN  /\ ~paused
      /\ amount > 0
      /\ available > 0
      /\ vaultWeth >= amount
      /\ totalBondOf' = [totalBondOf EXCEPT ![u] = @ - slashed]
      /\ totalLockedOf' = [totalLockedOf EXCEPT ![u] = @ - LockedReduction(@, slashed, available)]
      /\ vaultWeth' = vaultWeth - amount
      /\ userWeth' = [userWeth EXCEPT ![to] = @ + amount]
      /\ slashedUsers' = slashedUsers \union {u}
      /\ UNCHANGED <<lockedBondOf, paused, funds, reserve>>

\* A slash takes locked and free bond alike; the locks per task are left as they were.
slashBond(u, amount, to) ==
  LET available == totalBondOf[u]
      slashed == BondTaken(available, amount)
  IN  /\ ~paused
      /\ amount > 0
      /\ available > 0
      /\ vaultWeth >= slashed
      /\ totalBondOf' = [totalBondOf EXCEPT ![u] = @ - slashed]
      /\ totalLockedOf' = [totalLockedOf EXCEPT ![u] = @ - LockedReduction(@, slashed, available)]
      /\ vaultWeth' = vaultWeth - slashed
      /\ userWeth' = [userWeth EXCEPT ![to] = @ + slashed]
      /\ slashedUsers' = slashedUsers \union {u}
      /\ UNCHANGED <<lockedBondOf, paused, funds, reserve>>

payReward(to, amount) ==
  /\ ~paused
  /\ amount > 0
  /\ vaultWeth >= amount
  /\ reserve - amount >= -MaxOverdraft
  /\ vaultWeth' = vaultWeth - amount
  /\ userWeth' = [userWeth EXCEPT ![to] = @ + amount]
  /\ reserve' = reserve - amount
  /\ UNCHANGED <<totalBondOf, totalLockedOf, lockedBondOf, paused, funds, slashedUsers>>

fundVault(amount) ==
  /\ ~paused
  /\ amount > 0
  /\ funds >= amount
  /\ funds' = funds - amount
  /\ vaultWeth' = vaultWeth + amount
  /\ reserve' = reserve + amount
  /\ UNCHANGED <<totalBondOf, totalLockedOf, lockedBondOf, paused, userWeth, slashedUsers>>

\* pause and unpause of the owner.
SetPaused(p) ==
  /\ paused # p
  /\ paused' = p
  /\ UNCHANGED <<totalBondOf, totalLockedOf, lockedBondOf, vaultWeth, userWeth, funds, reserve,
                 slashedUsers>>

pause == SetPaused(TRUE)

unpause == SetPaused(FALSE)

VaultNext ==
  \/ \E u \in Holders, amount \in BondAmounts :
       \/ deposit(u, amount)
       \/ withdraw(u, amount)
       \/ \E t \in Tasks : lockBond(t, u, amount)
       \/ \E t \in Tasks : unlockBond(t, u, amount)
       \/ \E to \in Holders : slashBond(u, amount, to)
       \/ payReward(u, amount)
  \/ \E amount \in BondAmounts : fundVault(amount)
  \/ pause
  \/ unpause

VaultSpec == VaultInit /\ [][VaultNext]_vaultVars

-----------------------------------------------------------------------------

\* The variables stay in the ranges of their Solidity types.
VaultTypeOK ==
  /\ totalBondOf \in [Holders -> Nat]
  /\ totalLockedOf \in [Holders -> Nat]
  /\ lockedBondOf \in [Tasks -> [Holders -> Nat]]
  /\ vaultWeth \in Nat
  /\ paused \in BOOLEAN
  /\ userWeth \in [Holders -> Nat]
  /\ funds \in Nat
  /\ reserve \in Int
  /\ slashedUsers \subseteq Holders

\* BondVaultWETH.test.ts:426 states it for one deposit and one lock: however slashes
\* round (slashBond reduces the locked bond in proportion, rounded down), the bond
\* covers the locked bond, so freeBondOf never underflows and freezes the account.
TotalCoversLocked == \A u \in Holders : totalLockedOf[u] <= totalBondOf[u]

\* The vault holds exactly the bonds and the reserve: a capped slash, a wrapped
\* deposit or a withdrawal creates and loses no WETH.
VaultExact ==
  vaultWeth = SumFunction(totalBondOf) + reserve

LockedForTasks(u) == SumFunction([t \in Tasks |-> lockedBondOf[t][u]])

\* Until a user is slashed, its locked bond is the sum of its locks per task.
LocksAddUp == \A u \in Holders \ slashedUsers : totalLockedOf[u] = LockedForTasks(u)

\* The books of BondVaultWETH.sol are in order, through rounded slashes and overdrawn
\* rewards: the WETH held, the bonds, the locks in total and per task agree.
BondsAreSound ==
  /\ VaultTypeOK
  /\ TotalCoversLocked
  /\ VaultExact
  /\ LocksAddUp
=============================================================================
