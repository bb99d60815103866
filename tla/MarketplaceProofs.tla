--------------------------- MODULE MarketplaceProofs ---------------------------
(***************************************************************************)
(* Theorems about StakingManager, and about VerifierMarketplace with the   *)
(* staking and the rewards it calls.  The staking goes stake by stake:     *)
(* GoodStake says what is true of one record, each operator on a record    *)
(* preserves it, and every action replaces at most one record by a good    *)
(* one.  For the marketplace the inductive invariant MarketInv says of     *)
(* each task what its phase implies about its record, evaluations and      *)
(* bonds, and of each reputation which tasks it counts; one lemma per      *)
(* function keeps it.  EscrowGood adds the accounts of fees and bonds,     *)
(* LocksGood those of locked stake.                                        *)
(***************************************************************************)
EXTENDS VerifierMarketplace, SumTheorems, FiniteSetTheorems, TLAPS

(***************************************************************************)
(* The staking manager on its own                                          *)
(***************************************************************************)
\* What holds of the record of one staker at all times.
GoodStake(s) ==
  /\ s \in Stake
  /\ s.lockedAmount <= s.amount
  /\ ~s.active => s.amount = 0 /\ s.lockedAmount = 0 /\ s.unbondingAmount = 0

\* The inductive invariant behind the locks: every record is good.
StakesGood ==
  /\ stakes \in [Users -> Stake]
  /\ \A u \in Users : GoodStake(stakes[u])
  /\ now \in Nat

-----------------------------------------------------------------------------
(* The operators on one record.                                            *)

\* StakingManager.sol:196 rounds half of the locked stake down.
LEMMA SlashIsPartOfLock ==
  ASSUME NEW s, GoodStake(s)
  PROVE  SlashAmount(s) \in 0..s.lockedAmount
<1>1. s.lockedAmount \in Nat
  BY DEF GoodStake, Stake
<1> DEFINE l == s.lockedAmount
<1>2. \A n \in Nat : (n * 50) \div 100 \in 0..n
  OBVIOUS
<1> QED
  BY <1>1, <1>2 DEF SlashAmount, SLASH_PERCENTAGE

\* A lock within the available stake, an unlock within the locks and a slash
\* leave a good record.
LEMMA LockKeepsGood ==
  ASSUME NEW s, NEW amount \in Nat, GoodStake(s), CanLock(s, amount)
  PROVE  GoodStake(Locked(s, amount))
BY DEF GoodStake, Stake, CanLock, Locked, AvailableStake

\* unlockStake (StakingManager.sol:176) gives back no more than is locked.
LEMMA UnlockKeepsGood ==
  ASSUME NEW s, NEW amount \in Nat, GoodStake(s), CanUnlock(s, amount)
  PROVE  GoodStake(Unlocked(s, amount))
BY DEF GoodStake, Stake, CanUnlock, Unlocked

\* slash (StakingManager.sol:191) takes as much of the lock as of the stake, so the rest of
\* the lock is still covered.
LEMMA SlashKeepsGood ==
  ASSUME NEW s, GoodStake(s), CanSlash(s)
  PROVE  GoodStake(Slashed(s))
<1> DEFINE a == SlashAmount(s)
<1>1. a \in 0..s.lockedAmount
  BY SlashIsPartOfLock
<1>2. /\ s \in Stake /\ s.active
      /\ s.lockedAmount <= s.amount
  BY DEF GoodStake, CanSlash
<1>3. /\ s.lockedAmount - a \in Nat
      /\ s.amount - a \in Nat
      /\ s.lockedAmount - a <= s.amount - a
  BY <1>1, <1>2 DEF Stake
<1> DEFINE t == [s EXCEPT !.lockedAmount = @ - a]
           r == [t EXCEPT !.amount = @ - a]
<1>4. Slashed(s) = r
  BY DEF Slashed
<1>5. /\ t \in Stake /\ t.active
      /\ t.lockedAmount = s.lockedAmount - a
      /\ t.amount = s.amount
  BY <1>2, <1>3 DEF Stake
<1>6. ASSUME NEW x \in Stake, NEW n \in Nat
      PROVE  LET y == [x EXCEPT !.amount = n]
             IN  y \in Stake /\ y.amount = n /\ y.lockedAmount = x.lockedAmount
                   /\ y.active = x.active
  BY <1>6 DEF Stake
<1> HIDE DEF a, t
<1>7. GoodStake(r)
  BY <1>3, <1>5, <1>6 DEF GoodStake
<1> QED
  BY <1>4, <1>7

-----------------------------------------------------------------------------
(* The transactions.                                                       *)

\* Replacing one record by a good one keeps every record good.
LEMMA OneRecord ==
  ASSUME StakesGood, NEW u \in Users, NEW r, GoodStake(r),
         stakes' = [stakes EXCEPT ![u] = r], now' \in Nat
  PROVE  StakesGood'
BY DEF StakesGood, GoodStake

\* At deployment nobody has a record.
LEMMA InitGood == Init => StakesGood
BY DEF Init, StakingInit, StakesGood, GoodStake, NoStake, Stake, StakeTypes

\* The calls of a staker replace its record by a good one.
LEMMA StakerCallKeepsGood ==
  ASSUME StakesGood, StakerCall
  PROVE  StakesGood'
<1> USE StakingConstants
<1>1. PICK u \in Users :
        \/ \E value \in Amounts :
             \/ stakeAsVerifier(u, value)
             \/ stakeAsAuditor(u, value)
             \/ addStake(u, value)
             \/ startUnbonding(u, value)
        \/ completeUnbonding(u)
  BY DEF StakerCall
<1>2. /\ stakes \in [Users -> Stake]
      /\ now \in Nat
      /\ GoodStake(stakes[u])
  BY DEF StakesGood
<1>3. ASSUME NEW value \in Amounts, NEW type \in StakeTypes, NEW minimum \in Nat \ {0},
             StakeAs(u, type, minimum, value)
      PROVE  StakesGood'
  <2> DEFINE r == NewStake(type, value)
  <2>1. stakes' = [stakes EXCEPT ![u] = r]
    BY <1>3 DEF StakeAs
  <2>2. GoodStake(r)
    BY <1>3 DEF StakeAs, GoodStake, NewStake, Stake, StakeTypes
  <2> QED
    BY <1>3, <1>2, <2>1, <2>2, OneRecord DEF StakeAs
<1>4. ASSUME NEW value \in Amounts, addStake(u, value)
      PROVE  StakesGood'
  <2> DEFINE r == [stakes[u] EXCEPT !.amount = @ + value]
  <2>1. stakes' = [stakes EXCEPT ![u] = r]
    BY <1>4 DEF addStake
  <2>2. GoodStake(r)
    BY <1>2, <1>4 DEF addStake, GoodStake, Stake
  <2> QED
    BY <1>4, <1>2, <2>1, <2>2, OneRecord DEF addStake
<1>5. ASSUME NEW value \in Amounts, startUnbonding(u, value)
      PROVE  StakesGood'
  <2> DEFINE r == [stakes[u] EXCEPT !.amount = @ - value,
                                    !.unbondingAmount = value,
                                    !.unbondingTime = now + UNBONDING_PERIOD]
  <2>1. stakes' = [stakes EXCEPT ![u] = r]
    BY <1>2, <1>5 DEF startUnbonding
  <2>2. GoodStake(r)
    BY <1>2, <1>5 DEF startUnbonding, GoodStake, Stake, AvailableStake
  <2> QED
    BY <1>5, <1>2, <2>1, <2>2, OneRecord DEF startUnbonding
<1>6. ASSUME completeUnbonding(u)
      PROVE  StakesGood'
  <2> DEFINE r == [stakes[u] EXCEPT !.unbondingAmount = 0,
                                    !.unbondingTime = 0,
                                    !.active = @ /\ ~NothingLeft(stakes[u])]
  <2>1. stakes' = [stakes EXCEPT ![u] = r]
    BY <1>2, <1>6 DEF completeUnbonding
  <2>2. GoodStake(r)
    BY <1>2, <1>6 DEF completeUnbonding, GoodStake, Stake, NothingLeft
  <2> QED
    BY <1>6, <1>2, <2>1, <2>2, OneRecord DEF completeUnbonding
<1> QED
  BY <1>1, <1>3, <1>4, <1>5, <1>6 DEF stakeAsVerifier, stakeAsAuditor, StakeTypes

\* So do the calls of the owner, the marketplace.
LEMMA OwnerCallKeepsGood ==
  ASSUME StakesGood, OwnerCall
  PROVE  StakesGood'
<1> USE StakingConstants
<1>1. PICK u \in Users :
        \/ \E amount \in Amounts :
             \/ lockStake(u, amount)
             \/ unlockStake(u, amount)
             \/ distributeSlashedFunds(u, amount)
        \/ slash(u)
  BY DEF OwnerCall
<1>2. GoodStake(stakes[u]) /\ now \in Nat
  BY DEF StakesGood
<1>3. ASSUME NEW amount \in Amounts, lockStake(u, amount)
      PROVE  StakesGood'
  BY <1>2, <1>3, LockKeepsGood, OneRecord DEF lockStake
<1>4. ASSUME NEW amount \in Amounts, unlockStake(u, amount)
      PROVE  StakesGood'
  BY <1>2, <1>4, UnlockKeepsGood, OneRecord DEF unlockStake
<1>5. ASSUME NEW amount \in Amounts, distributeSlashedFunds(u, amount)
      PROVE  StakesGood'
  BY <1>5 DEF distributeSlashedFunds, StakesGood, GoodStake
<1>6. ASSUME slash(u)
      PROVE  StakesGood'
  BY <1>2, <1>6, SlashKeepsGood, OneRecord DEF slash
<1> QED
  BY <1>1, <1>3, <1>4, <1>5, <1>6

\* Every step keeps every record good; time changes none.
LEMMA NextKeepsGood == StakesGood /\ [Next]_vars => StakesGood'
<1> SUFFICES ASSUME StakesGood, [Next]_vars
             PROVE  StakesGood'
  OBVIOUS
<1>1. CASE StakerCall
  BY <1>1, StakerCallKeepsGood
<1>2. CASE OwnerCall
  BY <1>2, OwnerCallKeepsGood
<1>3. CASE Tick
  BY <1>3 DEF Tick, stakingVars, StakesGood, GoodStake
<1>4. CASE UNCHANGED vars
  BY <1>4 DEF vars, StakesGood, GoodStake
<1> QED
  BY <1>1, <1>2, <1>3, <1>4 DEF Next

-----------------------------------------------------------------------------

\* Whatever the number of stakers, the amounts and the lengths of time, no
\* sequence of accepted calls of StakingManager.sol locks more of a stake than
\* there is: getAvailableStake and hasVerifierStake never underflow.
THEOREM LocksAreCovered == Spec => []LockedWithinStake
<1>1. StakesGood => LockedWithinStake
  BY DEF StakesGood, GoodStake, LockedWithinStake
<1> QED
  BY InitGood, NextKeepsGood, <1>1, PTL DEF Spec

\* A position that is not active holds no stake, no lock and no withdrawal, so
\* staking again (StakingManager.sol:66 and :87) overwrites nothing.
THEOREM ClosedPositionsAreEmpty == Spec => []InactiveHoldsNothing
<1>1. StakesGood => InactiveHoldsNothing
  BY DEF StakesGood, GoodStake, InactiveHoldsNothing
<1> QED
  BY InitGood, NextKeepsGood, <1>1, PTL DEF Spec

-----------------------------------------------------------------------------
(* The ledger: what the contract holds and what totalStaked says, as sums  *)
(* over the stakers.                                                       *)

\* What the contract owes each staker.
HeldFor(st) == [u \in Users |-> st[u].amount + st[u].unbondingAmount]

\* The live stakes of one type, by staker.
StakedAs(st, t) == [u \in Users |-> IF st[u].stakeType = t THEN st[u].amount ELSE 0]

\* The inductive invariant behind the money: types, backing and totals.
Ledger == StakingTypeOK /\ FullyBacked /\ TotalsAgree

\* Both sums change by what changes in the record of u.
SumsMove(st, new, u) ==
  /\ SumFunction(HeldFor(new)) =
       SumFunction(HeldFor(st)) + (new[u].amount + new[u].unbondingAmount)
         - (st[u].amount + st[u].unbondingAmount)
  /\ \A t \in StakeTypes :
       SumFunction(StakedAs(new, t)) =
         SumFunction(StakedAs(st, t)) + (IF new[u].stakeType = t THEN new[u].amount ELSE 0)
           - (IF st[u].stakeType = t THEN st[u].amount ELSE 0)

\* If two states of the records differ for u only, SumsMove holds between them.
LEMMA SumsOfOneRecord ==
  ASSUME NEW st \in [Users -> Stake], NEW new \in [Users -> Stake], NEW u \in Users,
         \A v \in Users \ {u} : new[v] = st[v]
  PROVE  SumsMove(st, new, u)
<1> USE StakingConstants
<1>1. \A s \in Stake : s.amount \in Nat /\ s.unbondingAmount \in Nat
  BY DEF Stake
<1>2. SumFunction(HeldFor(new)) =
        SumFunction(HeldFor(st)) + (new[u].amount + new[u].unbondingAmount)
          - (st[u].amount + st[u].unbondingAmount)
  <2> DEFINE f == HeldFor(st)
             h == HeldFor(new)
  <2>1. /\ f \in [Users -> Int] /\ h \in [Users -> Int]
        /\ \A v \in Users \ {u} : f[v] = h[v]
    BY <1>1 DEF HeldFor
  <2>2. /\ f[u] = st[u].amount + st[u].unbondingAmount
        /\ h[u] = new[u].amount + new[u].unbondingAmount
    BY DEF HeldFor
  <2> HIDE DEF f, h
  <2>3. SumFunction(h) = SumFunction(f) + h[u] - f[u]
    BY <2>1, SumChanged
  <2> QED BY <2>2, <2>3 DEF f, h
<1>3. ASSUME NEW t \in StakeTypes
      PROVE  SumFunction(StakedAs(new, t)) =
               SumFunction(StakedAs(st, t)) + (IF new[u].stakeType = t THEN new[u].amount ELSE 0)
                 - (IF st[u].stakeType = t THEN st[u].amount ELSE 0)
  <2> DEFINE f == StakedAs(st, t)
             h == StakedAs(new, t)
  <2>1. /\ f \in [Users -> Int] /\ h \in [Users -> Int]
        /\ \A v \in Users \ {u} : f[v] = h[v]
    BY <1>1 DEF StakedAs
  <2>2. /\ f[u] = IF st[u].stakeType = t THEN st[u].amount ELSE 0
        /\ h[u] = IF new[u].stakeType = t THEN new[u].amount ELSE 0
    BY DEF StakedAs
  <2> HIDE DEF f, h
  <2>3. SumFunction(h) = SumFunction(f) + h[u] - f[u]
    BY <2>1, SumChanged
  <2> QED BY <2>2, <2>3 DEF f, h
<1> QED
  BY <1>2, <1>3 DEF SumsMove

\* The sums are naturals, so what equals them is.
LEMMA SumsAreNatural ==
  ASSUME NEW st \in [Users -> Stake]
  PROVE  /\ SumFunction(HeldFor(st)) \in Nat
         /\ \A t \in StakeTypes : SumFunction(StakedAs(st, t)) \in Nat
<1> USE StakingConstants
<1>1. HeldFor(st) \in [Users -> Nat]
  BY DEF HeldFor, Stake
<1>2. \A t \in StakeTypes : StakedAs(st, t) \in [Users -> Nat]
  BY DEF StakedAs, Stake
<1> QED
  BY <1>1, <1>2, SumBounds

\* At deployment every sum is a sum of zeros.
LEMMA InitLedger == Init => Ledger
<1> SUFFICES ASSUME Init PROVE Ledger
  OBVIOUS
<1> USE StakingConstants
<1>1. StakingTypeOK
  BY DEF Init, StakingInit, StakingTypeOK, NoStake, Stake, StakeTypes
<1>2. /\ HeldFor(stakes) \in [Users -> Int]
      /\ \A u \in Users : HeldFor(stakes)[u] = 0
  BY DEF Init, StakingInit, HeldFor, NoStake
<1>3. \A t \in StakeTypes :
        /\ StakedAs(stakes, t) \in [Users -> Int]
        /\ \A u \in Users : StakedAs(stakes, t)[u] = 0
  BY DEF Init, StakingInit, StakedAs, NoStake
<1>4. /\ SumFunction(HeldFor(stakes)) = 0
      /\ \A t \in StakeTypes : SumFunction(StakedAs(stakes, t)) = 0
  BY <1>2, <1>3, SumZero
<1>5. FullyBacked
  BY <1>4 DEF FullyBacked, HeldFor, Init, StakingInit
<1>6. TotalsAgree
  BY <1>4 DEF TotalsAgree, StakedAs, Init, StakingInit
<1> QED
  BY <1>1, <1>5, <1>6 DEF Ledger

\* The transaction changes the record of u only, and moves the contract's ETH and the
\* totals by what it changes in the record and the pool.
LedgerMoves(u) ==
  LET old == stakes[u]
      new == stakes'[u]
  IN  /\ \A v \in Users \ {u} : stakes'[v] = stakes[v]
      /\ slashedPool' \in Nat
      /\ wallet' \in [Users -> Nat]
      /\ ethBalance' = ethBalance + (slashedPool' - slashedPool)
                         + (new.amount + new.unbondingAmount) - (old.amount + old.unbondingAmount)
      /\ totalStaked' \in [StakeTypes -> Int]
      /\ \A t \in StakeTypes :
           totalStaked'[t] = totalStaked[t] + (IF new.stakeType = t THEN new.amount ELSE 0)
                               - (IF old.stakeType = t THEN old.amount ELSE 0)

\* A transaction that moves money and totals as it moves one record keeps the ledger.
LEMMA LedgerStep ==
  ASSUME Ledger, StakesGood', NEW u \in Users, LedgerMoves(u)
  PROVE  Ledger'
<1> DEFINE old == stakes[u]
           new == stakes'[u]
           held == SumFunction(HeldFor(stakes))
           held1 == SumFunction(HeldFor(stakes'))
           staked(t) == SumFunction(StakedAs(stakes, t))
           staked1(t) == SumFunction(StakedAs(stakes', t))
<1>1. /\ stakes \in [Users -> Stake] /\ stakes' \in [Users -> Stake]
      /\ old \in Stake /\ new \in Stake
      /\ slashedPool \in Nat
  BY DEF Ledger, StakingTypeOK, StakesGood
<1>2. SumsMove(stakes, stakes', u)
  BY <1>1, SumsOfOneRecord DEF LedgerMoves
<1>3. /\ held \in Nat /\ held1 \in Nat
      /\ \A t \in StakeTypes : staked(t) \in Nat /\ staked1(t) \in Nat
  BY <1>1, SumsAreNatural
<1>4. /\ ethBalance = held + slashedPool
      /\ \A t \in StakeTypes : totalStaked[t] = staked(t)
  BY DEF Ledger, FullyBacked, TotalsAgree, HeldFor, StakedAs
<1>5. /\ old.amount \in Nat /\ old.unbondingAmount \in Nat
      /\ new.amount \in Nat /\ new.unbondingAmount \in Nat
  BY <1>1 DEF Stake
<1>6. /\ held1 = held + (new.amount + new.unbondingAmount) - (old.amount + old.unbondingAmount)
      /\ \A t \in StakeTypes :
           staked1(t) = staked(t) + (IF new.stakeType = t THEN new.amount ELSE 0)
                          - (IF old.stakeType = t THEN old.amount ELSE 0)
  BY <1>2 DEF SumsMove
<1>7. /\ slashedPool' \in Nat /\ wallet' \in [Users -> Nat]
      /\ ethBalance' = ethBalance + (slashedPool' - slashedPool)
                         + (new.amount + new.unbondingAmount) - (old.amount + old.unbondingAmount)
      /\ totalStaked' \in [StakeTypes -> Int]
      /\ \A t \in StakeTypes :
           totalStaked'[t] = totalStaked[t] + (IF new.stakeType = t THEN new.amount ELSE 0)
                               - (IF old.stakeType = t THEN old.amount ELSE 0)
  BY DEF LedgerMoves
<1> HIDE DEF held, held1, staked, staked1, old, new
<1>8. ethBalance' = held1 + slashedPool' /\ ethBalance' \in Nat
  BY <1>1, <1>3, <1>4, <1>5, <1>6, <1>7
<1>9. \A t \in StakeTypes : totalStaked'[t] = staked1(t) /\ totalStaked'[t] \in Nat
  BY <1>3, <1>4, <1>6, <1>7
<1>10. totalStaked' \in [StakeTypes -> Nat]
  BY <1>7, <1>9
<1>11. StakingTypeOK'
  BY <1>1, <1>7, <1>8, <1>10 DEF StakingTypeOK
<1>12. FullyBacked'
  BY <1>8 DEF FullyBacked, HeldFor, held1
<1>13. TotalsAgree'
  BY <1>9 DEF TotalsAgree, StakedAs, staked1
<1> QED
  BY <1>11, <1>12, <1>13 DEF Ledger

\* A first stake adds its value to what is held, what is owed and the total of its type; the
\* record it overwrites is empty (InactiveHoldsNothing).
LEMMA StakeAsKeepsLedger ==
  ASSUME Ledger, StakesGood, StakesGood', NEW u \in Users, NEW value \in Amounts,
         NEW type \in StakeTypes, NEW minimum \in Nat \ {0}, StakeAs(u, type, minimum, value)
  PROVE  Ledger'
<1> USE StakingConstants
<1>1. /\ stakes \in [Users -> Stake]
      /\ slashedPool \in Nat /\ wallet \in [Users -> Nat] /\ ethBalance \in Nat
      /\ totalStaked \in [StakeTypes -> Nat] /\ value \in Nat
  BY DEF Ledger, StakingTypeOK
<1>2. stakes[u].amount = 0 /\ stakes[u].unbondingAmount = 0
  BY DEF StakesGood, GoodStake, StakeAs
<1>3. /\ stakes'[u].amount = value
      /\ stakes'[u].unbondingAmount = 0
      /\ stakes'[u].stakeType = type
  BY <1>1 DEF StakeAs, NewStake
<1>4. LedgerMoves(u)
  BY <1>1, <1>2, <1>3 DEF LedgerMoves, StakeAs, Pay
<1> QED
  BY <1>4, LedgerStep

\* Every call of a staker keeps the ledger.
LEMMA StakerCallKeepsLedger ==
  ASSUME Ledger, StakesGood, StakesGood', StakerCall
  PROVE  Ledger'
<1> USE StakingConstants
<1>1. PICK u \in Users :
        \/ \E value \in Amounts :
             \/ stakeAsVerifier(u, value)
             \/ stakeAsAuditor(u, value)
             \/ addStake(u, value)
             \/ startUnbonding(u, value)
        \/ completeUnbonding(u)
  BY DEF StakerCall
<1>2. /\ stakes \in [Users -> Stake] /\ stakes[u] \in Stake
      /\ stakes[u].stakeType \in StakeTypes
      /\ stakes[u].amount \in Nat /\ stakes[u].unbondingAmount \in Nat
      /\ slashedPool \in Nat /\ wallet \in [Users -> Nat] /\ ethBalance \in Nat
      /\ totalStaked \in [StakeTypes -> Nat]
  BY DEF StakesGood, Stake, Ledger, StakingTypeOK
<1>3. ASSUME NEW value \in Amounts, addStake(u, value)
      PROVE  LedgerMoves(u)
  <2>1. /\ stakes'[u].amount = stakes[u].amount + value
        /\ stakes'[u].unbondingAmount = stakes[u].unbondingAmount
        /\ stakes'[u].stakeType = stakes[u].stakeType
    BY <1>2, <1>3 DEF addStake, Stake
  <2> QED BY <1>2, <1>3, <2>1 DEF addStake, Pay, LedgerMoves
<1>4. ASSUME NEW value \in Amounts, startUnbonding(u, value)
      PROVE  LedgerMoves(u)
  <2>1. /\ stakes'[u].amount = stakes[u].amount - value
        /\ stakes'[u].unbondingAmount = value
        /\ stakes'[u].stakeType = stakes[u].stakeType
        /\ stakes[u].unbondingAmount = 0
    BY <1>2, <1>4 DEF startUnbonding, Stake
  <2> QED BY <1>2, <1>4, <2>1 DEF startUnbonding, LedgerMoves
<1>5. ASSUME completeUnbonding(u)
      PROVE  LedgerMoves(u)
  <2>1. /\ stakes'[u].amount = stakes[u].amount
        /\ stakes'[u].unbondingAmount = 0
        /\ stakes'[u].stakeType = stakes[u].stakeType
    BY <1>2, <1>5 DEF completeUnbonding, Stake
  <2> QED BY <1>2, <1>5, <2>1 DEF completeUnbonding, LedgerMoves
<1> QED
  BY <1>1, <1>3, <1>4, <1>5, LedgerStep, StakeAsKeepsLedger
     DEF stakeAsVerifier, stakeAsAuditor, StakeTypes

\* Every call of the owner keeps the ledger: a slash moves value from a stake to the pool,
\* a distribution out of both the pool and the contract.
LEMMA OwnerCallKeepsLedger ==
  ASSUME Ledger, StakesGood, StakesGood', OwnerCall
  PROVE  Ledger'
<1> USE StakingConstants
<1>1. PICK u \in Users :
        \/ \E amount \in Amounts :
             \/ lockStake(u, amount)
             \/ unlockStake(u, amount)
             \/ distributeSlashedFunds(u, amount)
        \/ slash(u)
  BY DEF OwnerCall
<1>2. /\ stakes \in [Users -> Stake] /\ stakes[u] \in Stake
      /\ stakes[u].stakeType \in StakeTypes
      /\ stakes[u].amount \in Nat /\ stakes[u].unbondingAmount \in Nat
      /\ slashedPool \in Nat /\ wallet \in [Users -> Nat] /\ ethBalance \in Nat
      /\ totalStaked \in [StakeTypes -> Nat]
  BY DEF StakesGood, Stake, Ledger, StakingTypeOK
<1>3. ASSUME NEW amount \in Amounts, lockStake(u, amount) \/ unlockStake(u, amount)
      PROVE  LedgerMoves(u)
  <2>1. /\ stakes'[u].amount = stakes[u].amount
        /\ stakes'[u].unbondingAmount = stakes[u].unbondingAmount
        /\ stakes'[u].stakeType = stakes[u].stakeType
    BY <1>2, <1>3 DEF lockStake, unlockStake, Locked, Unlocked, Stake
  <2> QED BY <1>2, <1>3, <2>1 DEF lockStake, unlockStake, LedgerMoves
<1>4. ASSUME NEW amount \in Amounts, distributeSlashedFunds(u, amount)
      PROVE  LedgerMoves(u)
  BY <1>2, <1>4 DEF distributeSlashedFunds, LedgerMoves
<1>5. ASSUME slash(u)
      PROVE  LedgerMoves(u)
  <2> DEFINE a == SlashAmount(stakes[u])
  <2>1. a \in Nat
    BY SlashIsPartOfLock DEF StakesGood, GoodStake, Stake
  <2>2. /\ stakes' = [stakes EXCEPT ![u] = Slashed(@)]
        /\ slashedPool' = slashedPool + a
        /\ totalStaked' = [totalStaked EXCEPT ![stakes[u].stakeType] = @ - a]
        /\ ethBalance' = ethBalance /\ wallet' = wallet
    BY <1>5 DEF slash
  <2>3. /\ stakes'[u].amount = stakes[u].amount - a
        /\ stakes'[u].unbondingAmount = stakes[u].unbondingAmount
        /\ stakes'[u].stakeType = stakes[u].stakeType
    <3> HIDE DEF a
    <3> QED BY <1>2, <2>2 DEF Slashed, Stake, a
  <2> HIDE DEF a
  <2> QED BY <1>2, <2>1, <2>2, <2>3 DEF LedgerMoves
<1> QED
  BY <1>1, <1>3, <1>4, <1>5, LedgerStep

\* Every step keeps the ledger.
LEMMA NextKeepsLedger == StakesGood /\ Ledger /\ [Next]_vars => Ledger'
<1> SUFFICES ASSUME StakesGood, Ledger, [Next]_vars
             PROVE  Ledger'
  OBVIOUS
<1>1. StakesGood'
  BY NextKeepsGood
<1>2. CASE StakerCall
  BY <1>1, <1>2, StakerCallKeepsLedger
<1>3. CASE OwnerCall
  BY <1>1, <1>3, OwnerCallKeepsLedger
<1>4. CASE Tick
  BY <1>4 DEF Tick, stakingVars, Ledger, StakingTypeOK, FullyBacked, TotalsAgree
<1>5. CASE UNCHANGED vars
  BY <1>5 DEF vars, Ledger, StakingTypeOK, FullyBacked, TotalsAgree
<1> QED
  BY <1>2, <1>3, <1>4, <1>5 DEF Next

\* The inductive invariant of the contract.
LEMMA LedgerAlways == Spec => [](StakesGood /\ Ledger)
<1>1. Init => StakesGood /\ Ledger
  BY InitGood, InitLedger
<1>2. StakesGood /\ Ledger /\ [Next]_vars => (StakesGood /\ Ledger)'
  BY NextKeepsGood, NextKeepsLedger
<1> QED
  BY <1>1, <1>2, PTL DEF Spec

\* For any number of stakers and any amounts the contract owes exactly what it holds:
\* stakes, stakes being unbonded and the slashed pool add up to its ETH.
THEOREM EveryWeiIsOwed == Spec => []FullyBacked
<1>1. StakesGood /\ Ledger => FullyBacked
  BY DEF Ledger
<1> QED
  BY LedgerAlways, <1>1, PTL

\* totalStaked of StakingManager.sol, kept by hand in five functions, is at all times the
\* sum of the live stakes of each type.
THEOREM TotalsAreSums == Spec => []TotalsAgree
<1>1. StakesGood /\ Ledger => TotalsAgree
  BY DEF Ledger
<1> QED
  BY LedgerAlways, <1>1, PTL

\* No accepted call makes an unsigned amount negative: the checked subtractions from
\* totalStaked, from a stake and from the contract's balance never revert for want of
\* what the books say is there.
THEOREM StakingTyped == Spec => []TypeOK
<1>1. StakesGood /\ Ledger => TypeOK
  BY DEF StakesGood, Ledger, TypeOK
<1> QED
  BY LedgerAlways, <1>1, PTL

\* The action of PayoutsAreReleased: who is paid, is paid what may be.
ReleasedPayouts ==
  \A u \in Users : wallet'[u] > wallet[u] =>
    \/ /\ wallet'[u] - wallet[u] = stakes[u].unbondingAmount
       /\ stakes[u].unbondingTime <= now
       /\ stakes'[u].unbondingAmount = 0
    \/ wallet'[u] - wallet[u] = slashedPool - slashedPool'

\* No step from a good state pays out anything else.
LEMMA StepsReleasePayouts ==
  ASSUME StakesGood, Ledger, [Next]_vars
  PROVE  [ReleasedPayouts]_vars
<1> USE StakingConstants
<1>1. /\ wallet \in [Users -> Nat] /\ slashedPool \in Nat
      /\ stakes \in [Users -> Stake]
      /\ \A u \in Users : stakes[u].unbondingAmount \in Nat
  BY DEF StakesGood, Ledger, StakingTypeOK, Stake
<1>2. ASSUME NEW u \in Users, NEW value \in Nat, Pay(u, value)
      PROVE  ReleasedPayouts
  BY <1>1, <1>2 DEF Pay, ReleasedPayouts
<1>3. ASSUME NEW u \in Users, completeUnbonding(u)
      PROVE  ReleasedPayouts
  <2> SUFFICES ASSUME NEW v \in Users, wallet'[v] > wallet[v]
               PROVE  /\ wallet'[v] - wallet[v] = stakes[v].unbondingAmount
                      /\ stakes[v].unbondingTime <= now
                      /\ stakes'[v].unbondingAmount = 0
    BY DEF ReleasedPayouts
  <2>1. v = u
    BY <1>1, <1>3 DEF completeUnbonding
  <2>2. stakes'[u].unbondingAmount = 0
    BY <1>1, <1>3 DEF completeUnbonding, Stake
  <2> QED BY <1>1, <1>3, <2>1, <2>2 DEF completeUnbonding, UnbondingElapsed
<1>4. ASSUME NEW u \in Users, NEW amount \in Amounts, distributeSlashedFunds(u, amount)
      PROVE  ReleasedPayouts
  BY <1>1, <1>4 DEF distributeSlashedFunds, ReleasedPayouts
<1>5. ASSUME wallet' = wallet
      PROVE  ReleasedPayouts
  BY <1>1, <1>5 DEF ReleasedPayouts
<1>6. CASE StakerCall
  BY <1>2, <1>3, <1>5, <1>6
     DEF StakerCall, stakeAsVerifier, stakeAsAuditor, StakeAs, addStake, startUnbonding
<1>7. CASE OwnerCall
  BY <1>4, <1>5, <1>7 DEF OwnerCall, lockStake, unlockStake, slash
<1>8. CASE Tick \/ UNCHANGED vars
  BY <1>5, <1>8 DEF Tick, stakingVars, vars
<1> QED
  BY <1>6, <1>7, <1>8 DEF Next

\* Whatever the interleaving, ETH leaves the contract only as an unbonding whose period
\* is over (StakingManager.sol:139) or out of the slashed pool (:214).
THEOREM PayoutsWait == Spec => PayoutsAreReleased
<1>1. (StakesGood /\ Ledger) /\ [Next]_vars => [ReleasedPayouts]_vars
  BY StepsReleasePayouts
<1>2. Spec => [][ReleasedPayouts]_vars
  BY LedgerAlways, <1>1, PTL DEF Spec
<1> QED
  BY <1>2 DEF PayoutsAreReleased, ReleasedPayouts

\* The books of StakingManager.sol are in order for every set of stakers and amounts.
THEOREM StakesStaySound == Spec => []StakesAreSound
<1>1. StakesGood => LockedWithinStake /\ InactiveHoldsNothing
  BY DEF StakesGood, GoodStake, LockedWithinStake, InactiveHoldsNothing
<1>2. StakesGood /\ Ledger => TypeOK /\ FullyBacked /\ TotalsAgree
  BY DEF StakesGood, Ledger, TypeOK
<1>3. StakesGood /\ Ledger => StakesAreSound
  BY <1>1, <1>2 DEF StakesAreSound
<1> QED
  BY LedgerAlways, <1>3, PTL

(***************************************************************************)
(* Scores and their median                                                 *)
(***************************************************************************)
\* m is a median of the scores of R, as finalize picks it.
IsMedian(m, score, R) ==
  /\ m \in {score[u] : u \in R}
  /\ Cardinality({u \in R : score[u] < m}) <= Cardinality(R) \div 2
  /\ Cardinality({u \in R : score[u] <= m}) > Cardinality(R) \div 2

\* The revealers whose score is at most n, and those whose score is less.
Upto(score, R, n) == {u \in R : score[u] <= n}

Below(score, R, n) == {u \in R : score[u] < n}

\* Counting them over the numbers instead of the scores.
LEMMA UptoBelow ==
  ASSUME NEW R, IsFiniteSet(R), NEW score, \A u \in R : score[u] \in Nat /\ score[u] <= 10000
  PROVE  /\ Upto(score, R, 10000) = R
         /\ Below(score, R, 0) = {}
         /\ \A n \in Nat : n # 0 => Below(score, R, n) = Upto(score, R, n - 1)
         /\ \A n \in Nat : n \notin {score[u] : u \in R} =>
              Below(score, R, n) = Upto(score, R, n)
         /\ \A n \in Nat : /\ Cardinality(Upto(score, R, n)) \in Nat
                           /\ Cardinality(Below(score, R, n)) \in Nat
<1>1. Upto(score, R, 10000) = R
  BY DEF Upto
<1>2. Below(score, R, 0) = {}
  BY DEF Below
<1>3. \A n \in Nat : n # 0 => Below(score, R, n) = Upto(score, R, n - 1)
  BY DEF Below, Upto
<1>4. \A n \in Nat : n \notin {score[u] : u \in R} => Below(score, R, n) = Upto(score, R, n)
  BY DEF Below, Upto
<1>5. \A n : Below(score, R, n) \in SUBSET R /\ Upto(score, R, n) \in SUBSET R
  BY DEF Below, Upto
<1>6. \A s \in SUBSET R : Cardinality(s) \in Nat
  BY FS_Subset, FS_CardinalityType
<1>7. \A n : /\ Cardinality(Upto(score, R, n)) \in Nat
             /\ Cardinality(Below(score, R, n)) \in Nat
  BY <1>5, <1>6
<1> QED
  BY <1>1, <1>2, <1>3, <1>4, <1>7

\* Some score is a median: the least number that more than half of them do not exceed.
LEMMA MedianExists ==
  ASSUME NEW R, IsFiniteSet(R), R # {}, NEW score,
         \A u \in R : score[u] \in Nat /\ score[u] <= 10000
  PROVE  IsMedian(Median(score, R), score, R)
<1> DEFINE k == Cardinality(R) \div 2
           T == {n \in Nat : Cardinality(Upto(score, R, n)) > k}
           scores == {score[u] : u \in R}
<1>1. /\ Cardinality(R) \in Nat \ {0}
      /\ Cardinality({}) = 0
  BY FS_CardinalityType, FS_EmptySet
<1>2. k \in Nat /\ k < Cardinality(R)
  BY <1>1
<1> HIDE DEF k
<1>3. Cardinality(Upto(score, R, 10000)) > k
  BY <1>2, UptoBelow
<1>4. T \subseteq Nat /\ 10000 \in T
  BY <1>3
<1>5. PICK n \in T : \A m \in T : ~(m < n)
  <2>1. T # {}
    BY <1>4
  <2>2. T \subseteq Nat
    OBVIOUS
  <2> HIDE DEF T
  <2> QED BY ONLY <2>1, <2>2, LeastNatural
<1>6. n \in Nat /\ Cardinality(Upto(score, R, n)) > k
  OBVIOUS
<1>7. Cardinality(Below(score, R, n)) <= k
  <2>1. CASE n = 0
    <3>1. Below(score, R, n) = {}
      BY <2>1, UptoBelow
    <3> QED BY <3>1, <1>1, <1>2
  <2>2. CASE n # 0
    <3>1. n - 1 \in Nat /\ n - 1 < n
      BY <1>6, <2>2
    <3>2. n - 1 \notin T
      BY <3>1, <1>5
    <3>3. ~(Cardinality(Upto(score, R, n - 1)) > k)
      BY <3>1, <3>2
    <3>4. /\ Below(score, R, n) = Upto(score, R, n - 1)
          /\ Cardinality(Upto(score, R, n - 1)) \in Nat
      BY <1>6, <2>2, <3>1, UptoBelow
    <3> QED BY <3>3, <3>4, <1>2
  <2> QED BY <2>1, <2>2
<1>8. n \in scores
  <2> SUFFICES ASSUME n \notin scores PROVE FALSE
    OBVIOUS
  <2>1. /\ Below(score, R, n) = Upto(score, R, n)
        /\ Cardinality(Upto(score, R, n)) \in Nat
    BY <1>6, UptoBelow
  <2> QED BY <2>1, <1>2, <1>6, <1>7
<1> DEFINE P(m) == /\ Cardinality(Below(score, R, m)) <= k
                   /\ Cardinality(Upto(score, R, m)) > k
<1>9. \E m \in scores : P(m)
  BY <1>6, <1>7, <1>8
<1>10. Median(score, R) = CHOOSE m \in scores : P(m)
  BY DEF Median, Below, Upto, k
<1>11. Median(score, R) \in scores /\ P(Median(score, R))
  <2> HIDE DEF P, scores
  <2> QED BY <1>9, <1>10
<1> QED
  BY <1>11 DEF IsMedian, Below, Upto, k

\* A score that more than half gave is the median: any other leaves it on one side.
LEMMA MajorityIsMedian ==
  ASSUME NEW R, IsFiniteSet(R), NEW score, \A u \in R : score[u] \in Nat,
         NEW m, IsMedian(m, score, R), NEW s \in Nat,
         2 * Cardinality({u \in R : score[u] = s}) > Cardinality(R)
  PROVE  m = s
<1> DEFINE k == Cardinality(R) \div 2
           A == {u \in R : score[u] = s}
           Less == {u \in R : score[u] < m}
           Most == {u \in R : score[u] <= m}
<1>1. /\ IsFiniteSet(A) /\ IsFiniteSet(Less) /\ IsFiniteSet(Most)
      /\ Cardinality(A) \in Nat /\ Cardinality(Less) \in Nat /\ Cardinality(Most) \in Nat
      /\ Cardinality(R) \in Nat
  BY FS_Subset, FS_CardinalityType
<1>2. m \in Nat /\ Cardinality(Less) <= k /\ Cardinality(Most) > k
  BY DEF IsMedian
<1>3. \A r, a \in Nat : 2 * a > r => a > r \div 2 /\ a >= r - (r \div 2)
  OBVIOUS
<1>4. Cardinality(A) > k /\ Cardinality(A) >= Cardinality(R) - k
  BY <1>1, <1>3
<1>5. ~(s < m)
  <2> SUFFICES ASSUME s < m PROVE FALSE
    OBVIOUS
  <2>1. A \subseteq Less
    OBVIOUS
  <2>2. Cardinality(A) <= Cardinality(Less)
    BY <2>1, <1>1, FS_Subset
  <2> QED BY <2>2, <1>1, <1>2, <1>4
<1>6. ~(m < s)
  <2> SUFFICES ASSUME m < s PROVE FALSE
    OBVIOUS
  <2>1. A \cap Most = {}
    BY <1>2
  <2>2. Cardinality(A \union Most) = Cardinality(A) + Cardinality(Most) - Cardinality(A \cap Most)
    BY <1>1, FS_Union
  <2>3. Cardinality(A \union Most) <= Cardinality(R)
    BY FS_Subset
  <2>4. Cardinality(A \cap Most) = 0
    BY <2>1, FS_EmptySet
  <2> QED BY <2>2, <2>3, <2>4, <1>1, <1>2, <1>4
<1> QED
  BY <1>2, <1>5, <1>6

(***************************************************************************)
(* Slashes and unlocks of one settlement                                   *)
(***************************************************************************)
\* What a slash takes of a record, field by field.
LEMMA SlashedFields ==
  ASSUME NEW s, GoodStake(s)
  PROVE  /\ Slashed(s).amount = s.amount - SlashAmount(s)
         /\ Slashed(s).lockedAmount = s.lockedAmount - SlashAmount(s)
         /\ Slashed(s).unbondingAmount = s.unbondingAmount
         /\ Slashed(s).stakeType = s.stakeType
<1> DEFINE a == SlashAmount(s)
           t == [s EXCEPT !.lockedAmount = @ - a]
           r == [t EXCEPT !.amount = @ - a]
<1>1. s \in Stake /\ a \in 0..s.lockedAmount /\ s.lockedAmount <= s.amount
  BY SlashIsPartOfLock DEF GoodStake
<1>2. Slashed(s) = r
  BY DEF Slashed
<1> HIDE DEF a
<1>3. s.lockedAmount - a \in Nat /\ s.amount - a \in Nat
  BY <1>1 DEF Stake
<1>4. /\ t \in Stake
      /\ t.lockedAmount = s.lockedAmount - a
      /\ t.amount = s.amount
      /\ t.unbondingAmount = s.unbondingAmount
      /\ t.stakeType = s.stakeType
  BY <1>1, <1>3 DEF Stake
<1>5. ASSUME NEW x \in Stake, NEW n \in Nat
      PROVE  LET y == [x EXCEPT !.amount = n]
             IN  /\ y.amount = n
                 /\ y.lockedAmount = x.lockedAmount
                 /\ y.unbondingAmount = x.unbondingAmount
                 /\ y.stakeType = x.stakeType
  BY <1>5 DEF Stake
<1> HIDE DEF t
<1>6. /\ r.amount = t.amount - a
      /\ r.lockedAmount = t.lockedAmount
      /\ r.unbondingAmount = t.unbondingAmount
      /\ r.stakeType = t.stakeType
  BY <1>3, <1>4, <1>5
<1> HIDE DEF r
<1> QED
  BY <1>2, <1>4, <1>6 DEF a

\* What _settleTask does to the stake of one evaluator with a lock of l: slash it if it is
\* hit, unlock what is left of l.
SettledStake(s, l, hit) ==
  LET cut == IF hit THEN SlashAmount(s) ELSE 0
  IN  Unlocked(IF hit THEN Slashed(s) ELSE s, IF cut >= l THEN 0 ELSE l - cut)

\* It leaves a good record, takes the cut from the stake, and frees at least l of the lock.
LEMMA SettledStakeIsGood ==
  ASSUME NEW s, GoodStake(s), NEW l \in Nat, NEW hit \in BOOLEAN, hit => CanSlash(s),
         NEW cut, cut = IF hit THEN SlashAmount(s) ELSE 0,
         CanUnlock(IF hit THEN Slashed(s) ELSE s, IF cut >= l THEN 0 ELSE l - cut)
  PROVE  LET n == SettledStake(s, l, hit)
         IN  /\ GoodStake(n)
             /\ cut \in Nat
             /\ n.amount = s.amount - cut
             /\ n.unbondingAmount = s.unbondingAmount
             /\ n.stakeType = s.stakeType
             /\ n.lockedAmount + l <= s.lockedAmount
<1> DEFINE t == IF hit THEN Slashed(s) ELSE s
           rest == IF cut >= l THEN 0 ELSE l - cut
           n == Unlocked(t, rest)
<1>1. /\ s \in Stake /\ s.lockedAmount \in Nat /\ s.amount \in Nat
  BY DEF GoodStake, Stake
<1>2. cut \in 0..s.lockedAmount
  BY <1>1, SlashIsPartOfLock
<1>3. /\ GoodStake(t)
      /\ t.amount = s.amount - cut
      /\ t.lockedAmount = s.lockedAmount - cut
      /\ t.unbondingAmount = s.unbondingAmount
      /\ t.stakeType = s.stakeType
  <2>1. CASE hit
    BY <2>1, SlashKeepsGood, SlashedFields
  <2>2. CASE ~hit
    BY <2>2, <1>1
  <2> QED BY <2>1, <2>2
<1>4. rest \in Nat /\ rest + cut >= l
  BY <1>1, <1>2
<1>5. CanUnlock(t, rest)
  OBVIOUS
<1>6. SettledStake(s, l, hit) = n
  BY DEF SettledStake
<1> HIDE DEF t, rest
<1>7. GoodStake(n)
  BY <1>3, <1>4, <1>5, UnlockKeepsGood
<1>8. /\ n.amount = t.amount
      /\ n.lockedAmount = t.lockedAmount - rest
      /\ n.unbondingAmount = t.unbondingAmount
      /\ n.stakeType = t.stakeType
  BY <1>3 DEF Unlocked, GoodStake, Stake
<1> HIDE DEF n
<1> QED
  BY <1>1, <1>2, <1>3, <1>4, <1>6, <1>7, <1>8

\* The records move by cut, the pool gains the cuts and the totals lose them.
CutsMove(cut) ==
  /\ cut \in [Users -> Nat]
  /\ \A u \in Users :
       /\ stakes'[u].amount = stakes[u].amount - cut[u]
       /\ stakes'[u].unbondingAmount = stakes[u].unbondingAmount
       /\ stakes'[u].stakeType = stakes[u].stakeType
  /\ slashedPool' = slashedPool + SumFunction(cut)
  /\ totalStaked' = [t \in StakeTypes |->
       totalStaked[t]
         - SumFunction([u \in Users |-> IF stakes[u].stakeType = t THEN cut[u] ELSE 0])]
  /\ UNCHANGED <<ethBalance, wallet>>

\* Several slashes in one transaction keep the ledger as one does.
LEMMA CutsKeepLedger ==
  ASSUME Ledger, StakesGood', NEW cut, CutsMove(cut)
  PROVE  Ledger'
<1> USE StakingConstants
<1>1. /\ stakes \in [Users -> Stake] /\ stakes' \in [Users -> Stake]
      /\ slashedPool \in Nat /\ ethBalance \in Nat /\ wallet \in [Users -> Nat]
      /\ totalStaked \in [StakeTypes -> Nat]
  BY DEF Ledger, StakingTypeOK, StakesGood
<1>2. cut \in [Users -> Nat] /\ cut \in [Users -> Int]
  BY DEF CutsMove
<1>3. \A s \in Stake : s.amount \in Nat /\ s.unbondingAmount \in Nat
  BY DEF Stake
<1> DEFINE f == HeldFor(stakes)
           h == HeldFor(stakes')
<1>4. SumFunction(f) = SumFunction(h) + SumFunction(cut)
  <2>1. h \in [Users -> Int]
    BY <1>1, <1>3 DEF HeldFor
  <2>2. \A u \in Users : f[u] = h[u] + cut[u]
    BY <1>1, <1>2, <1>3 DEF HeldFor, CutsMove
  <2>3. f = [u \in Users |-> f[u]]
    BY DEF HeldFor
  <2> HIDE DEF f, h
  <2>4. f = [u \in Users |-> h[u] + cut[u]]
    BY <2>2, <2>3
  <2> QED BY <2>1, <2>4, <1>2, SumAdds
<1>5. SumFunction(f) \in Nat /\ SumFunction(h) \in Nat
  BY <1>1, SumsAreNatural
<1>6. SumFunction(cut) \in Nat
  BY <1>2, SumBounds
<1>7. ethBalance = SumFunction(f) + slashedPool
  BY DEF Ledger, FullyBacked, HeldFor
<1>8. ethBalance' = ethBalance /\ slashedPool' = slashedPool + SumFunction(cut) /\ wallet' = wallet
  BY DEF CutsMove
<1>9. ethBalance' = SumFunction(h) + slashedPool' /\ slashedPool' \in Nat /\ ethBalance' \in Nat
  <2> HIDE DEF f, h
  <2> QED BY <1>1, <1>4, <1>5, <1>6, <1>7, <1>8
<1>10. ASSUME NEW t \in StakeTypes
       PROVE  totalStaked'[t] = SumFunction(StakedAs(stakes', t)) /\ totalStaked'[t] \in Nat
  <2> DEFINE F == StakedAs(stakes, t)
             H == StakedAs(stakes', t)
             C == [u \in Users |-> IF stakes[u].stakeType = t THEN cut[u] ELSE 0]
  <2>1. H \in [Users -> Int] /\ C \in [Users -> Nat] /\ C \in [Users -> Int]
    BY <1>1, <1>2, <1>3 DEF StakedAs
  <2>2. \A u \in Users : F[u] = H[u] + C[u]
    BY <1>1, <1>2, <1>3 DEF StakedAs, CutsMove
  <2>3. F = [u \in Users |-> F[u]]
    BY DEF StakedAs
  <2>4. totalStaked'[t] = totalStaked[t] - SumFunction(C)
    BY DEF CutsMove
  <2>5. totalStaked[t] = SumFunction(F)
    BY DEF Ledger, TotalsAgree, StakedAs
  <2>6. SumFunction(F) \in Nat /\ SumFunction(H) \in Nat
    BY <1>1, SumsAreNatural
  <2> HIDE DEF F, H, C
  <2>7. F = [u \in Users |-> H[u] + C[u]]
    BY <2>2, <2>3
  <2>8. SumFunction(F) = SumFunction(H) + SumFunction(C)
    BY <2>1, <2>7, SumAdds
  <2>9. SumFunction(C) \in Nat
    BY <2>1, SumBounds
  <2>10. totalStaked'[t] = SumFunction(H) /\ totalStaked'[t] \in Nat
    BY <2>4, <2>5, <2>6, <2>8, <2>9
  <2> QED BY <2>10 DEF H
<1>11. totalStaked' \in [StakeTypes -> Nat]
  <2>1. totalStaked' = [t \in StakeTypes |-> totalStaked'[t]]
    BY DEF CutsMove
  <2> QED BY <2>1, <1>10
<1>12. StakingTypeOK'
  BY <1>1, <1>8, <1>9, <1>11 DEF StakingTypeOK
<1>13. FullyBacked'
  BY <1>9 DEF FullyBacked, HeldFor
<1>14. TotalsAgree'
  BY <1>10 DEF TotalsAgree, StakedAs
<1> QED
  BY <1>12, <1>13, <1>14 DEF Ledger

(***************************************************************************)
(* The inductive invariant, and what it says of a settlement               *)
(***************************************************************************)
\* The states after finalize.
Closed == {"Provisional", "Disputed", "Resolved"}

\* Who revealed, and the scores, in the evaluations e of one task.
Shown(e) == {u \in Users : e[u].revealed}

Scoring(e) == [u \in Users |-> e[u].score]

\* The published evidence supports the published score of a task.
Supported(e, best, final) ==
  LET given == {u \in Shown(e) : e[u].evidence}
  IN  IF given = {} THEN best = NoUser
      ELSE /\ best \in given
           /\ \A u \in given : Diff(e[best].score, final) <= Diff(e[u].score, final)

\* The list of evaluators of a task names each account that committed, once.
ListsCommitted(t, e) ==
  /\ \A i, j \in 1..Len(t.evaluators) : t.evaluators[i] = t.evaluators[j] => i = j
  /\ \A u \in Users : e[u].committed <=> \E i \in 1..Len(t.evaluators) : t.evaluators[i] = u

\* What holds of the evaluation of u of task id.
SoundEvaluation(id, u, x) ==
  /\ x \in Evaluation
  /\ ~x.committed => x = NoEvaluation
  /\ x.revealed => x.committed /\ x.commitHash = Commitment(id, u, x.score)

\* What each phase of a task says of its record, its evaluations and its bonds.
InPhase(t, e, bonds) ==
  /\ t.state = "None" => t = NoTask /\ bonds = 0
  /\ t.state # "None" => t.minEvals >= 1
  /\ t.state \in {"None", "Open"} => \A u \in Users : ~e[u].revealed
  /\ t.state \in {"None", "Open", "Reveal", "Provisional"} => ~t.wasDisputed
  /\ t.state = "Disputed" => t.wasDisputed
  /\ t.state = "Provisional" => IsMedian(t.finalScore, Scoring(e), Shown(e))
  /\ t.state \in Closed =>
       /\ bonds = 0
       /\ Cardinality(Shown(e)) >= t.minEvals
       /\ Supported(e, t.finalBundle, t.finalScore)

\* What holds of one task at all times.
SoundTask(id, t, e, bonds) ==
  /\ t \in Task
  /\ e \in [Users -> Evaluation]
  /\ bonds \in Nat
  /\ ListsCommitted(t, e)
  /\ \A u \in Users : SoundEvaluation(id, u, e[u])
  /\ InPhase(t, e, bonds)

\* The tasks a reputation counts: settled, disputed, and both.
SettledOf(u) == {id \in TaskIds : evals[id][u].revealed /\ tasks[id].state = "Resolved"}

DisputedOf(u) == {id \in TaskIds : evals[id][u].revealed /\ tasks[id].wasDisputed}

WonOf(u) == SettledOf(u) \intersect DisputedOf(u)

\* The reputation of u is about the tasks u revealed in.
SoundReputation(u) ==
  /\ reputation[u].total = Cardinality(SettledOf(u))
  /\ reputation[u].against = Cardinality(DisputedOf(u))
  /\ reputation[u].accurate <= reputation[u].total
  /\ reputation[u].won <= Cardinality(WonOf(u))

\* The part of the inductive invariant that is about tasks.
TasksGood ==
  /\ MarketTypeOK
  /\ \A id \in TaskIds : SoundTask(id, tasks[id], evals[id], posted[id])
  /\ \A id \in TaskIds : id >= nextTaskId => tasks[id].state = "None"
  /\ \A u \in Users : SoundReputation(u)

\* The inductive invariant of the marketplace, with the stakes it locks.
MarketInv == StakesGood /\ Ledger /\ TasksGood

\* The records of tasks, for given ranges of the bounds, scores, lists and bundles.  A step
\* that shows a written record to be a task uses it to keep what they are out of sight.
TaskOf(bound, score, list, bundle) ==
  [state : TaskStates, commitDeadline : Nat, revealDeadline : Nat, disputeDeadline : Nat,
   minEvals : bound, maxEvals : bound, feePool : Nat, evaluators : list,
   finalScore : score, finalBundle : bundle, payoutPool : Nat,
   payoutsSettled : BOOLEAN, wasDisputed : BOOLEAN, rewardsPaid : BOOLEAN]

\* The fields of a task whose ranges the proofs below need.
LEMMA TaskFields ==
  \A t \in Task :
    /\ t.state \in TaskStates /\ t.evaluators \in Seq(Users)
    /\ t.minEvals \in Nat /\ t.feePool \in Nat /\ t.payoutPool \in Nat
    /\ t.finalScore \in Nat /\ t.finalScore <= 10000
    /\ t.wasDisputed \in BOOLEAN
<1> DEFINE B == 0..10
           S == 0..10000
           Q == Seq(Users)
           F == Users \union {NoUser}
<1>1. Task = TaskOf(B, S, Q, F)
  BY DEF Task, TaskOf
<1>2. \A n \in B : n \in Nat
  OBVIOUS
<1>3. \A n \in S : n \in Nat /\ n <= 10000
  OBVIOUS
<1> HIDE DEF B, S, F
<1> SUFFICES ASSUME NEW t \in TaskOf(B, S, Q, F)
             PROVE  /\ t.state \in TaskStates /\ t.evaluators \in Q
                    /\ t.minEvals \in Nat /\ t.feePool \in Nat /\ t.payoutPool \in Nat
                    /\ t.finalScore \in Nat /\ t.finalScore <= 10000
                    /\ t.wasDisputed \in BOOLEAN
  BY <1>1
<1> HIDE DEF Q
<1> QED
  BY <1>2, <1>3 DEF TaskOf

\* Those of an evaluation.
LEMMA EvaluationFields ==
  \A x \in Evaluation :
    /\ x.committed \in BOOLEAN /\ x.revealed \in BOOLEAN /\ x.lockedStake \in Nat
    /\ x.score \in Nat /\ x.score <= 10000
<1> DEFINE H == (TaskIds \X Users \X Scores) \union {NoHash}
           S == 0..10000
           E == [committed : BOOLEAN, commitHash : H, revealed : BOOLEAN, score : S,
                 evidence : BOOLEAN, lockedStake : Nat]
<1>1. Evaluation = E
  BY DEF Evaluation
<1>2. \A n \in S : n \in Nat /\ n <= 10000
  OBVIOUS
<1> HIDE DEF H, S
<1>3. \A x \in E : /\ x.committed \in BOOLEAN /\ x.revealed \in BOOLEAN
                   /\ x.lockedStake \in Nat /\ x.score \in S
  OBVIOUS
<1> HIDE DEF E
<1> QED
  BY <1>1, <1>2, <1>3

\* A score is a number of basis points.
LEMMA ScoresAreBasisPoints == \A s \in Scores : s \in 0..10000 /\ s \in Nat /\ s <= 10000
<1>1. Scores \subseteq 0..10000
  BY MarketShares
<1> QED
  BY ONLY <1>1

\* Revealers, read off the list, are those who revealed.
LEMMA RevealersAre ==
  ASSUME NEW id \in TaskIds, SoundTask(id, tasks[id], evals[id], posted[id])
  PROVE  /\ Revealers(id) = Shown(evals[id])
         /\ Evaluators(id) = {u \in Users : evals[id][u].committed}
         /\ IsFiniteSet(Evaluators(id)) /\ IsFiniteSet(Revealers(id))
<1> DEFINE t == tasks[id]
           e == evals[id]
           s == tasks[id].evaluators
<1>1. /\ s \in Seq(Users) /\ e \in [Users -> Evaluation]
      /\ \A u \in Users : e[u].committed <=> \E i \in 1..Len(s) : s[i] = u
      /\ \A u \in Users : e[u].revealed => e[u].committed
  <2>1. \A x \in Task : x.evaluators \in Seq(Users)
    BY TaskFields
  <2>2. /\ t \in Task /\ e \in [Users -> Evaluation] /\ ListsCommitted(t, e)
        /\ \A u \in Users : SoundEvaluation(id, u, e[u])
    BY DEF SoundTask
  <2>3. \A u \in Users : e[u].revealed => e[u].committed
    BY <2>2 DEF SoundEvaluation
  <2> QED BY <2>1, <2>2, <2>3 DEF ListsCommitted
<1>2. Evaluators(id) = {u \in Users : e[u].committed}
  BY <1>1 DEF Evaluators
<1>3. Revealers(id) = Shown(e)
  BY <1>1, <1>2 DEF Revealers, Shown
<1>4. Evaluators(id) \in SUBSET Users /\ Revealers(id) \in SUBSET Users
  BY <1>2, <1>3 DEF Shown
<1> QED
  BY <1>2, <1>3, <1>4, StakingConstants, FS_Subset

\* Two revealed evaluations with the same hash are the same: the hash binds task and account.
LEMMA HashesAreOwn == TasksGood => NoFreeRiding
<1> SUFFICES ASSUME TasksGood, NEW i \in TaskIds, NEW j \in TaskIds,
                    NEW u \in Revealers(i), NEW v \in Revealers(j),
                    evals[i][u].commitHash = evals[j][v].commitHash
             PROVE  i = j /\ u = v
  BY DEF NoFreeRiding
<1>1. /\ u \in Shown(evals[i]) /\ v \in Shown(evals[j])
  BY RevealersAre DEF TasksGood
<1>2. /\ evals[i][u].commitHash = <<i, u, evals[i][u].score>>
      /\ evals[j][v].commitHash = <<j, v, evals[j][v].score>>
  BY <1>1 DEF TasksGood, SoundTask, SoundEvaluation, Shown, Commitment
<1>3. \A a, b : <<i, u, a>> = <<j, v, b>> => i = j /\ u = v
  OBVIOUS
<1> QED
  BY ONLY <1>2, <1>3, evals[i][u].commitHash = evals[j][v].commitHash

\* A provisional score is the median, so it is that of any majority.
LEMMA MajoritiesDecide == TasksGood => MajorityDecides
<1> SUFFICES ASSUME TasksGood, NEW id \in TaskIds, tasks[id].state = "Provisional",
                    NEW s \in Scores,
                    2 * Cardinality({u \in Revealers(id) : evals[id][u].score = s})
                      > Cardinality(Revealers(id))
             PROVE  tasks[id].finalScore = s
  BY DEF MajorityDecides
<1> DEFINE R == Shown(evals[id])
           score == Scoring(evals[id])
<1>1. SoundTask(id, tasks[id], evals[id], posted[id])
  BY DEF TasksGood
<1>2. Revealers(id) = R /\ IsFiniteSet(R) /\ R \subseteq Users
  BY <1>1, RevealersAre DEF Shown
<1>3. IsMedian(tasks[id].finalScore, score, R)
  BY <1>1 DEF SoundTask, InPhase
<1>4. \A u \in Users : score[u] = evals[id][u].score /\ score[u] \in Nat
  <2>1. \A x \in Evaluation : x.score \in Nat
    BY EvaluationFields
  <2> QED BY <1>1, <2>1 DEF SoundTask, Scoring
<1>5. s \in Nat
  BY ScoresAreBasisPoints
<1>6. {u \in Revealers(id) : evals[id][u].score = s} = {u \in R : score[u] = s}
  BY <1>2, <1>4
<1> HIDE DEF R, score
<1>7. 2 * Cardinality({u \in R : score[u] = s}) > Cardinality(R)
  BY <1>2, <1>6
<1>8. \A u \in R : score[u] \in Nat
  BY <1>2, <1>4
<1> QED
  BY <1>2, <1>3, <1>5, <1>7, <1>8, MajorityIsMedian

\* The record of a task after finalize carries evidence for its score.
LEMMA EvidenceSupports == TasksGood => EvidenceSupportsScore
<1> SUFFICES ASSUME TasksGood, NEW id \in TaskIds, tasks[id].state \in Closed
             PROVE  LET given == {u \in Revealers(id) : evals[id][u].evidence}
                        best == tasks[id].finalBundle
                        Dist(u) == Diff(evals[id][u].score, tasks[id].finalScore)
                    IN  IF given = {} THEN best = NoUser
                        ELSE best \in given /\ \A u \in given : Dist(best) <= Dist(u)
  BY DEF EvidenceSupportsScore, Closed
<1>1. SoundTask(id, tasks[id], evals[id], posted[id])
  BY DEF TasksGood
<1>2. Revealers(id) = Shown(evals[id])
  BY <1>1, RevealersAre
<1>3. Supported(evals[id], tasks[id].finalBundle, tasks[id].finalScore)
  BY <1>1 DEF SoundTask, InPhase
<1> QED
  BY <1>2, <1>3 DEF Supported

\* The counters of a reputation are those of its tasks.
LEMMA ReputationsMatch == TasksGood => ReputationMatchesHistory
<1> SUFFICES ASSUME TasksGood, NEW u \in Users
             PROVE  LET revealedIn == {id \in TaskIds : u \in Revealers(id)} IN
                    /\ reputation[u].total =
                         Cardinality({id \in revealedIn : tasks[id].state = "Resolved"})
                    /\ reputation[u].against =
                         Cardinality({id \in revealedIn : tasks[id].wasDisputed})
                    /\ reputation[u].accurate <= reputation[u].total
                    /\ reputation[u].won <= reputation[u].against
  BY DEF ReputationMatchesHistory
<1> DEFINE revealedIn == {id \in TaskIds : u \in Revealers(id)}
<1>1. \A id \in TaskIds : u \in Revealers(id) <=> evals[id][u].revealed
  BY RevealersAre DEF TasksGood, Shown
<1>2. {id \in revealedIn : tasks[id].state = "Resolved"} = SettledOf(u)
  BY <1>1 DEF SettledOf
<1>3. {id \in revealedIn : tasks[id].wasDisputed} = DisputedOf(u)
  BY <1>1 DEF DisputedOf
<1>4. SoundReputation(u)
  BY DEF TasksGood
<1>5. /\ IsFiniteSet(DisputedOf(u)) /\ WonOf(u) \in SUBSET DisputedOf(u)
  <2>1. IsFiniteSet(TaskIds)
    BY MarketTerms, FS_Interval DEF TaskIds
  <2> QED BY <2>1, FS_Subset DEF DisputedOf, WonOf
<1>6. /\ Cardinality(WonOf(u)) <= Cardinality(DisputedOf(u))
      /\ Cardinality(WonOf(u)) \in Nat /\ Cardinality(DisputedOf(u)) \in Nat
  BY <1>5, FS_Subset, FS_CardinalityType
<1>7. reputation[u].won \in Nat
  BY DEF TasksGood, MarketTypeOK
<1> HIDE DEF revealedIn
<1>8. reputation[u].won <= reputation[u].against
  BY <1>4, <1>6, <1>7 DEF SoundReputation
<1> QED
  BY <1>2, <1>3, <1>4, <1>8 DEF SoundReputation, revealedIn

(***************************************************************************)
(* Evidence, and steps that move one task                                  *)
(***************************************************************************)
\* FinalEvidence looks for the closest evidence: it finds one if there is any.
LEMMA EvidenceIsClosest ==
  ASSUME NEW id \in TaskIds, SoundTask(id, tasks[id], evals[id], posted[id]), NEW final \in Nat
  PROVE  /\ Supported(evals[id], FinalEvidence(id, final), final)
         /\ FinalEvidence(id, final) \in Users \union {NoUser}
<1> DEFINE order == tasks[id].evaluators
           e == evals[id]
           Candidate(i) == e[order[i]].revealed /\ e[order[i]].evidence
           Dist(i) == Diff(e[order[i]].score, final)
           cand == {i \in 1..Len(order) : Candidate(i)}
           best == {i \in 1..Len(order) :
                      /\ Candidate(i)
                      /\ \A j \in 1..Len(order) : Candidate(j) =>
                           Dist(i) < Dist(j) \/ (Dist(i) = Dist(j) /\ i <= j)}
           given == {u \in Shown(e) : e[u].evidence}
<1>1. FinalEvidence(id, final) = IF best = {} THEN NoUser ELSE order[CHOOSE i \in best : TRUE]
  BY DEF FinalEvidence
<1>2. /\ order \in Seq(Users) /\ Len(order) \in Nat
      /\ \A i \in 1..Len(order) : order[i] \in Users
  <2>1. tasks[id] \in Task
    BY DEF SoundTask
  <2>2. order \in Seq(Users)
    BY <2>1, TaskFields
  <2> HIDE DEF order
  <2> QED BY ONLY <2>2
<1>3. /\ \A u \in Users : e[u].revealed => \E i \in 1..Len(order) : order[i] = u
      /\ \A u \in Users : e[u] \in Evaluation
  <2>1. /\ ListsCommitted(tasks[id], e) /\ e \in [Users -> Evaluation]
        /\ \A u \in Users : SoundEvaluation(id, u, e[u])
    BY DEF SoundTask
  <2>2. \A u \in Users : e[u].revealed => e[u].committed
    BY <2>1 DEF SoundEvaluation
  <2>3. \A u \in Users : e[u].committed => \E i \in 1..Len(order) : order[i] = u
    BY <2>1 DEF ListsCommitted
  <2> QED BY <2>1, <2>2, <2>3
<1>4. \A i \in 1..Len(order) : Dist(i) \in Nat
  <2>1. \A x \in Evaluation : Diff(x.score, final) \in Nat
    BY EvaluationFields DEF Diff
  <2> QED BY <1>2, <1>3, <2>1
<1>5. /\ \A i \in cand : i \in 1..Len(order) /\ order[i] \in given
      /\ \A u \in given : u \in Users /\ \E i \in cand : order[i] = u
  BY <1>2, <1>3 DEF Shown
<1>6. CASE cand = {}
  <2>1. best = {}
    BY <1>6
  <2>2. given = {}
    BY <1>5, <1>6
  <2>3. FinalEvidence(id, final) = NoUser
    BY <1>1, <2>1
  <2> QED BY <2>2, <2>3 DEF Supported
<1>7. CASE cand # {}
  <2> DEFINE D == {Dist(i) : i \in cand}
             Rank(i, j) == Dist(i) < Dist(j) \/ (Dist(i) = Dist(j) /\ i <= j)
  <2>1. D \subseteq Nat
    BY <1>4
  <2>2. D # {}
    BY <1>7
  <2>3. PICK d \in D : \A m \in D : ~(m < d)
    <3> HIDE DEF D
    <3> QED BY ONLY <2>1, <2>2, LeastNatural
  <2> DEFINE I == {i \in cand : Dist(i) = d}
  <2>4. I \subseteq Nat
    OBVIOUS
  <2>5. I # {}
    OBVIOUS
  <2>6. PICK k \in I : \A m \in I : ~(m < k)
    <3> HIDE DEF I
    <3> QED BY ONLY <2>4, <2>5, LeastNatural
  <2>7. k \in cand /\ Dist(k) = d /\ d \in Nat /\ k \in Nat
    BY <2>1, <2>4
  <2>8. \A j \in cand : Dist(k) < Dist(j) \/ (Dist(k) = Dist(j) /\ k <= j)
    <3> SUFFICES ASSUME NEW j \in cand
                 PROVE  Dist(k) < Dist(j) \/ (Dist(k) = Dist(j) /\ k <= j)
      OBVIOUS
    <3>1. Dist(j) \in Nat /\ ~(Dist(j) < d) /\ j \in Nat
      <4>1. j \in 1..Len(order) /\ Dist(j) \in D
        OBVIOUS
      <4> HIDE DEF Dist, D, order
      <4> QED BY <4>1, <1>4, <2>3
    <3>2. Dist(j) = d => ~(j < k)
      BY <2>6
    <3> HIDE DEF Dist
    <3> QED BY <3>1, <3>2, <2>7
  <2>9. k \in best
    <3> HIDE DEF Dist
    <3> QED BY <2>7, <2>8
  <2> DEFINE c == CHOOSE i \in best : TRUE
  <2>10. c \in best
    <3> HIDE DEF best
    <3> QED BY <2>9
  <2> HIDE DEF c
  <2>11. /\ c \in cand
         /\ \A j \in cand : Dist(c) < Dist(j) \/ Dist(c) = Dist(j)
    <3> HIDE DEF Dist
    <3> QED BY <2>10
  <2>12. FinalEvidence(id, final) = order[c]
    <3> HIDE DEF best
    <3> QED BY <1>1, <2>9 DEF c
  <2>13. order[c] \in given /\ order[c] \in Users
    BY <1>5, <2>11
  <2>14. \A u \in given : Diff(e[order[c]].score, final) <= Diff(e[u].score, final)
    <3> SUFFICES ASSUME NEW u \in given
                 PROVE  Diff(e[order[c]].score, final) <= Diff(e[u].score, final)
      OBVIOUS
    <3>1. PICK i \in cand : order[i] = u
      BY <1>5
    <3>2. /\ Dist(c) < Dist(i) \/ Dist(c) = Dist(i)
          /\ Dist(c) \in Nat /\ Dist(i) \in Nat
      BY <1>4, <1>5, <2>11
    <3>3. Dist(c) <= Dist(i)
      <4> HIDE DEF Dist
      <4> QED BY <3>2
    <3> QED BY <3>1, <3>3
  <2> HIDE DEF given
  <2>15. given # {} /\ given = {u \in Shown(e) : e[u].evidence}
    BY <2>13 DEF given
  <2> QED BY <2>12, <2>13, <2>14, <2>15 DEF Supported
<1> QED
  BY <1>6, <1>7

\* A transaction about task id changes neither another task nor the kind of the variables.
ChangesOnly(id) ==
  /\ tasks' = [i \in TaskIds |-> tasks'[i]]
  /\ evals' = [i \in TaskIds |-> evals'[i]]
  /\ posted' = [i \in TaskIds |-> posted'[i]]
  /\ \A i \in TaskIds \ {id} : /\ tasks'[i] = tasks[i]
                               /\ evals'[i] = evals[i]
                               /\ posted'[i] = posted[i]

\* The variables that are not about one task stay in their types.
RestTyped ==
  /\ config \in Config
  /\ reputation \in [Users -> [total : Nat, accurate : Nat, earned : Nat, against : Nat, won : Nat]]
  /\ marketWeth \in Nat
  /\ rewardConfig \in RewardConfigs
  /\ rewardsPaid \subseteq TaskIds
  /\ minted \in [Users -> Nat]

\* A transaction that leaves a sound task of one, and reputations that count it, keeps the
\* invariant.
LEMMA OneTaskMoves ==
  ASSUME TasksGood, StakesGood', Ledger', RestTyped', NEW id \in TaskIds, ChangesOnly(id),
         SoundTask(id, tasks'[id], evals'[id], posted'[id]),
         \/ nextTaskId' = nextTaskId /\ (tasks'[id].state = "None" => tasks[id].state = "None")
                                     /\ (tasks[id].state = "None" => tasks'[id].state = "None")
         \/ nextTaskId = id /\ nextTaskId' = nextTaskId + 1,
         \A u \in Users : SoundReputation(u)'
  PROVE  TasksGood'
<1>1. \A i \in TaskIds : SoundTask(i, tasks'[i], evals'[i], posted'[i])
  BY DEF TasksGood, ChangesOnly
<1>2. /\ tasks' \in [TaskIds -> Task]
      /\ evals' \in [TaskIds -> [Users -> Evaluation]]
      /\ posted' \in [TaskIds -> Nat]
  BY <1>1 DEF ChangesOnly, SoundTask
<1>3. TypeOK'
  BY DEF TypeOK, Ledger, StakesGood
<1>4. nextTaskId \in 1..(MaxTasks + 1) /\ MaxTasks \in Nat
  BY MarketTerms DEF TasksGood, MarketTypeOK
<1>5. nextTaskId' \in 1..(MaxTasks + 1)
  BY <1>4 DEF TaskIds
<1>6. MarketTypeOK'
  BY <1>2, <1>3, <1>5 DEF MarketTypeOK, RestTyped
<1>7. \A i \in TaskIds : i >= nextTaskId' => tasks'[i].state = "None"
  <2> SUFFICES ASSUME NEW i \in TaskIds, i >= nextTaskId' PROVE tasks'[i].state = "None"
    OBVIOUS
  <2>1. i \in Nat /\ nextTaskId \in Nat /\ i >= nextTaskId
    BY <1>4 DEF TaskIds
  <2>2. tasks[i].state = "None"
    BY <2>1 DEF TasksGood
  <2>3. CASE i # id
    BY <2>2, <2>3 DEF ChangesOnly
  <2>4. CASE i = id
    BY <2>1, <2>2, <2>4
  <2> QED BY <2>3, <2>4
<1> QED
  BY <1>1, <1>6, <1>7 DEF TasksGood

\* A reputation stays sound while no task that it counts changes.
LEMMA NothingCounted ==
  ASSUME TasksGood, NEW id \in TaskIds, ChangesOnly(id), reputation' = reputation,
         tasks[id].state # "Resolved", tasks'[id].state # "Resolved",
         ~tasks[id].wasDisputed, ~tasks'[id].wasDisputed
  PROVE  \A u \in Users : SoundReputation(u)'
<1> SUFFICES ASSUME NEW u \in Users PROVE SoundReputation(u)'
  OBVIOUS
<1>1. SettledOf(u)' = SettledOf(u)
  BY DEF SettledOf, ChangesOnly
<1>2. DisputedOf(u)' = DisputedOf(u)
  BY DEF DisputedOf, ChangesOnly
<1>3. WonOf(u)' = WonOf(u)
  BY <1>1, <1>2 DEF WonOf
<1>4. SoundReputation(u)
  BY DEF TasksGood
<1> QED
  BY <1>1, <1>2, <1>3, <1>4 DEF SoundReputation

(***************************************************************************)
(* createTask, and locking stake                                           *)
(***************************************************************************)
\* Whoever does not touch stakes or the clock keeps them in order.
LEMMA StakesStutter ==
  ASSUME StakesGood, Ledger, UNCHANGED <<stakingVars, now>>
  PROVE  StakesGood' /\ Ledger'
BY DEF StakesGood, Ledger, StakingTypeOK, FullyBacked, TotalsAgree, stakingVars

\* The parts of the invariant that are types, and what one task's are.
LEMMA Typed ==
  ASSUME TasksGood
  PROVE  /\ RestTyped
         /\ tasks \in [TaskIds -> Task]
         /\ evals \in [TaskIds -> [Users -> Evaluation]]
         /\ posted \in [TaskIds -> Nat]
         /\ nextTaskId \in Nat
         /\ \A id \in TaskIds : SoundTask(id, tasks[id], evals[id], posted[id])
<1>1. nextTaskId \in 1..(MaxTasks + 1) /\ MaxTasks \in Nat
  BY MarketTerms DEF TasksGood, MarketTypeOK
<1> QED
  BY <1>1 DEF TasksGood, MarketTypeOK, RestTyped

\* The record createTask writes is that of an open task.
Opened(d1, d2, d3, lo, hi, fee) ==
  [NoTask EXCEPT !.state = "Open", !.commitDeadline = d1, !.revealDeadline = d2,
     !.disputeDeadline = d3, !.minEvals = lo, !.maxEvals = hi, !.feePool = fee]

\* It is a task, open, with nobody listed.
LEMMA OpenedTask ==
  ASSUME NEW d1, NEW d2, NEW d3, NEW lo, NEW hi, NEW fee,
         {d1, d2, d3, fee} \subseteq Nat, {lo, hi} \subseteq 0..10,
         NEW t, t = Opened(d1, d2, d3, lo, hi, fee)
  PROVE  /\ t \in Task
         /\ t.state = "Open" /\ t.minEvals = lo /\ t.feePool = fee
         /\ t.evaluators = <<>> /\ ~t.wasDisputed
<1> DEFINE B == 0..10
           S == 0..10000
           Q == Seq(Users)
           F == Users \union {NoUser}
           e == <<>>
<1>1. Task = TaskOf(B, S, Q, F)
  BY DEF Task, TaskOf
<1>2. /\ 0 \in B /\ 0 \in S /\ NoUser \in F /\ e \in Q
      /\ lo \in B /\ hi \in B
      /\ "None" \in TaskStates /\ "Open" \in TaskStates
  BY DEF TaskStates
<1>3. NoTask =
        [state |-> "None", commitDeadline |-> 0, revealDeadline |-> 0, disputeDeadline |-> 0,
         minEvals |-> 0, maxEvals |-> 0, feePool |-> 0, evaluators |-> e,
         finalScore |-> 0, finalBundle |-> NoUser, payoutPool |-> 0,
         payoutsSettled |-> FALSE, wasDisputed |-> FALSE, rewardsPaid |-> FALSE]
  BY DEF NoTask
<1>4. /\ t.state = "Open" /\ t.minEvals = lo /\ t.feePool = fee
      /\ t.evaluators = <<>> /\ ~t.wasDisputed
  BY <1>3 DEF Opened
<1> HIDE DEF B, S, Q, F, e
<1>5. NoTask \in Task
  BY <1>1, <1>2, <1>3 DEF TaskOf
<1> HIDE DEF NoTask
<1>6. t \in Task
  BY <1>1, <1>2, <1>5 DEF TaskOf, Opened
<1> QED
  BY <1>4, <1>6

\* createTask (VerificationMarketplace.sol) opens the next task, which nobody touched.
LEMMA CreateKeepsTasks ==
  ASSUME MarketInv, Create
  PROVE  MarketInv'
<1>1. PICK schedule \in Schedules, bounds \in EvalBounds, feePool \in FeePools :
        createTask(schedule, bounds, feePool)
  BY DEF Create
<1> DEFINE id == nextTaskId
           d1 == now + schedule[1]
           d2 == now + schedule[1] + schedule[2]
           d3 == now + schedule[1] + schedule[2] + schedule[3]
           lo == bounds[1]
           hi == bounds[2]
           t == Opened(d1, d2, d3, lo, hi, feePool)
<1>2. /\ TasksGood /\ StakesGood /\ Ledger
      /\ now \in Nat
  BY DEF MarketInv, StakesGood
<1>3. /\ tasks \in [TaskIds -> Task] /\ evals \in [TaskIds -> [Users -> Evaluation]]
      /\ posted \in [TaskIds -> Nat] /\ id \in TaskIds /\ id \in Nat
      /\ SoundTask(id, tasks[id], evals[id], posted[id])
      /\ RestTyped
  BY <1>1, <1>2, Typed DEF createTask
<1>4. tasks[id].state = "None"
  BY <1>2, <1>3 DEF TasksGood
<1>5. StakesGood' /\ Ledger'
  <2>1. UNCHANGED <<stakingVars, now>>
    BY <1>1 DEF createTask
  <2> QED BY <1>2, <2>1, StakesStutter
<1>6. /\ tasks' = [tasks EXCEPT ![id] = t]
      /\ evals' = evals /\ posted' = posted /\ reputation' = reputation
      /\ nextTaskId' = nextTaskId + 1
      /\ marketWeth' = marketWeth + feePool
      /\ config' = config /\ UNCHANGED rewardVars
  BY <1>1 DEF createTask, Opened
<1>7. lo \in 0..10 /\ hi \in 0..10 /\ lo >= 1
  <2>1. lo \in 1..hi /\ hi \in 1..10
    BY MarketTerms
  <2> HIDE DEF lo, hi
  <2> QED BY <2>1
<1>8. d1 \in Nat /\ d2 \in Nat /\ d3 \in Nat /\ feePool \in Nat
  <2>1. schedule \in Nat \X Nat \X Nat /\ feePool \in Nat
    BY MarketTerms, MarketAmounts
  <2>2. schedule[1] \in Nat /\ schedule[2] \in Nat /\ schedule[3] \in Nat
    BY <2>1
  <2> DEFINE a == schedule[1]
             b == schedule[2]
             c == schedule[3]
  <2>3. a \in Nat /\ b \in Nat /\ c \in Nat
    BY <2>2
  <2> HIDE DEF a, b, c
  <2>4. now + a \in Nat /\ now + a + b \in Nat /\ now + a + b + c \in Nat
    BY <2>3, <1>2
  <2> QED BY <2>1, <2>4 DEF a, b, c
<1> HIDE DEF d1, d2, d3, lo, hi
<1>9. /\ t \in Task /\ t.state = "Open" /\ t.minEvals = lo
      /\ t.evaluators = <<>> /\ ~t.wasDisputed
  <2>1. {d1, d2, d3, feePool} \subseteq Nat /\ {lo, hi} \subseteq 0..10
    BY <1>7, <1>8
  <2> QED BY ONLY <2>1, OpenedTask
<1> HIDE DEF t
<1>10. ChangesOnly(id) /\ tasks'[id] = t
  BY <1>3, <1>6 DEF ChangesOnly
<1>11. tasks[id] = NoTask /\ posted[id] = 0
       /\ \A u \in Users : ~evals[id][u].revealed
  BY <1>3, <1>4 DEF SoundTask, InPhase
<1>12. SoundTask(id, t, evals[id], posted[id])
  <2>1. ListsCommitted(t, evals[id])
    <3>1. tasks[id].evaluators = <<>>
      BY <1>11 DEF NoTask
    <3> QED BY <1>3, <1>9, <3>1 DEF SoundTask, ListsCommitted
  <2>2. InPhase(t, evals[id], posted[id])
    BY <1>7, <1>9, <1>11 DEF InPhase, Closed
  <2> QED BY <1>3, <1>9, <2>1, <2>2 DEF SoundTask
<1>13. \A u \in Users : SoundReputation(u)'
  <2>1. tasks[id].state # "Resolved" /\ ~tasks[id].wasDisputed
    BY <1>11 DEF NoTask
  <2> QED BY <2>1, <1>2, <1>3, <1>6, <1>9, <1>10, NothingCounted
<1>14. RestTyped'
  BY <1>3, <1>6, <1>8 DEF RestTyped, rewardVars
<1>15. SoundTask(id, tasks'[id], evals'[id], posted'[id])
  BY <1>6, <1>10, <1>12
<1>16. nextTaskId = id /\ nextTaskId' = nextTaskId + 1
  BY <1>6
<1> HIDE DEF id
<1>17. TasksGood'
  BY <1>2, <1>3, <1>5, <1>10, <1>13, <1>14, <1>15, <1>16, OneTaskMoves
<1> QED
  BY <1>5, <1>17 DEF MarketInv

\* Locking stake for an evaluation is a lock of StakingManager, or none.
LEMMA LockKeepsStakes ==
  ASSUME StakesGood, Ledger, NEW u \in Users, RestTyped, LockStakeFor(u), now' = now
  PROVE  StakesGood' /\ Ledger' /\ StakeToLock \in Nat
<1>1. StakeToLock \in Nat
  <2>1. config.staking \in StakingChoices
    BY DEF RestTyped, Config
  <2>2. \A s \in StakingChoices : s.lock \in Nat
    BY MarketSettings
  <2>3. config.staking.lock \in Nat
    BY ONLY <2>1, <2>2
  <2> QED BY <2>3 DEF StakeToLock
<1>2. CASE StakeToLock > 0
  <2>1. lockStake(u, StakeToLock)
    BY <1>2 DEF LockStakeFor
  <2> DEFINE n == Locked(stakes[u], StakeToLock)
  <2>2. /\ GoodStake(stakes[u]) /\ now \in Nat /\ stakes \in [Users -> Stake]
    BY DEF StakesGood
  <2>3. GoodStake(n)
    BY <1>1, <2>1, <2>2, LockKeepsGood DEF lockStake
  <2>4. stakes' = [stakes EXCEPT ![u] = n]
    BY <2>1 DEF lockStake
  <2>5. /\ n.amount = stakes[u].amount
        /\ n.unbondingAmount = stakes[u].unbondingAmount
        /\ n.stakeType = stakes[u].stakeType
    BY <2>2 DEF Locked, Stake
  <2> HIDE DEF n
  <2>6. StakesGood'
    BY <2>2, <2>3, <2>4, OneRecord
  <2>7. LedgerMoves(u)
    <3>1. /\ slashedPool' = slashedPool /\ wallet' = wallet /\ ethBalance' = ethBalance
          /\ totalStaked' = totalStaked
      BY <2>1 DEF lockStake
    <3>2. /\ slashedPool \in Nat /\ wallet \in [Users -> Nat] /\ ethBalance \in Nat
          /\ totalStaked \in [StakeTypes -> Nat]
      BY DEF Ledger, StakingTypeOK
    <3>3. /\ stakes'[u] = n /\ \A v \in Users \ {u} : stakes'[v] = stakes[v]
      BY <2>2, <2>4
    <3>4. stakes[u].amount \in Nat /\ stakes[u].unbondingAmount \in Nat
      BY <2>2 DEF Stake
    <3> QED BY <2>5, <3>1, <3>2, <3>3, <3>4 DEF LedgerMoves
  <2> QED BY <1>1, <2>6, <2>7, LedgerStep
<1>3. CASE ~(StakeToLock > 0)
  <2>1. UNCHANGED <<stakingVars, now>>
    BY <1>3 DEF LockStakeFor
  <2> QED BY <1>1, <2>1, StakesStutter
<1> QED
  BY <1>2, <1>3

(***************************************************************************)
(* commitEvaluation                                                        *)
(***************************************************************************)
\* The record commitEvaluation writes for a task.
WithEvaluator(t, u) ==
  LET all == Append(t.evaluators, u)
  IN  [t EXCEPT !.evaluators = all,
                !.state = IF Len(all) = t.maxEvals THEN "Reveal" ELSE t.state]

\* The evaluation commitEvaluation writes.
Committed(x, hash, lock) == [x EXCEPT !.committed = TRUE, !.commitHash = hash, !.lockedStake = lock]

\* Listing an account that is not listed keeps the list.
LEMMA EvaluatorAdded ==
  ASSUME NEW t \in Task, NEW u \in Users, NEW n, n = WithEvaluator(t, u)
  PROVE  /\ n \in Task
         /\ n.evaluators = Append(t.evaluators, u)
         /\ n.state \in {"Reveal", t.state}
         /\ n.minEvals = t.minEvals /\ n.feePool = t.feePool /\ n.wasDisputed = t.wasDisputed
         /\ n.evaluators \in Seq(Users)
         /\ Len(n.evaluators) = Len(t.evaluators) + 1
         /\ \A i \in 1..Len(t.evaluators) : n.evaluators[i] = t.evaluators[i]
         /\ n.evaluators[Len(t.evaluators) + 1] = u
<1> DEFINE B == 0..10
           S == 0..10000
           Q == Seq(Users)
           F == Users \union {NoUser}
           s == t.evaluators
           all == Append(s, u)
           st == IF Len(all) = t.maxEvals THEN "Reveal" ELSE t.state
<1>1. Task = TaskOf(B, S, Q, F)
  BY DEF Task, TaskOf
<1>2. s \in Q
  BY TaskFields
<1> HIDE DEF s
<1>3. /\ all \in Q /\ Len(all) = Len(s) + 1
      /\ \A i \in 1..Len(s) : all[i] = s[i]
      /\ all[Len(s) + 1] = u
  BY <1>2
<1>4. t.state \in TaskStates /\ "Reveal" \in TaskStates
  BY TaskFields DEF TaskStates
<1>5. st \in TaskStates /\ st \in {"Reveal", t.state}
  BY <1>4
<1>6. n = [t EXCEPT !.evaluators = all, !.state = st]
  BY DEF WithEvaluator, s
<1> HIDE DEF B, S, Q, F, all, st
<1>7. /\ n \in Task /\ n.evaluators = all /\ n.state = st
      /\ n.minEvals = t.minEvals /\ n.feePool = t.feePool /\ n.wasDisputed = t.wasDisputed
  BY <1>1, <1>3, <1>5, <1>6 DEF TaskOf
<1> QED
  BY <1>3, <1>5, <1>7 DEF all, s, Q

\* It is that of an account that committed.
LEMMA CommittedFlag ==
  ASSUME NEW x \in Evaluation, NEW hash, NEW lock
  PROVE  Committed(x, hash, lock).committed
<1> DEFINE H == (TaskIds \X Users \X Scores) \union {NoHash}
           S == 0..10000
<1>1. Evaluation = [committed : BOOLEAN, commitHash : H, revealed : BOOLEAN, score : S,
                    evidence : BOOLEAN, lockedStake : Nat]
  BY DEF Evaluation
<1> HIDE DEF H, S
<1> QED
  BY <1>1 DEF Committed

\* What commitEvaluation writes where there was nothing is an evaluation.
LEMMA CommittedEvaluation ==
  ASSUME NEW hash, hash \in (TaskIds \X Users \X Scores) \union {NoHash},
         NEW lock, lock \in Nat, NEW x, x = Committed(NoEvaluation, hash, lock)
  PROVE  x \in Evaluation /\ x.committed /\ ~x.revealed
<1> DEFINE H == (TaskIds \X Users \X Scores) \union {NoHash}
           S == 0..10000
<1>1. hash \in H /\ 0 \in S
  OBVIOUS
<1>2. Evaluation = [committed : BOOLEAN, commitHash : H, revealed : BOOLEAN, score : S,
                    evidence : BOOLEAN, lockedStake : Nat]
  BY DEF Evaluation
<1> HIDE DEF H, S
<1>3. x = [committed |-> TRUE, commitHash |-> hash, revealed |-> FALSE, score |-> 0,
           evidence |-> FALSE, lockedStake |-> lock]
  BY DEF Committed, NoEvaluation
<1> QED
  BY <1>1, <1>2, <1>3

\* A hash that can be sent is one that binds a task, an account and a score.
LEMMA HashesTyped ==
  ASSUME TasksGood, NEW id \in TaskIds, NEW u \in Users, NEW hash \in Hashes(id, u)
  PROVE  hash \in (TaskIds \X Users \X Scores) \union {NoHash}
<1>1. evals \in [TaskIds -> [Users -> Evaluation]]
  BY Typed
<1>2. \A x \in Evaluation : x.commitHash \in (TaskIds \X Users \X Scores) \union {NoHash}
  BY DEF Evaluation
<1>3. \A i \in TaskIds, v \in Users :
        evals[i][v].commitHash \in (TaskIds \X Users \X Scores) \union {NoHash}
  BY <1>1, <1>2
<1> QED
  BY <1>3 DEF Hashes, Commitment

\* commitEvaluation adds an evaluation that has not been revealed to a task that is open.
LEMMA CommitKeepsTasks ==
  ASSUME MarketInv, NEW id \in TaskIds, Commit(id)
  PROVE  MarketInv'
<1>0. PICK u \in Users : \E hash \in Hashes(id, u) : commitEvaluation(id, u, hash)
  BY DEF Commit
<1>1. PICK hash \in Hashes(id, u) : commitEvaluation(id, u, hash)
  BY <1>0
<1> DEFINE t == tasks[id]
           e == evals[id]
           n == WithEvaluator(t, u)
           x == Committed(e[u], hash, StakeToLock)
<1>2. /\ TasksGood /\ StakesGood /\ Ledger
  BY DEF MarketInv
<1>3. /\ tasks \in [TaskIds -> Task] /\ evals \in [TaskIds -> [Users -> Evaluation]]
      /\ posted \in [TaskIds -> Nat]
      /\ SoundTask(id, t, e, posted[id])
      /\ RestTyped
  BY <1>2, Typed
<1>4. StakesGood' /\ Ledger' /\ StakeToLock \in Nat
  <2>1. LockStakeFor(u) /\ now' = now
    BY <1>1 DEF commitEvaluation
  <2> QED BY <1>2, <1>3, <2>1, LockKeepsStakes
<1>5. /\ t.state = "Open" /\ ~e[u].committed
      /\ evals' = [evals EXCEPT ![id][u] = x]
      /\ posted' = [posted EXCEPT ![id] = @ + config.evalBond]
      /\ marketWeth' = marketWeth + config.evalBond
      /\ nextTaskId' = nextTaskId /\ config' = config /\ reputation' = reputation
      /\ UNCHANGED rewardVars
  BY <1>1 DEF commitEvaluation, AcceptsCommits, Committed
<1>6. tasks' = [tasks EXCEPT ![id] = n]
  <2> DEFINE all == Append(t.evaluators, u)
             st == IF Len(all) = t.maxEvals THEN "Reveal" ELSE t.state
  <2>1. tasks' = [tasks EXCEPT ![id].evaluators = all, ![id].state = st]
    BY <1>1 DEF commitEvaluation
  <2>2. n = [t EXCEPT !.evaluators = all, !.state = st]
    BY DEF WithEvaluator
  <2> HIDE DEF all, st, n
  <2> QED BY <1>3, <2>1, <2>2
<1>7. t \in Task /\ e \in [Users -> Evaluation] /\ config.evalBond \in Nat
  <2>1. config.evalBond \in BondChoices
    BY <1>3 DEF RestTyped, Config
  <2>2. BondChoices \subseteq Nat
    BY MarketAmounts
  <2> QED BY <1>3, <2>1, <2>2
<1>8. /\ n \in Task
      /\ n.evaluators = Append(t.evaluators, u)
      /\ n.state \in {"Reveal", t.state}
      /\ n.minEvals = t.minEvals /\ n.wasDisputed = t.wasDisputed
      /\ Len(n.evaluators) = Len(t.evaluators) + 1
      /\ \A i \in 1..Len(t.evaluators) : n.evaluators[i] = t.evaluators[i]
      /\ n.evaluators[Len(t.evaluators) + 1] = u
  <2> HIDE DEF t
  <2> QED BY <1>7, EvaluatorAdded
<1>9. /\ x \in Evaluation /\ x.committed /\ ~x.revealed
  <2>1. e[u] = NoEvaluation
    BY <1>3, <1>5 DEF SoundTask, SoundEvaluation
  <2>2. hash \in (TaskIds \X Users \X Scores) \union {NoHash}
    BY <1>2, HashesTyped
  <2> QED BY <1>4, <2>1, <2>2, CommittedEvaluation
<1> HIDE DEF n, x
<1> DEFINE f == [e EXCEPT ![u] = x]
<1>10. /\ ChangesOnly(id) /\ tasks'[id] = n /\ evals'[id] = f
       /\ posted'[id] = posted[id] + config.evalBond
  BY <1>3, <1>5, <1>6, <1>7 DEF ChangesOnly
<1>11. /\ f \in [Users -> Evaluation] /\ f[u] = x
       /\ \A v \in Users \ {u} : f[v] = e[v]
  BY <1>7, <1>9
<1>12. /\ \A i, j \in 1..Len(t.evaluators) : t.evaluators[i] = t.evaluators[j] => i = j
       /\ \A v \in Users : e[v].committed <=> \E i \in 1..Len(t.evaluators) : t.evaluators[i] = v
       /\ \A v \in Users : SoundEvaluation(id, v, e[v])
       /\ \A v \in Users : ~e[v].revealed
       /\ t.minEvals >= 1 /\ ~t.wasDisputed
  BY <1>3, <1>5 DEF SoundTask, ListsCommitted, InPhase
<1> HIDE DEF f
<1>13. ListsCommitted(n, f)
  <2> DEFINE k == Len(t.evaluators)
  <2>1. k \in Nat
    <3>1. t.evaluators \in Seq(Users)
      BY <1>7, TaskFields
    <3> HIDE DEF t
    <3> QED BY ONLY <3>1
  <2>2. \A i \in 1..k : t.evaluators[i] # u
    BY <1>5, <1>12
  <2>3. Len(n.evaluators) = k + 1
    BY <1>8
  <2>4. /\ \A i \in 1..k : n.evaluators[i] = t.evaluators[i]
        /\ n.evaluators[k + 1] = u
    BY <1>8
  <2>5. /\ \A i, j \in 1..k : t.evaluators[i] = t.evaluators[j] => i = j
        /\ \A v \in Users : e[v].committed <=> \E i \in 1..k : t.evaluators[i] = v
    BY <1>12
  <2> HIDE DEF k, e, t
  <2>6. \A i \in 1..(k + 1) : i \in 1..k \/ i = k + 1
    BY <2>1
  <2>7. \A i, j \in 1..(k + 1) : n.evaluators[i] = n.evaluators[j] => i = j
    BY <2>2, <2>4, <2>5, <2>6
  <2>8. 1..k \subseteq 1..(k + 1) /\ k + 1 \in 1..(k + 1)
    BY <2>1
  <2>9. \A v \in Users : f[v].committed <=> \E i \in 1..(k + 1) : n.evaluators[i] = v
    <3> SUFFICES ASSUME NEW v \in Users
                 PROVE  f[v].committed <=> \E i \in 1..(k + 1) : n.evaluators[i] = v
      OBVIOUS
    <3>1. CASE v = u
      BY <3>1, <1>9, <1>11, <2>4, <2>8
    <3>2. CASE v # u
      <4>1. f[v] = e[v]
        BY <3>2, <1>11
      <4>2. (\E i \in 1..k : t.evaluators[i] = v) <=> \E i \in 1..(k + 1) : n.evaluators[i] = v
        BY <3>2, <2>4, <2>6, <2>8
      <4> QED BY <4>1, <4>2, <2>5
    <3> QED BY <3>1, <3>2
  <2> QED BY <2>3, <2>7, <2>9 DEF ListsCommitted
<1>14. \A v \in Users : SoundEvaluation(id, v, f[v]) /\ ~f[v].revealed
  BY <1>9, <1>11, <1>12 DEF SoundEvaluation
<1>15. InPhase(n, f, posted'[id])
  <2>1. n.state \in {"Reveal", "Open"}
    BY <1>5, <1>8
  <2> QED BY <2>1, <1>8, <1>12, <1>14 DEF InPhase, Closed
<1>16. posted'[id] \in Nat
  BY <1>3, <1>7, <1>10
<1>17. SoundTask(id, tasks'[id], evals'[id], posted'[id])
  BY <1>8, <1>10, <1>11, <1>13, <1>14, <1>15, <1>16 DEF SoundTask
<1>18. /\ t.state # "Resolved" /\ tasks'[id].state # "Resolved"
       /\ t.state # "None" /\ tasks'[id].state # "None"
       /\ ~t.wasDisputed /\ ~tasks'[id].wasDisputed
  BY <1>5, <1>8, <1>10, <1>12
<1>19. \A v \in Users : SoundReputation(v)'
  BY <1>2, <1>5, <1>10, <1>18, NothingCounted
<1>20. RestTyped'
  BY <1>3, <1>5, <1>7 DEF RestTyped, rewardVars
<1>21. TasksGood'
  BY <1>2, <1>4, <1>5, <1>10, <1>17, <1>18, <1>19, <1>20, OneTaskMoves
<1> QED
  BY <1>4, <1>21 DEF MarketInv

(***************************************************************************)
(* openReveal and revealEvaluation                                         *)
(***************************************************************************)
\* A transaction that only moves the state of a task writes a task.
LEMMA StateMoves ==
  ASSUME NEW t \in Task, NEW s \in TaskStates, NEW n, n = [t EXCEPT !.state = s]
  PROVE  /\ n \in Task /\ n.state = s
         /\ n.evaluators = t.evaluators /\ n.minEvals = t.minEvals
         /\ n.wasDisputed = t.wasDisputed
         /\ n.feePool = t.feePool /\ n.payoutPool = t.payoutPool
<1> DEFINE B == 0..10
           S == 0..10000
           Q == Seq(Users)
           F == Users \union {NoUser}
<1>1. Task = TaskOf(B, S, Q, F)
  BY DEF Task, TaskOf
<1> HIDE DEF B, S, Q, F
<1> QED
  BY <1>1 DEF TaskOf

\* openReveal closes the commits of an open task.
LEMMA OpenRevealKeepsTasks ==
  ASSUME MarketInv, NEW id \in TaskIds, openReveal(id)
  PROVE  MarketInv'
<1> DEFINE t == tasks[id]
           e == evals[id]
           n == [t EXCEPT !.state = "Reveal"]
<1>1. TasksGood /\ StakesGood /\ Ledger
  BY DEF MarketInv
<1>2. /\ tasks \in [TaskIds -> Task] /\ evals \in [TaskIds -> [Users -> Evaluation]]
      /\ posted \in [TaskIds -> Nat]
      /\ SoundTask(id, t, e, posted[id])
      /\ RestTyped
  BY <1>1, Typed
<1>3. /\ t.state = "Open"
      /\ tasks' = [tasks EXCEPT ![id] = n]
      /\ evals' = evals /\ posted' = posted /\ reputation' = reputation
      /\ nextTaskId' = nextTaskId
      /\ UNCHANGED <<config, marketWeth, stakingVars, rewardVars, now>>
  BY DEF openReveal
<1>4. StakesGood' /\ Ledger'
  BY <1>1, <1>3, StakesStutter
<1>5. /\ n \in Task /\ n.state = "Reveal"
      /\ n.evaluators = t.evaluators /\ n.minEvals = t.minEvals
      /\ n.wasDisputed = t.wasDisputed
  <2>1. t \in Task /\ "Reveal" \in TaskStates
    BY <1>2 DEF TaskStates
  <2> HIDE DEF t
  <2> QED BY <2>1, StateMoves
<1> HIDE DEF n
<1>6. ChangesOnly(id) /\ tasks'[id] = n /\ evals'[id] = e /\ posted'[id] = posted[id]
  BY <1>2, <1>3 DEF ChangesOnly
<1>7. InPhase(n, e, posted[id]) /\ ~t.wasDisputed
  BY <1>2, <1>3, <1>5 DEF SoundTask, InPhase, Closed
<1>8. SoundTask(id, tasks'[id], evals'[id], posted'[id])
  <2>1. ListsCommitted(n, e)
    BY <1>2, <1>5 DEF SoundTask, ListsCommitted
  <2> QED BY <1>2, <1>5, <1>6, <1>7, <2>1 DEF SoundTask
<1>9. \A u \in Users : SoundReputation(u)'
  BY <1>1, <1>3, <1>5, <1>6, <1>7, NothingCounted
<1>10. RestTyped'
  BY <1>2, <1>3 DEF RestTyped, rewardVars
<1>11. TasksGood'
  BY <1>1, <1>3, <1>4, <1>5, <1>6, <1>8, <1>9, <1>10, OneTaskMoves
<1> QED
  BY <1>4, <1>11 DEF MarketInv

\* The evaluation revealEvaluation writes.
Opening(x, score, evidence) ==
  [x EXCEPT !.revealed = TRUE, !.score = score, !.evidence = evidence]

\* It is an evaluation that opens what was committed.
LEMMA OpenedEvaluation ==
  ASSUME NEW x \in Evaluation, NEW score \in Scores, NEW evidence \in EvidenceChoices,
         NEW y, y = Opening(x, score, evidence)
  PROVE  /\ y \in Evaluation /\ y.revealed /\ y.score = score
         /\ y.committed = x.committed /\ y.commitHash = x.commitHash
         /\ y.lockedStake = x.lockedStake
<1> DEFINE H == (TaskIds \X Users \X Scores) \union {NoHash}
           S == 0..10000
<1>1. score \in S /\ evidence \in BOOLEAN
  <2>1. score \in S
    BY ScoresAreBasisPoints
  <2>2. evidence \in BOOLEAN
    BY MarketSettings
  <2> QED BY <2>1, <2>2
<1>2. Evaluation = [committed : BOOLEAN, commitHash : H, revealed : BOOLEAN, score : S,
                    evidence : BOOLEAN, lockedStake : Nat]
  BY DEF Evaluation
<1> HIDE DEF H, S
<1> QED
  BY <1>1, <1>2 DEF Opening

\* revealEvaluation opens one commitment of a task in its reveal window.
LEMMA RevealKeepsTasks ==
  ASSUME MarketInv, NEW id \in TaskIds, Reveal(id)
  PROVE  MarketInv'
<1>1. PICK u \in Users, score \in Scores, evidence \in EvidenceChoices :
        revealEvaluation(id, u, score, evidence)
  BY DEF Reveal
<1> DEFINE t == tasks[id]
           e == evals[id]
           x == Opening(e[u], score, evidence)
           f == [e EXCEPT ![u] = x]
<1>2. TasksGood /\ StakesGood /\ Ledger
  BY DEF MarketInv
<1>3. /\ tasks \in [TaskIds -> Task] /\ evals \in [TaskIds -> [Users -> Evaluation]]
      /\ posted \in [TaskIds -> Nat]
      /\ SoundTask(id, t, e, posted[id])
      /\ RestTyped
  BY <1>2, Typed
<1>4. /\ t.state = "Reveal" /\ e[u].committed /\ e[u].commitHash = Commitment(id, u, score)
      /\ evals' = [evals EXCEPT ![id] = f]
      /\ tasks' = tasks /\ posted' = posted /\ reputation' = reputation
      /\ nextTaskId' = nextTaskId
      /\ UNCHANGED <<config, marketWeth, stakingVars, rewardVars, now>>
  <2>1. evals' = [evals EXCEPT ![id][u] = x]
    BY <1>1 DEF revealEvaluation, Opening
  <2> HIDE DEF x
  <2>2. evals' = [evals EXCEPT ![id] = f]
    BY <2>1
  <2> QED BY <1>1, <2>2 DEF revealEvaluation
<1>5. StakesGood' /\ Ledger'
  BY <1>2, <1>4, StakesStutter
<1>6. /\ x \in Evaluation /\ x.revealed /\ x.score = score
      /\ x.committed = e[u].committed /\ x.commitHash = e[u].commitHash
  <2>1. e[u] \in Evaluation
    BY <1>3
  <2> HIDE DEF e
  <2> QED BY <2>1, OpenedEvaluation
<1> HIDE DEF x
<1>7. /\ f \in [Users -> Evaluation] /\ f[u] = x
      /\ \A v \in Users \ {u} : f[v] = e[v]
  BY <1>3, <1>6
<1> HIDE DEF f
<1>8. ChangesOnly(id) /\ tasks'[id] = t /\ evals'[id] = f /\ posted'[id] = posted[id]
  BY <1>3, <1>4 DEF ChangesOnly
<1>9. \A v \in Users : SoundEvaluation(id, v, f[v]) /\ f[v].committed = e[v].committed
  <2>1. \A v \in Users : SoundEvaluation(id, v, e[v])
    BY <1>3 DEF SoundTask
  <2>2. SoundEvaluation(id, u, x)
    BY <1>4, <1>6 DEF SoundEvaluation
  <2> QED BY <1>6, <1>7, <2>1, <2>2
<1>10. ListsCommitted(t, f)
  BY <1>3, <1>9 DEF SoundTask, ListsCommitted
<1>11. InPhase(t, f, posted[id]) /\ ~t.wasDisputed
  BY <1>3, <1>4 DEF SoundTask, InPhase, Closed
<1>12. SoundTask(id, tasks'[id], evals'[id], posted'[id])
  BY <1>3, <1>7, <1>8, <1>9, <1>10, <1>11 DEF SoundTask
<1>13. \A v \in Users : SoundReputation(v)'
  BY <1>2, <1>4, <1>8, <1>11, NothingCounted
<1>14. RestTyped'
  BY <1>3, <1>4 DEF RestTyped, rewardVars
<1>15. TasksGood'
  BY <1>2, <1>4, <1>5, <1>8, <1>12, <1>13, <1>14, OneTaskMoves
<1> QED
  BY <1>5, <1>15 DEF MarketInv

(***************************************************************************)
(* finalize and markDisputed                                               *)
(***************************************************************************)
\* The protocol fee is part of the fee of the task; what finalize sends beyond it is the
\* bond of each evaluator, however the slash of the silent ones rounds.
LEMMA FinalizePays ==
  ASSUME NEW id \in TaskIds, RestTyped, tasks[id] \in Task,
         IsFiniteSet(Evaluators(id)), IsFiniteSet(Revealers(id))
  PROVE  /\ ProtocolFee(id) \in 0..tasks[id].feePool
         /\ FinalizeTransfers(id) =
              ProtocolFee(id) + Cardinality(Evaluators(id)) * config.evalBond
         /\ FinalizeTransfers(id) \in Nat
<1> DEFINE fee == ProtocolFee(id)
           pool == tasks[id].feePool
           bps == config.protocolFeeBps
           bond == config.evalBond
           slashed == NonRevealSlash
           c == Cardinality(Evaluators(id))
           r == Cardinality(Revealers(id))
<1>1. pool \in Nat
  BY TaskFields
<1>2. bps \in 0..10000 /\ bond \in Nat /\ config.nonRevealSlashBps \in Nat
  <2> DEFINE k == config.nonRevealSlashBps
  <2>1. bps \in FeeBpsChoices /\ bond \in BondChoices /\ k \in NonRevealChoices
    BY DEF RestTyped, Config
  <2> HIDE DEF bps, bond, k
  <2>2. bps \in 0..2000
    BY <2>1, MarketShares
  <2>3. k \in 0..10000
    BY <2>1, MarketShares
  <2>4. bps \in 0..10000
    BY ONLY <2>2
  <2>6. k \in Nat
    BY ONLY <2>3
  <2>5. bond \in Nat
    BY <2>1, MarketAmounts
  <2> QED BY <2>4, <2>5, <2>6 DEF k
<1> HIDE DEF pool, bps, bond
<1>3. fee \in 0..pool
  <2> DEFINE whole == 10000
  <2>1. whole \in Nat \ {0} /\ bps \in 0..whole
    BY ONLY <1>2
  <2> HIDE DEF whole
  <2>2. (pool * bps) \div whole \in 0..pool
    BY <1>1, <2>1, ShareWithin
  <2> QED BY <2>2 DEF ProtocolFee, whole, pool, bps
<1>4. slashed \in Nat
  <2> DEFINE k == config.nonRevealSlashBps
             p == bond * k
  <2>1. p \in Nat
    <3>1. bond \in Nat /\ k \in Nat
      BY ONLY <1>2
    <3> HIDE DEF k
    <3> QED BY ONLY <3>1
  <2>2. slashed = p \div 10000
    BY DEF NonRevealSlash, bond
  <2> HIDE DEF p, slashed
  <2> QED BY <2>1, <2>2, DivisionBounds
<1>5. c \in Nat /\ r \in Nat /\ r <= c
  <2>1. Revealers(id) \in SUBSET Evaluators(id)
    BY DEF Revealers
  <2> QED BY <2>1, FS_Subset, FS_CardinalityType
<1>6. FinalizeTransfers(id) = fee + r * bond + (c - r) * (bond - slashed) + (c - r) * slashed
  BY DEF FinalizeTransfers, bond
<1> HIDE DEF fee, pool, bps, bond, slashed, c, r
<1>7. r * bond + (c - r) * (bond - slashed) + (c - r) * slashed = c * bond /\ c * bond \in Nat
  <2>1. /\ (c - r) * (bond - slashed) = (c - r) * bond - (c - r) * slashed
        /\ (c - r) * bond = c * bond - r * bond
        /\ (c - r) * slashed \in Int /\ c * bond \in Nat /\ r * bond \in Nat
        /\ (c - r) * bond \in Int
    BY <1>2, <1>4, <1>5
  <2> QED BY <2>1
<1>8. fee \in Nat
  BY <1>1, <1>3
<1>9. FinalizeTransfers(id) = fee + c * bond
  <2> DEFINE a == r * bond
             b == (c - r) * (bond - slashed)
             d == (c - r) * slashed
  <2>1. a \in Int /\ b \in Int /\ d \in Int
    BY <1>2, <1>4, <1>5
  <2>2. a + b + d = c * bond
    BY <1>7
  <2>3. FinalizeTransfers(id) = fee + a + b + d
    BY <1>6
  <2> HIDE DEF a, b, d
  <2> QED BY <1>7, <1>8, <2>1, <2>2, <2>3
<1> QED
  BY <1>3, <1>7, <1>8, <1>9 DEF fee, c, bond, pool

\* The record finalize writes.
Finalized(t, score, bundle, pool) ==
  [t EXCEPT !.state = "Provisional", !.finalScore = score, !.finalBundle = bundle,
            !.payoutPool = pool]

\* It is a task, provisional, with the rest as it was.
LEMMA FinalizedTask ==
  ASSUME NEW t \in Task, NEW score, NEW bundle, NEW pool,
         score \in Nat, score <= 10000, bundle \in Users \union {NoUser}, pool \in Nat,
         NEW n, n = Finalized(t, score, bundle, pool)
  PROVE  /\ n \in Task /\ n.state = "Provisional"
         /\ n.finalScore = score /\ n.finalBundle = bundle /\ n.payoutPool = pool
         /\ n.evaluators = t.evaluators /\ n.minEvals = t.minEvals
         /\ n.wasDisputed = t.wasDisputed
<1> DEFINE B == 0..10
           S == 0..10000
           Q == Seq(Users)
           F == Users \union {NoUser}
<1>1. Task = TaskOf(B, S, Q, F)
  BY DEF Task, TaskOf
<1>2. score \in S /\ bundle \in F /\ "Provisional" \in TaskStates
  BY DEF TaskStates
<1> HIDE DEF B, S, Q, F
<1>3. n \in Task
  <2>1. t \in Task /\ pool \in Nat /\ n = Finalized(t, score, bundle, pool)
    OBVIOUS
  <2> QED BY ONLY <1>1, <1>2, <2>1 DEF TaskOf, Finalized
<1>4. /\ n.state = "Provisional"
      /\ n.finalScore = score /\ n.finalBundle = bundle /\ n.payoutPool = pool
  BY <1>1 DEF TaskOf, Finalized
<1>5. /\ n.evaluators = t.evaluators /\ n.minEvals = t.minEvals
      /\ n.wasDisputed = t.wasDisputed
  BY <1>1 DEF TaskOf, Finalized
<1> QED
  BY <1>3, <1>4, <1>5

\* finalize publishes a median of the revealed scores with the evidence closest to it.
LEMMA FinalizeKeepsTasks ==
  ASSUME MarketInv, NEW id \in TaskIds, finalize(id)
  PROVE  MarketInv'
<1> DEFINE t == tasks[id]
           e == evals[id]
           m == Median(Scoring(e), Shown(e))
           b == FinalEvidence(id, m)
           p == t.feePool - ProtocolFee(id)
           n == Finalized(t, m, b, p)
<1>1. TasksGood /\ StakesGood /\ Ledger
  BY DEF MarketInv
<1>2. /\ tasks \in [TaskIds -> Task] /\ evals \in [TaskIds -> [Users -> Evaluation]]
      /\ posted \in [TaskIds -> Nat]
      /\ SoundTask(id, t, e, posted[id])
      /\ RestTyped
  BY <1>1, Typed
<1>3. /\ Revealers(id) = Shown(e)
      /\ IsFiniteSet(Evaluators(id)) /\ IsFiniteSet(Shown(e))
  BY <1>2, RevealersAre
<1>4. /\ t.state = "Reveal"
      /\ Cardinality(Shown(e)) >= t.minEvals
      /\ tasks' = [tasks EXCEPT ![id] = n]
      /\ posted' = [posted EXCEPT ![id] = 0]
      /\ FinalizeTransfers(id) <= marketWeth
      /\ marketWeth' = marketWeth - FinalizeTransfers(id)
      /\ evals' = evals /\ reputation' = reputation /\ nextTaskId' = nextTaskId
      /\ UNCHANGED <<config, stakingVars, rewardVars, now>>
  BY <1>3 DEF finalize, EnoughReveals, Finalized, Scoring
<1>5. StakesGood' /\ Ledger'
  BY <1>1, <1>4, StakesStutter
<1>6. t.minEvals >= 1 /\ ~t.wasDisputed
  BY <1>2, <1>4 DEF SoundTask, InPhase
<1>7. Shown(e) # {}
  <2>1. t.minEvals \in Nat
    BY <1>2, TaskFields
  <2>2. Cardinality(Shown(e)) \in Nat
    BY <1>3, FS_CardinalityType
  <2>3. Cardinality(Shown(e)) # 0
    BY <1>4, <1>6, <2>1, <2>2
  <2> QED BY <2>3, FS_EmptySet
<1>8. \A u \in Shown(e) : /\ Scoring(e)[u] \in Nat /\ Scoring(e)[u] <= 10000
  <2>1. \A u \in Users : e[u] \in Evaluation
    BY <1>2
  <2> QED BY <2>1, EvaluationFields DEF Scoring, Shown
<1>9. IsMedian(m, Scoring(e), Shown(e))
  BY <1>3, <1>7, <1>8, MedianExists
<1>10. m \in Nat /\ m <= 10000 /\ m \in 0..10000
  <2> HIDE DEF m
  <2>1. m \in Nat /\ m <= 10000
    BY <1>8, <1>9 DEF IsMedian
  <2> QED BY <2>1
<1>11. Supported(e, b, m) /\ b \in Users \union {NoUser}
  <2> HIDE DEF m
  <2> QED BY <1>2, <1>10, EvidenceIsClosest
<1>12. FinalizeTransfers(id) \in Nat /\ p \in Nat
  <2>0. t \in Task
    BY <1>2
  <2>1. t.feePool \in Nat
    BY <2>0, TaskFields
  <2>2. ProtocolFee(id) \in 0..t.feePool /\ FinalizeTransfers(id) \in Nat
    BY <1>2, <1>3, <2>0, FinalizePays
  <2> QED BY <2>1, <2>2
<1> HIDE DEF m, b, p
<1>13. /\ n \in Task /\ n.state = "Provisional"
       /\ n.finalScore = m /\ n.finalBundle = b
       /\ n.evaluators = t.evaluators /\ n.minEvals = t.minEvals
       /\ n.wasDisputed = t.wasDisputed
  <2>1. t \in Task
    BY <1>2
  <2>2. m \in Nat /\ m <= 10000 /\ b \in Users \union {NoUser} /\ p \in Nat
    BY <1>10, <1>11, <1>12
  <2> HIDE DEF t
  <2> QED BY ONLY <2>1, <2>2, FinalizedTask
<1> HIDE DEF n
<1>14. ChangesOnly(id) /\ tasks'[id] = n /\ evals'[id] = e /\ posted'[id] = 0
  BY <1>2, <1>4 DEF ChangesOnly
<1>15. InPhase(n, e, 0)
  BY <1>4, <1>6, <1>9, <1>11, <1>13 DEF InPhase, Closed
<1>16. SoundTask(id, tasks'[id], evals'[id], posted'[id])
  <2>1. ListsCommitted(n, e)
    BY <1>2, <1>13 DEF SoundTask, ListsCommitted
  <2> QED BY <1>2, <1>13, <1>14, <1>15, <2>1 DEF SoundTask
<1>17. \A u \in Users : SoundReputation(u)'
  BY <1>1, <1>4, <1>6, <1>13, <1>14, NothingCounted
<1>18. RestTyped'
  <2>1. marketWeth \in Nat
    BY <1>2 DEF RestTyped
  <2>2. marketWeth' \in Nat
    BY <1>4, <1>12, <2>1
  <2> QED BY <1>2, <1>4, <2>2 DEF RestTyped, rewardVars
<1>19. TasksGood'
  BY <1>1, <1>4, <1>5, <1>13, <1>14, <1>16, <1>17, <1>18, OneTaskMoves
<1> QED
  BY <1>5, <1>19 DEF MarketInv

\* The record markDisputed writes.
LEMMA DisputedTask ==
  ASSUME NEW t \in Task, NEW n, n = [t EXCEPT !.state = "Disputed", !.wasDisputed = TRUE]
  PROVE  /\ n \in Task /\ n.state = "Disputed" /\ n.wasDisputed
         /\ n.finalScore = t.finalScore /\ n.finalBundle = t.finalBundle
         /\ n.evaluators = t.evaluators /\ n.minEvals = t.minEvals
         /\ n.feePool = t.feePool /\ n.payoutPool = t.payoutPool
<1> DEFINE B == 0..10
           S == 0..10000
           Q == Seq(Users)
           F == Users \union {NoUser}
<1>1. Task = TaskOf(B, S, Q, F)
  BY DEF Task, TaskOf
<1>2. "Disputed" \in TaskStates
  BY DEF TaskStates
<1> HIDE DEF B, S, Q, F
<1> QED
  BY <1>1, <1>2 DEF TaskOf

\* The tasks a reputation counts are finite in number.
LEMMA TasksAreFinite ==
  \A u : /\ IsFiniteSet(SettledOf(u)) /\ IsFiniteSet(DisputedOf(u)) /\ IsFiniteSet(WonOf(u))
         /\ Cardinality(SettledOf(u)) \in Nat
         /\ Cardinality(DisputedOf(u)) \in Nat /\ Cardinality(WonOf(u)) \in Nat
<1> SUFFICES ASSUME NEW u
             PROVE  /\ IsFiniteSet(SettledOf(u)) /\ IsFiniteSet(DisputedOf(u))
                    /\ IsFiniteSet(WonOf(u))
  BY FS_CardinalityType
<1>1. IsFiniteSet(TaskIds)
  BY MarketTerms, FS_Interval DEF TaskIds
<1>2. SettledOf(u) \in SUBSET TaskIds /\ DisputedOf(u) \in SUBSET TaskIds
      /\ WonOf(u) \in SUBSET TaskIds
  BY DEF SettledOf, DisputedOf, WonOf
<1> QED
  BY <1>1, <1>2, FS_Subset

\* markDisputed counts the dispute once for everyone who revealed.
LEMMA DisputeKeepsTasks ==
  ASSUME MarketInv, NEW id \in TaskIds, markDisputed(id)
  PROVE  MarketInv'
<1> DEFINE t == tasks[id]
           e == evals[id]
           n == [t EXCEPT !.state = "Disputed", !.wasDisputed = TRUE]
<1>1. TasksGood /\ StakesGood /\ Ledger
  BY DEF MarketInv
<1>2. /\ tasks \in [TaskIds -> Task] /\ evals \in [TaskIds -> [Users -> Evaluation]]
      /\ posted \in [TaskIds -> Nat]
      /\ SoundTask(id, t, e, posted[id])
      /\ RestTyped
  BY <1>1, Typed
<1>3. Revealers(id) = Shown(e)
  BY <1>2, RevealersAre
<1>4. /\ t.state = "Provisional"
      /\ tasks' = [tasks EXCEPT ![id] = n]
      /\ evals' = evals /\ posted' = posted /\ nextTaskId' = nextTaskId
      /\ reputation' = [u \in Users |->
           IF u \in Shown(e) THEN [reputation[u] EXCEPT !.against = @ + 1] ELSE reputation[u]]
      /\ UNCHANGED <<config, marketWeth, stakingVars, rewardVars, now>>
  BY <1>3 DEF markDisputed
<1>5. StakesGood' /\ Ledger'
  BY <1>1, <1>4, StakesStutter
<1>6. /\ n \in Task /\ n.state = "Disputed" /\ n.wasDisputed
      /\ n.finalScore = t.finalScore /\ n.finalBundle = t.finalBundle
      /\ n.evaluators = t.evaluators /\ n.minEvals = t.minEvals
  <2>1. t \in Task
    BY <1>2
  <2> HIDE DEF t
  <2> QED BY <2>1, DisputedTask
<1> HIDE DEF n
<1>7. ChangesOnly(id) /\ tasks'[id] = n /\ evals'[id] = e /\ posted'[id] = posted[id]
  BY <1>2, <1>4 DEF ChangesOnly
<1>8. InPhase(n, e, posted[id]) /\ ~t.wasDisputed
  BY <1>2, <1>4, <1>6 DEF SoundTask, InPhase, Closed
<1>9. SoundTask(id, tasks'[id], evals'[id], posted'[id])
  <2>1. ListsCommitted(n, e)
    BY <1>2, <1>6 DEF SoundTask, ListsCommitted
  <2> QED BY <1>2, <1>6, <1>7, <1>8, <2>1 DEF SoundTask
<1>10. \A u \in Users : /\ reputation[u].total \in Nat /\ reputation[u].against \in Nat
                        /\ reputation[u].accurate \in Nat /\ reputation[u].won \in Nat
                        /\ reputation[u].earned \in Nat
  BY <1>2 DEF RestTyped
<1>11. ASSUME NEW u \in Users
       PROVE  SoundReputation(u)'
  <2>1. SettledOf(u)' = SettledOf(u)
    BY <1>4, <1>6, <1>7 DEF SettledOf, ChangesOnly
  <2>2. SoundReputation(u)
    BY <1>1 DEF TasksGood
  <2>3. /\ reputation'[u].total = reputation[u].total
        /\ reputation'[u].accurate = reputation[u].accurate
        /\ reputation'[u].won = reputation[u].won
    BY <1>2, <1>4 DEF RestTyped
  <2>4. id \notin SettledOf(u) /\ id \notin DisputedOf(u)
    BY <1>4, <1>8 DEF SettledOf, DisputedOf
  <2>5. CASE e[u].revealed
    <3>1. DisputedOf(u)' = DisputedOf(u) \union {id}
      BY <2>5, <1>6, <1>7 DEF DisputedOf, ChangesOnly
    <3>2. Cardinality(DisputedOf(u)') = Cardinality(DisputedOf(u)) + 1
      BY <2>4, <3>1, TasksAreFinite, FS_AddElement
    <3>3. reputation'[u].against = reputation[u].against + 1
      BY <2>5, <1>2, <1>4 DEF RestTyped, Shown
    <3>4. WonOf(u)' = WonOf(u)
      BY <2>1, <2>4, <3>1 DEF WonOf
    <3> QED BY <2>1, <2>2, <2>3, <3>2, <3>3, <3>4 DEF SoundReputation
  <2>6. CASE ~e[u].revealed
    <3>1. DisputedOf(u)' = DisputedOf(u)
      BY <2>6, <1>7 DEF DisputedOf, ChangesOnly
    <3>2. reputation'[u] = reputation[u]
      BY <2>6, <1>4 DEF Shown
    <3>3. WonOf(u)' = WonOf(u)
      BY <2>1, <3>1 DEF WonOf
    <3> QED BY <2>1, <2>2, <3>1, <3>2, <3>3 DEF SoundReputation
  <2> QED BY <2>5, <2>6
<1>12. RestTyped'
  <2> DEFINE R == [total : Nat, accurate : Nat, earned : Nat, against : Nat, won : Nat]
  <2>1. reputation \in [Users -> R]
    BY <1>2 DEF RestTyped
  <2>2. \A u \in Users : [reputation[u] EXCEPT !.against = @ + 1] \in R
    BY <1>10, <2>1
  <2>3. reputation' \in [Users -> R]
    <3> HIDE DEF R
    <3> QED BY <1>4, <2>1, <2>2
  <2> QED BY <1>2, <1>4, <2>3 DEF RestTyped, rewardVars
<1>13. TasksGood'
  <2>1. t.state # "None" /\ tasks'[id].state # "None"
    BY <1>4, <1>6, <1>7
  <2> QED BY <1>1, <1>4, <1>5, <1>7, <1>9, <1>11, <1>12, <2>1, OneTaskMoves
<1> QED
  BY <1>5, <1>13 DEF MarketInv

(***************************************************************************)
(* _settleTask: the stakes                                                 *)
(***************************************************************************)
\* The evaluators of a task with stake locked for it, and those a settlement slashes.
Holding(id) == {u \in Evaluators(id) : HoldsLock(id, u)}

Hit(id, final, disputed) == {u \in Evaluators(id) : IsSlashed(id, u, final, disputed)}

\* _settleTask slashes and unlocks within the stakes, the books of StakingManager stay in
\* order, and of each lock it frees at least what the task had locked.
LEMMA SettleKeepsStakes ==
  ASSUME StakesGood, Ledger, NEW id \in TaskIds,
         SoundTask(id, tasks[id], evals[id], posted[id]),
         NEW final, NEW disputed, SettleStakes(id, final, disputed), now' = now
  PROVE  /\ StakesGood' /\ Ledger'
         /\ \A u \in Users :
              IF u \in Holding(id)
              THEN stakes'[u].lockedAmount + evals[id][u].lockedStake <= stakes[u].lockedAmount
              ELSE stakes'[u] = stakes[u]
<1> DEFINE hit == Hit(id, final, disputed)
           holding == Holding(id)
           cut == [u \in Users |-> IF u \in hit THEN SlashAmount(stakes[u]) ELSE 0]
           slashed == [u \in Users |-> IF u \in hit THEN Slashed(stakes[u]) ELSE stakes[u]]
           l(u) == evals[id][u].lockedStake
           n(u) == SettledStake(stakes[u], l(u), u \in hit)
<1>1. /\ \A u \in hit : CanSlash(stakes[u])
      /\ \A u \in holding : CanUnlock(slashed[u], RestOfLock(id, u, cut[u]))
      /\ stakes' = [u \in Users |->
            IF u \in holding THEN Unlocked(slashed[u], RestOfLock(id, u, cut[u])) ELSE stakes[u]]
      /\ slashedPool' = slashedPool + SumFunction(cut)
      /\ totalStaked' = [t \in StakeTypes |->
            totalStaked[t]
              - SumFunction([u \in Users |-> IF stakes[u].stakeType = t THEN cut[u] ELSE 0])]
      /\ UNCHANGED <<ethBalance, wallet>>
  BY DEF SettleStakes, Hit, Holding
<1>2. /\ stakes \in [Users -> Stake] /\ now \in Nat
      /\ \A u \in Users : GoodStake(stakes[u])
  BY DEF StakesGood
<1>3. hit \subseteq holding /\ holding \subseteq Users
  <2>1. Evaluators(id) \in SUBSET Users
    BY RevealersAre
  <2> QED BY <2>1 DEF Hit, Holding, IsSlashed
<1>4. \A u \in Users : l(u) \in Nat
  <2>1. \A x \in Evaluation : x.lockedStake \in Nat
    BY EvaluationFields
  <2>2. \A u \in Users : evals[id][u] \in Evaluation
    BY DEF SoundTask
  <2> QED BY <2>1, <2>2
<1> HIDE DEF hit, holding
<1>5. \A u \in holding :
        /\ CanUnlock(IF u \in hit THEN Slashed(stakes[u]) ELSE stakes[u],
                     IF cut[u] >= l(u) THEN 0 ELSE l(u) - cut[u])
        /\ stakes'[u] = n(u)
  BY <1>1, <1>3 DEF RestOfLock, SettledStake
<1>6. ASSUME NEW u \in holding
      PROVE  /\ GoodStake(n(u))
             /\ cut[u] \in Nat
             /\ n(u).amount = stakes[u].amount - cut[u]
             /\ n(u).unbondingAmount = stakes[u].unbondingAmount
             /\ n(u).stakeType = stakes[u].stakeType
             /\ n(u).lockedAmount + l(u) <= stakes[u].lockedAmount
  <2> DEFINE s == stakes[u]
             h == u \in hit
             c == cut[u]
             k == l(u)
  <2>0. u \in Users
    BY <1>3
  <2>a. GoodStake(s) /\ k \in Nat
    BY <2>0, <1>2, <1>4
  <2>b. h \in BOOLEAN /\ (h => CanSlash(s))
    BY <1>1
  <2>c. c = IF h THEN SlashAmount(s) ELSE 0
    BY <2>0
  <2>d. CanUnlock(IF h THEN Slashed(s) ELSE s, IF c >= k THEN 0 ELSE k - c)
    BY <1>5
  <2> HIDE DEF s, h, c, k
  <2>2. LET r == SettledStake(s, k, h)
        IN  /\ GoodStake(r)
            /\ c \in Nat
            /\ r.amount = s.amount - c
            /\ r.unbondingAmount = s.unbondingAmount
            /\ r.stakeType = s.stakeType
            /\ r.lockedAmount + k <= s.lockedAmount
    BY <2>a, <2>b, <2>c, <2>d, SettledStakeIsGood
  <2> QED BY <2>2 DEF s, h, c, k
<1>7. \A u \in Users \ holding : cut[u] = 0 /\ stakes'[u] = stakes[u]
  BY <1>1, <1>3
<1>8. \A u \in Users : \/ u \in holding /\ stakes'[u] = n(u)
                       \/ u \in Users \ holding /\ stakes'[u] = stakes[u]
  BY <1>5, <1>7
<1>9. \A u \in Users : GoodStake(stakes'[u])
  <2> HIDE DEF n
  <2> QED BY <1>2, <1>6, <1>8
<1>10. StakesGood'
  <2>1. \A s : GoodStake(s) => s \in Stake
    BY DEF GoodStake
  <2>2. stakes' = [u \in Users |-> stakes'[u]]
    BY <1>1
  <2>3. stakes' \in [Users -> Stake]
    BY <1>9, <2>1, <2>2
  <2> QED BY <1>2, <1>9, <2>3 DEF StakesGood
<1>11. CutsMove(cut)
  <2>1. \A u \in Users : cut[u] \in Nat
    <3> HIDE DEF n, cut
    <3> QED BY <1>6, <1>7, <1>8
  <2>2. cut \in [Users -> Nat]
    BY <2>1
  <2>3. \A u \in Users : /\ stakes[u].amount \in Nat
    BY <1>2 DEF Stake
  <2>4. \A u \in Users : /\ stakes'[u].amount = stakes[u].amount - cut[u]
                         /\ stakes'[u].unbondingAmount = stakes[u].unbondingAmount
                         /\ stakes'[u].stakeType = stakes[u].stakeType
    <3> HIDE DEF n, cut
    <3> QED BY <1>6, <1>7, <1>8, <2>3
  <2> HIDE DEF cut
  <2> QED BY <1>1, <2>2, <2>4 DEF CutsMove
<1>12. Ledger'
  <2> HIDE DEF cut
  <2> QED BY <1>10, <1>11, CutsKeepLedger
<1>13. \A u \in Users :
         IF u \in holding THEN stakes'[u].lockedAmount + l(u) <= stakes[u].lockedAmount
         ELSE stakes'[u] = stakes[u]
  <2> HIDE DEF n
  <2> QED BY <1>6, <1>8
<1> QED
  BY <1>10, <1>12, <1>13 DEF holding

(***************************************************************************)
(* _settleTask: the rewards and the record                                 *)
(***************************************************************************)
\* Releasing the lock of an evaluation changes nothing else of it.
LEMMA ReleasedEvaluation ==
  ASSUME NEW x \in Evaluation, NEW y, y = [x EXCEPT !.lockedStake = 0]
  PROVE  /\ y \in Evaluation /\ y.lockedStake = 0
         /\ y.committed = x.committed /\ y.commitHash = x.commitHash
         /\ y.revealed = x.revealed /\ y.score = x.score /\ y.evidence = x.evidence
<1> DEFINE H == (TaskIds \X Users \X Scores) \union {NoHash}
           S == 0..10000
<1>1. Evaluation = [committed : BOOLEAN, commitHash : H, revealed : BOOLEAN, score : S,
                    evidence : BOOLEAN, lockedStake : Nat]
  BY DEF Evaluation
<1> HIDE DEF H, S
<1> QED
  BY <1>1

\* What a settlement pays out of a payout pool: all of it, but for less than a wei for each
\* revealer.
LEMMA SharesMakeThePool ==
  ASSUME NEW id \in TaskIds, tasks[id] \in Task, NEW final,
         IsFiniteSet(Revealers(id)), Revealers(id) # {},
         NEW paid, paid = SumFunction([u \in Revealers(id) |-> Share(id, u, final)])
  PROVE  /\ \A u \in Revealers(id) : Share(id, u, final) \in Nat
         /\ paid \in Nat /\ paid <= tasks[id].payoutPool
         /\ tasks[id].payoutPool <= paid + Cardinality(Revealers(id)) - 1
<1> DEFINE R == Revealers(id)
           w == [v \in R |-> Weight(id, v, final)]
           p == tasks[id].payoutPool
           q == [u \in R |-> Share(id, u, final)]
<1>1. p \in Nat
  BY TaskFields
<1>2. w \in [R -> Nat \ {0}]
  BY DEF Weight
<1>3. q = [u \in R |-> (p * w[u]) \div SumFunction(w)]
  BY DEF Share
<1>4. paid = SumFunction(q)
  OBVIOUS
<1> HIDE DEF R, w, p, q
<1>5. IsFiniteSet(R) /\ R # {}
  BY DEF R
<1>6. /\ q \in [R -> Nat] /\ SumFunction(q) \in Nat
      /\ SumFunction(q) <= p /\ p <= SumFunction(q) + Cardinality(R) - 1
  BY <1>1, <1>2, <1>3, <1>5, SharesRoundDown
<1>7. \A u \in R : Share(id, u, final) = q[u]
  BY DEF q
<1> QED
  BY <1>4, <1>6, <1>7 DEF R, p

\* onTaskFinalized mints natural amounts.
LEMMA MintsTyped ==
  ASSUME RestTyped, NEW id \in TaskIds, NEW winners \in SUBSET Users,
         onTaskFinalized(id, winners)
  PROVE  /\ rewardConfig' \in RewardConfigs /\ rewardsPaid' \subseteq TaskIds
         /\ minted' \in [Users -> Nat]
<1> DEFINE b == rewardConfig.base
           k == Cardinality(winners)
<1>1. minted \in [Users -> Nat] /\ b \in Nat
  BY RewardConstants DEF RestTyped
<1>2. ASSUME NEW a \in winners PROVE b \div k \in Nat
  <2>1. IsFiniteSet(winners) /\ winners # {}
    BY StakingConstants, FS_Subset
  <2>2. k \in Nat \ {0}
    BY <2>1, FS_EmptySet, FS_CardinalityType
  <2> HIDE DEF b, k
  <2> QED BY <1>1, <2>2, DivisionBounds
<1>3. minted' = [a \in Users |-> IF a \in winners THEN minted[a] + b \div k ELSE minted[a]]
  BY <1>1 DEF onTaskFinalized
<1> HIDE DEF b, k
<1>4. minted' \in [Users -> Nat]
  BY <1>1, <1>2, <1>3
<1> QED
  BY <1>4 DEF RestTyped, onTaskFinalized

\* The record _settleTask writes.
SettledTask(t, final, bundle, paid) ==
  [t EXCEPT !.state = "Resolved", !.finalScore = final, !.finalBundle = bundle,
            !.payoutsSettled = TRUE, !.rewardsPaid = paid]

\* It is a task, resolved, with the rest as it was.
LEMMA SettledTaskTyped ==
  ASSUME NEW t \in Task, NEW final, NEW bundle, NEW paid,
         final \in Nat, final <= 10000, bundle \in Users \union {NoUser}, paid \in BOOLEAN,
         NEW n, n = SettledTask(t, final, bundle, paid)
  PROVE  /\ n \in Task /\ n.state = "Resolved"
         /\ n.finalScore = final /\ n.finalBundle = bundle
         /\ n.evaluators = t.evaluators /\ n.minEvals = t.minEvals
         /\ n.wasDisputed = t.wasDisputed
<1> DEFINE B == 0..10
           S == 0..10000
           Q == Seq(Users)
           F == Users \union {NoUser}
<1>1. Task = TaskOf(B, S, Q, F)
  BY DEF Task, TaskOf
<1>2. final \in S /\ bundle \in F /\ "Resolved" \in TaskStates
  BY DEF TaskStates
<1> HIDE DEF B, S, Q, F
<1>3. n \in Task
  <2>1. t \in Task /\ paid \in BOOLEAN /\ n = SettledTask(t, final, bundle, paid)
    OBVIOUS
  <2> QED BY ONLY <1>1, <1>2, <2>1 DEF TaskOf, SettledTask
<1>4. n.state = "Resolved" /\ n.finalScore = final /\ n.finalBundle = bundle
  BY <1>1 DEF TaskOf, SettledTask
<1>5. /\ n.evaluators = t.evaluators /\ n.minEvals = t.minEvals
      /\ n.wasDisputed = t.wasDisputed
  BY <1>1 DEF TaskOf, SettledTask
<1> QED
  BY <1>3, <1>4, <1>5

\* Whether evidence supports a score depends on what was revealed alone.
LEMMA SupportStays ==
  ASSUME NEW e, NEW f, NEW best, NEW final, Supported(e, best, final),
         \A u \in Users : /\ f[u].revealed = e[u].revealed
                          /\ f[u].score = e[u].score
                          /\ f[u].evidence = e[u].evidence
  PROVE  Shown(f) = Shown(e) /\ Supported(f, best, final)
<1>1. Shown(f) = Shown(e)
  BY DEF Shown
<1> DEFINE given == {u \in Shown(e) : e[u].evidence}
<1>2. {u \in Shown(f) : f[u].evidence} = given
  BY <1>1 DEF Shown
<1>3. \A u \in given : u \in Users
  BY DEF Shown
<1> QED
  BY <1>1, <1>2, <1>3 DEF Supported

(***************************************************************************)
(* _settleTask: the reputations                                            *)
(***************************************************************************)
\* A settlement counts for its revealers once, and a won dispute only if there was one.
LEMMA CreditCounts ==
  ASSUME TasksGood, NEW id \in TaskIds, ChangesOnly(id), NEW final, Credit(id, final),
         tasks[id].state \in {"Provisional", "Disputed"}, tasks'[id].state = "Resolved",
         tasks'[id].wasDisputed = tasks[id].wasDisputed,
         \A u \in Users : evals'[id][u].revealed = evals[id][u].revealed,
         \A u \in Revealers(id) : Share(id, u, final) \in Nat
  PROVE  /\ \A u \in Users : SoundReputation(u)'
         /\ reputation' \in [Users -> [total : Nat, accurate : Nat, earned : Nat,
                                       against : Nat, won : Nat]]
<1> DEFINE R == [total : Nat, accurate : Nat, earned : Nat, against : Nat, won : Nat]
           ok(u) == IF IsAccurate(id, u, final) THEN 1 ELSE 0
           def == IF Defended(id, final) THEN 1 ELSE 0
           new(u) == [reputation[u] EXCEPT
                        !.total = @ + 1, !.accurate = @ + ok(u),
                        !.earned = @ + Share(id, u, final), !.won = @ + def]
<1>1. /\ SoundTask(id, tasks[id], evals[id], posted[id])
      /\ reputation \in [Users -> R]
  BY Typed DEF RestTyped
<1>2. Revealers(id) = Shown(evals[id])
  BY <1>1, RevealersAre
<1>3. reputation' = [u \in Users |->
        IF u \in Shown(evals[id]) THEN new(u) ELSE reputation[u]]
  BY <1>2 DEF Credit
<1>4. (tasks[id].state = "Disputed" <=> tasks[id].wasDisputed) /\ tasks[id].wasDisputed \in BOOLEAN
  <2>1. tasks[id].wasDisputed \in BOOLEAN
    <3>1. tasks[id] \in Task
      BY <1>1 DEF SoundTask
    <3>2. \A t \in Task : t.wasDisputed \in BOOLEAN
      BY TaskFields
    <3> QED BY <3>1, <3>2
  <2>2. tasks[id].state = "Provisional" => ~tasks[id].wasDisputed
    BY <1>1 DEF SoundTask, InPhase
  <2>3. tasks[id].state = "Disputed" => tasks[id].wasDisputed
    BY <1>1 DEF SoundTask, InPhase
  <2> QED BY <2>1, <2>2, <2>3
<1>5. /\ \A u \in Users : ok(u) \in {0, 1}
      /\ def \in {0, 1} /\ (def = 1 => tasks[id].wasDisputed)
  BY <1>4 DEF Defended
<1> HIDE DEF ok, def
<1>6. ASSUME NEW u \in Shown(evals[id])
      PROVE  /\ new(u) \in R
             /\ new(u).total = reputation[u].total + 1
             /\ new(u).accurate = reputation[u].accurate + ok(u)
             /\ new(u).against = reputation[u].against
             /\ new(u).won = reputation[u].won + def
  <2>1. u \in Users /\ reputation[u] \in R
    BY <1>1 DEF Shown
  <2>2. Share(id, u, final) \in Nat /\ ok(u) \in Nat /\ def \in Nat
    BY <1>2, <1>5, <2>1
  <2> DEFINE r == reputation[u]
             s == Share(id, u, final)
             a == ok(u)
  <2>3. r \in R /\ s \in Nat /\ a \in Nat /\ def \in Nat
    BY <2>1, <2>2
  <2> HIDE DEF r, s, a
  <2>4. [r EXCEPT !.total = @ + 1, !.accurate = @ + a, !.earned = @ + s, !.won = @ + def] \in R
    <3> DEFINE n1 == r.total + 1
               n2 == r.accurate + a
               n3 == r.earned + s
               n4 == r.won + def
    <3>1. n1 \in Nat /\ n2 \in Nat /\ n3 \in Nat /\ n4 \in Nat
      BY <2>3
    <3> HIDE DEF n1, n2, n3, n4
    <3>2. [r EXCEPT !.total = n1, !.accurate = n2, !.earned = n3, !.won = n4] \in R
      BY <2>3, <3>1
    <3> QED BY <3>2 DEF n1, n2, n3, n4
  <2>5. LET x == [r EXCEPT !.total = @ + 1, !.accurate = @ + a, !.earned = @ + s, !.won = @ + def]
        IN  /\ x.total = r.total + 1 /\ x.accurate = r.accurate + a
            /\ x.against = r.against /\ x.won = r.won + def
    BY <2>3
  <2> QED BY <2>4, <2>5 DEF r, s, a
<1> HIDE DEF new
<1>7. reputation' \in [Users -> R]
  <2> HIDE DEF R
  <2> QED BY <1>1, <1>3, <1>6
<1>8. ASSUME NEW u \in Users
      PROVE  SoundReputation(u)'
  <2>1. SoundReputation(u)
    BY DEF TasksGood
  <2>2. DisputedOf(u)' = DisputedOf(u)
    BY DEF DisputedOf, ChangesOnly
  <2>3. id \notin SettledOf(u) /\ (id \in DisputedOf(u) => tasks[id].wasDisputed)
    BY DEF SettledOf, DisputedOf
  <2>4. /\ reputation[u].total \in Nat /\ reputation[u].accurate \in Nat
        /\ reputation[u].won \in Nat
    BY <1>1
  <2>5. CASE evals[id][u].revealed
    <3>1. SettledOf(u)' = SettledOf(u) \union {id}
      BY <2>5 DEF SettledOf, ChangesOnly
    <3>2. Cardinality(SettledOf(u)') = Cardinality(SettledOf(u)) + 1
      BY <2>3, <3>1, TasksAreFinite, FS_AddElement
    <3>3. /\ reputation'[u].total = reputation[u].total + 1
          /\ reputation'[u].accurate = reputation[u].accurate + ok(u)
          /\ reputation'[u].against = reputation[u].against
          /\ reputation'[u].won = reputation[u].won + def
      BY <2>5, <1>3, <1>6 DEF Shown
    <3>4. \/ Cardinality(WonOf(u)') = Cardinality(WonOf(u)) + 1
          \/ WonOf(u)' = WonOf(u) /\ def = 0
      <4>1. CASE tasks[id].wasDisputed
        <5>1. id \in DisputedOf(u)
          BY <2>5, <4>1 DEF DisputedOf
        <5>2. WonOf(u)' = WonOf(u) \union {id} /\ id \notin WonOf(u)
          BY <2>2, <2>3, <3>1, <5>1 DEF WonOf
        <5>3. IsFiniteSet(WonOf(u))
          BY TasksAreFinite
        <5>4. Cardinality(WonOf(u) \union {id}) = Cardinality(WonOf(u)) + 1
          BY <5>2, <5>3, FS_AddElement
        <5>5. Cardinality(WonOf(u)') = Cardinality(WonOf(u)) + 1
          BY <5>2, <5>4
        <5> QED BY <5>5
      <4>2. CASE ~tasks[id].wasDisputed
        <5>1. WonOf(u)' = WonOf(u)
          BY <2>2, <2>3, <3>1, <4>2 DEF WonOf
        <5> QED BY <4>2, <5>1, <1>5
      <4> QED BY <4>1, <4>2
    <3>5. Cardinality(WonOf(u)) \in Nat
      BY TasksAreFinite
    <3>6. ok(u) \in {0, 1} /\ def \in {0, 1}
      BY <1>5
    <3>7. reputation'[u].won <= Cardinality(WonOf(u)')
      <4>1. reputation[u].won <= Cardinality(WonOf(u))
        BY <2>1 DEF SoundReputation
      <4> QED BY <1>5, <2>4, <3>3, <3>4, <3>5, <4>1
    <3>8. reputation'[u].accurate <= reputation'[u].total
      <4>1. reputation[u].accurate <= reputation[u].total
        BY <2>1 DEF SoundReputation
      <4> QED BY <2>4, <3>3, <3>6, <4>1
    <3>9. reputation'[u].total = Cardinality(SettledOf(u)')
      BY <2>1, <3>2, <3>3 DEF SoundReputation
    <3>10. reputation'[u].against = Cardinality(DisputedOf(u)')
      BY <2>1, <2>2, <3>3 DEF SoundReputation
    <3> QED BY <3>7, <3>8, <3>9, <3>10 DEF SoundReputation
  <2>6. CASE ~evals[id][u].revealed
    <3>1. SettledOf(u)' = SettledOf(u)
      BY <2>6 DEF SettledOf, ChangesOnly
    <3>2. WonOf(u)' = WonOf(u)
      BY <2>2, <3>1 DEF WonOf
    <3>3. reputation'[u] = reputation[u]
      BY <2>6, <1>3 DEF Shown
    <3> QED BY <2>1, <2>2, <3>1, <3>2, <3>3 DEF SoundReputation
  <2> QED BY <2>5, <2>6
<1> QED
  BY <1>7, <1>8

(***************************************************************************)
(* _settleTask, finalizeUndisputed and markResolved                        *)
(***************************************************************************)
\* _settleTask resolves a task whose evidence supports the score it is settled at.
LEMMA SettleKeepsTasks ==
  ASSUME MarketInv, NEW id \in TaskIds, NEW final, NEW bundle, NEW disputed,
         final \in Nat, final <= 10000, bundle \in Users \union {NoUser},
         tasks[id].state \in {"Provisional", "Disputed"},
         Supported(evals[id], bundle, final),
         Settle(id, final, bundle, disputed)
  PROVE  MarketInv'
<1> DEFINE t == tasks[id]
           e == evals[id]
           f == [u \in Users |->
                   IF u \in Holding(id) THEN [e[u] EXCEPT !.lockedStake = 0] ELSE e[u]]
           p == t.rewardsPaid \/ config.rewardsOn
           n == SettledTask(t, final, bundle, p)
           paid == SumFunction([u \in Revealers(id) |-> Share(id, u, final)])
<1>1. TasksGood /\ StakesGood /\ Ledger
  BY DEF MarketInv
<1>2. /\ tasks \in [TaskIds -> Task] /\ evals \in [TaskIds -> [Users -> Evaluation]]
      /\ posted \in [TaskIds -> Nat]
      /\ SoundTask(id, t, e, posted[id])
      /\ RestTyped
  BY <1>1, Typed
<1>3. /\ Revealers(id) = Shown(e)
      /\ IsFiniteSet(Shown(e)) /\ Evaluators(id) \in SUBSET Users
  BY <1>2, RevealersAre
<1>4. /\ SettleStakes(id, final, disputed) /\ now' = now
      /\ paid <= marketWeth /\ marketWeth' = marketWeth - paid
      /\ Credit(id, final)
      /\ IF config.rewardsOn
         THEN onTaskFinalized(id, Winners(evals[id], Evaluators(id), final))
         ELSE UNCHANGED rewardVars
  BY DEF Settle
<1>a. posted' = posted /\ nextTaskId' = nextTaskId /\ config' = config
  BY DEF Settle
<1>5. evals' = [evals EXCEPT ![id] = f]
  BY <1>4 DEF SettleStakes, Holding
<1>6. tasks' = [tasks EXCEPT ![id] = n]
  <2>1. tasks' = [tasks EXCEPT ![id] =
           [@ EXCEPT !.state = "Resolved", !.finalScore = final, !.finalBundle = bundle,
                     !.payoutsSettled = TRUE, !.rewardsPaid = p]]
    BY DEF Settle
  <2>2. n = [tasks[id] EXCEPT !.state = "Resolved", !.finalScore = final, !.finalBundle = bundle,
                              !.payoutsSettled = TRUE, !.rewardsPaid = p]
    BY DEF SettledTask
  <2> HIDE DEF n, p
  <2> QED BY ONLY <2>1, <2>2
<1>7. StakesGood' /\ Ledger'
  BY <1>1, <1>2, <1>4, SettleKeepsStakes
<1>8. /\ n \in Task /\ n.state = "Resolved"
      /\ n.finalScore = final /\ n.finalBundle = bundle
      /\ n.evaluators = t.evaluators /\ n.minEvals = t.minEvals
      /\ n.wasDisputed = t.wasDisputed
  <2>1. t \in Task
    BY <1>2
  <2>2. final \in Nat /\ final <= 10000 /\ bundle \in Users \union {NoUser} /\ p \in BOOLEAN
    OBVIOUS
  <2> HIDE DEF t, p
  <2> QED BY ONLY <2>1, <2>2, SettledTaskTyped
<1> HIDE DEF n, p
<1>9. ASSUME NEW u \in Users
      PROVE  /\ f[u] \in Evaluation
             /\ f[u].committed = e[u].committed /\ f[u].commitHash = e[u].commitHash
             /\ f[u].revealed = e[u].revealed /\ f[u].score = e[u].score
             /\ f[u].evidence = e[u].evidence
             /\ ~e[u].committed => f[u] = e[u]
  <2>1. e[u] \in Evaluation
    BY <1>2
  <2>2. CASE u \in Holding(id)
    <3>1. e[u].committed
      BY <2>2, <1>2, RevealersAre DEF Holding
    <3>2. f[u] = [e[u] EXCEPT !.lockedStake = 0]
      BY <2>2
    <3> DEFINE x == e[u]
               y == f[u]
    <3>3. x \in Evaluation /\ y = [x EXCEPT !.lockedStake = 0]
      BY <2>1, <3>2
    <3> HIDE DEF x, y
    <3>4. /\ y \in Evaluation
          /\ y.committed = x.committed /\ y.commitHash = x.commitHash
          /\ y.revealed = x.revealed /\ y.score = x.score /\ y.evidence = x.evidence
      BY <3>3, ReleasedEvaluation
    <3> HIDE DEF f, e
    <3> QED BY <3>1, <3>4 DEF x, y
  <2>3. CASE u \notin Holding(id)
    BY <2>1, <2>3
  <2> QED BY <2>2, <2>3
<1>10. f \in [Users -> Evaluation]
  BY <1>9
<1> HIDE DEF f
<1>11. ChangesOnly(id) /\ tasks'[id] = n /\ evals'[id] = f /\ posted'[id] = posted[id]
  <2>0. /\ id \in TaskIds
        /\ tasks \in [TaskIds -> Task] /\ evals \in [TaskIds -> [Users -> Evaluation]]
    BY <1>2
  <2>1. posted' = [i \in TaskIds |-> posted'[i]] /\ \A i \in TaskIds : posted'[i] = posted[i]
    BY <1>2, <1>a
  <2>2. /\ tasks' = [i \in TaskIds |-> tasks'[i]] /\ tasks'[id] = n
        /\ \A i \in TaskIds \ {id} : tasks'[i] = tasks[i]
    BY ONLY <2>0, <1>6
  <2>3. /\ evals' = [i \in TaskIds |-> evals'[i]] /\ evals'[id] = f
        /\ \A i \in TaskIds \ {id} : evals'[i] = evals[i]
    BY ONLY <2>0, <1>5
  <2> QED BY <2>1, <2>2, <2>3 DEF ChangesOnly
<1>12. /\ posted[id] = 0 /\ Cardinality(Shown(e)) >= t.minEvals /\ t.minEvals >= 1
  BY <1>2 DEF SoundTask, InPhase, Closed
<1>13. Shown(f) = Shown(e) /\ Supported(f, bundle, final)
  BY <1>9, SupportStays
<1>14. InPhase(n, f, posted[id])
  BY <1>8, <1>12, <1>13 DEF InPhase, Closed
<1>15. ListsCommitted(n, f)
  BY <1>2, <1>8, <1>9 DEF SoundTask, ListsCommitted
<1>16. \A u \in Users : SoundEvaluation(id, u, f[u])
  BY <1>2, <1>9 DEF SoundTask, SoundEvaluation
<1>17. SoundTask(id, tasks'[id], evals'[id], posted'[id])
  BY <1>2, <1>8, <1>10, <1>11, <1>14, <1>15, <1>16 DEF SoundTask
<1>18. Shown(e) # {}
  <2>1. t.minEvals \in Nat
    BY <1>2, TaskFields
  <2>2. Cardinality(Shown(e)) \in Nat
    BY <1>3, FS_CardinalityType
  <2>3. Cardinality(Shown(e)) # 0
    BY <1>12, <2>1, <2>2
  <2> QED BY <2>3, FS_EmptySet
<1>19. /\ \A u \in Revealers(id) : Share(id, u, final) \in Nat
       /\ paid \in Nat
  <2>1. tasks[id] \in Task /\ Revealers(id) # {} /\ IsFiniteSet(Revealers(id))
    BY <1>2, <1>3, <1>18
  <2> QED BY <2>1, SharesMakeThePool
<1>20. /\ \A u \in Users : SoundReputation(u)'
       /\ reputation' \in [Users -> [total : Nat, accurate : Nat, earned : Nat,
                                     against : Nat, won : Nat]]
  <2>1. /\ tasks'[id].state = "Resolved" /\ tasks'[id].wasDisputed = tasks[id].wasDisputed
        /\ \A u \in Users : evals'[id][u].revealed = evals[id][u].revealed
    BY <1>8, <1>9, <1>11
  <2> QED BY <1>1, <1>4, <1>11, <1>19, <2>1, CreditCounts
<1>21. /\ rewardConfig' \in RewardConfigs /\ rewardsPaid' \subseteq TaskIds
       /\ minted' \in [Users -> Nat]
  <2>1. CASE config.rewardsOn
    <3> DEFINE w == Winners(evals[id], Evaluators(id), final)
    <3>1. w \in SUBSET Users
      BY <1>3 DEF Winners
    <3>2. onTaskFinalized(id, w)
      BY <2>1, <1>4
    <3> HIDE DEF w
    <3> QED BY <1>2, <3>1, <3>2, MintsTyped
  <2>2. CASE ~config.rewardsOn
    BY <2>2, <1>2, <1>4 DEF RestTyped, rewardVars
  <2> QED BY <2>1, <2>2
<1>22. RestTyped'
  <2>1. marketWeth \in Nat
    BY <1>2 DEF RestTyped
  <2>2. marketWeth' \in Nat
    <3> HIDE DEF paid
    <3> QED BY <1>4, <1>19, <2>1
  <2> QED BY <1>2, <1>a, <1>20, <1>21, <2>2 DEF RestTyped
<1>23. TasksGood'
  <2>1. t.state # "None" /\ tasks'[id].state # "None"
    BY <1>8, <1>11
  <2> QED BY <1>1, <1>a, <1>7, <1>11, <1>17, <1>20, <1>22, <2>1, OneTaskMoves
<1> QED
  BY <1>7, <1>23 DEF MarketInv

\* finalizeUndisputed settles a task at its provisional score and evidence.
LEMMA UndisputedKeepsTasks ==
  ASSUME MarketInv, NEW id \in TaskIds, finalizeUndisputed(id)
  PROVE  MarketInv'
<1> DEFINE t == tasks[id]
           s == t.finalScore
           b == t.finalBundle
           d == FALSE
<1>1. SoundTask(id, t, evals[id], posted[id])
  BY DEF MarketInv, TasksGood
<1>2. t \in Task
  BY <1>1 DEF SoundTask
<1>3. s \in Nat /\ s <= 10000 /\ b \in Users \union {NoUser}
  <2> DEFINE B == 0..10
             S == 0..10000
             Q == Seq(Users)
             F == Users \union {NoUser}
  <2>1. Task = TaskOf(B, S, Q, F)
    BY DEF Task, TaskOf
  <2>2. s \in S /\ b \in F
    <3> HIDE DEF B, S, Q, F
    <3> QED BY <1>2, <2>1 DEF TaskOf
  <2> HIDE DEF s
  <2>3. s \in Nat /\ s <= 10000
    BY <2>2
  <2> QED BY <2>2, <2>3
<1>4. t.state = "Provisional" /\ Settle(id, s, b, d)
  BY DEF finalizeUndisputed
<1>5. Supported(evals[id], b, s)
  BY <1>1, <1>4 DEF SoundTask, InPhase, Closed
<1> HIDE DEF s, b, d
<1> QED
  BY <1>3, <1>4, <1>5, SettleKeepsTasks

\* markResolved settles a task at the score of the jury, with the evidence closest to it.
LEMMA ResolveKeepsTasks ==
  ASSUME MarketInv, NEW id \in TaskIds, Resolve(id)
  PROVE  MarketInv'
<1>1. PICK s \in Scores : markResolved(id, s)
  BY DEF Resolve
<1> DEFINE b == FinalEvidence(id, s)
           d == TRUE
<1>2. s \in Nat /\ s <= 10000
  <2> HIDE DEF b, d
  <2> QED BY ScoresAreBasisPoints
<1>3. SoundTask(id, tasks[id], evals[id], posted[id])
  BY DEF MarketInv, TasksGood
<1>4. Supported(evals[id], b, s) /\ b \in Users \union {NoUser}
  BY <1>2, <1>3, EvidenceIsClosest
<1>5. tasks[id].state = "Disputed" /\ Settle(id, s, b, d)
  BY <1>1 DEF markResolved
<1> HIDE DEF b, d
<1> QED
  BY <1>2, <1>4, <1>5, SettleKeepsTasks

(***************************************************************************)
(* The invariant holds, and settlements are fair                           *)
(***************************************************************************)
\* A step that leaves the tasks alone, and stakes and settings in order, keeps the invariant.
LEMMA NoTaskMoves ==
  ASSUME TasksGood, StakesGood', Ledger', RestTyped',
         UNCHANGED <<tasks, evals, nextTaskId, reputation, posted>>
  PROVE  MarketInv'
<1>1. TypeOK'
  BY DEF TypeOK, Ledger, StakesGood
<1>2. MarketTypeOK'
  BY <1>1 DEF TasksGood, MarketTypeOK, RestTyped
<1>3. \A u \in Users : SoundReputation(u)'
  <2> SUFFICES ASSUME NEW u \in Users PROVE SoundReputation(u)'
    OBVIOUS
  <2>1. SettledOf(u)' = SettledOf(u)
    BY DEF SettledOf
  <2>2. DisputedOf(u)' = DisputedOf(u)
    BY DEF DisputedOf
  <2>3. WonOf(u)' = WonOf(u)
    BY <2>1, <2>2 DEF WonOf
  <2> QED BY <2>1, <2>2, <2>3 DEF TasksGood, SoundReputation
<1> QED
  BY <1>2, <1>3 DEF TasksGood, MarketInv

\* The setters write values of their types.
LEMMA SettersKeepTasks ==
  ASSUME MarketInv, Setters
  PROVE  MarketInv'
<1>1. /\ TasksGood /\ StakesGood /\ Ledger /\ RestTyped
  BY Typed DEF MarketInv
<1>2. ASSUME NEW c \in Config, OwnerSets(c)
      PROVE  MarketInv'
  <2>1. StakesGood' /\ Ledger'
    BY <1>1, <1>2, StakesStutter DEF OwnerSets
  <2>2. RestTyped'
    BY <1>1, <1>2 DEF OwnerSets, RestTyped, rewardVars
  <2> QED BY <1>1, <1>2, <2>1, <2>2, NoTaskMoves DEF OwnerSets
<1>3. config \in Config
  BY <1>1 DEF RestTyped
<1>4. CASE setBonds
  <2>1. PICK x \in BondChoices : OwnerSets([config EXCEPT !.evalBond = x])
    BY <1>4 DEF setBonds
  <2>2. [config EXCEPT !.evalBond = x] \in Config
    BY <1>3 DEF Config
  <2> QED BY <1>2, <2>1, <2>2
<1>5. CASE setProtocolFeeBps
  <2>1. PICK x \in FeeBpsChoices : OwnerSets([config EXCEPT !.protocolFeeBps = x])
    BY <1>5 DEF setProtocolFeeBps
  <2>2. [config EXCEPT !.protocolFeeBps = x] \in Config
    BY <1>3 DEF Config
  <2> QED BY <1>2, <2>1, <2>2
<1>6. CASE setNonRevealSlashBps
  <2>1. PICK x \in NonRevealChoices : OwnerSets([config EXCEPT !.nonRevealSlashBps = x])
    BY <1>6 DEF setNonRevealSlashBps
  <2>2. [config EXCEPT !.nonRevealSlashBps = x] \in Config
    BY <1>3 DEF Config
  <2> QED BY <1>2, <2>1, <2>2
<1>7. CASE setRewardsDistributor
  <2>1. PICK x \in RewardsChoices : OwnerSets([config EXCEPT !.rewardsOn = x])
    BY <1>7 DEF setRewardsDistributor
  <2>2. [config EXCEPT !.rewardsOn = x] \in Config
    BY <1>3 DEF Config
  <2> QED BY <1>2, <2>1, <2>2
<1>8. CASE setStakingManager
  <2>1. PICK x \in StakingChoices : OwnerSets([config EXCEPT !.staking = x])
    BY <1>8 DEF setStakingManager
  <2>2. [config EXCEPT !.staking = x] \in Config
    BY <1>3 DEF Config
  <2> QED BY <1>2, <2>1, <2>2
<1>9. CASE configureRewards /\ UNCHANGED <<marketVars, stakingVars, now>>
  <2>1. UNCHANGED <<stakingVars, now>> /\ configureRewards /\ UNCHANGED marketVars
    BY <1>9
  <2>2. StakesGood' /\ Ledger'
    BY <1>1, <2>1, StakesStutter
  <2>3. RestTyped'
    BY <1>1, <2>1 DEF configureRewards, RestTyped, marketVars
  <2> QED BY <1>1, <2>1, <2>2, <2>3, NoTaskMoves DEF marketVars
<1> QED
  BY <1>4, <1>5, <1>6, <1>7, <1>8, <1>9 DEF Setters

\* Every step keeps the invariant.
LEMMA MarketNextKeepsInv == MarketInv /\ [MarketNext]_allVars => MarketInv'
<1> SUFFICES ASSUME MarketInv, [MarketNext]_allVars PROVE MarketInv'
  OBVIOUS
<1>1. TasksGood /\ StakesGood /\ Ledger /\ RestTyped
  BY Typed DEF MarketInv
<1>2. CASE MarketCall
  <2>1. CASE Create
    BY <2>1, CreateKeepsTasks
  <2>2. ASSUME NEW id \in TaskIds,
               \/ Commit(id)
               \/ openReveal(id)
               \/ Reveal(id)
               \/ finalize(id)
               \/ finalizeUndisputed(id)
               \/ markDisputed(id)
               \/ Resolve(id)
        PROVE  MarketInv'
    BY <2>2, CommitKeepsTasks, OpenRevealKeepsTasks, RevealKeepsTasks, FinalizeKeepsTasks,
       UndisputedKeepsTasks, DisputeKeepsTasks, ResolveKeepsTasks
  <2>3. CASE Setters
    BY <2>3, SettersKeepTasks
  <2> QED BY <1>2, <2>1, <2>2, <2>3 DEF MarketCall
<1>3. CASE StakerCall /\ UNCHANGED <<marketVars, rewardVars>>
  <2>1. StakesGood'
    BY <1>1, <1>3, StakerCallKeepsGood
  <2>2. Ledger'
    BY <1>1, <1>3, <2>1, StakerCallKeepsLedger
  <2>3. RestTyped'
    BY <1>1, <1>3 DEF RestTyped, marketVars, rewardVars
  <2> QED BY <1>1, <1>3, <2>1, <2>2, <2>3, NoTaskMoves DEF marketVars
<1>4. CASE Tick /\ UNCHANGED <<marketVars, rewardVars>>
  <2>1. UNCHANGED stakingVars /\ now' \in Nat
    BY <1>1, <1>4 DEF Tick, StakesGood
  <2>2. StakesGood'
    BY <1>1, <2>1 DEF StakesGood, stakingVars
  <2>3. Ledger'
    BY <1>1, <2>1 DEF Ledger, StakingTypeOK, FullyBacked, TotalsAgree, stakingVars
  <2>4. RestTyped'
    BY <1>1, <1>4 DEF RestTyped, marketVars, rewardVars
  <2> QED BY <1>1, <1>4, <2>2, <2>3, <2>4, NoTaskMoves DEF marketVars
<1>5. CASE UNCHANGED allVars
  <2>1. /\ UNCHANGED <<stakingVars, now>>
        /\ UNCHANGED marketVars /\ UNCHANGED rewardVars
    BY <1>5 DEF allVars, vars, stakingVars
  <2>2. StakesGood' /\ Ledger'
    BY <1>1, <2>1, StakesStutter
  <2>3. RestTyped'
    BY <1>1, <2>1 DEF RestTyped, marketVars, rewardVars
  <2> QED BY <1>1, <2>1, <2>2, <2>3, NoTaskMoves DEF marketVars
<1> QED
  BY <1>2, <1>3, <1>4, <1>5 DEF MarketNext

\* A task and an evaluation nobody wrote are of their types.
LEMMA EmptyRecords ==
  /\ NoTask \in Task /\ NoTask.state = "None" /\ NoTask.evaluators = <<>> /\ ~NoTask.wasDisputed
  /\ NoEvaluation \in Evaluation /\ ~NoEvaluation.committed /\ ~NoEvaluation.revealed
  /\ NoEvaluation.lockedStake = 0
<1> DEFINE B == 0..10
           S == 0..10000
           Q == Seq(Users)
           F == Users \union {NoUser}
           H == (TaskIds \X Users \X Scores) \union {NoHash}
           e == <<>>
<1>1. Task = TaskOf(B, S, Q, F)
  BY DEF Task, TaskOf
<1>2. Evaluation = [committed : BOOLEAN, commitHash : H, revealed : BOOLEAN, score : S,
                    evidence : BOOLEAN, lockedStake : Nat]
  BY DEF Evaluation
<1>3. 0 \in B /\ 0 \in S /\ NoUser \in F /\ e \in Q /\ NoHash \in H /\ "None" \in TaskStates
  BY DEF TaskStates
<1>4. NoTask =
        [state |-> "None", commitDeadline |-> 0, revealDeadline |-> 0, disputeDeadline |-> 0,
         minEvals |-> 0, maxEvals |-> 0, feePool |-> 0, evaluators |-> e,
         finalScore |-> 0, finalBundle |-> NoUser, payoutPool |-> 0,
         payoutsSettled |-> FALSE, wasDisputed |-> FALSE, rewardsPaid |-> FALSE]
  BY DEF NoTask
<1>5. NoTask.state = "None" /\ NoTask.evaluators = <<>> /\ ~NoTask.wasDisputed
  BY DEF NoTask
<1>6. /\ ~NoEvaluation.committed /\ ~NoEvaluation.revealed
      /\ NoEvaluation.lockedStake = 0
  BY DEF NoEvaluation
<1> HIDE DEF B, S, Q, F, H, e
<1>7. NoTask \in Task
  BY <1>1, <1>3, <1>4 DEF TaskOf
<1>8. NoEvaluation \in Evaluation
  BY <1>2, <1>3 DEF NoEvaluation
<1> QED
  BY <1>5, <1>6, <1>7, <1>8

\* At deployment there are no tasks, and nothing to count.
LEMMA MarketInitInv == MarketInit => MarketInv
<1> SUFFICES ASSUME MarketInit PROVE MarketInv
  OBVIOUS
<1>1. StakesGood /\ Ledger
  <2>1. Init
    BY DEF MarketInit, Init
  <2> QED BY <2>1, InitGood, InitLedger
<1>2. RestTyped
  BY DEF MarketInit, RestTyped, RewardsInit, NoReputation
<1>3. ASSUME NEW id \in TaskIds
      PROVE  /\ tasks[id] = NoTask /\ posted[id] = 0
             /\ evals[id] \in [Users -> Evaluation]
             /\ \A u \in Users : evals[id][u] = NoEvaluation
  BY EmptyRecords DEF MarketInit
<1>4. ASSUME NEW id \in TaskIds
      PROVE  SoundTask(id, tasks[id], evals[id], posted[id])
  <2>1. ListsCommitted(tasks[id], evals[id])
    BY <1>3, EmptyRecords DEF ListsCommitted
  <2>2. InPhase(tasks[id], evals[id], posted[id])
    BY <1>3, EmptyRecords DEF InPhase, Closed
  <2>3. \A u \in Users : SoundEvaluation(id, u, evals[id][u])
    BY <1>3, EmptyRecords DEF SoundEvaluation
  <2>4. tasks[id] \in Task /\ posted[id] \in Nat
    BY <1>3, EmptyRecords
  <2> QED BY <1>3, <2>1, <2>2, <2>3, <2>4 DEF SoundTask
<1>5. MarketTypeOK
  <2>1. TypeOK
    BY <1>1 DEF TypeOK, Ledger, StakesGood
  <2>2. nextTaskId \in 1..(MaxTasks + 1)
    BY MarketTerms DEF MarketInit
  <2>3. /\ tasks \in [TaskIds -> Task] /\ evals \in [TaskIds -> [Users -> Evaluation]]
        /\ posted \in [TaskIds -> Nat]
    BY EmptyRecords DEF MarketInit
  <2> QED BY <1>2, <2>1, <2>2, <2>3 DEF MarketTypeOK, RestTyped
<1>6. \A u \in Users : SoundReputation(u)
  <2> SUFFICES ASSUME NEW u \in Users PROVE SoundReputation(u)
    OBVIOUS
  <2>1. SettledOf(u) = {} /\ DisputedOf(u) = {} /\ WonOf(u) = {}
    BY <1>3, EmptyRecords DEF SettledOf, DisputedOf, WonOf
  <2>2. /\ reputation[u].total = 0 /\ reputation[u].against = 0
        /\ reputation[u].accurate = 0 /\ reputation[u].won = 0
    BY DEF MarketInit, NoReputation
  <2> QED BY <2>1, <2>2, FS_EmptySet DEF SoundReputation
<1>7. TasksGood
  BY <1>3, <1>4, <1>5, <1>6, EmptyRecords DEF TasksGood
<1> QED
  BY <1>1, <1>7 DEF MarketInv

\* The invariant always holds.
LEMMA MarketInvAlways == MarketSpec => []MarketInv
BY MarketInitInv, MarketNextKeepsInv, PTL DEF MarketSpec

\* Whatever is copied, missing, disputed or paid, what a settlement publishes and records
\* follows from the reveals: hashes of others do not open, a majority decides the
\* provisional score, the evidence published is the closest there is, and the reputations
\* count each settlement and each dispute once; and no transaction pays more than the
\* marketplace holds.
THEOREM SettlementsStayFair == MarketSpec => []SettlementIsFair
<1>1. MarketInv => SettlementIsFair
  BY HashesAreOwn, MajoritiesDecide, EvidenceSupports, ReputationsMatch
     DEF MarketInv, TasksGood, SettlementIsFair
<1> QED
  BY <1>1, MarketInvAlways, PTL

(***************************************************************************)
(* What no step does: commitments and rewards                              *)
(***************************************************************************)
\* A step keeps who evaluates task id and what they committed.
KeepsCommitments(id) ==
  /\ tasks'[id].evaluators = tasks[id].evaluators
  /\ \A u \in Users : evals'[id][u].commitHash = evals[id][u].commitHash

\* A transaction about a task keeps those of the others; only commitEvaluation, of an open
\* task, may change its own.
LEMMA OtherTasksKeep ==
  ASSUME MarketInv, NEW id \in TaskIds,
         \/ Commit(id) \/ openReveal(id) \/ Reveal(id) \/ finalize(id)
         \/ finalizeUndisputed(id) \/ markDisputed(id) \/ Resolve(id),
         NEW i \in TaskIds, tasks[i].state \notin {"None", "Open"}
  PROVE  KeepsCommitments(i)
<1>1. /\ tasks \in [TaskIds -> Task] /\ evals \in [TaskIds -> [Users -> Evaluation]]
      /\ SoundTask(id, tasks[id], evals[id], posted[id])
  BY Typed DEF MarketInv
<1> DEFINE t == tasks[id]
           e == evals[id]
<1>2. t \in Task
  BY <1>1
<1>3. ASSUME NEW n, tasks' = [tasks EXCEPT ![id] = n], n.evaluators = t.evaluators
      PROVE  tasks'[i].evaluators = tasks[i].evaluators
  BY <1>1, <1>3
<1>4. ASSUME evals' = evals
      PROVE  \A u \in Users : evals'[i][u].commitHash = evals[i][u].commitHash
  BY <1>4
<1>5. CASE Commit(id)
  <2>1. PICK u \in Users : \E hash \in Hashes(id, u) : commitEvaluation(id, u, hash)
    BY <1>5 DEF Commit
  <2>2. PICK hash \in Hashes(id, u) : commitEvaluation(id, u, hash)
    BY <2>1
  <2>3. tasks[id].state = "Open"
    BY <2>2 DEF commitEvaluation, AcceptsCommits
  <2>4. i # id
    BY <2>3
  <2>5. tasks'[i] = tasks[i] /\ evals'[i] = evals[i]
    BY <1>1, <2>2, <2>4 DEF commitEvaluation
  <2> QED BY <2>5 DEF KeepsCommitments
<1>6. CASE openReveal(id)
  <2> DEFINE n == [t EXCEPT !.state = "Reveal"]
  <2>1. tasks' = [tasks EXCEPT ![id] = n] /\ evals' = evals
    BY <1>6 DEF openReveal
  <2>2. n.evaluators = t.evaluators
    <3>1. "Reveal" \in TaskStates
      BY DEF TaskStates
    <3> HIDE DEF t
    <3> QED BY <1>2, <3>1, StateMoves
  <2> HIDE DEF n
  <2> QED BY <2>1, <2>2, <1>3, <1>4 DEF KeepsCommitments
<1>7. CASE Reveal(id)
  <2>1. PICK u \in Users, score \in Scores, evidence \in EvidenceChoices :
          revealEvaluation(id, u, score, evidence)
    BY <1>7 DEF Reveal
  <2> DEFINE x == e[u]
             y == Opening(x, score, evidence)
  <2>2. tasks' = tasks /\ evals' = [evals EXCEPT ![id][u] = y]
    BY <2>1 DEF revealEvaluation, Opening
  <2>3. y.commitHash = x.commitHash
    <3>1. x \in Evaluation
      BY <1>1
    <3> HIDE DEF x
    <3> QED BY <3>1, OpenedEvaluation
  <2> HIDE DEF y
  <2>4. \A v \in Users : evals'[i][v].commitHash = evals[i][v].commitHash
    BY <1>1, <2>2, <2>3
  <2> QED BY <2>2, <2>4 DEF KeepsCommitments
<1>8. CASE finalize(id)
  <2> DEFINE m == Median([u \in Users |-> evals[id][u].score], Revealers(id))
             b == FinalEvidence(id, m)
             p == tasks[id].feePool - ProtocolFee(id)
             n == Finalized(t, m, b, p)
  <2>1. tasks' = [tasks EXCEPT ![id] = n] /\ evals' = evals
    BY <1>8 DEF finalize, Finalized
  <2>2. n.evaluators = t.evaluators
    <3> DEFINE B == 0..10
               S == 0..10000
               Q == Seq(Users)
               F == Users \union {NoUser}
    <3>1. Task = TaskOf(B, S, Q, F)
      BY DEF Task, TaskOf
    <3> HIDE DEF B, S, Q, F, m, b, p, t
    <3> QED BY <1>2, <3>1 DEF TaskOf, Finalized
  <2> HIDE DEF n
  <2> QED BY <2>1, <2>2, <1>3, <1>4 DEF KeepsCommitments
<1>9. CASE markDisputed(id)
  <2> DEFINE n == [t EXCEPT !.state = "Disputed", !.wasDisputed = TRUE]
  <2>1. tasks' = [tasks EXCEPT ![id] = n] /\ evals' = evals
    BY <1>9 DEF markDisputed
  <2>2. n.evaluators = t.evaluators
    <3> HIDE DEF t
    <3> QED BY <1>2, DisputedTask
  <2> HIDE DEF n
  <2> QED BY <2>1, <2>2, <1>3, <1>4 DEF KeepsCommitments
<1>10. ASSUME NEW final, NEW bundle, NEW disputed, Settle(id, final, bundle, disputed)
       PROVE  KeepsCommitments(i)
  <2> DEFINE p == t.rewardsPaid \/ config.rewardsOn
             n == SettledTask(t, final, bundle, p)
             f == [u \in Users |->
                     IF u \in Holding(id) THEN [e[u] EXCEPT !.lockedStake = 0] ELSE e[u]]
  <2>1. tasks' = [tasks EXCEPT ![id] = n]
    BY <1>10 DEF Settle, SettledTask
  <2>2. evals' = [evals EXCEPT ![id] = f]
    BY <1>10 DEF Settle, SettleStakes, Holding
  <2>3. n.evaluators = t.evaluators
    <3> DEFINE B == 0..10
               S == 0..10000
               Q == Seq(Users)
               F == Users \union {NoUser}
    <3>1. Task = TaskOf(B, S, Q, F)
      BY DEF Task, TaskOf
    <3> HIDE DEF B, S, Q, F, p, t
    <3> QED BY <1>2, <3>1 DEF TaskOf, SettledTask
  <2>4. ASSUME NEW u \in Users PROVE f[u].commitHash = e[u].commitHash
    <3> DEFINE x == e[u]
               y == [x EXCEPT !.lockedStake = 0]
    <3>1. x \in Evaluation
      BY <1>1
    <3>2. y.commitHash = x.commitHash
      <4> HIDE DEF x
      <4> QED BY <3>1, ReleasedEvaluation
    <3>3. f[u] = y \/ f[u] = x
      OBVIOUS
    <3> HIDE DEF f, x, y
    <3>4. f[u].commitHash = x.commitHash
      BY <3>2, <3>3
    <3> QED BY <3>4 DEF x
  <2> HIDE DEF n, f
  <2>5. \A v \in Users : evals'[i][v].commitHash = evals[i][v].commitHash
    BY <1>1, <2>2, <2>4
  <2> QED BY <2>1, <2>3, <2>5, <1>3 DEF KeepsCommitments
<1>11. CASE finalizeUndisputed(id)
  <2> DEFINE d == FALSE
             s == t.finalScore
             b == t.finalBundle
  <2>1. Settle(id, s, b, d)
    BY <1>11 DEF finalizeUndisputed
  <2> HIDE DEF d, s, b
  <2> QED BY <2>1, <1>10
<1>12. CASE Resolve(id)
  <2>1. PICK s \in Scores : markResolved(id, s)
    BY <1>12 DEF Resolve
  <2> DEFINE d == TRUE
             b == FinalEvidence(id, s)
  <2>2. Settle(id, s, b, d)
    BY <2>1 DEF markResolved
  <2> HIDE DEF d, b
  <2> QED BY <2>2, <1>10
<1> QED
  BY <1>5, <1>6, <1>7, <1>8, <1>9, <1>11, <1>12

\* No step touches the commitments of a task that has a reveal.
LEMMA StepsKeepCommitments == MarketInv /\ MarketNext => CommitPrecedesReveal
<1> SUFFICES ASSUME MarketInv, MarketNext, NEW i \in TaskIds, Revealers(i) # {}
             PROVE  KeepsCommitments(i)
  BY DEF CommitPrecedesReveal, KeepsCommitments
<1>1. /\ tasks \in [TaskIds -> Task] /\ evals \in [TaskIds -> [Users -> Evaluation]]
      /\ SoundTask(i, tasks[i], evals[i], posted[i])
      /\ \A k \in TaskIds : k >= nextTaskId => tasks[k].state = "None"
      /\ nextTaskId \in Nat
  BY Typed DEF MarketInv, TasksGood
<1>2. tasks[i].state \notin {"None", "Open"}
  <2>1. Revealers(i) = Shown(evals[i])
    BY <1>1, RevealersAre
  <2> QED BY <1>1, <2>1 DEF SoundTask, InPhase, Shown
<1>3. ASSUME UNCHANGED <<tasks, evals>> PROVE KeepsCommitments(i)
  BY <1>3 DEF KeepsCommitments
<1>4. CASE Create
  <2>1. PICK schedule \in Schedules, bounds \in EvalBounds, feePool \in FeePools :
          createTask(schedule, bounds, feePool)
    BY <1>4 DEF Create
  <2>2. i # nextTaskId
    BY <1>1, <1>2
  <2>3. tasks'[i] = tasks[i] /\ evals'[i] = evals[i]
    BY <1>1, <2>1, <2>2 DEF createTask
  <2> QED BY <2>3 DEF KeepsCommitments
<1>5. ASSUME NEW id \in TaskIds,
             \/ Commit(id)
             \/ openReveal(id)
             \/ Reveal(id)
             \/ finalize(id)
             \/ finalizeUndisputed(id)
             \/ markDisputed(id)
             \/ Resolve(id)
      PROVE  KeepsCommitments(i)
  BY <1>2, <1>5, OtherTasksKeep
<1>6. CASE Setters
  BY <1>3, <1>6 DEF Setters, setBonds, setProtocolFeeBps, setNonRevealSlashBps,
                    setRewardsDistributor, setStakingManager, OwnerSets, marketVars
<1>7. CASE (StakerCall \/ Tick) /\ UNCHANGED <<marketVars, rewardVars>>
  BY <1>3, <1>7 DEF marketVars
<1> QED
  BY <1>4, <1>5, <1>6, <1>7 DEF MarketNext, MarketCall

\* onTaskFinalized (VerifierRewards.sol) mints the base reward in equal parts, or nothing.
LEMMA RewardsAreWhole ==
  ASSUME RestTyped, NEW id, NEW w \in SUBSET Users, onTaskFinalized(id, w)
  PROVE  MintsWholeReward
<1> DEFINE b == rewardConfig.base
           k == Cardinality(w)
           c == b \div k
           part == [a \in Users |-> IF a \in w THEN c ELSE 0]
<1>1. minted \in [Users -> Nat] /\ b \in Nat /\ IsFiniteSet(Users) /\ IsFiniteSet(w)
  BY RewardConstants, StakingConstants, FS_Subset DEF RestTyped
<1>2. minted' = [a \in Users |-> IF a \in w THEN minted[a] + c ELSE minted[a]]
  BY <1>1 DEF onTaskFinalized
<1>3. w # {} => c * k = b
  BY DEF onTaskFinalized, SplitsEvenly
<1>4. CASE w = {}
  <2>1. minted' = minted
    BY <1>1, <1>2, <1>4
  <2>2. SumFunction(minted) \in Nat
    BY <1>1, SumBounds
  <2>3. SumFunction(minted') - SumFunction(minted) = 0
    BY <2>1, <2>2
  <2> QED BY <2>3 DEF MintsWholeReward
<1>5. CASE w # {}
  <2>1. k \in Nat \ {0}
    BY <1>1, <1>5, FS_EmptySet, FS_CardinalityType
  <2>2. c \in Nat
    <3> HIDE DEF b, k
    <3> QED BY <1>1, <2>1, DivisionBounds
  <2> HIDE DEF b, k, c
  <2>3. part \in [Users -> Int] /\ minted \in [Users -> Int]
    BY <1>1, <2>2
  <2>4. minted' = [a \in Users |-> minted[a] + part[a]]
    BY <1>1, <1>2, <2>2
  <2>5. SumFunction(part) = k * c
    BY <1>1, <2>2, SumConstant DEF k
  <2> HIDE DEF part
  <2>6. SumFunction(minted') = SumFunction(minted) + SumFunction(part)
    BY <1>1, <2>3, <2>4, SumAdds
  <2>7. SumFunction(minted) \in Nat
    BY <1>1, SumBounds
  <2>8. k * c = b
    BY <1>3, <1>5, <2>1, <2>2
  <2>9. SumFunction(minted') - SumFunction(minted) = b
    BY <1>1, <2>5, <2>6, <2>7, <2>8
  <2> QED BY <2>9 DEF MintsWholeReward, b
<1> QED
  BY <1>4, <1>5

\* No step mints part of a reward.
LEMMA StepsMintWhole == MarketInv /\ MarketNext => MintsWholeReward
<1> SUFFICES ASSUME MarketInv, MarketNext PROVE MintsWholeReward
  OBVIOUS
<1>1. RestTyped /\ \A id \in TaskIds : SoundTask(id, tasks[id], evals[id], posted[id])
  BY Typed DEF MarketInv
<1>2. ASSUME UNCHANGED minted PROVE MintsWholeReward
  <2>1. minted \in [Users -> Nat]
    BY <1>1 DEF RestTyped
  <2>2. SumFunction(minted) \in Nat
    BY <2>1, StakingConstants, SumBounds
  <2>3. SumFunction(minted') - SumFunction(minted) = 0
    BY <1>2, <2>2
  <2> QED BY <2>3 DEF MintsWholeReward
<1>3. CASE Create
  BY <1>2, <1>3 DEF Create, createTask, rewardVars
<1>4. ASSUME NEW id \in TaskIds, NEW final, NEW bundle, NEW disputed,
             Settle(id, final, bundle, disputed)
      PROVE  MintsWholeReward
  <2>1. CASE config.rewardsOn
    <3> DEFINE w == Winners(evals[id], Evaluators(id), final)
    <3>1. w \in SUBSET Users
      BY <1>1, RevealersAre DEF Winners
    <3>2. onTaskFinalized(id, w)
      BY <1>4, <2>1 DEF Settle
    <3> HIDE DEF w
    <3> QED BY <1>1, <3>1, <3>2, RewardsAreWhole
  <2>2. CASE ~config.rewardsOn
    BY <1>2, <1>4, <2>2 DEF Settle, rewardVars
  <2> QED BY <2>1, <2>2
<1>5. ASSUME NEW id \in TaskIds, finalizeUndisputed(id)
      PROVE  MintsWholeReward
  <2> DEFINE d == FALSE
             s == tasks[id].finalScore
             b == tasks[id].finalBundle
  <2>1. Settle(id, s, b, d)
    BY <1>5 DEF finalizeUndisputed
  <2> HIDE DEF d, s, b
  <2> QED BY <2>1, <1>4
<1>6. ASSUME NEW id \in TaskIds, Resolve(id)
      PROVE  MintsWholeReward
  <2>1. PICK s \in Scores : markResolved(id, s)
    BY <1>6 DEF Resolve
  <2> DEFINE d == TRUE
             b == FinalEvidence(id, s)
  <2>2. Settle(id, s, b, d)
    BY <2>1 DEF markResolved
  <2> HIDE DEF d, b
  <2> QED BY <2>2, <1>4
<1>7. ASSUME NEW id \in TaskIds,
             Commit(id) \/ openReveal(id) \/ Reveal(id) \/ finalize(id) \/ markDisputed(id)
      PROVE  MintsWholeReward
  BY <1>2, <1>7 DEF Commit, commitEvaluation, openReveal, Reveal, revealEvaluation, finalize,
                    markDisputed, rewardVars
<1>8. CASE Setters
  BY <1>2, <1>8 DEF Setters, setBonds, setProtocolFeeBps, setNonRevealSlashBps,
                    setRewardsDistributor, setStakingManager, OwnerSets, rewardVars,
                    configureRewards
<1>9. CASE (StakerCall \/ Tick) /\ UNCHANGED <<marketVars, rewardVars>>
  BY <1>2, <1>9 DEF rewardVars
<1> QED
  BY <1>3, <1>5, <1>6, <1>7, <1>8, <1>9 DEF MarketNext, MarketCall

\* Nobody scores after seeing a score of the same task, and a settlement mints the base
\* reward whole or not at all.
THEOREM RoundsStayFair == MarketSpec => RoundsAreFair
<1>1. MarketInv /\ [MarketNext]_allVars => [CommitPrecedesReveal /\ MintsWholeReward]_allVars
  BY StepsKeepCommitments, StepsMintWhole
<1> QED
  BY <1>1, MarketInvAlways, PTL DEF MarketSpec, RoundsAreFair

(***************************************************************************)
(* The escrow: what is owed, and the steps that leave it alone             *)
(***************************************************************************)
\* The accounts that posted a bond for a task.
Bidders(id) == {u \in Users : evals[id][u].committed}

\* Of a task that is not finalized, the contract can tell what was posted: a bond each.
BondsCounted(id) ==
  tasks[id].state \in {"Open", "Reveal"} =>
    posted[id] = config.evalBond * Cardinality(Bidders(id))

\* The inductive invariant of the escrow.
EscrowGood == EscrowIsExact /\ \A id \in TaskIds : BondsCounted(id)

\* What is owed for tasks are amounts.
AmountsOwed ==
  /\ [id \in TaskIds |-> Owed(id)] \in [TaskIds -> Int]
  /\ [id \in TaskIds |-> Dust(id)] \in [TaskIds -> Int]
  /\ marketWeth \in Nat

\* They are, of the tasks the invariant describes.
LEMMA OwedTyped == MarketInv => AmountsOwed
<1> SUFFICES ASSUME MarketInv PROVE AmountsOwed
  OBVIOUS
<1>1. /\ tasks \in [TaskIds -> Task] /\ posted \in [TaskIds -> Nat]
      /\ \A id \in TaskIds : SoundTask(id, tasks[id], evals[id], posted[id])
      /\ RestTyped
  BY Typed DEF MarketInv
<1>2. \A t \in Task : t.feePool \in Nat /\ t.payoutPool \in Nat
  BY TaskFields
<1>3. \A id \in TaskIds : Cardinality(Revealers(id)) \in Nat
  BY <1>1, RevealersAre, FS_CardinalityType
<1>4. \A id \in TaskIds : Owed(id) \in Int
  BY <1>1, <1>2 DEF Owed
<1>5. \A id \in TaskIds : Dust(id) \in Int
  BY <1>3 DEF Dust
<1> QED
  BY <1>1, <1>4, <1>5 DEF RestTyped, AmountsOwed

\* A transaction about one task that moves the money of the contract by what it changes of
\* what is owed for it, give or take the dust it leaves, keeps the escrow exact.
LEMMA OneEscrowMoves ==
  ASSUME AmountsOwed, AmountsOwed', EscrowGood, NEW id \in TaskIds, ChangesOnly(id),
         config'.evalBond = config.evalBond, BondsCounted(id)', NEW d \in Int,
         marketWeth' = marketWeth + Owed(id)' - Owed(id) + d,
         0 <= d, d <= Dust(id)' - Dust(id)
  PROVE  EscrowGood'
<1> DEFINE F == [i \in TaskIds |-> Owed(i)]
           D == [i \in TaskIds |-> Dust(i)]
           F1 == [i \in TaskIds |-> Owed(i)']
           D1 == [i \in TaskIds |-> Dust(i)']
<1>1. /\ F \in [TaskIds -> Int] /\ D \in [TaskIds -> Int] /\ marketWeth \in Nat
  BY DEF AmountsOwed
<1>2. /\ F1 \in [TaskIds -> Int] /\ D1 \in [TaskIds -> Int] /\ marketWeth' \in Nat
  BY DEF AmountsOwed
<1>3. \A i \in TaskIds \ {id} : F[i] = F1[i] /\ D[i] = D1[i]
  <2> SUFFICES ASSUME NEW i \in TaskIds \ {id} PROVE F[i] = F1[i] /\ D[i] = D1[i]
    OBVIOUS
  <2>1. tasks'[i] = tasks[i] /\ evals'[i] = evals[i] /\ posted'[i] = posted[i]
    BY DEF ChangesOnly
  <2>2. Owed(i)' = Owed(i)
    BY <2>1 DEF Owed
  <2>3. Evaluators(i)' = Evaluators(i)
    BY <2>1 DEF Evaluators
  <2>4. Revealers(i)' = Revealers(i)
    BY <2>1, <2>3 DEF Revealers
  <2>5. Dust(i)' = Dust(i)
    BY <2>1, <2>4 DEF Dust
  <2> QED BY <2>2, <2>5
<1>4. /\ F[id] = Owed(id) /\ F1[id] = Owed(id)'
      /\ D[id] = Dust(id) /\ D1[id] = Dust(id)'
  OBVIOUS
<1>5. IsFiniteSet(TaskIds)
  BY MarketTerms, FS_Interval DEF TaskIds
<1>6. SumFunction(F) <= marketWeth /\ marketWeth <= SumFunction(F) + SumFunction(D)
  BY DEF EscrowGood, EscrowIsExact
<1> HIDE DEF F, D, F1, D1
<1>7. SumFunction(F1) = SumFunction(F) + F1[id] - F[id]
  BY <1>1, <1>2, <1>3, <1>5, SumChanged
<1>8. SumFunction(D1) = SumFunction(D) + D1[id] - D[id]
  BY <1>1, <1>2, <1>3, <1>5, SumChanged
<1>9. SumFunction(F) \in Int /\ SumFunction(D) \in Int
  BY <1>1, <1>5, SumTyped
<1>10. F[id] \in Int /\ F1[id] \in Int /\ D[id] \in Int /\ D1[id] \in Int
  BY <1>1, <1>2
<1>11. SumFunction(F1) <= marketWeth' /\ marketWeth' <= SumFunction(F1) + SumFunction(D1)
  BY <1>1, <1>4, <1>6, <1>7, <1>8, <1>9, <1>10
<1>12. EscrowIsExact'
  BY <1>11 DEF EscrowIsExact, F1, D1
<1>13. \A i \in TaskIds : BondsCounted(i)'
  <2> SUFFICES ASSUME NEW i \in TaskIds PROVE BondsCounted(i)'
    OBVIOUS
  <2>1. CASE i = id
    BY <2>1
  <2>2. CASE i # id
    <3>1. tasks'[i] = tasks[i] /\ evals'[i] = evals[i] /\ posted'[i] = posted[i]
      BY <2>2 DEF ChangesOnly
    <3>2. Bidders(i)' = Bidders(i)
      BY <3>1 DEF Bidders
    <3>3. BondsCounted(i)
      BY DEF EscrowGood
    <3> QED BY <3>1, <3>2, <3>3 DEF BondsCounted
  <2> QED BY <2>1, <2>2
<1> QED
  BY <1>12, <1>13 DEF EscrowGood

\* What is owed for a task, and what dust it left, by its state.
LEMMA OwedCases ==
  ASSUME NEW id \in TaskIds
  PROVE  /\ tasks[id].state \in {"Open", "Reveal"} => Owed(id) = tasks[id].feePool + posted[id]
         /\ tasks[id].state \in {"Provisional", "Disputed"} => Owed(id) = tasks[id].payoutPool
         /\ tasks[id].state \in {"None", "Resolved"} => Owed(id) = 0
         /\ tasks[id].state # "Resolved" => Dust(id) = 0
         /\ tasks[id].state = "Resolved" => Dust(id) = Cardinality(Revealers(id)) - 1
BY DEF Owed, Dust

\* The same of the next state.
LEMMA OwedNext ==
  ASSUME NEW id \in TaskIds
  PROVE  /\ tasks'[id].state \in {"Open", "Reveal"} =>
              Owed(id)' = tasks'[id].feePool + posted'[id]
         /\ tasks'[id].state \in {"Provisional", "Disputed"} => Owed(id)' = tasks'[id].payoutPool
         /\ tasks'[id].state \in {"None", "Resolved"} => Owed(id)' = 0
         /\ tasks'[id].state # "Resolved" => Dust(id)' = 0
         /\ tasks'[id].state = "Resolved" => Dust(id)' = Cardinality(Revealers(id)') - 1
BY DEF Owed, Dust

\* The owner changes the bond only while no task holds bonds.
BondStays ==
  \/ config'.evalBond = config.evalBond
  \/ \A id \in TaskIds : tasks[id].state \notin {"Open", "Reveal"}

\* A transaction that touches no money and counts no bond keeps the escrow.
LEMMA EscrowStays ==
  ASSUME EscrowGood, UNCHANGED <<tasks, evals, posted, marketWeth>>, BondStays
  PROVE  EscrowGood'
<1>1. EscrowIsExact'
  BY DEF EscrowGood, EscrowIsExact, Owed, Dust, Revealers, Evaluators
<1>2. \A id \in TaskIds : BondsCounted(id)'
  BY DEF EscrowGood, BondsCounted, Bidders, BondStays
<1> QED
  BY <1>1, <1>2 DEF EscrowGood

\* createTask takes the fee it owes back or out.
LEMMA CreateKeepsEscrow ==
  ASSUME MarketInv, AmountsOwed, AmountsOwed', EscrowGood, Create
  PROVE  EscrowGood'
<1>1. PICK schedule \in Schedules, bounds \in EvalBounds, feePool \in FeePools :
        createTask(schedule, bounds, feePool)
  BY DEF Create
<1>0. PICK id \in TaskIds : id = nextTaskId
  BY <1>1 DEF createTask
<1> DEFINE t == [NoTask EXCEPT !.state = "Open",
                               !.commitDeadline = now + schedule[1],
                               !.revealDeadline = now + schedule[1] + schedule[2],
                               !.disputeDeadline = now + schedule[1] + schedule[2] + schedule[3],
                               !.minEvals = bounds[1],
                               !.maxEvals = bounds[2],
                               !.feePool = feePool]
<1>2. /\ tasks \in [TaskIds -> Task] /\ evals \in [TaskIds -> [Users -> Evaluation]]
      /\ posted \in [TaskIds -> Nat] /\ id \in Nat
      /\ SoundTask(id, tasks[id], evals[id], posted[id])
  BY <1>0, <1>1, Typed DEF createTask, MarketInv
<1>3. /\ tasks' = [tasks EXCEPT ![id] = t]
      /\ evals' = evals /\ posted' = posted /\ config' = config
      /\ marketWeth' = marketWeth + feePool
  BY <1>0, <1>1 DEF createTask
<1>4. t.state = "Open" /\ t.feePool = feePool
  BY DEF NoTask
<1> HIDE DEF t
<1>5. ChangesOnly(id) /\ tasks'[id] = t /\ evals'[id] = evals[id] /\ posted'[id] = posted[id]
  BY <1>2, <1>3 DEF ChangesOnly
<1>6. tasks[id].state = "None"
  BY <1>0, <1>2 DEF MarketInv, TasksGood
<1>7. posted[id] = 0 /\ tasks[id] = NoTask
  BY <1>2, <1>6 DEF SoundTask, InPhase
<1>8. Bidders(id)' = {}
  <2>1. \A u \in Users : ~evals[id][u].committed
    BY <1>2, <1>7, EmptyRecords DEF SoundTask, ListsCommitted
  <2> QED BY <1>5, <2>1 DEF Bidders
<1>9. BondsCounted(id)'
  <2>1. config.evalBond \in Nat
    <3>1. config.evalBond \in BondChoices
      BY Typed DEF MarketInv, RestTyped, Config
    <3> QED BY <3>1, MarketAmounts
  <2>2. config'.evalBond * Cardinality(Bidders(id)') = 0
    BY <1>3, <1>8, <2>1, FS_EmptySet
  <2> QED BY <1>5, <1>7, <2>2 DEF BondsCounted
<1>10. feePool \in Nat
  BY MarketAmounts
<1>11. /\ Owed(id) = 0 /\ Dust(id) = 0
       /\ Owed(id)' = feePool + 0 /\ Dust(id)' = 0
  <2>1. tasks'[id].state = "Open" /\ tasks'[id].feePool = feePool /\ posted'[id] = 0
    BY <1>4, <1>5, <1>7
  <2>2. Owed(id) = 0 /\ Dust(id) = 0
    BY <1>2, <1>6, OwedCases
  <2>3. Owed(id)' = feePool + 0 /\ Dust(id)' = 0
    BY <1>2, <2>1, OwedNext
  <2> QED BY <2>2, <2>3
<1>12. marketWeth' = marketWeth + Owed(id)' - Owed(id) + 0 /\ 0 <= Dust(id)' - Dust(id)
  BY <1>3, <1>10, <1>11 DEF AmountsOwed
<1>13. config'.evalBond = config.evalBond
  BY <1>3
<1> QED
  BY <1>2, <1>5, <1>9, <1>12, <1>13, OneEscrowMoves

\* commitEvaluation takes one bond for one account.
LEMMA CommitKeepsEscrow ==
  ASSUME MarketInv, AmountsOwed, AmountsOwed', EscrowGood, NEW id \in TaskIds, Commit(id)
  PROVE  EscrowGood'
<1>0. PICK u \in Users : \E hash \in Hashes(id, u) : commitEvaluation(id, u, hash)
  BY DEF Commit
<1>1. PICK hash \in Hashes(id, u) : commitEvaluation(id, u, hash)
  BY <1>0
<1> DEFINE t == tasks[id]
           e == evals[id]
           n == WithEvaluator(t, u)
           x == Committed(e[u], hash, StakeToLock)
           f == [e EXCEPT ![u] = x]
           b == config.evalBond
<1>2. /\ tasks \in [TaskIds -> Task] /\ evals \in [TaskIds -> [Users -> Evaluation]]
      /\ posted \in [TaskIds -> Nat]
      /\ t \in Task /\ e \in [Users -> Evaluation]
  BY Typed DEF MarketInv
<1>3. /\ t.state = "Open" /\ ~e[u].committed
      /\ evals' = [evals EXCEPT ![id] = f]
      /\ posted' = [posted EXCEPT ![id] = @ + b]
      /\ marketWeth' = marketWeth + b /\ config' = config
  <2>1. evals' = [evals EXCEPT ![id][u] = x]
    BY <1>1 DEF commitEvaluation, Committed
  <2> HIDE DEF x
  <2>2. evals' = [evals EXCEPT ![id] = f]
    BY <2>1
  <2> QED BY <1>1, <2>2 DEF commitEvaluation, AcceptsCommits
<1>4. tasks' = [tasks EXCEPT ![id] = n]
  <2> DEFINE all == Append(t.evaluators, u)
             st == IF Len(all) = t.maxEvals THEN "Reveal" ELSE t.state
  <2>1. tasks' = [tasks EXCEPT ![id].evaluators = all, ![id].state = st]
    BY <1>1 DEF commitEvaluation
  <2>2. n = [t EXCEPT !.evaluators = all, !.state = st]
    BY DEF WithEvaluator
  <2> HIDE DEF all, st, n
  <2> QED BY <1>2, <2>1, <2>2
<1>5. n.state \in {"Reveal", "Open"} /\ n.feePool = t.feePool
  <2>1. n.state \in {"Reveal", t.state} /\ n.feePool = t.feePool
    <3> HIDE DEF t
    <3> QED BY <1>2, EvaluatorAdded
  <2> QED BY <1>3, <2>1
<1>6. x.committed
  <2>1. e[u] \in Evaluation
    BY <1>2
  <2> QED BY <2>1, CommittedFlag
<1>7. b \in Nat
  <2>1. config.evalBond \in BondChoices
    BY Typed DEF MarketInv, RestTyped, Config
  <2> QED BY <2>1, MarketAmounts
<1> HIDE DEF n, x
<1>8. f[u] = x /\ \A v \in Users \ {u} : f[v] = e[v]
  BY <1>2
<1> HIDE DEF f
<1>9. /\ ChangesOnly(id) /\ tasks'[id] = n /\ evals'[id] = f /\ posted'[id] = posted[id] + b
  BY <1>2, <1>3, <1>4 DEF ChangesOnly
<1>10. Bidders(id)' = Bidders(id) \union {u} /\ u \notin Bidders(id)
  BY <1>3, <1>6, <1>8, <1>9 DEF Bidders
<1>11. Bidders(id) \in SUBSET Users
  BY DEF Bidders
<1>12. /\ Cardinality(Bidders(id)') = Cardinality(Bidders(id)) + 1
       /\ Cardinality(Bidders(id)) \in Nat
  <2>1. IsFiniteSet(Bidders(id))
    BY <1>11, StakingConstants, FS_Subset
  <2>2. Cardinality(Bidders(id) \union {u}) = Cardinality(Bidders(id)) + 1
    BY <1>10, <2>1, FS_AddElement
  <2> QED BY <1>10, <2>1, <2>2, FS_CardinalityType
<1>13. BondsCounted(id)'
  <2> DEFINE k == Cardinality(Bidders(id))
             k1 == Cardinality(Bidders(id)')
  <2>1. posted[id] = b * k
    BY <1>3 DEF EscrowGood, BondsCounted
  <2>2. k1 = k + 1 /\ k \in Nat
    BY <1>12
  <2> HIDE DEF k, k1, b
  <2>3. b * k1 = b * k + b
    BY <1>7, <2>2
  <2>4. posted'[id] = b * k1
    BY <1>9, <2>1, <2>3
  <2>5. config'.evalBond = b
    BY <1>3 DEF b
  <2> QED BY <2>4, <2>5 DEF BondsCounted, k1
<1>14. t.feePool \in Nat /\ posted[id] \in Nat
  <2>1. posted[id] \in Nat
    BY <1>2
  <2>2. t.feePool \in Nat
    <3>1. t \in Task
      BY <1>2
    <3> HIDE DEF t
    <3> QED BY ONLY <3>1, TaskFields
  <2> QED BY <2>1, <2>2
<1>15. /\ Owed(id) = t.feePool + posted[id] /\ Dust(id) = 0
       /\ Owed(id)' = t.feePool + (posted[id] + b) /\ Dust(id)' = 0
  <2>1. Owed(id) = t.feePool + posted[id] /\ Dust(id) = 0
    BY <1>3, OwedCases
  <2>2. /\ tasks'[id].state \in {"Open", "Reveal"} /\ tasks'[id].state # "Resolved"
        /\ tasks'[id].feePool = t.feePool /\ posted'[id] = posted[id] + b
    BY <1>5, <1>9
  <2> QED BY <2>1, <2>2, OwedNext
<1> HIDE DEF b, t
<1>16. marketWeth' = marketWeth + Owed(id)' - Owed(id) + 0 /\ 0 <= Dust(id)' - Dust(id)
  BY <1>3, <1>7, <1>14, <1>15 DEF AmountsOwed
<1>17. config'.evalBond = config.evalBond
  BY <1>3
<1> QED
  BY <1>9, <1>13, <1>16, <1>17, OneEscrowMoves

(***************************************************************************)
(* The escrow: revealEvaluation, finalize and disputes                     *)
(***************************************************************************)
\* Neither closing the commits nor opening one moves money.
LEMMA RevealKeepsEscrow ==
  ASSUME MarketInv, AmountsOwed, AmountsOwed', EscrowGood, NEW id \in TaskIds,
         openReveal(id) \/ Reveal(id)
  PROVE  EscrowGood'
<1> DEFINE t == tasks[id]
           e == evals[id]
<1>1. /\ tasks \in [TaskIds -> Task] /\ evals \in [TaskIds -> [Users -> Evaluation]]
      /\ posted \in [TaskIds -> Nat]
      /\ t \in Task
  BY Typed DEF MarketInv
<1>2. t.state \in {"Open", "Reveal"}
  BY DEF openReveal, Reveal, revealEvaluation
<1>3. /\ posted' = posted /\ marketWeth' = marketWeth /\ config' = config
  BY DEF openReveal, Reveal, revealEvaluation
<1>4. /\ ChangesOnly(id)
      /\ tasks'[id].state = "Reveal" /\ tasks'[id].feePool = t.feePool
      /\ Bidders(id)' = Bidders(id)
  <2>1. CASE openReveal(id)
    <3> DEFINE n == [t EXCEPT !.state = "Reveal"]
    <3>1. tasks' = [tasks EXCEPT ![id] = n] /\ evals' = evals
      BY <2>1 DEF openReveal
    <3>2. n.state = "Reveal" /\ n.feePool = t.feePool
      <4>1. "Reveal" \in TaskStates
        BY DEF TaskStates
      <4> HIDE DEF t
      <4> QED BY <1>1, <4>1, StateMoves
    <3> HIDE DEF n
    <3>3. ChangesOnly(id) /\ tasks'[id] = n
      BY <1>1, <1>3, <3>1 DEF ChangesOnly
    <3>4. Bidders(id)' = Bidders(id)
      BY <3>1 DEF Bidders
    <3> QED BY <3>2, <3>3, <3>4
  <2>2. CASE Reveal(id)
    <3>1. PICK u \in Users, score \in Scores, evidence \in EvidenceChoices :
            revealEvaluation(id, u, score, evidence)
      BY <2>2 DEF Reveal
    <3> DEFINE x == e[u]
               y == Opening(x, score, evidence)
               f == [e EXCEPT ![u] = y]
    <3>2. evals' = [evals EXCEPT ![id] = f] /\ tasks' = tasks /\ t.state = "Reveal"
      <4>1. evals' = [evals EXCEPT ![id][u] = y]
        BY <3>1 DEF revealEvaluation, Opening
      <4> HIDE DEF y
      <4>2. evals' = [evals EXCEPT ![id] = f]
        BY <4>1
      <4> QED BY <3>1, <4>2 DEF revealEvaluation
    <3>3. y.committed = x.committed
      <4>1. x \in Evaluation
        BY <1>1
      <4> HIDE DEF x
      <4> QED BY <4>1, OpenedEvaluation
    <3> HIDE DEF y
    <3>4. \A v \in Users : f[v].committed = e[v].committed
      BY <1>1, <3>3
    <3> HIDE DEF f
    <3>5. ChangesOnly(id) /\ tasks'[id] = t /\ evals'[id] = f
      BY <1>1, <1>3, <3>2 DEF ChangesOnly
    <3>6. Bidders(id)' = Bidders(id)
      BY <3>4, <3>5 DEF Bidders
    <3> QED BY <3>2, <3>5, <3>6
  <2> QED BY <2>1, <2>2
<1>5. BondsCounted(id)'
  <2>1. BondsCounted(id)
    BY DEF EscrowGood
  <2> QED BY <1>2, <1>3, <1>4, <2>1 DEF BondsCounted
<1>6. t.feePool \in Nat /\ posted[id] \in Nat
  <2>1. posted[id] \in Nat
    BY <1>1
  <2>2. t.feePool \in Nat
    <3>1. t \in Task
      BY <1>1
    <3> HIDE DEF t
    <3> QED BY ONLY <3>1, TaskFields
  <2> QED BY <2>1, <2>2
<1>7. /\ Owed(id) = t.feePool + posted[id] /\ Dust(id) = 0
      /\ Owed(id)' = t.feePool + posted[id] /\ Dust(id)' = 0
  <2>1. Owed(id) = t.feePool + posted[id] /\ Dust(id) = 0
    BY <1>2, OwedCases
  <2> QED BY <1>3, <1>4, <2>1, OwedNext
<1> HIDE DEF t
<1>8. marketWeth' = marketWeth + Owed(id)' - Owed(id) + 0 /\ 0 <= Dust(id)' - Dust(id)
  BY <1>3, <1>6, <1>7 DEF AmountsOwed
<1>9. config'.evalBond = config.evalBond
  BY <1>3
<1> QED
  BY <1>4, <1>5, <1>8, <1>9, OneEscrowMoves

\* finalize sends the bonds and the fee, and owes the rest of the fee pool.
LEMMA FinalizeKeepsEscrow ==
  ASSUME MarketInv, AmountsOwed, AmountsOwed', EscrowGood, NEW id \in TaskIds, finalize(id)
  PROVE  EscrowGood'
<1> DEFINE t == tasks[id]
           e == evals[id]
           m == Median([u \in Users |-> evals[id][u].score], Revealers(id))
           b == FinalEvidence(id, m)
           fee == ProtocolFee(id)
           p == tasks[id].feePool - fee
           n == Finalized(t, m, b, p)
           c == Cardinality(Evaluators(id))
           bond == config.evalBond
           sent == FinalizeTransfers(id)
<1>1. /\ tasks \in [TaskIds -> Task] /\ evals \in [TaskIds -> [Users -> Evaluation]]
      /\ posted \in [TaskIds -> Nat]
      /\ SoundTask(id, t, e, posted[id])
      /\ t \in Task /\ RestTyped
  BY Typed DEF MarketInv
<1>2. /\ t.state = "Reveal"
      /\ tasks' = [tasks EXCEPT ![id] = n] /\ evals' = evals
      /\ posted' = [posted EXCEPT ![id] = 0]
      /\ marketWeth' = marketWeth - sent
      /\ config' = config
  BY DEF finalize, Finalized
<1>3. n.state = "Provisional" /\ n.payoutPool = p
  <2> DEFINE B == 0..10
             S == 0..10000
             Q == Seq(Users)
             F == Users \union {NoUser}
  <2>1. Task = TaskOf(B, S, Q, F)
    BY DEF Task, TaskOf
  <2> HIDE DEF B, S, Q, F, m, b, p, t
  <2> QED BY <1>1, <2>1 DEF TaskOf, Finalized
<1> HIDE DEF n
<1>4. ChangesOnly(id) /\ tasks'[id] = n /\ posted'[id] = 0
  BY <1>1, <1>2 DEF ChangesOnly
<1>5. BondsCounted(id)'
  BY <1>3, <1>4 DEF BondsCounted
<1>6. /\ fee \in 0..t.feePool /\ sent = fee + c * bond
  BY <1>1, RevealersAre, FinalizePays
<1>7. posted[id] = bond * c
  <2>1. Bidders(id) = Evaluators(id)
    BY <1>1, RevealersAre DEF Bidders
  <2> QED BY <1>2, <2>1 DEF EscrowGood, BondsCounted
<1>8. c \in Nat /\ bond \in Nat /\ t.feePool \in Nat
  <2>1. c \in Nat
    BY <1>1, RevealersAre, FS_CardinalityType
  <2>2. config.evalBond \in BondChoices
    BY <1>1 DEF RestTyped, Config
  <2>3. bond \in Nat
    BY <2>2, MarketAmounts
  <2>4. t.feePool \in Nat
    <3>1. t \in Task
      BY <1>1
    <3> HIDE DEF t
    <3> QED BY ONLY <3>1, TaskFields
  <2> QED BY <2>1, <2>3, <2>4
<1>9. /\ Owed(id) = t.feePool + posted[id] /\ Dust(id) = 0
      /\ Owed(id)' = p /\ Dust(id)' = 0
  <2>1. Owed(id) = t.feePool + posted[id] /\ Dust(id) = 0
    BY <1>2, OwedCases
  <2>2. tasks'[id].state = "Provisional" /\ tasks'[id].payoutPool = p
    BY <1>3, <1>4
  <2> HIDE DEF p
  <2> QED BY <2>1, <2>2, OwedNext
<1>10. p = t.feePool - fee
  OBVIOUS
<1> HIDE DEF t, fee, c, bond, p, sent
<1>11. marketWeth' = marketWeth + Owed(id)' - Owed(id) + 0 /\ 0 <= Dust(id)' - Dust(id)
  <2> DEFINE all == bond * c
  <2>1. all \in Nat /\ c * bond = all
    BY <1>8
  <2>2. fee \in Nat
    BY <1>6, <1>8
  <2> HIDE DEF all
  <2>3. posted[id] = all /\ sent = fee + all
    BY <1>6, <1>7, <2>1 DEF all
  <2>4. marketWeth \in Nat
    BY DEF AmountsOwed
  <2> QED BY <1>2, <1>8, <1>9, <1>10, <2>1, <2>2, <2>3, <2>4
<1>12. config'.evalBond = config.evalBond
  BY <1>2
<1> QED
  BY <1>4, <1>5, <1>11, <1>12, OneEscrowMoves

\* markDisputed moves no money.
LEMMA DisputeKeepsEscrow ==
  ASSUME MarketInv, AmountsOwed, AmountsOwed', EscrowGood, NEW id \in TaskIds, markDisputed(id)
  PROVE  EscrowGood'
<1> DEFINE t == tasks[id]
           n == [t EXCEPT !.state = "Disputed", !.wasDisputed = TRUE]
<1>1. /\ tasks \in [TaskIds -> Task] /\ evals \in [TaskIds -> [Users -> Evaluation]]
      /\ posted \in [TaskIds -> Nat]
      /\ t \in Task
  BY Typed DEF MarketInv
<1>2. /\ t.state = "Provisional"
      /\ tasks' = [tasks EXCEPT ![id] = n] /\ evals' = evals /\ posted' = posted
      /\ marketWeth' = marketWeth /\ config' = config
  BY DEF markDisputed
<1>3. n.state = "Disputed" /\ n.payoutPool = t.payoutPool
  <2> HIDE DEF t
  <2> QED BY <1>1, DisputedTask
<1> HIDE DEF n
<1>4. ChangesOnly(id) /\ tasks'[id] = n
  BY <1>1, <1>2 DEF ChangesOnly
<1>5. BondsCounted(id)'
  BY <1>3, <1>4 DEF BondsCounted
<1>6. t.payoutPool \in Nat
  <2>1. t \in Task
    BY <1>1
  <2> HIDE DEF t
  <2> QED BY ONLY <2>1, TaskFields
<1>7. /\ Owed(id) = t.payoutPool /\ Dust(id) = 0
      /\ Owed(id)' = t.payoutPool /\ Dust(id)' = 0
  <2>1. Owed(id) = t.payoutPool /\ Dust(id) = 0
    BY <1>2, OwedCases
  <2>2. tasks'[id].state = "Disputed" /\ tasks'[id].payoutPool = t.payoutPool
    BY <1>3, <1>4
  <2> QED BY <2>1, <2>2, OwedNext
<1> HIDE DEF t
<1>8. marketWeth' = marketWeth + Owed(id)' - Owed(id) + 0 /\ 0 <= Dust(id)' - Dust(id)
  BY <1>2, <1>6, <1>7 DEF AmountsOwed
<1>9. config'.evalBond = config.evalBond
  BY <1>2
<1> QED
  BY <1>4, <1>5, <1>8, <1>9, OneEscrowMoves

(***************************************************************************)
(* The escrow: _settleTask, and the theorem                                *)
(***************************************************************************)
\* _settleTask pays the payout pool in shares, and what it leaves is the dust of the task.
LEMMA SettleKeepsEscrow ==
  ASSUME MarketInv, AmountsOwed, AmountsOwed', EscrowGood, NEW id \in TaskIds,
         NEW final, NEW bundle, NEW disputed, Settle(id, final, bundle, disputed),
         tasks[id].state \in {"Provisional", "Disputed"}
  PROVE  EscrowGood'
<1> DEFINE t == tasks[id]
           e == evals[id]
           p == t.rewardsPaid \/ config.rewardsOn
           n == SettledTask(t, final, bundle, p)
           f == [u \in Users |->
                   IF u \in Holding(id) THEN [e[u] EXCEPT !.lockedStake = 0] ELSE e[u]]
           R == Revealers(id)
           paid == SumFunction([u \in R |-> Share(id, u, final)])
           pool == t.payoutPool
<1>1. /\ tasks \in [TaskIds -> Task] /\ evals \in [TaskIds -> [Users -> Evaluation]]
      /\ posted \in [TaskIds -> Nat]
      /\ SoundTask(id, t, e, posted[id])
  BY Typed DEF MarketInv
<1>2. t \in Task
  BY <1>1
<1>3. /\ posted' = posted /\ config' = config
      /\ marketWeth' = marketWeth - paid
  BY DEF Settle
<1>4. evals' = [evals EXCEPT ![id] = f]
  BY DEF Settle, SettleStakes, Holding
<1>5. tasks' = [tasks EXCEPT ![id] = n]
  BY DEF Settle, SettledTask
<1>6. n.state = "Resolved" /\ n.evaluators = t.evaluators
  <2> DEFINE B == 0..10
             S == 0..10000
             Q == Seq(Users)
             F == Users \union {NoUser}
  <2>1. Task = TaskOf(B, S, Q, F)
    BY DEF Task, TaskOf
  <2> HIDE DEF B, S, Q, F, p, t
  <2> QED BY <1>2, <2>1 DEF TaskOf, SettledTask
<1> HIDE DEF n
<1>7. ASSUME NEW u \in Users PROVE f[u].revealed = e[u].revealed
  <2> DEFINE x == e[u]
             y == [x EXCEPT !.lockedStake = 0]
  <2>1. x \in Evaluation
    BY <1>1
  <2>2. y.revealed = x.revealed
    <3> HIDE DEF x
    <3> QED BY <2>1, ReleasedEvaluation
  <2>3. f[u] = y \/ f[u] = x
    OBVIOUS
  <2> HIDE DEF f, x, y
  <2>4. f[u].revealed = x.revealed
    BY <2>2, <2>3
  <2> QED BY <2>4 DEF x
<1> HIDE DEF f
<1>8. /\ tasks'[id] = n /\ evals'[id] = f
      /\ ChangesOnly(id)
  <2>1. posted' = [i \in TaskIds |-> posted'[i]] /\ \A i \in TaskIds : posted'[i] = posted[i]
    BY <1>1, <1>3
  <2>2. /\ tasks' = [i \in TaskIds |-> tasks'[i]] /\ tasks'[id] = n
        /\ \A i \in TaskIds \ {id} : tasks'[i] = tasks[i]
    BY <1>1, <1>5
  <2>3. /\ evals' = [i \in TaskIds |-> evals'[i]] /\ evals'[id] = f
        /\ \A i \in TaskIds \ {id} : evals'[i] = evals[i]
    BY <1>1, <1>4
  <2> QED BY <2>1, <2>2, <2>3 DEF ChangesOnly
<1>9. BondsCounted(id)'
  BY <1>6, <1>8 DEF BondsCounted
<1>10. Revealers(id)' = R
  <2>1. Evaluators(id)' = Evaluators(id)
    BY <1>6, <1>8 DEF Evaluators
  <2>2. \A u \in Evaluators(id) : u \in Users
    BY <1>1, RevealersAre
  <2> QED BY <1>7, <1>8, <2>1, <2>2 DEF Revealers
<1>11. IsFiniteSet(R) /\ R # {}
  <2>1. Revealers(id) = Shown(e) /\ IsFiniteSet(Revealers(id))
    BY <1>1, RevealersAre
  <2>2. Cardinality(Shown(e)) >= t.minEvals /\ t.minEvals >= 1
    BY <1>1 DEF SoundTask, InPhase, Closed
  <2>3. t.minEvals \in Nat
    BY <1>2, TaskFields
  <2>4. Cardinality(Shown(e)) \in Nat
    BY <2>1, FS_CardinalityType
  <2>5. Cardinality(Shown(e)) # 0
    BY <2>2, <2>3, <2>4
  <2> QED BY <2>1, <2>5, FS_EmptySet
<1>12. /\ paid \in Nat /\ paid <= pool
       /\ pool <= paid + Cardinality(R) - 1
  BY <1>2, <1>11, SharesMakeThePool
<1>13. pool \in Nat /\ Cardinality(R) \in Nat
  <2>1. pool \in Nat
    <3> HIDE DEF t
    <3> QED BY <1>2, TaskFields
  <2> QED BY <2>1, <1>11, FS_CardinalityType
<1>14. /\ Owed(id) = pool /\ Dust(id) = 0
       /\ Owed(id)' = 0 /\ Dust(id)' = Cardinality(R) - 1
  <2>1. Owed(id) = pool /\ Dust(id) = 0
    BY OwedCases
  <2>2. tasks'[id].state = "Resolved"
    BY <1>6, <1>8
  <2> QED BY <1>10, <2>1, <2>2, OwedNext
<1> HIDE DEF t, R, paid, pool
<1> DEFINE d == pool - paid
<1>15. /\ d \in Int /\ 0 <= d /\ d <= Dust(id)' - Dust(id)
       /\ marketWeth' = marketWeth + Owed(id)' - Owed(id) + d
  BY <1>3, <1>12, <1>13, <1>14 DEF AmountsOwed
<1>16. config'.evalBond = config.evalBond
  BY <1>3
<1> HIDE DEF d
<1> QED
  BY <1>8, <1>9, <1>15, <1>16, OneEscrowMoves

\* Every step keeps the escrow, as long as the bond stays while tasks hold bonds.
LEMMA StepsKeepEscrow ==
  ASSUME MarketInv, AmountsOwed, AmountsOwed', EscrowGood, [MarketNext]_allVars, BondStays
  PROVE  EscrowGood'
<1>1. CASE Create
  BY <1>1, CreateKeepsEscrow
<1>2. ASSUME NEW id \in TaskIds, finalizeUndisputed(id)
      PROVE  EscrowGood'
  <2> DEFINE d == FALSE
             s == tasks[id].finalScore
             b == tasks[id].finalBundle
  <2>1. Settle(id, s, b, d) /\ tasks[id].state \in {"Provisional", "Disputed"}
    BY <1>2 DEF finalizeUndisputed
  <2> HIDE DEF d, s, b
  <2> QED BY <2>1, SettleKeepsEscrow
<1>3. ASSUME NEW id \in TaskIds, Resolve(id)
      PROVE  EscrowGood'
  <2>1. PICK s \in Scores : markResolved(id, s)
    BY <1>3 DEF Resolve
  <2> DEFINE d == TRUE
             b == FinalEvidence(id, s)
  <2>2. Settle(id, s, b, d) /\ tasks[id].state \in {"Provisional", "Disputed"}
    BY <2>1 DEF markResolved
  <2> HIDE DEF d, b
  <2> QED BY <2>2, SettleKeepsEscrow
<1>4. ASSUME NEW id \in TaskIds,
             \/ Commit(id)
             \/ openReveal(id)
             \/ Reveal(id)
             \/ finalize(id)
             \/ finalizeUndisputed(id)
             \/ markDisputed(id)
             \/ Resolve(id)
      PROVE  EscrowGood'
  BY <1>2, <1>3, <1>4, CommitKeepsEscrow, RevealKeepsEscrow, FinalizeKeepsEscrow,
     DisputeKeepsEscrow
<1>5. CASE Setters
  <2>1. UNCHANGED <<tasks, evals, posted, marketWeth>>
    BY <1>5 DEF Setters, setBonds, setProtocolFeeBps, setNonRevealSlashBps,
                setRewardsDistributor, setStakingManager, OwnerSets, marketVars
  <2> QED BY <2>1, EscrowStays
<1>6. CASE (StakerCall \/ Tick) /\ UNCHANGED <<marketVars, rewardVars>>
  <2>1. UNCHANGED <<tasks, evals, posted, marketWeth>>
    BY <1>6 DEF marketVars
  <2> QED BY <2>1, EscrowStays
<1>7. CASE UNCHANGED allVars
  <2>1. UNCHANGED <<tasks, evals, posted, marketWeth>>
    BY <1>7 DEF allVars, marketVars
  <2> QED BY <2>1, EscrowStays
<1> QED
  BY <1>1, <1>4, <1>5, <1>6, <1>7 DEF MarketNext, MarketCall

\* At deployment nothing is held and nothing is owed.
LEMMA InitEscrow == MarketInit => EscrowGood
<1> SUFFICES ASSUME MarketInit PROVE EscrowGood
  OBVIOUS
<1>1. /\ \A id \in TaskIds : tasks[id].state = "None"
      /\ marketWeth = 0
  BY EmptyRecords DEF MarketInit
<1> DEFINE F == [id \in TaskIds |-> Owed(id)]
           D == [id \in TaskIds |-> Dust(id)]
<1>2. \A id \in TaskIds : Owed(id) = 0 /\ Dust(id) = 0
  BY <1>1, OwedCases
<1>3. /\ F \in [TaskIds -> Int] /\ \A id \in TaskIds : F[id] = 0
      /\ D \in [TaskIds -> Int] /\ \A id \in TaskIds : D[id] = 0
  BY <1>2
<1>4. IsFiniteSet(TaskIds)
  BY MarketTerms, FS_Interval DEF TaskIds
<1> HIDE DEF F, D
<1>5. SumFunction(F) = 0 /\ SumFunction(D) = 0
  BY <1>3, <1>4, SumZero
<1>6. EscrowIsExact
  BY <1>1, <1>5 DEF EscrowIsExact, F, D
<1>7. \A id \in TaskIds : BondsCounted(id)
  BY <1>1 DEF BondsCounted
<1> QED
  BY <1>6, <1>7 DEF EscrowGood

\* The contract does not record what a bond was when it was posted (finalize sends back the
\* bond of today), so the escrow is exact as long as the owner calls setBonds with another
\* value only while no task holds bonds.  Then it always holds what it owes, and no more than
\* the dust of rounding.
THEOREM EscrowStaysExact ==
  MarketSpec /\ [][BondStays]_config => []EscrowIsExact
<1>1. MarketInv /\ AmountsOwed /\ AmountsOwed' /\ EscrowGood /\ [MarketNext]_allVars
        /\ [BondStays]_config => EscrowGood'
  <2> SUFFICES ASSUME MarketInv, AmountsOwed, AmountsOwed', EscrowGood, [MarketNext]_allVars,
                      [BondStays]_config
               PROVE  EscrowGood'
    OBVIOUS
  <2>1. BondStays
    BY DEF BondStays
  <2> QED BY <2>1, StepsKeepEscrow
<1>2. EscrowGood => EscrowIsExact
  BY DEF EscrowGood
<1>3. MarketSpec => []AmountsOwed
  BY MarketInvAlways, OwedTyped, PTL
<1> QED
  BY <1>1, <1>2, <1>3, InitEscrow, MarketInvAlways, PTL DEF MarketSpec

(***************************************************************************)
(* The locks: what is locked, and the steps that leave it alone            *)
(***************************************************************************)
\* What an evaluation may hold locked: nothing once its task is settled.
OpenLock(id, u) == IF tasks[id].state = "Resolved" THEN 0 ELSE evals[id][u].lockedStake

\* A task that is settled, and any while no staking manager is set, records no lock.
RecordsNone(id) == ~config.staking.on \/ tasks[id].state = "Resolved"

\* The inductive invariant of the locks.
LocksGood ==
  /\ LocksAreReleased
  /\ \A id \in TaskIds, u \in Users : RecordsNone(id) => evals[id][u].lockedStake = 0

\* The owner unsets the staking manager only while no task runs.
StakingStays ==
  config.staking.on =>
    config'.staking.on \/ \A id \in TaskIds : tasks[id].state \in {"None", "Resolved"}

\* What is locked, and what may be, are amounts.
LocksCounted ==
  \A u \in Users :
    /\ stakes[u].lockedAmount \in Nat
    /\ [id \in TaskIds |-> OpenLock(id, u)] \in [TaskIds -> Int]

\* They are, of the stakes and tasks the invariant describes.
LEMMA LocksTyped == MarketInv => LocksCounted
<1> SUFFICES ASSUME MarketInv, NEW u \in Users
             PROVE  /\ stakes[u].lockedAmount \in Nat
                    /\ [id \in TaskIds |-> OpenLock(id, u)] \in [TaskIds -> Int]
  BY DEF LocksCounted
<1>1. stakes[u].lockedAmount \in Nat
  <2>1. stakes[u] \in Stake
    BY DEF MarketInv, StakesGood
  <2> QED BY <2>1 DEF Stake
<1>2. \A id \in TaskIds : evals[id][u].lockedStake \in Nat
  <2>1. \A id \in TaskIds : evals[id][u] \in Evaluation
    BY Typed DEF MarketInv
  <2> QED BY <2>1, EvaluationFields
<1> QED
  BY <1>1, <1>2 DEF OpenLock

\* There are finitely many tasks.
LEMMA TaskIdsAreFinite == IsFiniteSet(TaskIds)
<1>1. MaxTasks \in Nat
  BY MarketTerms
<1> QED
  BY ONLY <1>1, FS_Interval DEF TaskIds

\* A step that locks nothing more, and leaves what the tasks record of locks, keeps them.
LEMMA LocksStay ==
  ASSUME LocksCounted, LocksCounted', LocksGood,
         \A u \in Users : stakes'[u].lockedAmount <= stakes[u].lockedAmount,
         \A id \in TaskIds, u \in Users :
           /\ OpenLock(id, u)' = OpenLock(id, u)
           /\ evals'[id][u].lockedStake = evals[id][u].lockedStake
           /\ RecordsNone(id)' => RecordsNone(id) \/ evals[id][u].lockedStake = 0
  PROVE  LocksGood'
<1>1. IsFiniteSet(TaskIds)
  BY TaskIdsAreFinite
<1>2. LocksAreReleased'
  <2> SUFFICES ASSUME NEW u \in Users
               PROVE  stakes'[u].lockedAmount <= SumFunction([id \in TaskIds |-> OpenLock(id, u)'])
    BY DEF LocksAreReleased, OpenLock
  <2> DEFINE F == [id \in TaskIds |-> OpenLock(id, u)]
             F1 == [id \in TaskIds |-> OpenLock(id, u)']
  <2>1. F1 = F
    OBVIOUS
  <2>2. stakes[u].lockedAmount <= SumFunction(F)
    BY DEF LocksGood, LocksAreReleased, OpenLock
  <2>3. /\ F \in [TaskIds -> Int]
        /\ stakes[u].lockedAmount \in Nat /\ stakes'[u].lockedAmount \in Nat
    BY DEF LocksCounted
  <2> HIDE DEF F, F1
  <2>4. SumFunction(F) \in Int
    BY <1>1, <2>3, SumTyped
  <2>5. stakes'[u].lockedAmount <= SumFunction(F1)
    BY <2>1, <2>2, <2>3, <2>4
  <2> QED BY <2>5 DEF F1
<1>3. \A id \in TaskIds, u \in Users : RecordsNone(id)' => evals'[id][u].lockedStake = 0
  BY DEF LocksGood
<1> QED
  BY <1>2, <1>3 DEF LocksGood

\* A transaction about one task that locks no more than it records for that task keeps them.
LEMMA OneLockMoves ==
  ASSUME LocksCounted, LocksCounted', LocksGood, NEW id \in TaskIds, ChangesOnly(id),
         config'.staking = config.staking,
         \A u \in Users :
           /\ stakes'[u].lockedAmount + OpenLock(id, u)
                <= stakes[u].lockedAmount + OpenLock(id, u)'
           /\ RecordsNone(id)' => evals'[id][u].lockedStake = 0
  PROVE  LocksGood'
<1>1. IsFiniteSet(TaskIds)
  BY TaskIdsAreFinite
<1>2. \A i \in TaskIds \ {id} : tasks'[i] = tasks[i] /\ evals'[i] = evals[i]
  BY DEF ChangesOnly
<1>3. LocksAreReleased'
  <2> SUFFICES ASSUME NEW u \in Users
               PROVE  stakes'[u].lockedAmount <= SumFunction([i \in TaskIds |-> OpenLock(i, u)'])
    BY DEF LocksAreReleased, OpenLock
  <2> DEFINE F == [i \in TaskIds |-> OpenLock(i, u)]
             F1 == [i \in TaskIds |-> OpenLock(i, u)']
  <2>1. /\ F \in [TaskIds -> Int] /\ stakes[u].lockedAmount \in Nat
    BY DEF LocksCounted
  <2>2. /\ F1 \in [TaskIds -> Int] /\ stakes'[u].lockedAmount \in Nat
    BY DEF LocksCounted
  <2>3. \A i \in TaskIds \ {id} : F[i] = F1[i]
    BY <1>2 DEF OpenLock
  <2>4. F[id] = OpenLock(id, u) /\ F1[id] = OpenLock(id, u)'
    OBVIOUS
  <2>5. stakes[u].lockedAmount <= SumFunction(F)
    BY DEF LocksGood, LocksAreReleased, OpenLock
  <2>6. stakes'[u].lockedAmount + F[id] <= stakes[u].lockedAmount + F1[id]
    BY <2>4
  <2> HIDE DEF F, F1
  <2>7. SumFunction(F1) = SumFunction(F) + F1[id] - F[id]
    BY <1>1, <2>1, <2>2, <2>3, SumChanged
  <2>8. SumFunction(F) \in Int /\ F[id] \in Int /\ F1[id] \in Int
    BY <1>1, <2>1, <2>2, SumTyped
  <2>9. stakes'[u].lockedAmount <= SumFunction(F1)
    BY <2>1, <2>2, <2>5, <2>6, <2>7, <2>8
  <2> QED BY <2>9 DEF F1
<1>4. \A i \in TaskIds, u \in Users : RecordsNone(i)' => evals'[i][u].lockedStake = 0
  BY <1>2 DEF LocksGood, RecordsNone
<1> QED
  BY <1>3, <1>4 DEF LocksGood

\* What a staker calls locks nothing.
LEMMA StakersLockNothing ==
  ASSUME StakesGood, StakerCall
  PROVE  \A u \in Users : stakes'[u].lockedAmount <= stakes[u].lockedAmount
<1>1. PICK v \in Users :
        \/ \E value \in Amounts :
             \/ stakeAsVerifier(v, value)
             \/ stakeAsAuditor(v, value)
             \/ addStake(v, value)
             \/ startUnbonding(v, value)
        \/ completeUnbonding(v)
  BY DEF StakerCall
<1>2. stakes \in [Users -> Stake] /\ \A u \in Users : stakes[u].lockedAmount \in Nat
  <2>1. \A s \in Stake : s.lockedAmount \in Nat
    BY DEF Stake
  <2> QED BY <2>1 DEF StakesGood
<1>3. ASSUME NEW value \in Amounts, stakeAsVerifier(v, value) \/ stakeAsAuditor(v, value)
      PROVE  \A u \in Users : stakes'[u].lockedAmount <= stakes[u].lockedAmount
  <2>1. PICK r : r.lockedAmount = 0 /\ stakes' = [stakes EXCEPT ![v] = r]
    BY <1>3 DEF stakeAsVerifier, stakeAsAuditor, StakeAs, NewStake
  <2> QED BY <1>2, <2>1
<1>4. ASSUME NEW value \in Amounts, addStake(v, value) \/ startUnbonding(v, value)
      PROVE  \A u \in Users : stakes'[u].lockedAmount <= stakes[u].lockedAmount
  <2>1. stakes[v] \in Stake
    BY <1>2
  <2>2. PICK r : r.lockedAmount = stakes[v].lockedAmount /\ stakes' = [stakes EXCEPT ![v] = r]
    <3>1. CASE addStake(v, value)
      <4> DEFINE r == [stakes[v] EXCEPT !.amount = @ + value]
      <4>1. stakes' = [stakes EXCEPT ![v] = r]
        BY <3>1 DEF addStake
      <4>2. r.lockedAmount = stakes[v].lockedAmount
        BY <2>1 DEF Stake
      <4> QED BY <4>1, <4>2
    <3>2. CASE startUnbonding(v, value)
      <4> DEFINE s == [stakes[v] EXCEPT !.amount = @ - value]
                 q == [s EXCEPT !.unbondingAmount = value]
                 r == [q EXCEPT !.unbondingTime = now + UNBONDING_PERIOD]
      <4>1. stakes' = [stakes EXCEPT ![v] = r]
        BY <1>2, <3>2 DEF startUnbonding, Stake
      <4>2. r.lockedAmount = stakes[v].lockedAmount
        BY <2>1 DEF Stake
      <4> QED BY <4>1, <4>2
    <3> QED BY <1>4, <3>1, <3>2
  <2> QED BY <1>2, <2>2
<1>5. CASE completeUnbonding(v)
  <2>1. stakes[v] \in Stake
    BY <1>2
  <2>2. PICK r : r.lockedAmount = stakes[v].lockedAmount /\ stakes' = [stakes EXCEPT ![v] = r]
    <3> DEFINE b == stakes[v].active /\ ~NothingLeft(stakes[v])
               s == [stakes[v] EXCEPT !.unbondingAmount = 0]
               q == [s EXCEPT !.unbondingTime = 0]
               r == [q EXCEPT !.active = b]
    <3>1. stakes' = [stakes EXCEPT ![v] = r]
      BY <1>2, <1>5 DEF completeUnbonding, Stake
    <3> HIDE DEF b
    <3>2. r.lockedAmount = stakes[v].lockedAmount
      BY <2>1 DEF Stake
    <3> QED BY <3>1, <3>2
  <2> QED BY <1>2, <2>2
<1> QED
  BY <1>1, <1>3, <1>4, <1>5

(***************************************************************************)
(* The locks: the records of tasks and the locks of commits                *)
(***************************************************************************)
\* A task that is created, closed, finalized or disputed keeps what it locked.
LEMMA RecordsKeepLocks ==
  ASSUME MarketInv, LocksCounted, LocksCounted', LocksGood, NEW id \in TaskIds,
         Create \/ openReveal(id) \/ finalize(id) \/ markDisputed(id)
  PROVE  LocksGood'
<1>1. tasks \in [TaskIds -> Task]
  BY Typed DEF MarketInv
<1>2. /\ stakes' = stakes /\ evals' = evals /\ config' = config
      /\ \E i \in TaskIds : \E n :
           /\ tasks' = [tasks EXCEPT ![i] = n]
           /\ tasks[i].state # "Resolved" /\ n.state # "Resolved"
  <2>1. CASE Create
    <3>1. PICK schedule \in Schedules, bounds \in EvalBounds, feePool \in FeePools :
            createTask(schedule, bounds, feePool)
      BY <2>1 DEF Create
    <3>2. PICK i \in TaskIds : i = nextTaskId
      BY <3>1 DEF createTask
    <3> DEFINE n == [NoTask EXCEPT !.state = "Open",
                                   !.commitDeadline = now + schedule[1],
                                   !.revealDeadline = now + schedule[1] + schedule[2],
                                   !.disputeDeadline =
                                      now + schedule[1] + schedule[2] + schedule[3],
                                   !.minEvals = bounds[1],
                                   !.maxEvals = bounds[2],
                                   !.feePool = feePool]
    <3>3. /\ tasks' = [tasks EXCEPT ![i] = n]
          /\ stakes' = stakes /\ evals' = evals /\ config' = config
      BY <3>1, <3>2 DEF createTask, stakingVars
    <3>4. n.state = "Open"
      BY DEF NoTask
    <3> HIDE DEF n
    <3>5. tasks[i].state = "None"
      BY <3>2, <1>1 DEF MarketInv, TasksGood, TaskIds
    <3>6. tasks[i].state # "Resolved" /\ n.state # "Resolved"
      BY <3>4, <3>5
    <3> QED BY <3>3, <3>6
  <2>2. CASE openReveal(id) \/ finalize(id) \/ markDisputed(id)
    <3> DEFINE t == tasks[id]
    <3>1. /\ stakes' = stakes /\ evals' = evals /\ config' = config
          /\ t.state # "Resolved"
      BY <2>2 DEF openReveal, finalize, markDisputed, stakingVars
    <3>2. t \in Task
      BY <1>1
    <3>3. \E n : tasks' = [tasks EXCEPT ![id] = n] /\ n.state # "Resolved"
      <4>1. CASE openReveal(id)
        <5> DEFINE n == [t EXCEPT !.state = "Reveal"]
        <5>1. tasks' = [tasks EXCEPT ![id] = n]
          BY <4>1 DEF openReveal
        <5>2. "Reveal" \in TaskStates
          BY DEF TaskStates
        <5>3. n.state = "Reveal"
          <6> HIDE DEF t
          <6> QED BY <3>2, <5>2, StateMoves
        <5> HIDE DEF n
        <5> QED BY <5>1, <5>3
      <4>2. CASE finalize(id)
        <5> DEFINE m == Median([u \in Users |-> evals[id][u].score], Revealers(id))
                   b == FinalEvidence(id, m)
                   p == tasks[id].feePool - ProtocolFee(id)
                   n == Finalized(t, m, b, p)
        <5>1. tasks' = [tasks EXCEPT ![id] = n]
          BY <4>2 DEF finalize, Finalized
        <5>2. n.state = "Provisional"
          <6> DEFINE B == 0..10
                     S == 0..10000
                     Q == Seq(Users)
                     F == Users \union {NoUser}
          <6>1. Task = TaskOf(B, S, Q, F)
            BY DEF Task, TaskOf
          <6> HIDE DEF B, S, Q, F, m, b, p, t
          <6> QED BY <3>2, <6>1 DEF TaskOf, Finalized
        <5> HIDE DEF n
        <5> QED BY <5>1, <5>2
      <4>3. CASE markDisputed(id)
        <5> DEFINE n == [t EXCEPT !.state = "Disputed", !.wasDisputed = TRUE]
        <5>1. tasks' = [tasks EXCEPT ![id] = n]
          BY <4>3 DEF markDisputed
        <5>2. n.state = "Disputed"
          <6> HIDE DEF t
          <6> QED BY <3>2, DisputedTask
        <5> HIDE DEF n
        <5> QED BY <5>1, <5>2
      <4> QED BY <2>2, <4>1, <4>2, <4>3
    <3> QED BY <3>1, <3>3
  <2> QED BY <2>1, <2>2
<1>3. \A i \in TaskIds : tasks'[i].state = "Resolved" <=> tasks[i].state = "Resolved"
  BY <1>1, <1>2
<1>4. \A u \in Users : stakes'[u].lockedAmount <= stakes[u].lockedAmount
  BY <1>2 DEF LocksCounted
<1>5. \A i \in TaskIds, u \in Users :
        /\ OpenLock(i, u)' = OpenLock(i, u)
        /\ evals'[i][u].lockedStake = evals[i][u].lockedStake
        /\ RecordsNone(i)' => RecordsNone(i)
  BY <1>2, <1>3 DEF OpenLock, RecordsNone
<1> QED
  BY <1>4, <1>5, LocksStay

\* revealEvaluation opens an evaluation with the stake it has locked.
LEMMA RevealKeepsLocks ==
  ASSUME MarketInv, LocksCounted, LocksCounted', LocksGood, NEW id \in TaskIds, Reveal(id)
  PROVE  LocksGood'
<1>1. PICK u \in Users, score \in Scores, evidence \in EvidenceChoices :
        revealEvaluation(id, u, score, evidence)
  BY DEF Reveal
<1> DEFINE e == evals[id]
           x == e[u]
           y == Opening(x, score, evidence)
           f == [e EXCEPT ![u] = y]
<1>2. evals \in [TaskIds -> [Users -> Evaluation]]
  BY Typed DEF MarketInv
<1>3. /\ evals' = [evals EXCEPT ![id] = f]
      /\ tasks' = tasks /\ stakes' = stakes /\ config' = config
  <2>1. evals' = [evals EXCEPT ![id][u] = y]
    BY <1>1 DEF revealEvaluation, Opening
  <2> HIDE DEF y
  <2>2. evals' = [evals EXCEPT ![id] = f]
    BY <2>1
  <2> QED BY <1>1, <2>2 DEF revealEvaluation, stakingVars
<1>4. y.lockedStake = x.lockedStake
  <2>1. x \in Evaluation
    BY <1>2
  <2> HIDE DEF x
  <2> QED BY <2>1, OpenedEvaluation
<1> HIDE DEF y
<1>5. \A v \in Users : f[v].lockedStake = e[v].lockedStake
  BY <1>2, <1>4
<1> HIDE DEF f
<1>6. \A i \in TaskIds, v \in Users : evals'[i][v].lockedStake = evals[i][v].lockedStake
  BY <1>2, <1>3, <1>5
<1>7. \A v \in Users : stakes'[v].lockedAmount <= stakes[v].lockedAmount
  BY <1>3 DEF LocksCounted
<1>8. \A i \in TaskIds, v \in Users :
        OpenLock(i, v)' = OpenLock(i, v) /\ (RecordsNone(i)' => RecordsNone(i))
  BY <1>3, <1>6 DEF OpenLock, RecordsNone
<1> QED
  BY <1>6, <1>7, <1>8, LocksStay

\* What a commit locks is what lockStake locked for it, and nothing for anyone else.
LEMMA LockRaises ==
  ASSUME StakesGood, NEW u \in Users, StakeToLock \in Nat, LockStakeFor(u)
  PROVE  /\ stakes'[u].lockedAmount = stakes[u].lockedAmount + StakeToLock
         /\ \A v \in Users \ {u} : stakes'[v] = stakes[v]
<1>1. stakes \in [Users -> Stake]
  BY DEF StakesGood
<1>2. stakes[u].lockedAmount \in Nat
  <2>1. stakes[u] \in Stake
    BY <1>1
  <2> QED BY <2>1 DEF Stake
<1>3. CASE StakeToLock > 0
  <2> DEFINE n == Locked(stakes[u], StakeToLock)
  <2>1. stakes' = [stakes EXCEPT ![u] = n]
    BY <1>3 DEF LockStakeFor, lockStake
  <2>2. n.lockedAmount = stakes[u].lockedAmount + StakeToLock
    <3>1. stakes[u] \in Stake
      BY <1>1
    <3> QED BY <3>1 DEF Locked, Stake
  <2> HIDE DEF n
  <2> QED BY <1>1, <2>1, <2>2
<1>4. CASE ~(StakeToLock > 0)
  <2>1. stakes' = stakes
    BY <1>4 DEF LockStakeFor, stakingVars
  <2>2. StakeToLock = 0
    BY <1>4
  <2> QED BY <1>2, <2>1, <2>2
<1> QED
  BY <1>3, <1>4

(***************************************************************************)
(* The locks: commitEvaluation and _settleTask                             *)
(***************************************************************************)
\* commitEvaluation records the stake it locks for the task it is about.
LEMMA CommitKeepsLocks ==
  ASSUME MarketInv, LocksCounted, LocksCounted', LocksGood, NEW id \in TaskIds, Commit(id)
  PROVE  LocksGood'
<1>0. PICK u \in Users : \E hash \in Hashes(id, u) : commitEvaluation(id, u, hash)
  BY DEF Commit
<1>1. PICK hash \in Hashes(id, u) : commitEvaluation(id, u, hash)
  BY <1>0
<1> DEFINE t == tasks[id]
           e == evals[id]
           n == WithEvaluator(t, u)
           k == StakeToLock
           x == Committed(e[u], hash, k)
           f == [e EXCEPT ![u] = x]
<1>2. /\ tasks \in [TaskIds -> Task] /\ evals \in [TaskIds -> [Users -> Evaluation]]
      /\ t \in Task /\ e \in [Users -> Evaluation]
      /\ posted \in [TaskIds -> Nat] /\ RestTyped
      /\ SoundTask(id, t, e, posted[id])
  BY Typed DEF MarketInv
<1>3. /\ t.state = "Open" /\ ~e[u].committed
      /\ evals' = [evals EXCEPT ![id] = f]
      /\ posted' = [posted EXCEPT ![id] = @ + config.evalBond]
      /\ config' = config /\ now' = now
  <2>1. evals' = [evals EXCEPT ![id][u] = x]
    BY <1>1 DEF commitEvaluation, Committed
  <2> HIDE DEF x
  <2>2. evals' = [evals EXCEPT ![id] = f]
    BY <2>1
  <2> QED BY <1>1, <2>2 DEF commitEvaluation, AcceptsCommits
<1>4. tasks' = [tasks EXCEPT ![id] = n]
  <2> DEFINE all == Append(t.evaluators, u)
             st == IF Len(all) = t.maxEvals THEN "Reveal" ELSE t.state
  <2>1. tasks' = [tasks EXCEPT ![id].evaluators = all, ![id].state = st]
    BY <1>1 DEF commitEvaluation
  <2>2. n = [t EXCEPT !.evaluators = all, !.state = st]
    BY DEF WithEvaluator
  <2> HIDE DEF all, st, n
  <2> QED BY <1>2, <2>1, <2>2
<1>5. n.state # "Resolved"
  <2>1. n.state \in {"Reveal", t.state}
    <3> HIDE DEF t
    <3> QED BY <1>2, EvaluatorAdded
  <2> QED BY <1>3, <2>1
<1>6. x.lockedStake = k
  <2>1. e[u] = NoEvaluation
    BY <1>2, <1>3 DEF SoundTask, SoundEvaluation
  <2> HIDE DEF k
  <2> QED BY <2>1 DEF Committed, NoEvaluation
<1>7. e[u].lockedStake = 0
  <2>1. e[u] = NoEvaluation
    BY <1>2, <1>3 DEF SoundTask, SoundEvaluation
  <2> QED BY <2>1, EmptyRecords
<1>8. LockStakeFor(u)
  BY <1>1 DEF commitEvaluation
<1>9. k \in Nat
  BY <1>2, <1>3, <1>8, LockKeepsStakes DEF MarketInv
<1>10. /\ stakes'[u].lockedAmount = stakes[u].lockedAmount + k
       /\ \A v \in Users \ {u} : stakes'[v] = stakes[v]
  BY <1>8, <1>9, LockRaises DEF MarketInv
<1>11. ~config.staking.on => k = 0
  BY DEF StakeToLock
<1> HIDE DEF n, x, k
<1>12. f[u] = x /\ \A v \in Users \ {u} : f[v] = e[v]
  BY <1>2
<1> HIDE DEF f
<1>13. ChangesOnly(id) /\ tasks'[id] = n /\ evals'[id] = f
  BY <1>2, <1>3, <1>4 DEF ChangesOnly
<1>14. ASSUME NEW v \in Users
       PROVE  /\ stakes'[v].lockedAmount + OpenLock(id, v)
                   <= stakes[v].lockedAmount + OpenLock(id, v)'
              /\ RecordsNone(id)' => evals'[id][v].lockedStake = 0
  <2>1. /\ OpenLock(id, v) = e[v].lockedStake
        /\ OpenLock(id, v)' = f[v].lockedStake
    BY <1>3, <1>5, <1>13 DEF OpenLock
  <2>2. stakes[v].lockedAmount \in Nat /\ OpenLock(id, v) \in Int
    BY DEF LocksCounted
  <2>5. RecordsNone(id)' => ~config.staking.on
    BY <1>3, <1>5, <1>13 DEF RecordsNone
  <2>3. CASE v = u
    BY <1>6, <1>7, <1>9, <1>10, <1>11, <1>12, <1>13, <2>1, <2>2, <2>3, <2>5
  <2>4. CASE v # u
    <3>1. f[v] = e[v] /\ stakes'[v] = stakes[v]
      BY <1>10, <1>12, <2>4
    <3>2. ~config.staking.on => e[v].lockedStake = 0
      BY DEF LocksGood, RecordsNone
    <3> QED BY <1>13, <2>1, <2>2, <2>5, <3>1, <3>2
  <2> QED BY <2>3, <2>4
<1>15. config'.staking = config.staking
  BY <1>3
<1> QED
  BY <1>13, <1>14, <1>15, OneLockMoves

\* _settleTask frees at least what the task had locked.  What it does not look at, because
\* no staking manager is set, was never locked.
LEMMA SettleKeepsLocks ==
  ASSUME MarketInv, LocksCounted, LocksCounted', LocksGood, NEW id \in TaskIds,
         NEW final, NEW bundle, NEW disputed, Settle(id, final, bundle, disputed),
         tasks[id].state \in {"Provisional", "Disputed"}
  PROVE  LocksGood'
<1> DEFINE t == tasks[id]
           e == evals[id]
           p == t.rewardsPaid \/ config.rewardsOn
           n == SettledTask(t, final, bundle, p)
           f == [u \in Users |->
                   IF u \in Holding(id) THEN [e[u] EXCEPT !.lockedStake = 0] ELSE e[u]]
<1>1. /\ tasks \in [TaskIds -> Task] /\ evals \in [TaskIds -> [Users -> Evaluation]]
      /\ posted \in [TaskIds -> Nat]
      /\ SoundTask(id, t, e, posted[id])
  BY Typed DEF MarketInv
<1>2. t \in Task
  BY <1>1
<1>3. posted' = posted /\ config' = config /\ now' = now
  BY DEF Settle
<1>4. evals' = [evals EXCEPT ![id] = f]
  BY DEF Settle, SettleStakes, Holding
<1>5. tasks' = [tasks EXCEPT ![id] = n]
  BY DEF Settle, SettledTask
<1>6. n.state = "Resolved"
  <2> DEFINE B == 0..10
             S == 0..10000
             Q == Seq(Users)
             F == Users \union {NoUser}
  <2>1. Task = TaskOf(B, S, Q, F)
    BY DEF Task, TaskOf
  <2> HIDE DEF B, S, Q, F, p, t
  <2> QED BY <1>2, <2>1 DEF TaskOf, SettledTask
<1> HIDE DEF n
<1>7. \A u \in Users :
        IF u \in Holding(id)
        THEN stakes'[u].lockedAmount + e[u].lockedStake <= stakes[u].lockedAmount
        ELSE stakes'[u] = stakes[u]
  <2>1. SettleStakes(id, final, disputed)
    BY DEF Settle
  <2> QED BY <1>1, <1>3, <2>1, SettleKeepsStakes DEF MarketInv
<1>8. ASSUME NEW u \in Users, u \in Holding(id) PROVE f[u].lockedStake = 0
  <2> DEFINE x == e[u]
             y == [x EXCEPT !.lockedStake = 0]
  <2>1. x \in Evaluation
    BY <1>1
  <2>2. y.lockedStake = 0
    <3> HIDE DEF x
    <3> QED BY <2>1, ReleasedEvaluation
  <2>3. f[u] = y
    BY <1>8
  <2> QED BY <2>2, <2>3
<1>9. ASSUME NEW u \in Users, u \notin Holding(id)
      PROVE  f[u] = e[u] /\ e[u].lockedStake = 0
  <2>1. f[u] = e[u]
    BY <1>9
  <2>2. e[u] \in Evaluation /\ e[u].lockedStake \in Nat
    BY <1>1, EvaluationFields
  <2>3. ~config.staking.on => e[u].lockedStake = 0
    BY DEF LocksGood, RecordsNone
  <2>4. CASE u \in Evaluators(id)
    <3>1. ~(e[u].lockedStake > 0)
      BY <1>9, <2>3, <2>2, <2>4 DEF Holding, HoldsLock
    <3> QED BY <2>1, <2>2, <3>1
  <2>5. CASE u \notin Evaluators(id)
    <3>1. ~e[u].committed
      BY <1>1, <2>5 DEF SoundTask, ListsCommitted, Evaluators
    <3>2. e[u] = NoEvaluation
      BY <1>1, <3>1 DEF SoundTask, SoundEvaluation
    <3> QED BY <2>1, <3>2, EmptyRecords
  <2> QED BY <2>4, <2>5
<1> HIDE DEF f
<1>10. /\ tasks'[id] = n /\ evals'[id] = f
       /\ ChangesOnly(id)
  <2>1. posted' = [i \in TaskIds |-> posted'[i]] /\ \A i \in TaskIds : posted'[i] = posted[i]
    BY <1>1, <1>3
  <2>2. /\ tasks' = [i \in TaskIds |-> tasks'[i]] /\ tasks'[id] = n
        /\ \A i \in TaskIds \ {id} : tasks'[i] = tasks[i]
    BY <1>1, <1>5
  <2>3. /\ evals' = [i \in TaskIds |-> evals'[i]] /\ evals'[id] = f
        /\ \A i \in TaskIds \ {id} : evals'[i] = evals[i]
    BY <1>1, <1>4
  <2> QED BY <2>1, <2>2, <2>3 DEF ChangesOnly
<1>11. ASSUME NEW u \in Users
       PROVE  /\ stakes'[u].lockedAmount + OpenLock(id, u)
                   <= stakes[u].lockedAmount + OpenLock(id, u)'
              /\ evals'[id][u].lockedStake = 0
  <2>1. OpenLock(id, u) = e[u].lockedStake /\ OpenLock(id, u)' = 0
    BY <1>6, <1>10 DEF OpenLock
  <2>2. /\ stakes[u].lockedAmount \in Nat /\ OpenLock(id, u) \in Int
    BY DEF LocksCounted
  <2>3. stakes'[u].lockedAmount \in Nat
    BY DEF LocksCounted
  <2>4. CASE u \in Holding(id)
    <3>1. stakes'[u].lockedAmount + e[u].lockedStake <= stakes[u].lockedAmount
      BY <1>7, <2>4
    <3> QED BY <1>8, <1>10, <2>1, <2>2, <2>3, <2>4, <3>1
  <2>5. CASE u \notin Holding(id)
    <3>1. stakes'[u] = stakes[u]
      BY <1>7, <2>5
    <3> QED BY <1>9, <1>10, <2>1, <2>2, <2>5, <3>1
  <2> QED BY <2>4, <2>5
<1>12. config'.staking = config.staking
  BY <1>3
<1> QED
  BY <1>10, <1>11, <1>12, OneLockMoves

(***************************************************************************)
(* The locks: the theorem                                                  *)
(***************************************************************************)
\* A task that was not created records nothing.
LEMMA UnusedLocksNothing ==
  ASSUME MarketInv, NEW id \in TaskIds, NEW u \in Users, tasks[id].state = "None"
  PROVE  evals[id][u].lockedStake = 0
<1>1. SoundTask(id, tasks[id], evals[id], posted[id])
  BY DEF MarketInv, TasksGood
<1>2. tasks[id] = NoTask
  BY <1>1 DEF SoundTask, InPhase
<1>3. ~evals[id][u].committed
  BY <1>1, <1>2, EmptyRecords DEF SoundTask, ListsCommitted
<1>4. evals[id][u] = NoEvaluation
  BY <1>1, <1>3 DEF SoundTask, SoundEvaluation
<1> QED
  BY <1>4, EmptyRecords

\* Every step keeps the locks, as long as none is unset while tasks run.
LEMMA StepsKeepLocks ==
  ASSUME MarketInv, LocksCounted, LocksCounted', LocksGood, [MarketNext]_allVars, StakingStays
  PROVE  LocksGood'
<1>1. ASSUME NEW id \in TaskIds, finalizeUndisputed(id)
      PROVE  LocksGood'
  <2> DEFINE d == FALSE
             s == tasks[id].finalScore
             b == tasks[id].finalBundle
  <2>1. Settle(id, s, b, d) /\ tasks[id].state \in {"Provisional", "Disputed"}
    BY <1>1 DEF finalizeUndisputed
  <2> HIDE DEF d, s, b
  <2> QED BY <2>1, SettleKeepsLocks
<1>2. ASSUME NEW id \in TaskIds, Resolve(id)
      PROVE  LocksGood'
  <2>1. PICK s \in Scores : markResolved(id, s)
    BY <1>2 DEF Resolve
  <2> DEFINE d == TRUE
             b == FinalEvidence(id, s)
  <2>2. Settle(id, s, b, d) /\ tasks[id].state \in {"Provisional", "Disputed"}
    BY <2>1 DEF markResolved
  <2> HIDE DEF d, b
  <2> QED BY <2>2, SettleKeepsLocks
<1>3. CASE Create
  <2>1. \E i \in TaskIds : TRUE
    BY <1>3 DEF Create, createTask
  <2> QED BY <1>3, <2>1, RecordsKeepLocks
<1>4. ASSUME NEW id \in TaskIds,
             \/ Commit(id)
             \/ openReveal(id)
             \/ Reveal(id)
             \/ finalize(id)
             \/ finalizeUndisputed(id)
             \/ markDisputed(id)
             \/ Resolve(id)
      PROVE  LocksGood'
  BY <1>1, <1>2, <1>4, CommitKeepsLocks, RevealKeepsLocks, RecordsKeepLocks
<1>5. ASSUME UNCHANGED <<tasks, evals>>,
             \A u \in Users : stakes'[u].lockedAmount <= stakes[u].lockedAmount
      PROVE  LocksGood'
  <2>1. \A id \in TaskIds, u \in Users :
          /\ OpenLock(id, u)' = OpenLock(id, u)
          /\ evals'[id][u].lockedStake = evals[id][u].lockedStake
    BY <1>5 DEF OpenLock
  <2>2. ASSUME NEW id \in TaskIds, NEW u \in Users, RecordsNone(id)'
        PROVE  RecordsNone(id) \/ evals[id][u].lockedStake = 0
    <3>1. RecordsNone(id) \/ tasks[id].state = "None"
      BY <1>5, <2>2 DEF RecordsNone, StakingStays
    <3> QED BY <3>1, UnusedLocksNothing
  <2> QED BY <1>5, <2>1, <2>2, LocksStay
<1>6. ASSUME UNCHANGED <<tasks, evals, stakes>>
      PROVE  LocksGood'
  <2>1. \A u \in Users : stakes'[u].lockedAmount <= stakes[u].lockedAmount
    BY <1>6 DEF LocksCounted
  <2> QED BY <1>5, <1>6, <2>1
<1>7. CASE Setters
  <2>1. UNCHANGED <<tasks, evals, stakes>>
    BY <1>7 DEF Setters, setBonds, setProtocolFeeBps, setNonRevealSlashBps,
                setRewardsDistributor, setStakingManager, OwnerSets, marketVars, stakingVars
  <2> QED BY <1>6, <2>1
<1>8. CASE StakerCall /\ UNCHANGED <<marketVars, rewardVars>>
  <2>1. UNCHANGED <<tasks, evals>>
    BY <1>8 DEF marketVars
  <2>2. \A u \in Users : stakes'[u].lockedAmount <= stakes[u].lockedAmount
    BY <1>8, StakersLockNothing DEF MarketInv
  <2> QED BY <1>5, <2>1, <2>2
<1>9. CASE Tick /\ UNCHANGED <<marketVars, rewardVars>>
  <2>1. UNCHANGED <<tasks, evals, stakes>>
    BY <1>9 DEF marketVars, Tick, stakingVars
  <2> QED BY <1>6, <2>1
<1>10. CASE UNCHANGED allVars
  <2>1. UNCHANGED <<tasks, evals, stakes>>
    BY <1>10 DEF allVars, marketVars, vars, stakingVars
  <2> QED BY <1>6, <2>1
<1> QED
  BY <1>3, <1>4, <1>7, <1>8, <1>9, <1>10 DEF MarketNext, MarketCall

\* At deployment nothing is locked.
LEMMA InitLocks == MarketInit => LocksGood
<1> SUFFICES ASSUME MarketInit PROVE LocksGood
  OBVIOUS
<1>1. /\ \A id \in TaskIds, u \in Users :
           evals[id][u].lockedStake = 0 /\ OpenLock(id, u) = 0
      /\ \A u \in Users : stakes[u].lockedAmount = 0
  BY EmptyRecords DEF MarketInit, OpenLock, StakingInit, NoStake
<1>2. ASSUME NEW u \in Users
      PROVE  stakes[u].lockedAmount <= SumFunction([id \in TaskIds |-> OpenLock(id, u)])
  <2> DEFINE F == [id \in TaskIds |-> OpenLock(id, u)]
  <2>1. F \in [TaskIds -> Int] /\ \A id \in TaskIds : F[id] = 0
    BY <1>1
  <2> HIDE DEF F
  <2>2. SumFunction(F) = 0
    BY <2>1, TaskIdsAreFinite, SumZero
  <2>3. stakes[u].lockedAmount <= SumFunction(F)
    BY <1>1, <2>2
  <2> QED BY <2>3 DEF F
<1> QED
  BY <1>1, <1>2 DEF LocksGood, LocksAreReleased, OpenLock

\* Stake that an evaluation locked is free again when its task is settled, slashed or not:
\* what an account has locked is never more than the tasks not yet resolved recorded.  The
\* marketplace looks at the locks only while a staking manager is set, so it presumes that
\* the owner unsets it (setStakingManager) only while no task runs.
THEOREM LocksStayReleased ==
  MarketSpec /\ [][StakingStays]_config => []LocksAreReleased
<1>1. MarketInv /\ LocksCounted /\ LocksCounted' /\ LocksGood /\ [MarketNext]_allVars
        /\ [StakingStays]_config => LocksGood'
  <2> SUFFICES ASSUME MarketInv, LocksCounted, LocksCounted', LocksGood, [MarketNext]_allVars,
                      [StakingStays]_config
               PROVE  LocksGood'
    OBVIOUS
  <2>1. StakingStays
    BY DEF StakingStays
  <2> QED BY <2>1, StepsKeepLocks
<1>2. LocksGood => LocksAreReleased
  BY DEF LocksGood
<1>3. MarketSpec => []LocksCounted
  BY MarketInvAlways, LocksTyped, PTL
<1> QED
  BY <1>1, <1>2, <1>3, InitLocks, MarketInvAlways, PTL DEF MarketSpec
================================================================================
