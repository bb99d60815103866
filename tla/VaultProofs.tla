----------------------------- MODULE VaultProofs -----------------------------
(***************************************************************************)
(* Proofs about the two contracts that keep money in per-job accounts.     *)
(*                                                                         *)
(* BondVaultWETH, for any users, tasks and amounts: whatever the rounding  *)
(* of slashes, the bond of a user covers its locked bond.                  *)
(*                                                                         *)
(* JobBoardEscrow, for any jobs, budgets, weights and requests: the purse  *)
(* of a currency holds what its open jobs have not paid, and an agent is   *)
(* paid what passed.  finalize never compares totalReleased with the       *)
(* budget: that the shares of the released milestones stay within it       *)
(* follows from the weights addMilestones checked, as sums rounded down.   *)
(***************************************************************************)
EXTENDS BondVaultWETH, JobBoardEscrow, SumTheorems, TLAPS

-----------------------------------------------------------------------------
(* BondVaultWETH.                                                          *)
-----------------------------------------------------------------------------
\* Bonds and locks are amounts of WETH.
BondsTyped ==
  /\ totalBondOf \in [Holders -> Nat]
  /\ totalLockedOf \in [Holders -> Nat]

\* The part of the state that slashBond and its rounding concern.
BondInv == BondsTyped /\ TotalCoversLocked

-----------------------------------------------------------------------------
(* The arithmetic of a slash.                                              *)

\* slashBond (BondVaultWETH.sol:252-266) takes no more than the bond, and what it leaves of
\* the bond covers what it leaves locked.
LEMMA SlashKeepsCover ==
  ASSUME NEW a \in Nat \ {0}, NEW l \in 0..a, NEW amount \in Nat
  PROVE  LET s == BondTaken(a, amount)
             r == LockedReduction(l, s, a)
         IN  s \in 0..a /\ r \in 0..l /\ l - r <= a - s
<1> DEFINE s == BondTaken(a, amount)
<1>1. s \in 0..a
  BY DEF BondTaken
<1> HIDE DEF s
<1>2. (l * s) \div a \in 0..l /\ l - (l * s) \div a <= a - s
  BY <1>1, ShareLeavesCover
<1>3. LockedReduction(l, s, a) = (l * s) \div a
  BY <1>2 DEF LockedReduction
<1> QED
  BY <1>1, <1>2, <1>3 DEF s

-----------------------------------------------------------------------------
(* The inductive invariant.                                                *)

\* Nothing is bonded and nothing locked at deployment.
LEMMA InitCovered == VaultInit => BondInv
BY DEF VaultInit, BondInv, BondsTyped, TotalCoversLocked

\* Every call keeps the locks covered.
LEMMA NextCovered == BondInv /\ [VaultNext]_vaultVars => BondInv'
<1> SUFFICES ASSUME BondInv, [VaultNext]_vaultVars
             PROVE  BondInv'
  OBVIOUS
<1> USE VaultConstants DEF BondInv, BondsTyped, TotalCoversLocked
<1>1. ASSUME NEW u \in Holders, NEW amount \in BondAmounts, deposit(u, amount)
      PROVE  BondInv'
  BY <1>1 DEF deposit
<1>2. ASSUME NEW u \in Holders, NEW amount \in BondAmounts, withdraw(u, amount)
      PROVE  BondInv'
  BY <1>2 DEF withdraw, freeBondOf
<1>3. ASSUME NEW u \in Holders, NEW amount \in BondAmounts, NEW t \in Tasks, lockBond(t, u, amount)
      PROVE  BondInv'
  BY <1>3 DEF lockBond, freeBondOf
<1>4. ASSUME NEW u \in Holders, NEW amount \in BondAmounts, NEW t \in Tasks, unlockBond(t, u, amount)
      PROVE  BondInv'
  BY <1>4 DEF unlockBond
<1>5. ASSUME NEW u \in Holders, NEW amount \in BondAmounts, NEW to \in Holders,
             slashBond(u, amount, to)
      PROVE  BondInv'
  <2> DEFINE a == totalBondOf[u]
             l == totalLockedOf[u]
             s == BondTaken(a, amount)
             r == LockedReduction(l, s, a)
  <2>1. a \in Nat \ {0} /\ l \in 0..a
    BY <1>5 DEF slashBond
  <2>2. s \in 0..a /\ r \in 0..l /\ l - r <= a - s
    BY <2>1, SlashKeepsCover
  <2>3. /\ totalBondOf' = [totalBondOf EXCEPT ![u] = a - s]
        /\ totalLockedOf' = [totalLockedOf EXCEPT ![u] = l - r]
    BY <1>5 DEF slashBond
  <2> HIDE DEF s, r
  <2> QED
    BY <2>1, <2>2, <2>3
<1>6. ASSUME NEW u \in Holders, NEW amount \in BondAmounts, payReward(u, amount)
      PROVE  BondInv'
  BY <1>6 DEF payReward
<1>7. ASSUME NEW amount \in BondAmounts, fundVault(amount)
      PROVE  BondInv'
  BY <1>7 DEF fundVault
<1>8. CASE pause \/ unpause
  BY <1>8 DEF pause, unpause, SetPaused
<1>9. CASE UNCHANGED vaultVars
  BY <1>9 DEF vaultVars
<1> QED
  BY <1>1, <1>2, <1>3, <1>4, <1>5, <1>6, <1>7, <1>8, <1>9 DEF VaultNext

\* totalBondOf >= totalLockedOf (the invariant named in BondVaultWETH.test.ts:426)
\* holds for every sequence of deposits, locks, slashes and withdrawals: neither
\* freeBondOf nor getUserBondSummary can underflow.
THEOREM BondsCoverLocks == VaultSpec => []TotalCoversLocked
<1>1. BondInv => TotalCoversLocked
  BY DEF BondInv
<1> QED
  BY InitCovered, NextCovered, <1>1, PTL DEF VaultSpec

-----------------------------------------------------------------------------
(* The books of the vault, as sums over users and over tasks.              *)

\* What the vault's hand-kept totals say, together.
Books == VaultTypeOK /\ VaultExact /\ LocksAddUp

\* The locks of one user, by task.
LocksOf(locks, u) == [t \in Tasks |-> locks[t][u]]

\* A transaction that changes the bond of one user moves the sum of the bonds by as much.
LEMMA BondsMove ==
  ASSUME totalBondOf \in [Holders -> Nat], totalBondOf' \in [Holders -> Nat],
         NEW u \in Holders, \A v \in Holders \ {u} : totalBondOf'[v] = totalBondOf[v]
  PROVE  SumFunction(totalBondOf') = SumFunction(totalBondOf) + totalBondOf'[u] - totalBondOf[u]
<1>1. totalBondOf \in [Holders -> Int] /\ totalBondOf' \in [Holders -> Int]
  OBVIOUS
<1> QED
  BY <1>1, VaultConstants, SumChanged

\* What the vault holds moves with the bond of one user and the reserve.
LEMMA VaultMoves ==
  ASSUME Books, totalBondOf' \in [Holders -> Nat], reserve' \in Int,
         NEW u \in Holders, \A v \in Holders \ {u} : totalBondOf'[v] = totalBondOf[v],
         vaultWeth' = vaultWeth + (totalBondOf'[u] - totalBondOf[u]) + (reserve' - reserve)
  PROVE  VaultExact'
<1> DEFINE a == SumFunction(totalBondOf)
           b == SumFunction(totalBondOf')
<1>1. totalBondOf \in [Holders -> Nat] /\ reserve \in Int
  BY DEF Books, VaultTypeOK
<1>2. totalBondOf[u] \in Nat /\ totalBondOf'[u] \in Nat
  BY <1>1
<1>3. b = a + totalBondOf'[u] - totalBondOf[u]
  BY <1>1, BondsMove
<1>4. a \in Nat
  BY <1>1, VaultConstants, SumBounds
<1>5. vaultWeth = a + reserve
  BY DEF Books, VaultExact
<1> HIDE DEF a, b
<1>6. vaultWeth' = b + reserve'
  BY <1>1, <1>2, <1>3, <1>4, <1>5
<1> QED
  BY <1>6 DEF VaultExact, b

\* A lock of one task added to, or taken from, both records of user u.
LEMMA LocksMove ==
  ASSUME Books, slashedUsers' = slashedUsers, NEW t \in Tasks, NEW u \in Holders, NEW n \in Nat,
         lockedBondOf' = [lockedBondOf EXCEPT ![t][u] = n],
         totalLockedOf'[u] = totalLockedOf[u] + n - lockedBondOf[t][u],
         \A v \in Holders \ {u} : totalLockedOf'[v] = totalLockedOf[v]
  PROVE  LocksAddUp'
<1>1. /\ lockedBondOf \in [Tasks -> [Holders -> Nat]]
      /\ totalLockedOf \in [Holders -> Nat]
  BY DEF Books, VaultTypeOK
<1>2. SUFFICES ASSUME NEW v \in Holders \ slashedUsers
               PROVE  totalLockedOf'[v] = SumFunction(LocksOf(lockedBondOf', v))
  BY DEF LocksAddUp, LockedForTasks, LocksOf
<1>3. totalLockedOf[v] = SumFunction(LocksOf(lockedBondOf, v))
  BY DEF Books, LocksAddUp, LockedForTasks, LocksOf
<1>4. CASE v # u
  <2>1. LocksOf(lockedBondOf', v) = LocksOf(lockedBondOf, v)
    BY <1>1, <1>4 DEF LocksOf
  <2>2. totalLockedOf'[v] = totalLockedOf[v]
    BY <1>1, <1>4
  <2> QED BY <1>3, <2>1, <2>2
<1>5. CASE v = u
  <2> DEFINE f == LocksOf(lockedBondOf, u)
             h == LocksOf(lockedBondOf', u)
  <2>1. /\ f \in [Tasks -> Int] /\ h \in [Tasks -> Int]
        /\ f[t] = lockedBondOf[t][u] /\ h[t] = n
        /\ \A x \in Tasks \ {t} : f[x] = h[x]
    BY <1>1 DEF LocksOf
  <2> HIDE DEF f, h
  <2>2. SumFunction(h) = SumFunction(f) + h[t] - f[t]
    BY <2>1, VaultConstants, SumChanged
  <2>3. totalLockedOf[u] = SumFunction(f) /\ SumFunction(f) \in Int
    BY <1>3, <1>5, <2>1, VaultConstants, SumTyped DEF f
  <2>4. totalLockedOf'[u] = SumFunction(h)
    BY <2>1, <2>2, <2>3
  <2> QED BY <1>5, <2>4 DEF h
<1> QED
  BY <1>4, <1>5

\* A transaction that leaves the locks alone leaves their sums alone.
LEMMA LocksStay ==
  ASSUME Books, UNCHANGED <<lockedBondOf, totalLockedOf, slashedUsers>>
  PROVE  LocksAddUp'
BY DEF Books, LocksAddUp, LockedForTasks

\* The books agree at deployment, when every sum is a sum of zeros.
LEMMA InitBooks == VaultInit => Books
<1> SUFFICES ASSUME VaultInit PROVE Books
  OBVIOUS
<1> USE VaultConstants
<1>1. VaultTypeOK
  <2>1. HolderWeth \in Nat /\ InitialFunds \in Nat
    OBVIOUS
  <2>2. lockedBondOf \in [Tasks -> [Holders -> Nat]]
    BY DEF VaultInit
  <2>3. userWeth \in [Holders -> Nat] /\ totalBondOf \in [Holders -> Nat]
          /\ totalLockedOf \in [Holders -> Nat]
    BY <2>1 DEF VaultInit
  <2>4. vaultWeth \in Nat /\ funds \in Nat /\ reserve \in Int
    BY <2>1 DEF VaultInit
  <2>5. paused \in BOOLEAN /\ slashedUsers \subseteq Holders
    BY DEF VaultInit
  <2> QED BY <2>2, <2>3, <2>4, <2>5 DEF VaultTypeOK
<1>2. VaultExact
  <2>1. SumFunction(totalBondOf) = 0
    BY SumZero DEF VaultInit
  <2> QED BY <2>1 DEF VaultExact, VaultInit
<1>3. LocksAddUp
  <2> SUFFICES ASSUME NEW u \in Holders
               PROVE  totalLockedOf[u] = SumFunction(LocksOf(lockedBondOf, u))
    BY DEF LocksAddUp, LockedForTasks, LocksOf
  <2>1. /\ LocksOf(lockedBondOf, u) \in [Tasks -> Int]
        /\ \A t \in Tasks : LocksOf(lockedBondOf, u)[t] = 0
    BY DEF VaultInit, LocksOf
  <2> QED BY <2>1, SumZero DEF VaultInit
<1> QED
  BY <1>1, <1>2, <1>3 DEF Books

\* Every call keeps the books: its three parts, one action at a time.
LEMMA NextKeepsBooks == BondInv /\ Books /\ [VaultNext]_vaultVars => Books'
<1> SUFFICES ASSUME BondInv, Books, [VaultNext]_vaultVars
             PROVE  Books'
  OBVIOUS
<1> USE VaultConstants
<1>1. /\ totalBondOf \in [Holders -> Nat]
      /\ totalLockedOf \in [Holders -> Nat]
      /\ lockedBondOf \in [Tasks -> [Holders -> Nat]]
      /\ vaultWeth \in Nat /\ paused \in BOOLEAN
      /\ userWeth \in [Holders -> Nat] /\ funds \in Nat
      /\ reserve \in Int /\ slashedUsers \subseteq Holders
      /\ BondAmounts \subseteq Nat
  BY DEF Books, VaultTypeOK
<1>2. totalBondOf' \in [Holders -> Nat] /\ totalLockedOf' \in [Holders -> Nat]
  BY NextCovered DEF BondInv, BondsTyped
<1>3. ASSUME NEW u \in Holders, NEW amount \in BondAmounts, deposit(u, amount)
      PROVE  Books'
  <2>1. VaultTypeOK'
    BY <1>1, <1>2, <1>3 DEF deposit, VaultTypeOK
  <2>2. VaultExact'
    BY <1>1, <1>2, <1>3, VaultMoves DEF deposit
  <2> QED BY <1>3, <2>1, <2>2, LocksStay DEF deposit, Books
<1>4. ASSUME NEW u \in Holders, NEW amount \in BondAmounts, withdraw(u, amount)
      PROVE  Books'
  <2>1. VaultTypeOK'
    BY <1>1, <1>2, <1>4 DEF withdraw, VaultTypeOK
  <2>2. VaultExact'
    BY <1>1, <1>2, <1>4, VaultMoves DEF withdraw
  <2> QED BY <1>4, <2>1, <2>2, LocksStay DEF withdraw, Books
<1>5. ASSUME NEW u \in Holders, NEW amount \in BondAmounts, NEW t \in Tasks, lockBond(t, u, amount)
      PROVE  Books'
  <2>1. VaultTypeOK'
    BY <1>1, <1>2, <1>5 DEF lockBond, VaultTypeOK
  <2>2. VaultExact'
    BY <1>5 DEF lockBond, Books, VaultExact
  <2> DEFINE n == lockedBondOf[t][u] + amount
  <2>3. /\ n \in Nat /\ slashedUsers' = slashedUsers
        /\ lockedBondOf' = [lockedBondOf EXCEPT ![t][u] = n]
        /\ totalLockedOf'[u] = totalLockedOf[u] + n - lockedBondOf[t][u]
        /\ \A v \in Holders \ {u} : totalLockedOf'[v] = totalLockedOf[v]
    BY <1>1, <1>5 DEF lockBond
  <2> HIDE DEF n
  <2>4. LocksAddUp'
    BY <2>3, LocksMove
  <2> QED BY <2>1, <2>2, <2>4 DEF Books
<1>6. ASSUME NEW u \in Holders, NEW amount \in BondAmounts, NEW t \in Tasks, unlockBond(t, u, amount)
      PROVE  Books'
  <2>1. VaultTypeOK'
    BY <1>1, <1>2, <1>6 DEF unlockBond, VaultTypeOK
  <2>2. VaultExact'
    BY <1>6 DEF unlockBond, Books, VaultExact
  <2> DEFINE n == lockedBondOf[t][u] - amount
  <2>3. /\ n \in Nat /\ slashedUsers' = slashedUsers
        /\ lockedBondOf' = [lockedBondOf EXCEPT ![t][u] = n]
        /\ totalLockedOf'[u] = totalLockedOf[u] + n - lockedBondOf[t][u]
        /\ \A v \in Holders \ {u} : totalLockedOf'[v] = totalLockedOf[v]
    BY <1>1, <1>6 DEF unlockBond
  <2> HIDE DEF n
  <2>4. LocksAddUp'
    BY <2>3, LocksMove
  <2> QED BY <2>1, <2>2, <2>4 DEF Books
<1>7. ASSUME NEW u \in Holders, NEW amount \in BondAmounts, NEW to \in Holders,
             slashBond(u, amount, to)
      PROVE  Books'
  <2> DEFINE s == BondTaken(totalBondOf[u], amount)
  <2>1. /\ s \in Nat /\ s <= totalBondOf[u] /\ s <= vaultWeth
        /\ totalBondOf' = [totalBondOf EXCEPT ![u] = @ - s]
        /\ vaultWeth' = vaultWeth - s
        /\ userWeth' = [userWeth EXCEPT ![to] = @ + s]
        /\ slashedUsers' = slashedUsers \union {u}
        /\ UNCHANGED <<lockedBondOf, paused, funds, reserve>>
    BY <1>1, <1>7 DEF slashBond, BondTaken
  <2>2. \A v \in Holders \ {u} : totalLockedOf'[v] = totalLockedOf[v]
    BY <1>1, <1>7 DEF slashBond
  <2> HIDE DEF s
  <2>3. VaultTypeOK'
    BY <1>1, <1>2, <2>1 DEF VaultTypeOK
  <2>4. VaultExact'
    BY <1>1, <1>2, <2>1, VaultMoves
  <2>5. LocksAddUp'
    BY <2>1, <2>2 DEF Books, LocksAddUp, LockedForTasks
  <2> QED BY <2>3, <2>4, <2>5 DEF Books
<1>8. ASSUME NEW u \in Holders, NEW amount \in BondAmounts, payReward(u, amount)
      PROVE  Books'
  <2>1. VaultTypeOK'
    BY <1>1, <1>2, <1>8 DEF payReward, VaultTypeOK
  <2>2. VaultExact'
    BY <1>1, <1>2, <1>8, VaultMoves DEF payReward
  <2> QED BY <1>8, <2>1, <2>2, LocksStay DEF payReward, Books
<1>9. ASSUME NEW amount \in BondAmounts, fundVault(amount)
      PROVE  Books'
  <2>1. VaultTypeOK'
    BY <1>1, <1>2, <1>9 DEF fundVault, VaultTypeOK
  <2>2. VaultExact'
    <3>1. totalBondOf' = totalBondOf /\ vaultWeth' = vaultWeth + amount
            /\ reserve' = reserve + amount /\ amount \in Nat
      BY <1>1, <1>9 DEF fundVault
    <3>2. SumFunction(totalBondOf) \in Nat
      BY <1>1, SumBounds
    <3> QED BY <1>1, <3>1, <3>2 DEF Books, VaultExact
  <2> QED BY <1>9, <2>1, <2>2, LocksStay DEF fundVault, Books
<1>10. CASE pause \/ unpause
  BY <1>1, <1>10 DEF pause, unpause, SetPaused, Books, VaultTypeOK, VaultExact, LocksAddUp, LockedForTasks
<1>11. CASE UNCHANGED vaultVars
  BY <1>11 DEF vaultVars, Books, VaultTypeOK, VaultExact, LocksAddUp, LockedForTasks
<1> QED
  BY <1>3, <1>4, <1>5, <1>6, <1>7, <1>8, <1>9, <1>10, <1>11 DEF VaultNext

\* The inductive invariant of the vault: covered locks and agreeing books.
LEMMA BooksAlways == VaultSpec => [](BondInv /\ Books)
<1>1. VaultInit => BondInv /\ Books
  BY InitCovered, InitBooks
<1>2. BondInv /\ Books /\ [VaultNext]_vaultVars => (BondInv /\ Books)'
  BY NextCovered, NextKeepsBooks
<1> QED
  BY <1>1, <1>2, PTL DEF VaultSpec

\* The WETH of the vault is at all times the sum of the bonds and what was funded but not
\* yet paid as rewards, for any number of users.
THEOREM VaultHoldsBonds == VaultSpec => []VaultExact
<1>1. BondInv /\ Books => VaultExact
  BY DEF Books
<1> QED
  BY BooksAlways, <1>1, PTL

\* totalLockedOf and lockedBondOf, kept by hand in two functions, agree for every user that
\* slashBond (which leaves lockedBondOf alone) has not touched.
THEOREM LocksAgree == VaultSpec => []LocksAddUp
<1>1. BondInv /\ Books => LocksAddUp
  BY DEF Books
<1> QED
  BY BooksAlways, <1>1, PTL

\* No bond, lock or balance of the vault ever becomes negative.
THEOREM VaultTyped == VaultSpec => []VaultTypeOK
<1>1. BondInv /\ Books => VaultTypeOK
  BY DEF Books
<1> QED
  BY BooksAlways, <1>1, PTL

\* The books of BondVaultWETH.sol are in order for every set of users, tasks and amounts.
THEOREM BondsStaySound == VaultSpec => []BondsAreSound
<1>1. BondInv /\ Books => BondsAreSound
  BY DEF BondInv, Books, BondsAreSound
<1> QED
  BY BooksAlways, <1>1, PTL

-----------------------------------------------------------------------------
(* JobBoardEscrow.                                                         *)
-----------------------------------------------------------------------------
\* The weights of a plan, one per milestone.
PlanSet == UNION {[0..(n - 1) -> Nat] : n \in Nat}

\* The Job struct.
JobRecord ==
  [currency : Currencies, budget : Nat, milestoneCount : Nat, weights : PlanSet,
   milestonesAdded : BOOLEAN, released : SUBSET Nat, awardedAt : Nat, passThreshold : Nat,
   totalReleased : Nat, closed : BOOLEAN, disputeOpen : BOOLEAN, disputePayoutBps : Nat]

\* What a job has paid to its agent and back to its owner.
Payment == [agent : Nat, owner : Nat]

\* What holds of the record of a job and of the payments made for it, on their own.
SoundJob(job, payment) ==
  /\ job \in JobRecord
  /\ payment \in Payment
  /\ job.released \subseteq DOMAIN job.weights
  /\ job.milestonesAdded => DOMAIN job.weights = 0..(job.milestoneCount - 1)
  /\ DOMAIN job.weights = {} \/ SumFunction(job.weights) = AllBps
  /\ job.awardedAt # 0 => job.milestonesAdded
  /\ job.awardedAt = 0 =>
       /\ job.released = {} /\ job.totalReleased = 0
       /\ ~job.closed /\ ~job.disputeOpen
  /\ job.disputePayoutBps <= AllBps
  /\ ~job.closed => job.totalReleased = Earned(job)
  /\ job.totalReleased >= Earned(job)
  /\ payment.agent = job.totalReleased
  /\ payment.agent + payment.owner <= job.budget
  /\ payment.owner > 0 => job.closed /\ job.disputeOpen
  /\ job.closed => payment.agent + payment.owner = job.budget

\* What a validator passed, for the record of a job.
PassedFor(h, id, job, milestone) ==
  /\ requests[h] = [job |-> id, milestone |-> milestone]
  /\ responses[h] # NoScore
  /\ responses[h] >= job.passThreshold

\* The part of AgentEarnsWhatPassed that is about the requests of job id.
EarnedByPassing(id, job) ==
  /\ \A i \in job.released : \E h \in RequestHashes : PassedFor(h, id, job, i)
  /\ job.totalReleased # Earned(job) =>
       /\ job.closed
       /\ \/ /\ job.totalReleased = job.budget
             /\ \E h \in RequestHashes : PassedFor(h, id, job, job.milestoneCount)
          \/ /\ job.disputeOpen
             /\ job.totalReleased = Share(job, job.disputePayoutBps)

BoardTyped ==
  /\ jobs \in [JobIds -> JobRecord]
  /\ paid \in [JobIds -> Payment]
  /\ nextJobId \in 1..(MaxJobs + 1)
  /\ requests \in [RequestHashes -> [job : Nat, milestone : Nat]]
  /\ responses \in [RequestHashes -> Int]
  /\ escrow \in [Currencies -> Nat]
  /\ gifts \in Nat
  /\ blockTime \in Nat \ {0}
  /\ defaultPassThreshold \in Nat

\* A request that was made is about an awarded job.
RequestsAreForAwarded ==
  \A h \in RequestHashes : requests[h] # NoRequest =>
    /\ requests[h].job \in JobIds
    /\ Awarded(requests[h].job)

\* The inductive invariant.
BoardInv ==
  /\ BoardTyped
  /\ \A id \in JobIds : ~Posted(id) => jobs[id] = NoJob
  /\ RequestsAreForAwarded
  /\ \A id \in JobIds : SoundJob(jobs[id], paid[id]) /\ EarnedByPassing(id, jobs[id])
  /\ EscrowCoversJobs

-----------------------------------------------------------------------------
(* Shares and what they add up to.                                         *)

\* The shares Earned adds up.
SharesOf(job) ==
  [i \in DOMAIN job.weights |-> IF i \in job.released THEN Share(job, job.weights[i]) ELSE 0]

\* The milestones of a job are finitely many, with a weight each.
LEMMA PlansAreFinite ==
  ASSUME NEW weights \in PlanSet
  PROVE  IsFiniteSet(DOMAIN weights) /\ weights \in [DOMAIN weights -> Nat]
<1>1. PICK n \in Nat : weights \in [0..(n - 1) -> Nat]
  BY DEF PlanSet
<1>2. DOMAIN weights = 0..(n - 1)
  BY <1>1
<1>3. IsFiniteSet(0..(n - 1))
  BY FS_Interval
<1> QED
  BY <1>1, <1>2, <1>3

\* A share is rounded down: no more than its weight allows.
LEMMA ShareBounds ==
  ASSUME NEW job \in JobRecord, NEW bps \in Nat
  PROVE  /\ Share(job, bps) \in Nat
         /\ AllBps * Share(job, bps) <= job.budget * bps
         /\ bps <= AllBps => Share(job, bps) <= job.budget
<1> DEFINE b == job.budget
           n == b * bps
<1>1. b \in Nat
  BY DEF JobRecord
<1>2. n \in Nat
  BY <1>1
<1>3. Share(job, bps) = n \div 10000
  BY DEF Share, AllBps
<1>6. bps <= 10000 => n \div 10000 \in 0..b
  <2> SUFFICES ASSUME bps <= 10000 PROVE n \div 10000 \in 0..b
    OBVIOUS
  <2>1. bps \in 0..10000 /\ 10000 \in Nat \ {0}
    OBVIOUS
  <2> QED BY <1>1, <2>1, ShareWithin
<1> HIDE DEF n
<1>4. n \div 10000 \in Nat /\ (n \div 10000) * 10000 <= n
  BY <1>2, DivisionBounds
<1>5. 10000 * (n \div 10000) <= n
  BY <1>4
<1> QED
  BY <1>1, <1>3, <1>4, <1>5, <1>6 DEF AllBps, n

\* The shares of a job are amounts, none of them more than its weight allows.
LEMMA SharesTyped ==
  ASSUME NEW job \in JobRecord
  PROVE  /\ IsFiniteSet(DOMAIN job.weights)
         /\ job.weights \in [DOMAIN job.weights -> Nat]
         /\ SharesOf(job) \in [DOMAIN job.weights -> Nat]
         /\ \A i \in DOMAIN job.weights :
              AllBps * SharesOf(job)[i] <= job.budget * job.weights[i]
<1>1. job.weights \in PlanSet /\ job.budget \in Nat
  BY DEF JobRecord
<1>2. IsFiniteSet(DOMAIN job.weights) /\ job.weights \in [DOMAIN job.weights -> Nat]
  BY <1>1, PlansAreFinite
<1>3. ASSUME NEW i \in DOMAIN job.weights
      PROVE  /\ SharesOf(job)[i] \in Nat
             /\ AllBps * SharesOf(job)[i] <= job.budget * job.weights[i]
  <2>1. job.weights[i] \in Nat
    BY <1>2
  <2>2. /\ Share(job, job.weights[i]) \in Nat
        /\ AllBps * Share(job, job.weights[i]) <= job.budget * job.weights[i]
    BY <2>1, ShareBounds
  <2>3. AllBps * 0 <= job.budget * job.weights[i]
    BY <1>1, <2>1 DEF AllBps
  <2>4. SharesOf(job)[i] = IF i \in job.released THEN Share(job, job.weights[i]) ELSE 0
    BY DEF SharesOf
  <2> QED BY <2>2, <2>3, <2>4
<1>4. SharesOf(job) \in [DOMAIN job.weights -> Nat]
  BY <1>3 DEF SharesOf
<1> QED
  BY <1>2, <1>3, <1>4

\* What the milestones of a job earn is within its budget, whatever was released: the
\* weights add up to all of it, and every share is rounded down.
LEMMA EarnedWithinBudget ==
  ASSUME NEW job \in JobRecord,
         DOMAIN job.weights = {} \/ SumFunction(job.weights) = AllBps
  PROVE  Earned(job) \in Nat /\ Earned(job) <= job.budget
<1> DEFINE f == SharesOf(job)
           w == job.weights
           S == DOMAIN job.weights
<1>1. /\ IsFiniteSet(S) /\ w \in [S -> Nat] /\ f \in [S -> Nat]
      /\ \A i \in S : AllBps * f[i] <= job.budget * w[i]
  BY SharesTyped
<1>2. Earned(job) = SumFunction(f)
  BY DEF Earned, SharesOf
<1>3. job.budget \in Nat
  BY DEF JobRecord
<1>4. AllBps \in Nat
  BY DEF AllBps
<1>7. DOMAIN job.weights = {} => S = {}
  OBVIOUS
<1> HIDE DEF f, S
<1>5. SumFunction(f) \in Nat
  BY <1>1, SumBounds
<1>6. CASE SumFunction(w) = AllBps
  <2>1. AllBps * SumFunction(f) <= job.budget * SumFunction(w)
    <3> HIDE DEF w
    <3> QED BY <1>1, <1>3, <1>4, SumScaled
  <2>2. 10000 * SumFunction(f) <= job.budget * 10000
    BY <1>6, <2>1 DEF AllBps
  <2> QED BY <1>2, <1>3, <1>5, <2>2
<1>8. CASE DOMAIN job.weights = {}
  <2>1. f \in [S -> Int] /\ \A x \in S : f[x] = 0
    BY <1>1, <1>7, <1>8
  <2>2. SumFunction(f) = 0
    BY <1>1, <2>1, SumZero
  <2> QED BY <1>2, <1>3, <2>2
<1> QED
  BY <1>6, <1>8

\* A milestone released for the first time adds its share to what was earned.
LEMMA ReleaseEarns ==
  ASSUME NEW job \in JobRecord, NEW new \in JobRecord, NEW m \in DOMAIN job.weights,
         m \notin job.released, new.released = job.released \union {m},
         new.weights = job.weights, new.budget = job.budget
  PROVE  Earned(new) = Earned(job) + Share(job, job.weights[m])
<1> DEFINE f == SharesOf(job)
           h == SharesOf(new)
           S == DOMAIN job.weights
<1>1. IsFiniteSet(S) /\ f \in [S -> Nat] /\ h \in [S -> Nat]
  BY SharesTyped
<1>2. f[m] = 0 /\ h[m] = Share(job, job.weights[m])
  BY DEF SharesOf, Share
<1>3. \A y \in S \ {m} : f[y] = h[y]
  BY DEF SharesOf, Share
<1>4. Earned(job) = SumFunction(f) /\ Earned(new) = SumFunction(h)
  BY DEF Earned, SharesOf
<1>5. m \in S
  OBVIOUS
<1> HIDE DEF f, h, S
<1>6. f \in [S -> Int] /\ h \in [S -> Int]
  BY <1>1
<1>7. SumFunction(h) = SumFunction(f) + h[m] - f[m]
  BY <1>1, <1>3, <1>5, <1>6, SumChanged
<1>8. SumFunction(f) \in Int /\ h[m] \in Int
  BY <1>1, <1>5, <1>6, SumTyped
<1> QED
  BY <1>2, <1>4, <1>7, <1>8

\* What was earned depends on the budget, the weights and what was released only.
LEMMA EarnedSame ==
  ASSUME NEW job, NEW new, new.released = job.released,
         new.weights = job.weights, new.budget = job.budget
  PROVE  Earned(new) = Earned(job)
BY DEF Earned, Share

\* Nothing released is nothing earned.
LEMMA NothingEarned ==
  ASSUME NEW job \in JobRecord, job.released = {}
  PROVE  Earned(job) = 0
<1>1. IsFiniteSet(DOMAIN job.weights) /\ SharesOf(job) \in [DOMAIN job.weights -> Nat]
  BY SharesTyped
<1>2. SharesOf(job) \in [DOMAIN job.weights -> Int]
  BY <1>1
<1>3. \A i \in DOMAIN job.weights : SharesOf(job)[i] = 0
  BY DEF SharesOf
<1>4. Earned(job) = SumFunction(SharesOf(job))
  BY DEF Earned, SharesOf
<1> QED
  BY <1>1, <1>2, <1>3, <1>4, SumZero

-----------------------------------------------------------------------------
(* The purse of a currency.                                                *)

\* What the jobs of a board still have to pay, by id.
OwedBy(board, c) == [id \in JobIds |-> Owed(c, board[id])]

GiftsIn(c, total) == IF c = Eth THEN total ELSE 0

\* What is owed for a sound job is an amount.
LEMMA OwedTyped ==
  ASSUME NEW job, NEW payment, SoundJob(job, payment), NEW c
  PROVE  Owed(c, job) \in Nat
<1>1. /\ job.budget \in Nat /\ job.totalReleased \in Nat
      /\ payment.agent \in Nat /\ payment.owner \in Nat
  BY DEF SoundJob, JobRecord, Payment
<1>2. payment.agent = job.totalReleased /\ payment.agent + payment.owner <= job.budget
  BY DEF SoundJob
<1> QED
  BY <1>1, <1>2 DEF Owed

\* The sum of what is owed moves with the one job a call changes.
LEMMA OwedMoves ==
  ASSUME NEW board, NEW new, NEW c, NEW id \in JobIds,
         \A x \in JobIds : Owed(c, board[x]) \in Nat,
         \A x \in JobIds : Owed(c, new[x]) \in Nat,
         \A x \in JobIds \ {id} : new[x] = board[x]
  PROVE  /\ SumFunction(OwedBy(board, c)) \in Nat
         /\ SumFunction(OwedBy(new, c)) =
              SumFunction(OwedBy(board, c)) + Owed(c, new[id]) - Owed(c, board[id])
<1> DEFINE f == OwedBy(board, c)
           h == OwedBy(new, c)
<1>1. f \in [JobIds -> Nat] /\ h \in [JobIds -> Nat]
  BY DEF OwedBy
<1>2. f[id] = Owed(c, board[id]) /\ h[id] = Owed(c, new[id])
  BY DEF OwedBy
<1>3. \A y \in JobIds \ {id} : f[y] = h[y]
  BY DEF OwedBy
<1>4. IsFiniteSet(JobIds)
  BY JobConstants, FS_Interval DEF JobIds
<1> HIDE DEF f, h
<1>5. f \in [JobIds -> Int] /\ h \in [JobIds -> Int]
  BY <1>1
<1>6. SumFunction(h) = SumFunction(f) + h[id] - f[id]
  BY <1>3, <1>4, <1>5, SumChanged
<1>7. SumFunction(f) \in Nat
  BY <1>1, <1>4, SumBounds
<1> QED
  BY <1>2, <1>6, <1>7 DEF f, h

\* A call that pays and changes one job keeps the purses exact.
LEMMA PursesFollow ==
  ASSUME EscrowCoversJobs, gifts \in Nat, gifts' \in Nat, NEW id \in JobIds,
         escrow \in [Currencies -> Nat],
         \A x \in JobIds, c \in Currencies : Owed(c, jobs[x]) \in Nat,
         \A x \in JobIds, c \in Currencies : Owed(c, jobs'[x]) \in Nat,
         \A x \in JobIds \ {id} : jobs'[x] = jobs[x],
         \A c \in Currencies :
           escrow'[c] = escrow[c] + Owed(c, jobs'[id]) - Owed(c, jobs[id])
                          + GiftsIn(c, gifts') - GiftsIn(c, gifts)
  PROVE  EscrowCoversJobs'
<1> SUFFICES ASSUME NEW c \in Currencies
             PROVE  escrow'[c] = SumFunction(OwedBy(jobs', c)) + GiftsIn(c, gifts')
  BY DEF EscrowCoversJobs, OwedBy, GiftsIn
<1>1. escrow[c] = SumFunction(OwedBy(jobs, c)) + GiftsIn(c, gifts)
  BY DEF EscrowCoversJobs, OwedBy, GiftsIn
<1>2. PICK board, new : board = jobs /\ new = jobs'
  OBVIOUS
<1>3. /\ SumFunction(OwedBy(board, c)) \in Nat
      /\ SumFunction(OwedBy(new, c)) =
           SumFunction(OwedBy(board, c)) + Owed(c, new[id]) - Owed(c, board[id])
  BY <1>2, OwedMoves
<1>4. GiftsIn(c, gifts) \in Nat /\ GiftsIn(c, gifts') \in Nat
  BY DEF GiftsIn
<1>5. Owed(c, jobs[id]) \in Nat /\ Owed(c, jobs'[id]) \in Nat
  OBVIOUS
<1>6. escrow'[c] = escrow[c] + Owed(c, jobs'[id]) - Owed(c, jobs[id])
                     + GiftsIn(c, gifts') - GiftsIn(c, gifts)
  OBVIOUS
<1> QED
  BY <1>1, <1>2, <1>3, <1>4, <1>5, <1>6

-----------------------------------------------------------------------------
(* What a call on one job keeps.                                           *)

\* A call that changes nothing of the jobs, their requests and their money.
LEMMA BoardStays ==
  ASSUME BoardInv, blockTime' \in Nat \ {0}, defaultPassThreshold' \in Nat,
         UNCHANGED <<jobs, nextJobId, requests, responses, escrow, paid, gifts>>
  PROVE  BoardInv'
BY DEF BoardInv, BoardTyped, Posted, RequestsAreForAwarded, Awarded, EarnedByPassing, PassedFor,
       EscrowCoversJobs

\* A call of the owner or the agent of an open job that leaves its record sound, and takes
\* from the purse of its currency what it pays.
LEMMA JobChanges ==
  ASSUME BoardInv, NEW id \in JobIds, NEW job, NEW payment, Posted(id), ~jobs[id].closed,
         jobs' = [jobs EXCEPT ![id] = job],
         paid' = [paid EXCEPT ![id] = payment],
         SoundJob(job, payment), EarnedByPassing(id, job),
         job.currency = jobs[id].currency, job.budget = jobs[id].budget,
         jobs[id].awardedAt # 0 => job.awardedAt # 0,
         NEW out \in Nat, escrow[job.currency] >= out,
         payment.agent + payment.owner = paid[id].agent + paid[id].owner + out,
         escrow' = [escrow EXCEPT ![job.currency] = @ - out],
         UNCHANGED <<nextJobId, requests, responses, gifts, blockTime, defaultPassThreshold>>
  PROVE  BoardInv'
<1>1. /\ jobs \in [JobIds -> JobRecord] /\ paid \in [JobIds -> Payment]
      /\ escrow \in [Currencies -> Nat] /\ gifts \in Nat
      /\ \A x \in JobIds : SoundJob(jobs[x], paid[x]) /\ EarnedByPassing(x, jobs[x])
  BY DEF BoardInv, BoardTyped
<1>2. job \in JobRecord /\ payment \in Payment /\ job.currency \in Currencies
  BY DEF SoundJob, JobRecord
<1>3. /\ jobs' \in [JobIds -> JobRecord] /\ paid' \in [JobIds -> Payment]
      /\ jobs'[id] = job /\ paid'[id] = payment
      /\ \A x \in JobIds \ {id} : jobs'[x] = jobs[x] /\ paid'[x] = paid[x]
  BY <1>1, <1>2
<1>4. escrow' \in [Currencies -> Nat]
  BY <1>1, <1>2
<1>5. BoardTyped'
  BY <1>3, <1>4 DEF BoardInv, BoardTyped
<1>6. \A x \in JobIds : ~Posted(x)' => jobs'[x] = NoJob
  BY <1>3 DEF BoardInv, Posted
<1>7. RequestsAreForAwarded'
  BY <1>3 DEF BoardInv, RequestsAreForAwarded, Awarded
<1>8. \A x \in JobIds : SoundJob(jobs'[x], paid'[x])
  BY <1>1, <1>3
<1>9. \A x \in JobIds : EarnedByPassing(x, jobs[x])'
  BY <1>1, <1>3 DEF EarnedByPassing, PassedFor
<1>10. \A x \in JobIds, c \in Currencies : Owed(c, jobs[x]) \in Nat /\ Owed(c, jobs'[x]) \in Nat
  BY <1>1, <1>8, OwedTyped
<1>11. ASSUME NEW c \in Currencies
       PROVE  escrow'[c] = escrow[c] + Owed(c, job) - Owed(c, jobs[id])
  <2> DEFINE b == job.budget
             p == paid[id]
  <2>1. /\ b \in Nat /\ job.closed \in BOOLEAN /\ escrow[c] \in Nat
        /\ p.agent \in Nat /\ p.owner \in Nat /\ payment.agent \in Nat /\ payment.owner \in Nat
    BY <1>1, <1>2 DEF JobRecord, Payment
  <2>2. /\ p.agent = jobs[id].totalReleased /\ ~(p.owner > 0)
    BY <1>1 DEF SoundJob
  <2>3. /\ payment.agent = job.totalReleased
        /\ payment.owner > 0 => job.closed
        /\ job.closed => payment.agent + payment.owner = b
    BY DEF SoundJob
  <2>4. CASE c # job.currency
    <3>1. escrow'[c] = escrow[c]
      BY <1>1, <2>4
    <3> QED BY <2>1, <2>4, <3>1 DEF Owed
  <2>5. CASE c = job.currency
    <3>1. escrow'[c] = escrow[c] - out
      BY <1>1, <1>2, <2>5
    <3>2. Owed(c, jobs[id]) = b - p.agent
      BY <2>2, <2>5 DEF Owed
    <3>3. Owed(c, job) = IF job.closed THEN 0 ELSE b - payment.agent
      BY <2>3, <2>5 DEF Owed
    <3>4. payment.agent + payment.owner = p.agent + p.owner + out
      OBVIOUS
    <3> HIDE DEF b, p
    <3> QED BY <2>1, <2>2, <2>3, <3>1, <3>2, <3>3, <3>4
  <2> QED BY <2>4, <2>5
<1>12. EscrowCoversJobs'
  <2>1. \A c \in Currencies : GiftsIn(c, gifts') = GiftsIn(c, gifts) /\ GiftsIn(c, gifts) \in Nat
    BY <1>1 DEF GiftsIn
  <2>2. ASSUME NEW c \in Currencies
        PROVE  escrow'[c] = escrow[c] + Owed(c, jobs'[id]) - Owed(c, jobs[id])
                              + GiftsIn(c, gifts') - GiftsIn(c, gifts)
    <3>1. /\ escrow'[c] = escrow[c] + Owed(c, jobs'[id]) - Owed(c, jobs[id])
          /\ escrow'[c] \in Nat
      BY <1>3, <1>4, <1>11
    <3> QED BY <2>1, <3>1
  <2>3. gifts' \in Nat /\ EscrowCoversJobs
    BY <1>1 DEF BoardInv
  <2> QED BY <1>1, <1>3, <1>10, <2>2, <2>3, PursesFollow
<1> QED
  BY <1>5, <1>6, <1>7, <1>8, <1>9, <1>12 DEF BoardInv

-----------------------------------------------------------------------------
(* The calls, one by one.                                                  *)

\* A job just posted is sound, and so is an id not posted yet.
LEMMA NewJobSound ==
  ASSUME NEW c \in Currencies, NEW budget \in Nat, NEW count \in Nat, NEW threshold \in Nat,
         NEW job, \/ job = NewJob(c, budget, count, threshold)
                  \/ job = NoJob /\ budget = 0 /\ c = Eth,
         NEW id
  PROVE  /\ job \in JobRecord
         /\ SoundJob(job, [agent |-> 0, owner |-> 0])
         /\ EarnedByPassing(id, job)
         /\ job.currency = c /\ job.budget = budget /\ job.totalReleased = 0 /\ ~job.closed
<1>1. NoWeights \in PlanSet /\ DOMAIN NoWeights = {} /\ 0..(0 - 1) = {}
  <2>1. 0..(0 - 1) = {}
    OBVIOUS
  <2>2. NoWeights \in [0..(0 - 1) -> Nat]
    BY <2>1 DEF NoWeights
  <2> QED BY <2>1, <2>2 DEF NoWeights, PlanSet
<1>2. /\ job \in JobRecord
      /\ job.currency = c /\ job.budget = budget /\ job.totalReleased = 0 /\ ~job.closed
      /\ job.weights = NoWeights /\ job.released = {} /\ job.awardedAt = 0
      /\ ~job.disputeOpen /\ job.disputePayoutBps = 0
      /\ job.milestonesAdded => job.milestoneCount = 0
  <2>1. CASE job = NewJob(c, budget, count, threshold)
    BY <1>1, <2>1 DEF NewJob, JobRecord
  <2>2. CASE job = NoJob /\ budget = 0 /\ c = Eth
    BY <1>1, <2>2 DEF NoJob, NewJob, JobRecord
  <2> QED BY <2>1, <2>2
<1>3. Earned(job) = 0
  BY <1>2, NothingEarned
<1>4. SoundJob(job, [agent |-> 0, owner |-> 0])
  BY <1>1, <1>2, <1>3 DEF SoundJob, Payment, AllBps
<1> QED
  BY <1>2, <1>3, <1>4 DEF EarnedByPassing

\* The empty board.
LEMMA InitBoard == JobsInit => BoardInv
<1> SUFFICES ASSUME JobsInit PROVE BoardInv
  OBVIOUS
<1> USE JobConstants
<1>1. \A id \in JobIds : jobs[id] = NoJob /\ paid[id] = [agent |-> 0, owner |-> 0]
  BY DEF JobsInit
<1>2. ASSUME NEW id \in JobIds
      PROVE  /\ NoJob \in JobRecord
             /\ SoundJob(NoJob, [agent |-> 0, owner |-> 0])
             /\ EarnedByPassing(id, NoJob)
             /\ \A c \in Currencies : Owed(c, NoJob) = 0
  BY NewJobSound DEF Owed
<1>3. BoardTyped
  <2>1. jobs \in [JobIds -> JobRecord] /\ paid \in [JobIds -> Payment]
    BY <1>2 DEF JobsInit, Payment
  <2>2. nextJobId \in 1..(MaxJobs + 1)
    BY DEF JobsInit
  <2>3. requests \in [RequestHashes -> [job : Nat, milestone : Nat]]
          /\ responses \in [RequestHashes -> Int]
    BY DEF JobsInit, NoRequest, NoScore
  <2>4. escrow \in [Currencies -> Nat] /\ gifts \in Nat /\ blockTime \in Nat \ {0}
          /\ defaultPassThreshold \in Nat
    BY DEF JobsInit
  <2> QED BY <2>1, <2>2, <2>3, <2>4 DEF BoardTyped
<1>4. RequestsAreForAwarded
  BY DEF JobsInit, RequestsAreForAwarded
<1>5. EscrowCoversJobs
  <2> SUFFICES ASSUME NEW c \in Currencies
               PROVE  escrow[c] = SumFunction(OwedBy(jobs, c)) + GiftsIn(c, gifts)
    BY DEF EscrowCoversJobs, OwedBy, GiftsIn
  <2>1. OwedBy(jobs, c) \in [JobIds -> Int] /\ \A id \in JobIds : OwedBy(jobs, c)[id] = 0
    BY <1>1, <1>2 DEF OwedBy
  <2>2. IsFiniteSet(JobIds)
    BY FS_Interval DEF JobIds
  <2>3. SumFunction(OwedBy(jobs, c)) = 0
    BY <2>1, <2>2, SumZero
  <2> QED BY <2>3 DEF GiftsIn, JobsInit
<1> QED
  BY <1>1, <1>2, <1>3, <1>4, <1>5 DEF BoardInv

\* What SoundJob says of an open job, for the calls that change one.
LEMMA OpenJob ==
  ASSUME BoardInv, NEW id \in JobIds, ~jobs[id].closed
  PROVE  LET job == jobs[id]
         IN  /\ job \in JobRecord /\ paid[id] \in Payment
             /\ SoundJob(job, paid[id]) /\ EarnedByPassing(id, job)
             /\ job.totalReleased = Earned(job) /\ job.totalReleased <= job.budget
             /\ paid[id].agent = job.totalReleased /\ paid[id].owner = 0
             /\ \A c \in Currencies : escrow[c] \in Nat
<1>1. SoundJob(jobs[id], paid[id]) /\ EarnedByPassing(id, jobs[id])
  BY DEF BoardInv
<1>2. \A c \in Currencies : escrow[c] \in Nat
  BY DEF BoardInv, BoardTyped
<1>3. /\ jobs[id] \in JobRecord /\ paid[id] \in Payment
      /\ jobs[id].totalReleased = Earned(jobs[id])
      /\ paid[id].agent = jobs[id].totalReleased
      /\ paid[id].agent + paid[id].owner <= jobs[id].budget
      /\ ~(paid[id].owner > 0)
  BY <1>1 DEF SoundJob
<1>4. /\ paid[id].agent \in Nat /\ paid[id].owner \in Nat
      /\ jobs[id].budget \in Nat
  BY <1>3 DEF Payment, JobRecord
<1> QED
  BY <1>1, <1>2, <1>3, <1>4

\* An id that is not posted is not awarded, in no dispute and has no passed request.
LEMMA OnlyPosted ==
  ASSUME BoardInv, NEW id \in JobIds, \/ Awarded(id) \/ jobs[id].disputeOpen
  PROVE  Posted(id)
BY DEF BoardInv, Awarded, NoJob, NewJob

\* A passed request is about an awarded job.
LEMMA PassedAwarded ==
  ASSUME BoardInv, NEW id \in JobIds, NEW h \in RequestHashes, NEW m, PassedBy(h, id, m)
  PROVE  Awarded(id) /\ m \in Nat
<1>1. requests[h] = [job |-> id, milestone |-> m] /\ id # 0
  BY DEF PassedBy, JobIds
<1>2. requests[h] # NoRequest /\ requests[h].job = id /\ requests[h].milestone = m
  BY <1>1 DEF NoRequest
<1>3. requests[h] \in [job : Nat, milestone : Nat]
  BY DEF BoardInv, BoardTyped
<1> QED
  BY <1>2, <1>3 DEF BoardInv, RequestsAreForAwarded

\* postJob puts the budget into the purse and a sound job on the board.
LEMMA PostKeeps ==
  ASSUME BoardInv, NEW c \in Currencies, NEW budget \in Budgets, NEW count \in Nat,
         NEW threshold \in PassThresholds, postJob(c, budget, count, threshold)
  PROVE  BoardInv'
<1> USE JobConstants
<1> DEFINE id == nextJobId
           nothing == [agent |-> 0, owner |-> 0]
<1>1. id \in JobIds /\ id' = id + 1 /\ ~Posted(id)
  BY DEF postJob, BoardInv, BoardTyped, JobIds, Posted
<1>2. PICK t \in Nat : jobs' = [jobs EXCEPT ![id] = NewJob(c, budget, count, t)]
  BY DEF postJob, BoardInv, BoardTyped
<1>3. PICK job : job = NewJob(c, budget, count, t)
  OBVIOUS
<1>4. /\ jobs \in [JobIds -> JobRecord] /\ paid \in [JobIds -> Payment]
      /\ escrow \in [Currencies -> Nat] /\ gifts \in Nat /\ budget \in Nat
      /\ \A x \in JobIds : SoundJob(jobs[x], paid[x]) /\ EarnedByPassing(x, jobs[x])
  BY DEF BoardInv, BoardTyped
<1>5. jobs[id] = NoJob
  BY <1>1 DEF BoardInv
<1>6. paid[id] = nothing
  <2>1. /\ jobs[id].budget = 0
        /\ paid[id] \in Payment
        /\ paid[id].agent + paid[id].owner <= 0
    BY <1>1, <1>4, <1>5 DEF SoundJob, NoJob, NewJob
  <2> QED BY <2>1 DEF Payment
<1>7. /\ job \in JobRecord /\ SoundJob(job, nothing) /\ EarnedByPassing(id, job)
      /\ job.currency = c /\ job.budget = budget /\ job.totalReleased = 0 /\ ~job.closed
  <2>1. EarnedByPassing(id, job)
    BY <1>3, <1>4, NewJobSound
  <2>2. job \in JobRecord /\ SoundJob(job, [agent |-> 0, owner |-> 0])
    BY <1>3, <1>4, NewJobSound
  <2>3. job.currency = c /\ job.budget = budget /\ job.totalReleased = 0 /\ ~job.closed
    BY <1>3 DEF NewJob
  <2> QED BY <2>1, <2>2, <2>3
<1>8. /\ UNCHANGED <<paid, requests, responses, gifts, blockTime, defaultPassThreshold>>
      /\ escrow' = [escrow EXCEPT ![c] = @ + budget]
  BY DEF postJob
<1>9. /\ jobs' \in [JobIds -> JobRecord] /\ jobs'[id] = job
      /\ \A x \in JobIds \ {id} : jobs'[x] = jobs[x]
  BY <1>1, <1>2, <1>3, <1>4, <1>7
<1>10. BoardTyped'
  <2>1. escrow' \in [Currencies -> Nat]
    BY <1>4, <1>8
  <2>2. nextJobId' \in 1..(MaxJobs + 1)
    BY <1>1 DEF JobIds
  <2> QED BY <1>8, <1>9, <2>1, <2>2 DEF BoardInv, BoardTyped
<1>11. \A x \in JobIds : ~Posted(x)' => jobs'[x] = NoJob
  <2> SUFFICES ASSUME NEW x \in JobIds, ~(x < nextJobId') PROVE jobs'[x] = NoJob
    BY DEF Posted
  <2>1. x # id /\ ~Posted(x)
    BY <1>1 DEF JobIds, Posted
  <2> QED BY <1>9, <2>1 DEF BoardInv
<1>12. RequestsAreForAwarded'
  <2> SUFFICES ASSUME NEW h \in RequestHashes, requests[h] # NoRequest
               PROVE  requests[h].job \in JobIds /\ jobs'[requests[h].job].awardedAt # 0
    BY <1>8 DEF RequestsAreForAwarded, Awarded
  <2>1. requests[h].job \in JobIds /\ jobs[requests[h].job].awardedAt # 0
    BY DEF BoardInv, RequestsAreForAwarded, Awarded
  <2>2. requests[h].job # id
    BY <1>5, <2>1 DEF NoJob, NewJob
  <2> QED BY <1>9, <2>1, <2>2
<1>13. \A x \in JobIds : SoundJob(jobs'[x], paid'[x])
  BY <1>4, <1>6, <1>7, <1>8, <1>9
<1>14. \A x \in JobIds : EarnedByPassing(x, jobs[x])'
  BY <1>4, <1>7, <1>8, <1>9 DEF EarnedByPassing, PassedFor
<1>15. EscrowCoversJobs'
  <2>1. \A x \in JobIds, d \in Currencies : Owed(d, jobs[x]) \in Nat /\ Owed(d, jobs'[x]) \in Nat
    BY <1>4, <1>13, OwedTyped
  <2>2. ASSUME NEW d \in Currencies
        PROVE  escrow'[d] = escrow[d] + Owed(d, jobs'[id]) - Owed(d, jobs[id])
                              + GiftsIn(d, gifts') - GiftsIn(d, gifts)
    <3>1. Owed(d, jobs[id]) = 0
      BY <1>5 DEF Owed, NoJob, NewJob
    <3>2. Owed(d, jobs'[id]) = IF d = c THEN budget ELSE 0
      BY <1>4, <1>7, <1>9 DEF Owed
    <3>3. escrow'[d] = escrow[d] + (IF d = c THEN budget ELSE 0) /\ escrow[d] \in Nat
      BY <1>4, <1>8
    <3>4. GiftsIn(d, gifts') = GiftsIn(d, gifts) /\ GiftsIn(d, gifts) \in Nat
      BY <1>4, <1>8 DEF GiftsIn
    <3> QED BY <1>4, <3>1, <3>2, <3>3, <3>4
  <2>3. gifts' \in Nat /\ EscrowCoversJobs
    BY <1>4, <1>8 DEF BoardInv
  <2> QED BY <1>1, <1>4, <1>9, <2>1, <2>2, <2>3, PursesFollow
<1> QED
  BY <1>10, <1>11, <1>12, <1>13, <1>14, <1>15 DEF BoardInv

\* addMilestones fixes weights that add up, before anything can be released.
LEMMA MilestonesKeep ==
  ASSUME BoardInv, NEW id \in JobIds, NEW weights \in MilestonePlans, addMilestones(id, weights)
  PROVE  BoardInv'
<1>1. PICK job : job = [jobs[id] EXCEPT !.weights = weights, !.milestonesAdded = TRUE]
  OBVIOUS
<1>2. SoundJob(jobs[id], paid[id]) /\ EarnedByPassing(id, jobs[id])
  BY DEF BoardInv
<1>3. /\ jobs[id] \in JobRecord /\ paid[id] \in Payment /\ jobs[id].awardedAt = 0
      /\ jobs[id].released = {} /\ jobs[id].totalReleased = 0
      /\ ~jobs[id].closed /\ ~jobs[id].disputeOpen
  BY <1>2 DEF SoundJob, addMilestones
<1>4. weights \in PlanSet
  <2>1. weights \in [0..(Cardinality(DOMAIN weights) - 1) -> Nat]
    BY JobConstants
  <2>2. DOMAIN weights = 0..(jobs[id].milestoneCount - 1) /\ jobs[id].milestoneCount \in Nat
    BY <1>3 DEF addMilestones, JobRecord
  <2>3. weights \in [0..(jobs[id].milestoneCount - 1) -> Nat]
    BY <2>1, <2>2
  <2> QED BY <2>2, <2>3 DEF PlanSet
<1>5. /\ job \in JobRecord /\ job.weights = weights /\ job.released = {} /\ job.milestonesAdded
      /\ job.totalReleased = 0 /\ ~job.closed /\ ~job.disputeOpen /\ job.awardedAt = 0
      /\ job.milestoneCount = jobs[id].milestoneCount /\ job.budget = jobs[id].budget
      /\ job.currency = jobs[id].currency /\ job.disputePayoutBps = jobs[id].disputePayoutBps
  BY <1>1, <1>3, <1>4 DEF JobRecord
<1>6. Earned(job) = 0
  BY <1>5, NothingEarned
<1>7. SoundJob(job, paid[id])
  BY <1>2, <1>3, <1>5, <1>6 DEF SoundJob, addMilestones
<1>8. EarnedByPassing(id, job)
  BY <1>5, <1>6 DEF EarnedByPassing
<1>9. PICK payment : payment = paid[id]
  OBVIOUS
<1>10. /\ paid' = [paid EXCEPT ![id] = payment]
       /\ escrow' = [escrow EXCEPT ![job.currency] = @ - 0]
       /\ escrow[job.currency] >= 0
       /\ payment.agent + payment.owner = paid[id].agent + paid[id].owner + 0
  BY <1>3, <1>5, <1>9 DEF BoardInv, BoardTyped, addMilestones, JobRecord, Payment
<1>11. /\ jobs' = [jobs EXCEPT ![id] = job] /\ Posted(id)
       /\ UNCHANGED <<nextJobId, requests, responses, gifts, blockTime, defaultPassThreshold>>
  BY <1>1 DEF BoardInv, BoardTyped, addMilestones
<1> QED
  BY <1>3, <1>5, <1>7, <1>8, <1>9, <1>10, <1>11, JobChanges

\* award changes only the time of the job.
LEMMA AwardKeeps ==
  ASSUME BoardInv, NEW id \in JobIds, award(id)
  PROVE  BoardInv'
<1>1. PICK job : job = [jobs[id] EXCEPT !.awardedAt = blockTime]
  OBVIOUS
<1>2. SoundJob(jobs[id], paid[id]) /\ EarnedByPassing(id, jobs[id]) /\ blockTime \in Nat \ {0}
  BY DEF BoardInv, BoardTyped
<1>3. /\ jobs[id] \in JobRecord /\ paid[id] \in Payment /\ jobs[id].milestonesAdded
      /\ jobs[id].totalReleased = 0 /\ jobs[id].released = {} /\ ~jobs[id].closed
      /\ ~jobs[id].disputeOpen
  BY <1>2 DEF SoundJob, award, Awarded
<1>4. /\ job \in JobRecord /\ job.weights = jobs[id].weights /\ job.released = {}
      /\ job.milestonesAdded /\ job.totalReleased = 0 /\ ~job.closed /\ ~job.disputeOpen
      /\ job.awardedAt # 0
      /\ job.milestoneCount = jobs[id].milestoneCount /\ job.budget = jobs[id].budget
      /\ job.currency = jobs[id].currency /\ job.disputePayoutBps = jobs[id].disputePayoutBps
  BY <1>1, <1>2, <1>3 DEF JobRecord
<1>5. Earned(job) = 0
  BY <1>4, NothingEarned
<1>6. SoundJob(job, paid[id])
  BY <1>2, <1>3, <1>4, <1>5 DEF SoundJob
<1>7. EarnedByPassing(id, job)
  BY <1>4, <1>5 DEF EarnedByPassing
<1>8. PICK payment : payment = paid[id]
  OBVIOUS
<1>9. /\ paid' = [paid EXCEPT ![id] = payment]
       /\ escrow' = [escrow EXCEPT ![job.currency] = @ - 0]
       /\ escrow[job.currency] >= 0
       /\ payment.agent + payment.owner = paid[id].agent + paid[id].owner + 0
  BY <1>3, <1>4, <1>8 DEF BoardInv, BoardTyped, award, JobRecord, Payment
<1>10. /\ jobs' = [jobs EXCEPT ![id] = job] /\ Posted(id)
       /\ UNCHANGED <<nextJobId, requests, responses, gifts, blockTime, defaultPassThreshold>>
  BY <1>1 DEF BoardInv, BoardTyped, award
<1> QED
  BY <1>3, <1>4, <1>6, <1>7, <1>8, <1>9, <1>10, JobChanges

\* finalize of a milestone pays its share: still within the budget, since what the milestones
\* earn together is.
LEMMA FinalizeMilestoneKeeps ==
  ASSUME BoardInv, NEW id \in JobIds, NEW m \in Nat, NEW h \in RequestHashes,
         finalizeMilestone(id, m, h)
  PROVE  BoardInv'
<1> DEFINE old == jobs[id]
           amount == Share(old, old.weights[m])
           total == old.totalReleased + amount
<1>1. PICK ends : ends = (total >= old.budget)
  OBVIOUS
<1>2. PICK job :
        job = [old EXCEPT !.released = @ \union {m}, !.totalReleased = total, !.closed = ends]
  OBVIOUS
<1>3. ends \in BOOLEAN /\ (ends => total >= old.budget)
  <2> HIDE DEF total
  <2>1. CASE total >= old.budget
    BY <1>1, <2>1
  <2>2. CASE ~(total >= old.budget)
    <3> DEFINE X == total >= old.budget
    <3>1. ends = X /\ ~X
      BY <1>1, <2>2
    <3> HIDE DEF X
    <3>2. ends = FALSE
      BY <3>1
    <3> QED BY <3>2
  <2> QED BY <2>1, <2>2
<1>4. /\ ~old.closed /\ Posted(id) /\ PassedBy(h, id, m) /\ m \notin old.released
      /\ m < old.milestoneCount
      /\ jobs' = [jobs EXCEPT ![id] = job]
      /\ payout(id, amount, 0)
      /\ UNCHANGED <<nextJobId, requests, responses, gifts, blockTime, defaultPassThreshold>>
  BY <1>1, <1>2 DEF finalizeMilestone, BoardInv, BoardTyped
<1>5. /\ old \in JobRecord /\ paid[id] \in Payment
      /\ SoundJob(old, paid[id]) /\ EarnedByPassing(id, old)
      /\ old.totalReleased = Earned(old)
      /\ paid[id].agent = old.totalReleased /\ paid[id].owner = 0
      /\ \A c \in Currencies : escrow[c] \in Nat
  BY <1>4, OpenJob
<1>6. Awarded(id)
  BY <1>4, PassedAwarded
<1>7. m \in DOMAIN old.weights /\ old.weights[m] \in Nat
  <2>1. DOMAIN old.weights = 0..(old.milestoneCount - 1) /\ old.milestoneCount \in Nat
    BY <1>5, <1>6 DEF SoundJob, Awarded, JobRecord
  <2>2. m \in DOMAIN old.weights
    BY <1>4, <2>1
  <2>3. old.weights \in [DOMAIN old.weights -> Nat]
    BY <1>5, SharesTyped
  <2> QED BY <2>2, <2>3
<1>8. amount \in Nat
  BY <1>5, <1>7, ShareBounds
<1>9. old.totalReleased \in Nat /\ total \in Nat /\ old.budget \in Nat
  BY <1>5, <1>8 DEF JobRecord
<1> HIDE DEF amount
<1>10. /\ job \in JobRecord /\ job.released = old.released \union {m}
      /\ job.totalReleased = total /\ job.closed = ends
      /\ job.weights = old.weights /\ job.budget = old.budget /\ job.currency = old.currency
      /\ job.milestoneCount = old.milestoneCount /\ job.milestonesAdded = old.milestonesAdded
      /\ job.awardedAt = old.awardedAt /\ job.disputeOpen = old.disputeOpen
      /\ job.disputePayoutBps = old.disputePayoutBps /\ job.passThreshold = old.passThreshold
  BY <1>2, <1>5, <1>9, <1>3 DEF JobRecord
<1>11. Earned(job) = total
  BY <1>5, <1>7, <1>10, ReleaseEarns DEF amount
<1>12. total <= old.budget
  <2>1. DOMAIN job.weights = {} \/ SumFunction(job.weights) = AllBps
    BY <1>5, <1>10 DEF SoundJob
  <2> QED BY <1>10, <1>11, <2>1, EarnedWithinBudget
<1>13. PICK payment : payment = [agent |-> paid[id].agent + amount, owner |-> paid[id].owner + 0]
  OBVIOUS
<1>14. /\ payment \in Payment /\ payment.agent = total /\ payment.owner = 0
       /\ payment.agent + payment.owner = paid[id].agent + paid[id].owner + amount
  BY <1>5, <1>8, <1>9, <1>13 DEF Payment
<1>15. /\ paid' = [paid EXCEPT ![id] = payment]
       /\ escrow[job.currency] >= amount
       /\ escrow' = [escrow EXCEPT ![job.currency] = @ - amount]
  <2>1. paid' = [paid EXCEPT ![id] = payment]
    BY <1>4, <1>13 DEF payout
  <2>2. amount + 0 = amount /\ job.currency = jobs[id].currency
    BY <1>8, <1>10
  <2> QED BY <1>4, <2>1, <2>2 DEF payout
<1>16. SoundJob(job, payment)
  <2>1. job.closed => total = old.budget
    BY <1>9, <1>10, <1>12, <1>3
  <2>2. old.awardedAt # 0 /\ old.released \union {m} \subseteq DOMAIN old.weights
    BY <1>5, <1>6, <1>7 DEF SoundJob, Awarded
  <2> HIDE DEF total
  <2> QED
    BY <1>5, <1>9, <1>10, <1>11, <1>12, <1>14, <2>1, <2>2 DEF SoundJob
<1>17. EarnedByPassing(id, job)
  <2>1. PassedFor(h, id, job, m)
    BY <1>4, <1>10 DEF PassedBy, PassedFor
  <2>2. \A i \in old.released : \E x \in RequestHashes : PassedFor(x, id, job, i)
    BY <1>5, <1>10 DEF EarnedByPassing, PassedFor
  <2> QED BY <1>10, <1>11, <2>1, <2>2 DEF EarnedByPassing
<1> QED
  BY <1>4, <1>8, <1>10, <1>14, <1>15, <1>16, <1>17, JobChanges

\* The calls that end a job: the record gets its final total, the money of the job is shared
\* out between agent and owner.
LEMMA ClosingKeeps ==
  ASSUME BoardInv, NEW id \in JobIds, NEW job, NEW total \in Nat, NEW refund \in Nat,
         Posted(id), ~jobs[id].closed, Awarded(id),
         job = [jobs[id] EXCEPT !.totalReleased = total, !.closed = TRUE],
         total >= jobs[id].totalReleased, total + refund = jobs[id].budget,
         refund > 0 => jobs[id].disputeOpen,
         \/ total = jobs[id].totalReleased
         \/ /\ total = jobs[id].budget
            /\ \E h \in RequestHashes : PassedBy(h, id, jobs[id].milestoneCount)
         \/ /\ jobs[id].disputeOpen
            /\ total = Share(jobs[id], jobs[id].disputePayoutBps),
         jobs' = [jobs EXCEPT ![id] = job],
         payout(id, total - jobs[id].totalReleased, refund),
         UNCHANGED <<nextJobId, requests, responses, gifts, blockTime, defaultPassThreshold>>
  PROVE  BoardInv'
<1> DEFINE old == jobs[id]
           toAgent == total - old.totalReleased
           out == toAgent + refund
<1>1. /\ old \in JobRecord /\ paid[id] \in Payment
      /\ SoundJob(old, paid[id]) /\ EarnedByPassing(id, old)
      /\ old.totalReleased = Earned(old)
      /\ paid[id].agent = old.totalReleased /\ paid[id].owner = 0
      /\ \A c \in Currencies : escrow[c] \in Nat
  BY OpenJob
<1>2. old.totalReleased \in Nat /\ old.budget \in Nat /\ toAgent \in Nat /\ out \in Nat
  BY <1>1 DEF JobRecord
<1>3. /\ job \in JobRecord /\ job.released = old.released
      /\ job.totalReleased = total /\ job.closed
      /\ job.weights = old.weights /\ job.budget = old.budget /\ job.currency = old.currency
      /\ job.milestoneCount = old.milestoneCount /\ job.milestonesAdded = old.milestonesAdded
      /\ job.awardedAt = old.awardedAt /\ job.disputeOpen = old.disputeOpen
      /\ job.disputePayoutBps = old.disputePayoutBps /\ job.passThreshold = old.passThreshold
  BY <1>1 DEF JobRecord
<1>4. Earned(job) = Earned(old)
  BY <1>3, EarnedSame
<1>5. PICK payment : payment = [agent |-> paid[id].agent + toAgent, owner |-> paid[id].owner + refund]
  OBVIOUS
<1>6. /\ payment \in Payment /\ payment.agent = total /\ payment.owner = refund
      /\ payment.agent + payment.owner = paid[id].agent + paid[id].owner + out
  BY <1>1, <1>2, <1>5 DEF Payment
<1>7. /\ paid' = [paid EXCEPT ![id] = payment]
      /\ escrow[job.currency] >= out
      /\ escrow' = [escrow EXCEPT ![job.currency] = @ - out]
  BY <1>1, <1>3, <1>5 DEF payout, BoardInv, BoardTyped
<1>8. SoundJob(job, payment)
  BY <1>1, <1>2, <1>3, <1>4, <1>6 DEF SoundJob, Awarded
<1>9. EarnedByPassing(id, job)
  <2>1. \A i \in job.released : \E x \in RequestHashes : PassedFor(x, id, job, i)
    BY <1>1, <1>3 DEF EarnedByPassing, PassedFor
  <2>2. Share(job, job.disputePayoutBps) = Share(old, old.disputePayoutBps)
    BY <1>3 DEF Share
  <2>3. \A h \in RequestHashes :
          PassedBy(h, id, old.milestoneCount) => PassedFor(h, id, job, job.milestoneCount)
    BY <1>3 DEF PassedBy, PassedFor
  <2> QED BY <1>1, <1>3, <1>4, <2>1, <2>2, <2>3 DEF EarnedByPassing
<1> HIDE DEF toAgent, out
<1> QED
  BY <1>2, <1>3, <1>6, <1>7, <1>8, <1>9, JobChanges

\* finalize of the whole job pays the remainder: the last request is passed.
LEMMA FinalizeJobKeeps ==
  ASSUME BoardInv, NEW id \in JobIds, NEW h \in RequestHashes, finalizeJob(id, h)
  PROVE  BoardInv'
<1>1. PICK total, job : /\ total = jobs[id].budget
                        /\ job = [jobs[id] EXCEPT !.totalReleased = total, !.closed = TRUE]
  OBVIOUS
<1>2. ~jobs[id].closed /\ Posted(id) /\ PassedBy(h, id, jobs[id].milestoneCount)
  BY DEF finalizeJob
<1>3. /\ jobs[id] \in JobRecord /\ jobs[id].totalReleased <= jobs[id].budget
  BY <1>2, OpenJob
<1>4. total \in Nat /\ total >= jobs[id].totalReleased /\ total + 0 = jobs[id].budget
  BY <1>1, <1>3 DEF JobRecord
<1>5. Awarded(id)
  BY <1>2, PassedAwarded
<1>6. /\ jobs' = [jobs EXCEPT ![id] = job]
      /\ payout(id, total - jobs[id].totalReleased, 0)
      /\ UNCHANGED <<nextJobId, requests, responses, gifts, blockTime, defaultPassThreshold>>
  <2>1. payout(id, jobs[id].budget - jobs[id].totalReleased, 0)
    BY DEF finalizeJob
  <2>2. jobs' = [jobs EXCEPT ![id] = job]
    BY <1>1 DEF finalizeJob, BoardInv, BoardTyped
  <2> QED BY <1>1, <2>1, <2>2 DEF finalizeJob
<1>7. job = [jobs[id] EXCEPT !.totalReleased = total, !.closed = TRUE]
  BY <1>1
<1>8. 0 \in Nat /\ (0 > 0 => jobs[id].disputeOpen)
  OBVIOUS
<1> QED
  BY <1>1, <1>2, <1>4, <1>5, <1>6, <1>7, <1>8, ClosingKeeps

\* acceptDispute pays the proposed share of the budget and refunds the rest.
LEMMA AcceptKeeps ==
  ASSUME BoardInv, NEW id \in JobIds, acceptDispute(id)
  PROVE  BoardInv'
<1> DEFINE target == Share(jobs[id], jobs[id].disputePayoutBps)
<1>1. PICK total, refund, job :
        /\ total = target /\ refund = jobs[id].budget - target
        /\ job = [jobs[id] EXCEPT !.totalReleased = total, !.closed = TRUE]
  OBVIOUS
<1>2. ~jobs[id].closed /\ jobs[id].disputeOpen /\ target >= jobs[id].totalReleased
  BY DEF acceptDispute
<1>3. jobs[id] \in JobRecord /\ SoundJob(jobs[id], paid[id])
  BY <1>2, OpenJob
<1>4. jobs[id].disputePayoutBps \in Nat /\ jobs[id].disputePayoutBps <= AllBps
        /\ jobs[id].budget \in Nat
  BY <1>3 DEF SoundJob, JobRecord
<1>5. target \in Nat /\ target <= jobs[id].budget
  BY <1>3, <1>4, ShareBounds
<1>6. Posted(id) /\ Awarded(id)
  BY <1>2, <1>3, OnlyPosted DEF SoundJob, Awarded
<1>7. /\ jobs' = [jobs EXCEPT ![id] = job]
      /\ payout(id, total - jobs[id].totalReleased, refund)
      /\ UNCHANGED <<nextJobId, requests, responses, gifts, blockTime, defaultPassThreshold>>
  <2>1. payout(id, target - jobs[id].totalReleased, jobs[id].budget - target)
    BY DEF acceptDispute
  <2>2. jobs' = [jobs EXCEPT ![id] = job]
    BY <1>1 DEF acceptDispute, BoardInv, BoardTyped
  <2> QED BY <1>1, <2>1, <2>2 DEF acceptDispute
<1> HIDE DEF target
<1>8. /\ total \in Nat /\ refund \in Nat /\ total >= jobs[id].totalReleased
      /\ total + refund = jobs[id].budget
  BY <1>1, <1>2, <1>4, <1>5
<1>9. total = Share(jobs[id], jobs[id].disputePayoutBps)
  BY <1>1 DEF target
<1> QED
  BY <1>1, <1>2, <1>6, <1>7, <1>8, <1>9, ClosingKeeps

\* reclaimRemainder refunds what the agent did not earn.
LEMMA ReclaimKeeps ==
  ASSUME BoardInv, NEW id \in JobIds, reclaimRemainder(id)
  PROVE  BoardInv'
<1>1. PICK total, refund, job :
        /\ total = jobs[id].totalReleased /\ refund = jobs[id].budget - jobs[id].totalReleased
        /\ job = [jobs[id] EXCEPT !.totalReleased = total, !.closed = TRUE]
  OBVIOUS
<1>2. ~jobs[id].closed /\ jobs[id].disputeOpen
  BY DEF reclaimRemainder
<1>3. /\ jobs[id] \in JobRecord /\ SoundJob(jobs[id], paid[id])
      /\ jobs[id].totalReleased <= jobs[id].budget
  BY <1>2, OpenJob
<1>4. /\ total \in Nat /\ refund \in Nat /\ total >= jobs[id].totalReleased
      /\ total + refund = jobs[id].budget /\ total - jobs[id].totalReleased = 0
  BY <1>1, <1>3 DEF JobRecord
<1>5. Posted(id) /\ Awarded(id)
  BY <1>2, <1>3, OnlyPosted DEF SoundJob, Awarded
<1>6. /\ jobs' = [jobs EXCEPT ![id] = job]
      /\ payout(id, total - jobs[id].totalReleased, refund)
      /\ UNCHANGED <<nextJobId, requests, responses, gifts, blockTime, defaultPassThreshold>>
  <2>1. payout(id, 0, jobs[id].budget - jobs[id].totalReleased)
    BY DEF reclaimRemainder
  <2>2. jobs' = [jobs EXCEPT ![id] = job]
    <3>1. jobs[id].totalReleased = total /\ jobs \in [JobIds -> JobRecord]
      BY <1>1 DEF BoardInv, BoardTyped
    <3>2. job = [jobs[id] EXCEPT !.closed = TRUE]
      BY <1>1, <1>3 DEF JobRecord
    <3>3. jobs' = [jobs EXCEPT ![id].closed = TRUE]
      BY DEF reclaimRemainder
    <3> QED BY <3>1, <3>2, <3>3
  <2> QED BY <1>1, <1>4, <2>1, <2>2 DEF reclaimRemainder
<1>7. total = jobs[id].totalReleased
  BY <1>1
<1> QED
  BY <1>1, <1>2, <1>4, <1>5, <1>6, <1>7, ClosingKeeps

\* openDispute records a proposal and moves no money.
LEMMA OpenKeeps ==
  ASSUME BoardInv, NEW id \in JobIds, NEW bps \in PayoutBps, openDispute(id, bps)
  PROVE  BoardInv'
<1>1. PICK job : job = [jobs[id] EXCEPT !.disputeOpen = TRUE, !.disputePayoutBps = bps]
  OBVIOUS
<1>2. ~jobs[id].closed /\ Awarded(id) /\ bps <= AllBps /\ bps \in Nat
  BY JobConstants DEF openDispute
<1>3. /\ jobs[id] \in JobRecord /\ paid[id] \in Payment
      /\ SoundJob(jobs[id], paid[id]) /\ EarnedByPassing(id, jobs[id])
      /\ jobs[id].totalReleased = Earned(jobs[id])
      /\ \A c \in Currencies : escrow[c] \in Nat
  BY <1>2, OpenJob
<1>4. /\ job \in JobRecord /\ job.weights = jobs[id].weights /\ job.released = jobs[id].released
      /\ job.milestonesAdded = jobs[id].milestonesAdded
      /\ job.totalReleased = jobs[id].totalReleased /\ ~job.closed
      /\ job.awardedAt = jobs[id].awardedAt /\ job.awardedAt # 0
      /\ job.milestoneCount = jobs[id].milestoneCount /\ job.budget = jobs[id].budget
      /\ job.currency = jobs[id].currency /\ job.disputePayoutBps = bps
      /\ job.passThreshold = jobs[id].passThreshold
  BY <1>1, <1>2, <1>3 DEF JobRecord, Awarded
<1>5. Earned(job) = Earned(jobs[id])
  BY <1>4, EarnedSame
<1>6. SoundJob(job, paid[id])
  BY <1>2, <1>3, <1>4, <1>5 DEF SoundJob
<1>7. EarnedByPassing(id, job)
  BY <1>3, <1>4, <1>5 DEF EarnedByPassing, PassedFor
<1>8. PICK payment : payment = paid[id]
  OBVIOUS
<1>9. /\ paid' = [paid EXCEPT ![id] = payment]
      /\ escrow' = [escrow EXCEPT ![job.currency] = @ - 0]
      /\ escrow[job.currency] >= 0
      /\ payment.agent + payment.owner = paid[id].agent + paid[id].owner + 0
  BY <1>3, <1>4, <1>8 DEF BoardInv, BoardTyped, openDispute, JobRecord, Payment
<1>10. /\ jobs' = [jobs EXCEPT ![id] = job] /\ Posted(id)
       /\ UNCHANGED <<nextJobId, requests, responses, gifts, blockTime, defaultPassThreshold>>
  <2>1. Posted(id)
    BY <1>2, OnlyPosted
  <2>2. jobs' = [jobs EXCEPT ![id] = job]
    BY <1>1 DEF BoardInv, BoardTyped, openDispute
  <2> QED BY <2>1, <2>2 DEF openDispute
<1> QED
  BY <1>2, <1>3, <1>4, <1>6, <1>7, <1>8, <1>9, <1>10, JobChanges

\* Requests and responses are recorded once: what passed stays passed.
LEMMA RecordsKeep ==
  ASSUME BoardInv, BoardTyped', RequestsAreForAwarded',
         \A h \in RequestHashes : requests[h] # NoRequest => requests'[h] = requests[h],
         \A h \in RequestHashes : responses[h] # NoScore => responses'[h] = responses[h],
         UNCHANGED <<jobs, nextJobId, escrow, paid, gifts>>
  PROVE  BoardInv'
<1>1. ASSUME NEW id \in JobIds, NEW h \in RequestHashes, NEW m,
             PassedFor(h, id, jobs[id], m)
      PROVE  PassedFor(h, id, jobs[id], m)'
  <2>1. requests[h] # NoRequest
    BY <1>1 DEF PassedFor, NoRequest, JobIds
  <2> QED BY <1>1, <2>1 DEF PassedFor
<1>2. ASSUME NEW id \in JobIds
      PROVE  EarnedByPassing(id, jobs[id])'
  BY <1>1 DEF BoardInv, EarnedByPassing
<1> QED
  BY <1>2 DEF BoardInv, Posted, EscrowCoversJobs

\* A new request takes a free hash, so what earlier requests passed stays passed.
LEMMA RequestKeeps ==
  ASSUME BoardInv, NEW id \in JobIds, NEW m \in Nat, NEW h \in RequestHashes,
         requestValidation(id, m, h)
  PROVE  BoardInv'
<1>1. BoardTyped'
  <2>1. requests' \in [RequestHashes -> [job : Nat, milestone : Nat]]
    BY DEF requestValidation, BoardInv, BoardTyped, JobIds
  <2> QED BY <2>1 DEF requestValidation, BoardInv, BoardTyped
<1>2. requests'[h] = [job |-> id, milestone |-> m] /\ requests[h] = NoRequest
        /\ \A x \in RequestHashes \ {h} : requests'[x] = requests[x]
  BY DEF requestValidation, BoardInv, BoardTyped
<1>3. RequestsAreForAwarded'
  <2>1. Awarded(id) /\ UNCHANGED jobs
    BY DEF requestValidation
  <2> QED BY <1>2, <2>1 DEF BoardInv, RequestsAreForAwarded, Awarded
<1> QED
  BY <1>1, <1>2, <1>3, RecordsKeep DEF requestValidation

\* A response is given once, so what was passed stays passed.
LEMMA ResponseKeeps ==
  ASSUME BoardInv, NEW h \in RequestHashes, NEW score \in Scores, submitValidation(h, score)
  PROVE  BoardInv'
<1>1. BoardTyped'
  BY JobConstants DEF submitValidation, BoardInv, BoardTyped
<1>2. RequestsAreForAwarded'
  BY DEF submitValidation, BoardInv, RequestsAreForAwarded, Awarded
<1>3. responses[h] = NoScore /\ \A x \in RequestHashes \ {h} : responses'[x] = responses[x]
  BY DEF submitValidation, BoardInv, BoardTyped
<1> QED
  BY <1>1, <1>2, <1>3, RecordsKeep DEF submitValidation

\* ETH that comes by itself is in the purse and owed to nobody.
LEMMA GiftKeeps ==
  ASSUME BoardInv, NEW amount \in Gifts, receive(amount)
  PROVE  BoardInv'
<1>1. /\ gifts \in Nat /\ gifts' = gifts + amount /\ amount \in Nat
      /\ escrow \in [Currencies -> Nat] /\ Eth \in Currencies
      /\ escrow' = [escrow EXCEPT ![Eth] = @ + amount]
      /\ UNCHANGED <<jobs, nextJobId, requests, responses, paid, blockTime, defaultPassThreshold>>
  BY JobConstants DEF receive, BoardInv, BoardTyped
<1>2. BoardTyped'
  BY <1>1 DEF BoardInv, BoardTyped
<1>3. EscrowCoversJobs'
  <2> SUFFICES ASSUME NEW c \in Currencies
               PROVE  escrow'[c] = SumFunction(OwedBy(jobs, c)) + GiftsIn(c, gifts')
    BY <1>1 DEF EscrowCoversJobs, OwedBy, GiftsIn
  <2>1. escrow[c] = SumFunction(OwedBy(jobs, c)) + GiftsIn(c, gifts)
    BY DEF BoardInv, EscrowCoversJobs, OwedBy, GiftsIn
  <2>2. SumFunction(OwedBy(jobs, c)) \in Nat
    <3>1. \A x \in JobIds : Owed(c, jobs[x]) \in Nat
      BY OwedTyped DEF BoardInv
    <3>2. OwedBy(jobs, c) \in [JobIds -> Nat]
      BY <3>1 DEF OwedBy
    <3>3. IsFiniteSet(JobIds)
      BY JobConstants, FS_Interval DEF JobIds
    <3> QED BY <3>2, <3>3, SumBounds
  <2> QED BY <1>1, <2>1, <2>2 DEF GiftsIn
<1> QED
  BY <1>1, <1>2, <1>3 DEF BoardInv, Posted, RequestsAreForAwarded, Awarded, EarnedByPassing, PassedFor

-----------------------------------------------------------------------------
(* The theorems.                                                           *)

\* Every step of the board keeps its invariant, action by action.
LEMMA NextKeepsBoard == BoardInv /\ [JobsNext]_boardVars => BoardInv'
<1> SUFFICES ASSUME BoardInv, [JobsNext]_boardVars PROVE BoardInv'
  OBVIOUS
<1> USE JobConstants
<1>1. blockTime \in Nat \ {0} /\ defaultPassThreshold \in Nat
  BY DEF BoardInv, BoardTyped
<1>2. ASSUME NEW newWindow \in DisputeWindows, setDisputeWindowSeconds(newWindow)
      PROVE  BoardInv'
  BY <1>1, <1>2, BoardStays DEF setDisputeWindowSeconds
<1>3. ASSUME NEW newThreshold \in DefaultThresholds, setDefaultPassThreshold(newThreshold)
      PROVE  BoardInv'
  BY <1>1, <1>3, BoardStays DEF setDefaultPassThreshold
<1>4. ASSUME NEW currency \in Currencies, NEW budget \in Budgets, NEW plan \in MilestonePlans,
             NEW passThreshold \in PassThresholds,
             postJob(currency, budget, Cardinality(DOMAIN plan), passThreshold)
      PROVE  BoardInv'
  <2>1. Cardinality(DOMAIN plan) \in Nat
    <3>1. IsFiniteSet(DOMAIN plan)
      OBVIOUS
    <3> QED BY <3>1, FS_CardinalityType
  <2> QED BY <1>4, <2>1, PostKeeps
<1>5. ASSUME NEW id \in JobIds, NEW weights \in MilestonePlans, addMilestones(id, weights)
      PROVE  BoardInv'
  BY <1>5, MilestonesKeep
<1>6. ASSUME NEW id \in JobIds, award(id)
      PROVE  BoardInv'
  BY <1>6, AwardKeeps
<1>7. ASSUME NEW id \in JobIds, NEW bps \in PayoutBps, openDispute(id, bps)
      PROVE  BoardInv'
  BY <1>7, OpenKeeps
<1>8. ASSUME NEW id \in JobIds, acceptDispute(id) \/ reclaimRemainder(id)
      PROVE  BoardInv'
  BY <1>8, AcceptKeeps, ReclaimKeeps
<1>9. ASSUME NEW id \in JobIds, NEW milestone \in 0..jobs[id].milestoneCount
      PROVE  milestone \in Nat
  OBVIOUS
<1>10. ASSUME NEW id \in JobIds, NEW milestone \in Nat, submitProof(id, milestone)
       PROVE  BoardInv'
  BY <1>1, <1>10, BoardStays DEF submitProof
<1>11. ASSUME NEW id \in JobIds, NEW milestone \in Nat, NEW h \in RequestHashes,
              requestValidation(id, milestone, h) \/ finalizeMilestone(id, milestone, h)
       PROVE  BoardInv'
  BY <1>11, RequestKeeps, FinalizeMilestoneKeeps
<1>12. ASSUME NEW id \in JobIds, NEW h \in RequestHashes, finalizeJob(id, h)
       PROVE  BoardInv'
  BY <1>12, FinalizeJobKeeps
<1>13. ASSUME NEW h \in RequestHashes, NEW score \in Scores, submitValidation(h, score)
       PROVE  BoardInv'
  BY <1>13, ResponseKeeps
<1>14. ASSUME NEW amount \in Gifts, receive(amount)
       PROVE  BoardInv'
  BY <1>14, GiftKeeps
<1>15. CASE NextBlock
  BY <1>1, <1>15, BoardStays DEF NextBlock
<1>16. CASE UNCHANGED boardVars
  BY <1>1, <1>16, BoardStays DEF boardVars
<1> QED
  BY <1>2, <1>3, <1>4, <1>5, <1>6, <1>7, <1>8, <1>9, <1>10, <1>11, <1>12, <1>13, <1>14, <1>15,
     <1>16 DEF JobsNext

\* The invariant holds in every behaviour.
LEMMA BoardAlways == JobsSpec => []BoardInv
BY InitBoard, NextKeepsBoard, PTL DEF JobsSpec

\* What the inductive invariant says about jobs is the property the run checks.
LEMMA BoardIsExact == BoardInv => JobsAreExact
<1> SUFFICES ASSUME BoardInv PROVE JobsAreExact
  OBVIOUS
<1>1. \A id \in JobIds :
        SoundJob(jobs[id], paid[id]) /\ EarnedByPassing(id, jobs[id])
  BY DEF BoardInv
<1>2. JobsTypeOK
  <2>1. ASSUME NEW id \in JobIds
        PROVE  /\ jobs[id].currency \in Currencies
               /\ jobs[id].budget \in Nat /\ jobs[id].totalReleased \in Nat
               /\ jobs[id].awardedAt \in Nat /\ jobs[id].milestoneCount \in Nat
               /\ jobs[id].released \subseteq DOMAIN jobs[id].weights
               /\ paid[id] \in [agent : Nat, owner : Nat]
    BY <1>1 DEF SoundJob, JobRecord, Payment
  <2> QED BY <2>1 DEF BoardInv, BoardTyped, JobsTypeOK
<1>3. AgentEarnsWhatPassed
  BY <1>1 DEF SoundJob, EarnedByPassing, PassedFor, PassedBy, AgentEarnsWhatPassed
<1>4. BudgetIsSplit
  BY <1>1 DEF SoundJob, BudgetIsSplit
<1> QED
  BY <1>2, <1>3, <1>4 DEF BoardInv, JobsAreExact

\* Every purse of the job board holds, at all times and for any jobs, what its open jobs have
\* not paid and the gifts: whatever the rounding of milestones and disputed shares, no job
\* is paid from the budget of another.
THEOREM PursesCoverJobs == JobsSpec => []EscrowCoversJobs
<1>1. BoardInv => EscrowCoversJobs
  BY DEF BoardInv
<1> QED
  BY BoardAlways, <1>1, PTL

\* The books of JobBoardEscrow.sol are in order for any jobs, budgets, weights, validators'
\* scores, disputes and timing: what passed is paid, what is paid passed or was agreed in a
\* dispute, and a closed job has shared out exactly its budget.
THEOREM JobsStayExact == JobsSpec => []JobsAreExact
BY BoardAlways, BoardIsExact, PTL
==============================================================================
