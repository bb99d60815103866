----------------------------- MODULE LadderProofs -----------------------------
(***************************************************************************)
(* Proofs about AuditorRegistry and DisputeLadder for any accounts,        *)
(* amounts, sizes, random words and owner.  First the registry: every      *)
(* action changes the stake of one account at most; what the registry      *)
(* holds, who is active, what is locked and how many experts there are     *)
(* each follow from that change.  Then the ladder: what the loops over     *)
(* the auditors collect, what a draw and the experts' replacement seat,    *)
(* what each function does to its dispute and round (Moved), what that     *)
(* does to the other disputes and to the money, and the theorems.          *)
(***************************************************************************)
EXTENDS DisputeLadder, SumTheorems, TLAPS

-----------------------------------------------------------------------------
(* The experts.                                                            *)

\* The set whose size humanExpertCount is to be.
Experts == {a \in Accounts : isHumanExpert[a]}

\* An inductive invariant of its own: only three actions touch it.
Counted == isHumanExpert \in [Accounts -> BOOLEAN] /\ ExpertsCounted

\* The count is a natural number, and positive while there is an expert.
LEMMA CountPositive ==
  ASSUME Counted
  PROVE  /\ IsFiniteSet(Experts) /\ humanExpertCount = Cardinality(Experts)
         /\ humanExpertCount \in Nat
         /\ \A a \in Accounts : isHumanExpert[a] => humanExpertCount > 0
<1>1. IsFiniteSet(Experts) /\ humanExpertCount = Cardinality(Experts)
  BY RegistryConstants, FS_Subset DEF Experts, Counted, ExpertsCounted
<1>2. Cardinality(Experts) \in Nat /\ (Cardinality(Experts) = 0 <=> Experts = {})
  BY <1>1, FS_CardinalityType, FS_EmptySet
<1> QED
  BY <1>1, <1>2 DEF Experts

\* Nobody is an expert at deployment.
LEMMA InitCounted == RegistryInit => Counted
<1> SUFFICES ASSUME RegistryInit PROVE Counted
  OBVIOUS
<1>1. {a \in Accounts : isHumanExpert[a]} = {}
  BY DEF RegistryInit
<1> QED
  BY <1>1, FS_EmptySet DEF RegistryInit, Counted, ExpertsCounted

\* Registering adds one element to the experts and removing takes one out; nothing else
\* touches them.
LEMMA NextCounted == Counted /\ [RegistryNext]_<<registryVars, wethOf>> => Counted'
<1> SUFFICES ASSUME Counted, [RegistryNext]_<<registryVars, wethOf>>
             PROVE  Counted'
  OBVIOUS
<1>1. /\ isHumanExpert \in [Accounts -> BOOLEAN]
      /\ IsFiniteSet(Experts) /\ humanExpertCount = Cardinality(Experts)
      /\ humanExpertCount \in Nat
  BY CountPositive DEF Counted
<1>2. ASSUME NEW a \in Accounts, registerAsHumanExpert(a)
      PROVE  Counted'
  <2>1. /\ isHumanExpert' = [isHumanExpert EXCEPT ![a] = TRUE] /\ ~isHumanExpert[a]
        /\ humanExpertCount' = humanExpertCount + 1
    BY <1>2 DEF registerAsHumanExpert
  <2>2. {x \in Accounts : isHumanExpert'[x]} = Experts \union {a} /\ a \notin Experts
    BY <1>1, <2>1 DEF Experts
  <2>3. Cardinality(Experts \union {a}) = Cardinality(Experts) + 1
    BY <1>1, <2>2, FS_AddElement
  <2> QED BY <1>1, <2>1, <2>2, <2>3 DEF Counted, ExpertsCounted
<1>3. ASSUME NEW a \in Accounts, removeHumanExpert(a)
      PROVE  Counted'
  <2>1. /\ isHumanExpert' = [isHumanExpert EXCEPT ![a] = FALSE] /\ isHumanExpert[a]
        /\ humanExpertCount' = humanExpertCount - 1
    BY <1>3 DEF removeHumanExpert
  <2>2. {x \in Accounts : isHumanExpert'[x]} = Experts \ {a} /\ a \in Experts
    BY <1>1, <2>1 DEF Experts
  <2>3. Cardinality(Experts \ {a}) = Cardinality(Experts) - 1
    BY <1>1, <2>2, FS_RemoveElement
  <2> QED BY <1>1, <2>1, <2>2, <2>3 DEF Counted, ExpertsCounted
<1>4. ASSUME UNCHANGED <<isHumanExpert, humanExpertCount>>
      PROVE  Counted'
  BY <1>4 DEF Counted, ExpertsCounted
<1> QED
  BY <1>2, <1>3, <1>4
     DEF RegistryNext, registryVars, stake, unstake, lockAuditorStake, slashAuditor, slashTo,
         reward, setMinStake, setMinHumanExpertStake

-----------------------------------------------------------------------------
(* The WETH of the registry.                                               *)

\* Types and backing are inductive together: the subtractions from the registry's WETH
\* stay natural because it holds every stake.
Backed == RegistryTypeOK /\ RegistryBacked

\* Only the stake of a changes, to n, and the registry's WETH by as much.
StakeMoves(a, n) ==
  /\ stakeOf' = [stakeOf EXCEPT ![a] = n]
  /\ registryWeth' = registryWeth + n - stakeOf[a]

\* Such a step keeps the registry backed and its WETH natural.
LEMMA StakeMovesBacked ==
  ASSUME Backed, NEW a \in Accounts, NEW n \in Nat, StakeMoves(a, n)
  PROVE  /\ RegistryBacked'
         /\ registryWeth' \in Nat
         /\ stakeOf' \in [Accounts -> Nat]
<1> DEFINE f == stakeOf
           h == stakeOf'
<1>1. /\ f \in [Accounts -> Nat] /\ h \in [Accounts -> Nat]
      /\ h[a] = n /\ f[a] \in Nat
      /\ \A y \in Accounts \ {a} : f[y] = h[y]
      /\ registryWeth' = registryWeth + n - f[a]
      /\ registryWeth = SumFunction(f)
  BY DEF Backed, RegistryTypeOK, RegistryBacked, StakeMoves
<1> HIDE DEF f, h
<1>2. f \in [Accounts -> Int] /\ h \in [Accounts -> Int]
  BY <1>1
<1>3. SumFunction(h) = SumFunction(f) + h[a] - f[a]
  BY <1>1, <1>2, RegistryConstants, SumChanged
<1>4. SumFunction(f) \in Nat /\ SumFunction(h) \in Nat
  BY <1>1, RegistryConstants, SumBounds
<1>5. registryWeth' = SumFunction(h)
  BY <1>1, <1>3, <1>4
<1> QED
  BY <1>1, <1>4, <1>5 DEF RegistryBacked, h

\* Appending an account that is not listed keeps the list free of repetitions
\* (AuditorRegistry.sol:71-74).
LEMMA AppendKeepsInjective ==
  ASSUME NEW s \in Seq(Accounts), IsInjective(s), NEW a \in Accounts, a \notin Range(s)
  PROVE  Append(s, a) \in Seq(Accounts) /\ IsInjective(Append(s, a))
<1> DEFINE r == Append(s, a)
<1>1. /\ r \in Seq(Accounts) /\ DOMAIN r = 1..Len(s) + 1
      /\ r[Len(s) + 1] = a
      /\ \A i \in 1..Len(s) : r[i] = s[i]
      /\ DOMAIN s = 1..Len(s) /\ Len(s) \in Nat
  OBVIOUS
<1>2. \A i \in 1..Len(s) : s[i] # a
  BY <1>1 DEF Range
<1>3. \A i, j \in DOMAIN s : s[i] = s[j] => i = j
  BY DEF IsInjective
<1> HIDE DEF r
<1>4. \A i, j \in DOMAIN r : r[i] = r[j] => i = j
  <2> SUFFICES ASSUME NEW i \in DOMAIN r, NEW j \in DOMAIN r, r[i] = r[j] PROVE i = j
    OBVIOUS
  <2>1. i \in 1..Len(s) \/ i = Len(s) + 1
    BY <1>1
  <2>2. j \in 1..Len(s) \/ j = Len(s) + 1
    BY <1>1
  <2> QED BY <1>1, <1>2, <1>3, <2>1, <2>2
<1> QED
  BY <1>1, <1>4 DEF IsInjective, r

\* At deployment the registry holds nothing and nobody is listed.
LEMMA InitBacked == RegistryInit => Backed
<1> SUFFICES ASSUME RegistryInit PROVE Backed
  OBVIOUS
<1> USE RegistryConstants
<1>1. minHumanExpertStake \in Nat /\ minStake \in Nat
  BY DEF RegistryInit
<1>2. auditorList \in Seq(Accounts) /\ IsInjective(auditorList)
  BY DEF RegistryInit, IsInjective
<1>3. RegistryTypeOK
  BY <1>1, <1>2 DEF RegistryInit, RegistryTypeOK
<1>4. SumFunction(stakeOf) = 0
  BY SumZero DEF RegistryInit
<1> QED
  BY <1>3, <1>4 DEF Backed, RegistryBacked, RegistryInit

\* What a slash leaves locked (AuditorRegistry.sol:195-199) is a natural number, even if
\* the three-argument slash has left more locked than staked; and covered if it was covered.
LEMMA SlashLeavesLock ==
  ASSUME RegistryTypeOK, NEW a \in Accounts, NEW amount \in Nat,
         lockedStake[a] > 0 => stakeOf[a] > 0
  PROVE  LET c == Capped(a, amount)
         IN  /\ c \in 0..stakeOf[a]
             /\ LockedAfterSlash(a, c) \in Nat
             /\ lockedStake[a] <= stakeOf[a] => LockedAfterSlash(a, c) <= stakeOf[a] - c
<1> DEFINE c == Capped(a, amount)
           s == stakeOf[a]
           l == lockedStake[a]
<1>1. s \in Nat /\ l \in Nat
  BY DEF RegistryTypeOK
<1>2. c \in 0..s
  BY <1>1 DEF Capped
<1> HIDE DEF c
<1>3. CASE l = 0
  BY <1>1, <1>2, <1>3 DEF LockedAfterSlash, c
<1>4. CASE l > 0
  <2> DEFINE q == (l * c) \div s
  <2>1. s \in Nat \ {0}
    BY <1>1, <1>4
  <2>2. q \in 0..l
    BY <1>1, <1>2, <2>1, ShareWithin
  <2>3. l <= s => l - q <= s - c
    <3> SUFFICES ASSUME l <= s PROVE l - q <= s - c
      OBVIOUS
    <3>1. l \in 0..s
      BY <1>1
    <3> HIDE DEF s, l
    <3> QED BY <1>2, <2>1, <3>1, ShareLeavesCover
  <2>4. LockedAfterSlash(a, c) = l - q
    BY <1>4 DEF LockedAfterSlash
  <2> HIDE DEF q
  <2> QED BY <1>1, <1>2, <2>2, <2>3, <2>4 DEF c
<1> QED
  BY <1>1, <1>3, <1>4

\* TakeStake, which both slashes share, and the rest of the types.
LEMMA TakeStakeBacked ==
  ASSUME Backed, NEW a \in Accounts, NEW to \in Accounts, NEW c \in 0..stakeOf[a],
         TakeStake(a, c, to)
  PROVE  /\ RegistryBacked'
         /\ registryWeth' \in Nat
         /\ stakeOf' \in [Accounts -> Nat]
         /\ wethOf' \in [Accounts -> Nat]
         /\ active' \in [Accounts -> BOOLEAN]
<1>1. /\ stakeOf \in [Accounts -> Nat] /\ wethOf \in [Accounts -> Nat]
      /\ active \in [Accounts -> BOOLEAN] /\ registryWeth \in Nat
  BY DEF Backed, RegistryTypeOK
<1> DEFINE n == stakeOf[a] - c
<1>2. n \in Nat /\ StakeMoves(a, n)
  BY <1>1 DEF TakeStake, StakeMoves
<1> HIDE DEF n
<1>3. RegistryBacked' /\ registryWeth' \in Nat /\ stakeOf' \in [Accounts -> Nat]
  BY <1>2, StakeMovesBacked
<1>4. wethOf' \in [Accounts -> Nat] /\ active' \in [Accounts -> BOOLEAN]
  BY <1>1 DEF TakeStake, Deactivated
<1> QED
  BY <1>3, <1>4

\* Every call keeps the types and the backing, one action at a time.
LEMMA NextBacked == Counted /\ Backed /\ [RegistryNext]_<<registryVars, wethOf>> => Backed'
<1> SUFFICES ASSUME Counted, Backed, [RegistryNext]_<<registryVars, wethOf>>
             PROVE  Backed'
  OBVIOUS
<1> USE RegistryConstants
<1>1. /\ stakeOf \in [Accounts -> Nat] /\ lockedStake \in [Accounts -> Nat]
      /\ active \in [Accounts -> BOOLEAN] /\ isHumanExpert \in [Accounts -> BOOLEAN]
      /\ humanExpertCount \in Nat /\ registryWeth \in Nat /\ ownerEth \in Nat
      /\ minStake \in Nat /\ minHumanExpertStake \in Nat
      /\ wethOf \in [Accounts -> Nat] /\ auditorList \in Seq(Accounts)
      /\ slashedUnlocked \subseteq Accounts
  BY DEF Backed, RegistryTypeOK
<1>2. ASSUME NEW a \in Accounts, NEW amount \in StakeAmounts, stake(a, amount)
      PROVE  Backed'
  <2> DEFINE n == stakeOf[a] + amount
  <2>1. n \in Nat /\ StakeMoves(a, n)
    <3>1. amount \in Nat /\ stakeOf[a] \in Nat /\ registryWeth \in Nat
      BY <1>1
    <3>2. /\ registryWeth' = registryWeth + amount
          /\ stakeOf' = [stakeOf EXCEPT ![a] = @ + amount]
      BY <1>2 DEF stake
    <3>3. stakeOf' = [stakeOf EXCEPT ![a] = n]
      BY <3>2
    <3>4. n \in Nat /\ registryWeth' = registryWeth + n - stakeOf[a]
      BY <3>1, <3>2
    <3> QED BY <3>3, <3>4 DEF StakeMoves
  <2> HIDE DEF n
  <2>2. RegistryBacked' /\ registryWeth' \in Nat /\ stakeOf' \in [Accounts -> Nat]
    BY <2>1, StakeMovesBacked
  <2>3. auditorList' \in Seq(Accounts) /\ IsInjective(auditorList')
    <3>1. CASE Listed(a)
      BY <1>2, <3>1 DEF stake, Backed, RegistryTypeOK
    <3>2. CASE ~Listed(a)
      BY <1>2, <3>2, AppendKeepsInjective DEF stake, Listed, Backed, RegistryTypeOK
    <3> QED BY <3>1, <3>2
  <2>4. active' \in [Accounts -> BOOLEAN] /\ wethOf' \in [Accounts -> Nat]
    BY <1>1, <1>2 DEF stake, Activated
  <2>5. UNCHANGED <<minStake, minHumanExpertStake, lockedStake, isHumanExpert, humanExpertCount,
                    ownerEth, minStakeChanged, slashedUnlocked>>
    BY <1>2 DEF stake
  <2>6. minStakeChanged \in BOOLEAN
    BY DEF Backed, RegistryTypeOK
  <2> QED BY <1>1, <2>2, <2>3, <2>4, <2>5, <2>6 DEF Backed, RegistryTypeOK
<1>3. ASSUME NEW a \in Accounts, NEW amount \in StakeAmounts, unstake(a, amount)
      PROVE  Backed'
  <2> DEFINE n == stakeOf[a] - amount
  <2>1. n \in Nat /\ StakeMoves(a, n)
    <3>1. /\ amount \in Nat /\ stakeOf[a] \in Nat /\ lockedStake[a] \in Nat
          /\ registryWeth \in Nat
      BY <1>1
    <3>2. /\ stakeOf[a] >= amount + lockedStake[a] /\ registryWeth' = registryWeth - amount
          /\ stakeOf' = [stakeOf EXCEPT ![a] = @ - amount]
      BY <1>3 DEF unstake
    <3>3. stakeOf' = [stakeOf EXCEPT ![a] = n]
      BY <3>2
    <3>4. n \in Nat /\ registryWeth' = registryWeth + n - stakeOf[a]
      BY <3>1, <3>2
    <3> QED BY <3>3, <3>4 DEF StakeMoves
  <2> HIDE DEF n
  <2>2. RegistryBacked' /\ registryWeth' \in Nat /\ stakeOf' \in [Accounts -> Nat]
    BY <2>1, StakeMovesBacked
  <2>3. active' \in [Accounts -> BOOLEAN] /\ wethOf' \in [Accounts -> Nat]
    BY <1>1, <1>3 DEF unstake, Deactivated
  <2> QED BY <1>3, <2>2, <2>3 DEF unstake, Backed, RegistryTypeOK
<1>4. ASSUME NEW a \in Accounts, registerAsHumanExpert(a)
      PROVE  Backed'
  BY <1>1, <1>4 DEF registerAsHumanExpert, Backed, RegistryTypeOK, RegistryBacked
<1>5. ASSUME NEW a \in Accounts, removeHumanExpert(a)
      PROVE  Backed'
  <2>1. humanExpertCount > 0
    BY <1>5, CountPositive DEF removeHumanExpert
  <2> QED BY <1>1, <1>5, <2>1 DEF removeHumanExpert, Backed, RegistryTypeOK, RegistryBacked
<1>6. ASSUME NEW a \in Accounts, NEW amount \in OwnerAmounts, lockAuditorStake(a, amount)
      PROVE  Backed'
  <2>1. lockedStake' \in [Accounts -> Nat]
    <3>1. lockedStake' = [lockedStake EXCEPT ![a] = @ + amount] /\ amount \in Nat
      BY <1>6 DEF lockAuditorStake
    <3> QED BY <1>1, <3>1
  <2>2. UNCHANGED <<minStake, minHumanExpertStake, stakeOf, active, isHumanExpert,
                    humanExpertCount, auditorList, registryWeth, wethOf, ownerEth,
                    minStakeChanged, slashedUnlocked>>
    BY <1>6 DEF lockAuditorStake
  <2> QED BY <2>1, <2>2 DEF Backed, RegistryTypeOK, RegistryBacked
<1>7. ASSUME NEW a \in Accounts, NEW amount \in OwnerAmounts, slashAuditor(a, amount)
      PROVE  Backed'
  <2> DEFINE c == Capped(a, amount)
             k == LockedAfterSlash(a, c)
  <2>1. c \in 0..stakeOf[a] /\ k \in Nat
    BY <1>7, SlashLeavesLock DEF slashAuditor, Backed
  <2>2. TakeStake(a, c, Owner) /\ lockedStake' = [lockedStake EXCEPT ![a] = k]
    BY <1>7 DEF slashAuditor
  <2> HIDE DEF c, k
  <2>3. lockedStake' \in [Accounts -> Nat]
    BY <1>1, <2>1, <2>2
  <2> QED BY <1>7, <2>1, <2>2, <2>3, TakeStakeBacked DEF slashAuditor, Backed, RegistryTypeOK
<1>8. ASSUME NEW a \in Accounts, NEW amount \in OwnerAmounts, NEW to \in SlashRecipients,
             slashTo(a, amount, to)
      PROVE  Backed'
  <2> DEFINE c == Capped(a, amount)
  <2>1. c \in 0..stakeOf[a]
    BY <1>1 DEF Capped
  <2>2. TakeStake(a, c, to)
    BY <1>8 DEF slashTo
  <2> HIDE DEF c
  <2> QED BY <1>8, <2>1, <2>2, TakeStakeBacked DEF slashTo, Backed, RegistryTypeOK
<1>9. ASSUME NEW a \in Accounts, NEW amount \in OwnerAmounts, reward(a, amount)
      PROVE  Backed'
  <2> DEFINE n == stakeOf[a] + amount
  <2>1. n \in Nat /\ StakeMoves(a, n)
    BY <1>1, <1>9 DEF reward, StakeMoves
  <2> HIDE DEF n
  <2>2. RegistryBacked' /\ registryWeth' \in Nat /\ stakeOf' \in [Accounts -> Nat]
    BY <2>1, StakeMovesBacked
  <2>3. active' \in [Accounts -> BOOLEAN] /\ ownerEth' \in Nat
    BY <1>1, <1>9 DEF reward, Activated
  <2> QED BY <1>9, <2>2, <2>3 DEF reward, Backed, RegistryTypeOK
<1>10. ASSUME NEW v \in MinStakes, setMinStake(v)
       PROVE  Backed'
  BY <1>1, <1>10 DEF setMinStake, Backed, RegistryTypeOK, RegistryBacked
<1>11. ASSUME NEW v \in MinExpertStakes, setMinHumanExpertStake(v)
       PROVE  Backed'
  BY <1>1, <1>11 DEF setMinHumanExpertStake, Backed, RegistryTypeOK, RegistryBacked
<1>12. CASE UNCHANGED <<registryVars, wethOf>>
  BY <1>12 DEF registryVars, Backed, RegistryTypeOK, RegistryBacked
<1> QED
  BY <1>2, <1>3, <1>4, <1>5, <1>6, <1>7, <1>8, <1>9, <1>10, <1>11, <1>12 DEF RegistryNext

-----------------------------------------------------------------------------
(* Activity and locks.                                                     *)

\* While the owner leaves minStake alone, five functions that decide activity on their own
\* agree with the stake.
LEMMA NextActive ==
  RegistryTypeOK /\ ActiveMatchesStake /\ [RegistryNext]_<<registryVars, wethOf>>
    => ActiveMatchesStake'
<1> SUFFICES ASSUME RegistryTypeOK, ActiveMatchesStake,
                    [RegistryNext]_<<registryVars, wethOf>>
             PROVE  ActiveMatchesStake'
  OBVIOUS
<1> USE RegistryConstants
<1>1. /\ stakeOf \in [Accounts -> Nat] /\ active \in [Accounts -> BOOLEAN] /\ minStake \in Nat
  BY DEF RegistryTypeOK
<1>2. ASSUME NEW a \in Accounts, NEW n \in Nat, n >= stakeOf[a],
             stakeOf' = [stakeOf EXCEPT ![a] = n], active' = Activated(a, n),
             minStake' = minStake, minStakeChanged' = minStakeChanged
      PROVE  ActiveMatchesStake'
  <2> SUFFICES ASSUME ~minStakeChanged, NEW b \in Accounts
               PROVE  active'[b] <=> stakeOf'[b] >= minStake
    BY <1>2 DEF ActiveMatchesStake
  <2>1. active[a] <=> stakeOf[a] >= minStake
    BY DEF ActiveMatchesStake
  <2>2. active[b] <=> stakeOf[b] >= minStake
    BY DEF ActiveMatchesStake
  <2>3. CASE b = a
    <3>1. active'[a] <=> active[a] \/ n >= minStake
      BY <1>1, <1>2, Zenon DEF Activated
    <3>2. stakeOf'[a] = n /\ stakeOf[a] \in Nat
      BY <1>1, <1>2
    <3>3. stakeOf[a] >= minStake => n >= minStake
      BY <1>1, <1>2, <3>2
    <3> QED BY <2>1, <2>3, <3>1, <3>2, <3>3
  <2>4. CASE b # a
    <3>1. active'[b] <=> active[b]
      BY <1>1, <1>2, <2>4, Zenon DEF Activated
    <3>2. stakeOf'[b] = stakeOf[b]
      BY <1>1, <1>2, <2>4
    <3> QED BY <2>2, <3>1, <3>2
  <2> QED BY <2>3, <2>4
<1>3. ASSUME NEW a \in Accounts, NEW n \in Nat, n <= stakeOf[a],
             stakeOf' = [stakeOf EXCEPT ![a] = n], active' = Deactivated(a, n),
             minStake' = minStake, minStakeChanged' = minStakeChanged
      PROVE  ActiveMatchesStake'
  <2> SUFFICES ASSUME ~minStakeChanged, NEW b \in Accounts
               PROVE  active'[b] <=> stakeOf'[b] >= minStake
    BY <1>3 DEF ActiveMatchesStake
  <2>1. active[a] <=> stakeOf[a] >= minStake
    BY DEF ActiveMatchesStake
  <2>2. active[b] <=> stakeOf[b] >= minStake
    BY DEF ActiveMatchesStake
  <2>3. CASE b = a
    <3>1. active'[a] <=> active[a] /\ n >= minStake
      BY <1>1, <1>3, Zenon DEF Deactivated
    <3>2. stakeOf'[a] = n /\ stakeOf[a] \in Nat
      BY <1>1, <1>3
    <3>3. n >= minStake => stakeOf[a] >= minStake
      BY <1>1, <1>3, <3>2
    <3> QED BY <2>1, <2>3, <3>1, <3>2, <3>3
  <2>4. CASE b # a
    <3>1. active'[b] <=> active[b]
      BY <1>1, <1>3, <2>4, Zenon DEF Deactivated
    <3>2. stakeOf'[b] = stakeOf[b]
      BY <1>1, <1>3, <2>4
    <3> QED BY <2>2, <3>1, <3>2
  <2> QED BY <2>3, <2>4
<1>4. ASSUME UNCHANGED <<stakeOf, active, minStake, minStakeChanged>>
      PROVE  ActiveMatchesStake'
  BY <1>4 DEF ActiveMatchesStake
<1>5. ASSUME NEW a \in Accounts, NEW amount \in StakeAmounts, stake(a, amount)
      PROVE  ActiveMatchesStake'
  <2> DEFINE n == stakeOf[a] + amount
  <2>1. n \in Nat /\ n >= stakeOf[a]
    BY <1>1, <1>5 DEF stake, RegistryTypeOK
  <2>2. /\ stakeOf' = [stakeOf EXCEPT ![a] = n] /\ active' = Activated(a, n)
        /\ minStake' = minStake /\ minStakeChanged' = minStakeChanged
    BY <1>5 DEF stake
  <2> HIDE DEF n
  <2> QED BY <1>2, <2>1, <2>2
<1>6. ASSUME NEW a \in Accounts, NEW amount \in StakeAmounts, unstake(a, amount)
      PROVE  ActiveMatchesStake'
  <2> DEFINE n == stakeOf[a] - amount
  <2>1. n \in Nat /\ n <= stakeOf[a]
    BY <1>1, <1>6 DEF unstake, RegistryTypeOK
  <2>2. /\ stakeOf' = [stakeOf EXCEPT ![a] = n] /\ active' = Deactivated(a, n)
        /\ minStake' = minStake /\ minStakeChanged' = minStakeChanged
    BY <1>6 DEF unstake
  <2> HIDE DEF n
  <2> QED BY <1>3, <2>1, <2>2
<1>7. ASSUME NEW a \in Accounts, NEW amount \in Nat, NEW to \in Accounts,
             TakeStake(a, Capped(a, amount), to),
             minStake' = minStake, minStakeChanged' = minStakeChanged
      PROVE  ActiveMatchesStake'
  <2> DEFINE n == stakeOf[a] - Capped(a, amount)
  <2>1. n \in Nat /\ n <= stakeOf[a]
    BY <1>1 DEF Capped
  <2>2. stakeOf' = [stakeOf EXCEPT ![a] = n] /\ active' = Deactivated(a, n)
    BY <1>7 DEF TakeStake
  <2> HIDE DEF n
  <2> QED BY <1>3, <1>7, <2>1, <2>2
<1>8. ASSUME NEW a \in Accounts, NEW amount \in OwnerAmounts, reward(a, amount)
      PROVE  ActiveMatchesStake'
  <2> DEFINE n == stakeOf[a] + amount
  <2>1. n \in Nat /\ n >= stakeOf[a]
    BY <1>1, <1>8 DEF reward, RegistryTypeOK
  <2>2. /\ stakeOf' = [stakeOf EXCEPT ![a] = n] /\ active' = Activated(a, n)
        /\ minStake' = minStake /\ minStakeChanged' = minStakeChanged
    BY <1>8 DEF reward
  <2> HIDE DEF n
  <2> QED BY <1>2, <2>1, <2>2
<1>9. ASSUME NEW v \in MinStakes, setMinStake(v)
      PROVE  ActiveMatchesStake'
  BY <1>9 DEF setMinStake, ActiveMatchesStake
<1> QED
  BY <1>4, <1>5, <1>6, <1>7, <1>8, <1>9
     DEF RegistryNext, registryVars, registerAsHumanExpert, removeHumanExpert, lockAuditorStake,
         slashAuditor, slashTo, setMinHumanExpertStake

\* What an account has locked stays staked, through every call but the slash that leaves
\* the lock alone.
LEMMA NextLocked ==
  RegistryTypeOK /\ LocksStayCovered /\ [RegistryNext]_<<registryVars, wethOf>>
    => LocksStayCovered'
<1> SUFFICES ASSUME RegistryTypeOK, LocksStayCovered,
                    [RegistryNext]_<<registryVars, wethOf>>
             PROVE  LocksStayCovered'
  OBVIOUS
<1> USE RegistryConstants
<1>1. stakeOf \in [Accounts -> Nat] /\ lockedStake \in [Accounts -> Nat]
  BY DEF RegistryTypeOK
<1>2. ASSUME NEW a \in Accounts, NEW amount \in StakeAmounts, stake(a, amount) \/ unstake(a, amount)
      PROVE  LocksStayCovered'
  <2>1. CASE stake(a, amount)
    BY <1>1, <2>1 DEF stake, LocksStayCovered
  <2>2. CASE unstake(a, amount)
    BY <1>1, <2>2 DEF unstake, LocksStayCovered
  <2> QED BY <1>2, <2>1, <2>2
<1>3. ASSUME NEW a \in Accounts, NEW amount \in OwnerAmounts,
             lockAuditorStake(a, amount) \/ reward(a, amount)
      PROVE  LocksStayCovered'
  BY <1>1, <1>3 DEF lockAuditorStake, reward, LocksStayCovered
<1>4. ASSUME NEW a \in Accounts, NEW amount \in OwnerAmounts, slashAuditor(a, amount)
      PROVE  LocksStayCovered'
  <2> DEFINE c == Capped(a, amount)
             k == LockedAfterSlash(a, c)
  <2>1. /\ c \in 0..stakeOf[a] /\ k \in Nat
        /\ lockedStake[a] <= stakeOf[a] => k <= stakeOf[a] - c
    BY <1>4, SlashLeavesLock DEF slashAuditor
  <2>2. /\ stakeOf' = [stakeOf EXCEPT ![a] = @ - c]
        /\ lockedStake' = [lockedStake EXCEPT ![a] = k]
        /\ slashedUnlocked' = slashedUnlocked
    BY <1>4 DEF slashAuditor, TakeStake
  <2> HIDE DEF c, k
  <2> QED BY <1>1, <2>1, <2>2 DEF LocksStayCovered
<1>5. ASSUME NEW a \in Accounts, NEW amount \in OwnerAmounts, NEW to \in SlashRecipients,
             slashTo(a, amount, to)
      PROVE  LocksStayCovered'
  BY <1>1, <1>5 DEF slashTo, TakeStake, LocksStayCovered
<1>6. ASSUME UNCHANGED <<stakeOf, lockedStake, slashedUnlocked>>
      PROVE  LocksStayCovered'
  BY <1>6 DEF LocksStayCovered
<1> QED
  BY <1>2, <1>3, <1>4, <1>5, <1>6
     DEF RegistryNext, registryVars, registerAsHumanExpert, removeHumanExpert, setMinStake,
         setMinHumanExpertStake

-----------------------------------------------------------------------------
(* The theorems about the registry.                                        *)

\* The inductive invariant of the registry.
LEMMA RegistryAlways == RegistrySpec => [](Counted /\ Backed /\ LocksStayCovered)
<1>1. RegistryInit => Counted /\ Backed /\ LocksStayCovered
  BY InitCounted, InitBacked DEF RegistryInit, LocksStayCovered
<1>2. (Counted /\ Backed /\ LocksStayCovered) /\ [RegistryNext]_<<registryVars, wethOf>>
        => (Counted /\ Backed /\ LocksStayCovered)'
  BY NextCounted, NextBacked, NextLocked DEF Backed
<1> QED
  BY <1>1, <1>2, PTL DEF RegistrySpec

\* No accepted call makes a stake, a lock, a count or the registry's WETH negative, and no
\* account is ever listed twice, so it cannot be drawn twice for being listed twice.
THEOREM RegistryTyped == RegistrySpec => []RegistryTypeOK
<1>1. Counted /\ Backed /\ LocksStayCovered => RegistryTypeOK
  BY DEF Backed
<1> QED
  BY RegistryAlways, <1>1, PTL

\* For any number of auditors the WETH of the registry is the sum of the stakes
\* (AuditorRegistry.sol pays both slashes and unstake out of it).
THEOREM EveryStakeIsHeld == RegistrySpec => []RegistryBacked
<1>1. Counted /\ Backed /\ LocksStayCovered => RegistryBacked
  BY DEF Backed
<1> QED
  BY RegistryAlways, <1>1, PTL

\* The proportional slash (AuditorRegistry.sol:195-199), whatever it rounds, never leaves
\* more locked than staked.
THEOREM LocksKeepTheirStake == RegistrySpec => []LocksStayCovered
<1>1. Counted /\ Backed /\ LocksStayCovered => LocksStayCovered
  OBVIOUS
<1> QED
  BY RegistryAlways, <1>1, PTL

\* humanExpertCount is the number of experts, for any set of accounts.
THEOREM ExpertsAreCounted == RegistrySpec => []ExpertsCounted
<1>1. Counted /\ Backed /\ LocksStayCovered => ExpertsCounted
  BY DEF Counted
<1> QED
  BY RegistryAlways, <1>1, PTL

\* Deployed with a positive minStake, the registry seats exactly the accounts that stake
\* it, until the owner changes it.
THEOREM ActivityFollowsStake ==
  ASSUME InitialMinStake > 0
  PROVE  RegistrySpec => []ActiveMatchesStake
<1>1. RegistryInit => ActiveMatchesStake
  BY RegistryConstants DEF RegistryInit, ActiveMatchesStake
<1>2. RegistrySpec => []RegistryTypeOK
  BY RegistryTyped
<1>3. RegistryTypeOK /\ ActiveMatchesStake /\ [RegistryNext]_<<registryVars, wethOf>>
        => ActiveMatchesStake'
  BY NextActive
<1> QED
  BY <1>1, <1>2, <1>3, PTL DEF RegistrySpec

\* Deployed with a positive minStake, AuditorRegistry.sol keeps its books in order for any
\* number of auditors.
THEOREM RegistryStaysSound ==
  ASSUME InitialMinStake > 0
  PROVE  RegistrySpec => []RegistryIsSound
<1>1. RegistrySpec => []ActiveMatchesStake
  BY ActivityFollowsStake
<1>2. RegistryTypeOK /\ RegistryBacked /\ ActiveMatchesStake /\ LocksStayCovered /\ ExpertsCounted
        => RegistryIsSound
  BY DEF RegistryIsSound
<1> QED
  BY <1>1, <1>2, RegistryTyped, EveryStakeIsHeld, LocksKeepTheirStake, ExpertsAreCounted, PTL

-----------------------------------------------------------------------------
(* Folds over sequences and the loops over lists.                          *)

\* The greatest element of a set of naturals that is not empty and has a bound.
LEMMA MaxInSet ==
  ASSUME NEW n \in Nat, NEW s, s \subseteq 1..n, s # {}
  PROVE  Max(s) \in s /\ \A y \in s : y <= Max(s)
<1> DEFINE T == {k \in Nat : \A y \in s : y <= k}
<1>1. T \subseteq Nat /\ n \in T
  OBVIOUS
<1>2. PICK m \in T : \A k \in T : ~(k < m)
  <2> HIDE DEF T
  <2> QED BY <1>1, LeastNatural
<1>3. m \in s
  <2> SUFFICES ASSUME m \notin s PROVE FALSE
    OBVIOUS
  <2>1. PICK y \in s : TRUE
    OBVIOUS
  <2>2. m \in Nat /\ y \in Nat /\ y <= m /\ y # m /\ 1 <= y
    BY <1>2
  <2>3. m - 1 \in Nat /\ m - 1 < m
    BY <2>2
  <2>4. \A z \in s : z \in Nat /\ z <= m /\ z # m
    BY <1>2
  <2>5. \A z \in s : z <= m - 1
    BY <2>2, <2>4
  <2> QED BY <1>2, <2>3, <2>5
<1>4. \A y \in s : m >= y
  BY <1>2
<1>5. Max(s) \in s /\ \A y \in s : Max(s) >= y
  BY <1>3, <1>4 DEF Max
<1> QED
  BY <1>5

\* One step of the recursion behind FoldLeft, with the operator as a function F.
FoldBody(F, base, q, g, s) == IF s = {} THEN base ELSE F[<<g[s \ {Max(s)}], q[Max(s)]>>]

\* g satisfies that recursion.
FoldSolves(F, base, q, A, g) ==
  /\ g \in [SUBSET DOMAIN q -> A]
  /\ \A s \in SUBSET DOMAIN q : g[s] = FoldBody(F, base, q, g, s)

\* g satisfies that recursion on the sets of at most n indices.
FoldUpTo(F, base, q, A, g, n) ==
  /\ g \in [SUBSET DOMAIN q -> A]
  /\ \A s \in SUBSET DOMAIN q : Cardinality(s) <= n => g[s] = FoldBody(F, base, q, g, s)

\* The recursion of a fold has a solution, for an operator that stays within A.
LEMMA FoldSolution ==
  ASSUME NEW A, NEW W, NEW base \in A, NEW F \in [A \X W -> A], NEW q \in Seq(W)
  PROVE  \E g : FoldSolves(F, base, q, A, g)
<1> DEFINE S == DOMAIN q
           T == {n \in Nat : \E g : FoldUpTo(F, base, q, A, g, n)}
<1>1. S = 1..Len(q) /\ Len(q) \in Nat /\ \A i \in S : q[i] \in W
  OBVIOUS
<1>2. IsFiniteSet(S) /\ Cardinality(S) \in Nat
  BY <1>1, FS_Interval, FS_CardinalityType
<1> HIDE DEF S
<1>3. \A s \in SUBSET S : s # {} => Max(s) \in s
  BY <1>1, MaxInSet
<1>4. 0 \in T
  <2> DEFINE g == [s \in SUBSET S |-> base]
  <2>1. \A s \in SUBSET S : Cardinality(s) <= 0 => s = {}
    <3> SUFFICES ASSUME NEW s \in SUBSET S, Cardinality(s) <= 0 PROVE s = {}
      OBVIOUS
    <3>1. IsFiniteSet(s) /\ Cardinality(s) \in Nat
      BY <1>2, FS_Subset, FS_CardinalityType
    <3> QED BY <3>1, FS_EmptySet
  <2>2. FoldUpTo(F, base, q, A, g, 0)
    BY <2>1 DEF FoldUpTo, FoldBody, S
  <2> QED BY <2>2
<1>5. ASSUME NEW n \in Nat, n \in T
      PROVE  n + 1 \in T
  <2>1. PICK g : FoldUpTo(F, base, q, A, g, n)
    BY <1>5
  <2> DEFINE h == [s \in SUBSET S |-> FoldBody(F, base, q, g, s)]
  <2>2. h \in [SUBSET S -> A]
    <3> SUFFICES ASSUME NEW s \in SUBSET S PROVE FoldBody(F, base, q, g, s) \in A
      OBVIOUS
    <3>1. CASE s = {}
      BY <3>1 DEF FoldBody
    <3>2. CASE s # {}
      <4>1. Max(s) \in S /\ g[s \ {Max(s)}] \in A
        BY <3>2, <2>1, <1>3 DEF FoldUpTo, S
      <4> QED BY <3>2, <4>1, <1>1 DEF FoldBody
    <3> QED BY <3>1, <3>2
  <2>3. ASSUME NEW s \in SUBSET S, Cardinality(s) <= n + 1
        PROVE  h[s] = FoldBody(F, base, q, h, s)
    <3>1. CASE s = {}
      BY <3>1 DEF FoldBody
    <3>2. CASE s # {}
      <4> DEFINE c == Max(s)
      <4>1. c \in s
        BY <3>2, <1>3
      <4> HIDE DEF c
      <4>2. s \ {c} \in SUBSET S /\ Cardinality(s \ {c}) <= n
        BY <4>1, <2>3, <1>2, SmallerSets
      <4>3. g[s \ {c}] = h[s \ {c}]
        BY <4>2, <2>1 DEF FoldUpTo, S
      <4> QED BY <3>2, <4>3 DEF FoldBody, c
    <3> QED BY <3>1, <3>2
  <2> HIDE DEF h
  <2>4. FoldUpTo(F, base, q, A, h, n + 1)
    BY <2>2, <2>3 DEF FoldUpTo, S
  <2> QED BY <2>4
<1>6. Nat \subseteq T
  <2> HIDE DEF T
  <2> QED BY <1>4, <1>5, SetInduction
<1>7. PICK g : FoldUpTo(F, base, q, A, g, Cardinality(S))
  BY <1>2, <1>6
<1>8. \A s \in SUBSET S : Cardinality(s) <= Cardinality(S)
  BY <1>2, FS_Subset
<1> QED
  BY <1>7, <1>8 DEF FoldUpTo, FoldSolves, S

\* On the first k + 1 indices the recursion takes the last one.
LEMMA PrefixStep ==
  ASSUME NEW n \in Nat, NEW k \in Nat, k < n
  PROVE  /\ 1..k \in SUBSET (1..n) /\ 1..(k + 1) \in SUBSET (1..n)
         /\ 1..(k + 1) # {}
         /\ Max(1..(k + 1)) = k + 1
         /\ (1..(k + 1)) \ {k + 1} = 1..k
<1>1. 1..(k + 1) \subseteq 1..n /\ k + 1 \in 1..(k + 1)
  OBVIOUS
<1>2. Max(1..(k + 1)) \in 1..(k + 1) /\ \A y \in 1..(k + 1) : y <= Max(1..(k + 1))
  BY <1>1, MaxInSet
<1>3. Max(1..(k + 1)) = k + 1
  BY <1>1, <1>2
<1>4. (1..(k + 1)) \ {k + 1} = 1..k /\ 1..k \subseteq 1..n
  OBVIOUS
<1> QED
  BY <1>1, <1>3, <1>4

\* The function MapThenFoldSet builds for Kept.
KeptIter(q, T) ==
  CHOOSE g : g = [s \in SUBSET DOMAIN q |->
    IF s = {} THEN <<>>
    ELSE IF q[Max(s)] \in T THEN Append(g[s \ {Max(s)}], q[Max(s)]) ELSE g[s \ {Max(s)}]]

\* Kept is that function at the set of all indices.
LEMMA KeptIsIter ==
  ASSUME NEW q, NEW T
  PROVE  Kept(q, T) = KeptIter(q, T)[DOMAIN q]
BY DEF Kept, FoldLeft, MapThenFoldSet, KeptIter

\* p lists what the loop has collected after each element.
KeptSoFar(q, T, p) ==
  /\ p[0] = <<>>
  /\ \A k \in 0..(Len(q) - 1) :
       p[k + 1] = IF q[k + 1] \in T THEN Append(p[k], q[k + 1]) ELSE p[k]

\* The fold goes through the list one element at a time.
LEMMA KeptByLoop ==
  ASSUME NEW S, NEW q \in Seq(S), NEW T
  PROVE  \E p \in [0..Len(q) -> Seq(S)] : KeptSoFar(q, T, p) /\ Kept(q, T) = p[Len(q)]
<1> DEFINE F == [x \in Seq(S) \X S |-> IF x[2] \in T THEN Append(x[1], x[2]) ELSE x[1]]
           D == DOMAIN q
           n == Len(q)
<1>1. D = 1..n /\ n \in Nat /\ (\A i \in D : q[i] \in S) /\ <<>> \in Seq(S)
  OBVIOUS
<1>2. F \in [Seq(S) \X S -> Seq(S)]
  OBVIOUS
<1>3. PICK g \in [SUBSET D -> Seq(S)] : \A s \in SUBSET D : g[s] = FoldBody(F, <<>>, q, g, s)
  <2> DEFINE base == <<>>
             A == Seq(S)
  <2>1. base \in A /\ F \in [A \X S -> A]
    BY <1>1, <1>2
  <2> HIDE DEF F, base, A
  <2>2. \E g : FoldSolves(F, base, q, A, g)
    BY <2>1, FoldSolution
  <2> QED BY <2>2 DEF base, A, FoldSolves
<1>4. ASSUME NEW s \in SUBSET D
      PROVE  g[s] = IF s = {} THEN <<>>
                    ELSE IF q[Max(s)] \in T THEN Append(g[s \ {Max(s)}], q[Max(s)])
                    ELSE g[s \ {Max(s)}]
  <2>1. CASE s = {}
    BY <1>3, <2>1 DEF FoldBody
  <2>2. CASE s # {}
    <3>1. Max(s) \in s
      BY <1>1, <2>2, MaxInSet
    <3>2. q[Max(s)] \in S /\ g[s \ {Max(s)}] \in Seq(S)
      BY <1>1, <3>1
    <3>3. g[s] = F[<<g[s \ {Max(s)}], q[Max(s)]>>]
      BY <1>3, <2>2 DEF FoldBody
    <3> QED BY <2>2, <3>2, <3>3
  <2> QED BY <2>1, <2>2
<1>5. g = [s \in SUBSET D |->
             IF s = {} THEN <<>>
             ELSE IF q[Max(s)] \in T THEN Append(g[s \ {Max(s)}], q[Max(s)])
             ELSE g[s \ {Max(s)}]]
  BY <1>4, <1>3
<1> DEFINE G == KeptIter(q, T)
<1>6. G = [s \in SUBSET D |->
             IF s = {} THEN <<>>
             ELSE IF q[Max(s)] \in T THEN Append(G[s \ {Max(s)}], q[Max(s)])
             ELSE G[s \ {Max(s)}]]
  BY <1>5 DEF KeptIter
<1> HIDE DEF G, F
<1>7. ASSUME NEW k \in Nat, k < n
      PROVE  G[1..(k + 1)] = IF q[k + 1] \in T THEN Append(G[1..k], q[k + 1]) ELSE G[1..k]
  <2> DEFINE s == 1..(k + 1)
  <2>1. s \in SUBSET D /\ s # {} /\ Max(s) = k + 1 /\ s \ {k + 1} = 1..k
    BY <1>1, <1>7, PrefixStep
  <2> HIDE DEF s
  <2>2. G[s] = IF q[k + 1] \in T THEN Append(G[s \ {k + 1}], q[k + 1]) ELSE G[s \ {k + 1}]
    BY <1>6, <2>1
  <2> QED BY <2>1, <2>2 DEF s
<1>8. G[1..0] = <<>>
  <2>1. 1..0 = {} /\ {} \in SUBSET D
    OBVIOUS
  <2> QED BY <1>6, <2>1
<1> DEFINE p == [k \in 0..n |-> G[1..k]]
<1>9. KeptSoFar(q, T, p)
  <2>1. p[0] = <<>>
    BY <1>1, <1>8
  <2>2. ASSUME NEW k \in 0..(n - 1)
        PROVE  p[k + 1] = IF q[k + 1] \in T THEN Append(p[k], q[k + 1]) ELSE p[k]
    <3>1. k \in Nat /\ k < n /\ k \in 0..n /\ k + 1 \in 0..n
      BY <1>1
    <3>2. p[k] = G[1..k] /\ p[k + 1] = G[1..(k + 1)]
      BY <3>1
    <3> QED BY <1>7, <3>1, <3>2
  <2> QED BY <2>1, <2>2 DEF KeptSoFar
<1>10. Kept(q, T) = p[n]
  BY <1>1, KeptIsIter DEF G
<1>11. p \in [0..n -> Seq(S)]
  <2> DEFINE U == {k \in Nat : k <= n => G[1..k] \in Seq(S)}
  <2>1. 0 \in U
    BY <1>1, <1>8
  <2>2. ASSUME NEW k \in Nat, k \in U PROVE k + 1 \in U
    <3> SUFFICES ASSUME k + 1 <= n PROVE G[1..(k + 1)] \in Seq(S)
      OBVIOUS
    <3>1. k < n /\ k + 1 \in D /\ G[1..k] \in Seq(S)
      BY <1>1, <2>2
    <3>2. q[k + 1] \in S
      BY <1>1, <3>1
    <3>3. Append(G[1..k], q[k + 1]) \in Seq(S)
      BY <3>1, <3>2
    <3> QED BY <1>7, <3>1, <3>3
  <2>3. Nat \subseteq U
    <3> HIDE DEF U
    <3> QED BY <2>1, <2>2, SetInduction
  <2> QED BY <1>1, <2>3
<1> QED
  BY <1>9, <1>10, <1>11

\* What is kept is in the set and in the list, and is listed once if it was.
LEMMA KeptFacts ==
  ASSUME NEW S, NEW q \in Seq(S), NEW T
  PROVE  /\ Kept(q, T) \in Seq(S)
         /\ Range(Kept(q, T)) \subseteq T \intersect S
         /\ IsInjective(q) => IsInjective(Kept(q, T))
<1> DEFINE n == Len(q)
<1>1. PICK p \in [0..n -> Seq(S)] : KeptSoFar(q, T, p) /\ Kept(q, T) = p[n]
  BY KeptByLoop
<1>2. n \in Nat /\ DOMAIN q = 1..n /\ (\A i \in 1..n : q[i] \in S) /\ n \in 0..n
  OBVIOUS
<1> DEFINE From(k) == \A i \in DOMAIN p[k] :
                        /\ p[k][i] \in T \intersect S
                        /\ \E j \in 1..k : p[k][i] = q[j]
           U == {k \in Nat : k <= n => From(k) /\ (IsInjective(q) => IsInjective(p[k]))}
<1>3. 0 \in U
  <2>1. p[0] = <<>>
    BY <1>1 DEF KeptSoFar
  <2>2. DOMAIN p[0] = {}
    BY <2>1
  <2> QED BY <2>2 DEF IsInjective
<1>4. ASSUME NEW k \in Nat, k \in U PROVE k + 1 \in U
  <2> SUFFICES ASSUME k + 1 <= n
               PROVE  From(k + 1) /\ (IsInjective(q) => IsInjective(p[k + 1]))
    OBVIOUS
  <2>1. k \in 0..(n - 1) /\ k <= n /\ k \in 0..n /\ k + 1 \in 0..n /\ k + 1 \in 1..n
    BY <1>2
  <2>2. From(k) /\ (IsInjective(q) => IsInjective(p[k]))
    BY <1>4, <2>1
  <2>3. p[k + 1] = IF q[k + 1] \in T THEN Append(p[k], q[k + 1]) ELSE p[k]
    BY <1>1, <2>1 DEF KeptSoFar
  <2>4. p[k] \in Seq(S) /\ q[k + 1] \in S
    BY <1>2, <2>1
  <2>5. CASE q[k + 1] \notin T
    <3>1. p[k + 1] = p[k] /\ 1..k \subseteq 1..(k + 1)
      BY <2>3, <2>5
    <3> QED BY <2>2, <3>1
  <2>6. CASE q[k + 1] \in T
    <3> DEFINE a == p[k]
               m == Len(a)
               x == q[k + 1]
               b == p[k + 1]
    <3>1. /\ b = Append(a, x) /\ a \in Seq(S) /\ x \in S
      BY <2>3, <2>4, <2>6
    <3>2. /\ m \in Nat /\ DOMAIN a = 1..m /\ DOMAIN b = 1..(m + 1)
          /\ b[m + 1] = x
          /\ \A i \in 1..m : b[i] = a[i]
      BY <3>1
    <3> HIDE DEF a, b, x, m
    <3>3. \A i \in DOMAIN b : i = m + 1 \/ i \in 1..m
      BY <3>2
    <3>4. From(k + 1)
      <4> SUFFICES ASSUME NEW i \in DOMAIN b
                   PROVE  /\ b[i] \in T \intersect S
                          /\ \E j \in 1..(k + 1) : b[i] = q[j]
        BY DEF b
      <4>1. CASE i = m + 1
        <5>1. k + 1 \in 1..(k + 1)
          OBVIOUS
        <5> QED BY <4>1, <5>1, <3>1, <3>2, <2>6 DEF x
      <4>2. CASE i \in 1..m
        <5>1. b[i] = a[i] /\ i \in DOMAIN a /\ 1..k \subseteq 1..(k + 1)
          BY <4>2, <3>2
        <5> QED BY <5>1, <2>2 DEF a
      <4> QED BY <4>1, <4>2, <3>3
    <3>5. ASSUME IsInjective(q) PROVE IsInjective(b)
      <4>1. \A i \in 1..m : a[i] # x
        <5> SUFFICES ASSUME NEW i \in 1..m, a[i] = x PROVE FALSE
          OBVIOUS
        <5>1. PICK j \in 1..k : a[i] = q[j]
          BY <2>2, <3>2 DEF a
        <5>2. j \in DOMAIN q /\ k + 1 \in DOMAIN q /\ j # k + 1
          BY <1>2, <2>1
        <5> QED BY <3>5, <5>1, <5>2 DEF IsInjective, x
      <4>2. \A i, j \in 1..m : a[i] = a[j] => i = j
        BY <2>2, <3>2, <3>5 DEF IsInjective, a
      <4>3. ASSUME NEW i \in DOMAIN b, NEW j \in DOMAIN b, b[i] = b[j] PROVE i = j
        BY <3>2, <3>3, <4>1, <4>2, <4>3
      <4> QED BY <4>3 DEF IsInjective
    <3> QED BY <3>4, <3>5 DEF b
  <2> QED BY <2>5, <2>6
<1>5. n \in U
  <2> HIDE DEF U
  <2> QED BY <1>2, <1>3, <1>4, SetInduction
<1>6. From(n) /\ (IsInjective(q) => IsInjective(p[n]))
  BY <1>2, <1>5
<1>7. p[n] \in Seq(S)
  BY <1>2
<1> QED
  BY <1>1, <1>6, <1>7 DEF Range

-----------------------------------------------------------------------------
(* Drawing a jury.                                                         *)

\* The lists a jury is drawn from: the auditors once each.
ListOK == auditorList \in Seq(Accounts) /\ IsInjective(auditorList)

\* Hence the active auditors and the active experts once each.
LEMMA ListsOK ==
  ASSUME ListOK
  PROVE  /\ ActiveAuditors \in Seq(Accounts) /\ IsInjective(ActiveAuditors)
         /\ getActiveHumanExperts \in Seq(Accounts) /\ IsInjective(getActiveHumanExperts)
<1>1. auditorList \in Seq(Accounts) /\ IsInjective(auditorList)
  BY DEF ListOK
<1> QED
  BY <1>1, KeptFacts DEF ActiveAuditors, getActiveHumanExperts

\* What a draw has picked so far.
Draws == [jurors : Seq(Accounts), used : SUBSET Nat]

NoDraw == [jurors |-> <<>>, used |-> {}]

\* The jurors picked are different active auditors, at indices marked used, and no party.
GoodDraw(d, drawn) ==
  /\ drawn \in Draws
  /\ IsInjective(drawn.jurors)
  /\ \A i \in DOMAIN drawn.jurors :
       /\ ~Party(d, drawn.jurors[i])
       /\ \E u \in drawn.used : /\ u \in 0..(activeAuditorCount - 1)
                                /\ drawn.jurors[i] = activeAuditorAt(u)

\* A random word picks an unused index, or is spent.
LEMMA DrawCases ==
  ASSUME ListOK, NEW d, NEW drawn, NEW word \in Nat
  PROVE  \/ DrawJuror(d, drawn, word) = drawn
         \/ \E idx \in 0..(activeAuditorCount - 1) :
              /\ idx \notin drawn.used
              /\ ~Party(d, activeAuditorAt(idx))
              /\ DrawJuror(d, drawn, word) =
                   [jurors |-> Append(drawn.jurors, activeAuditorAt(idx)),
                    used |-> drawn.used \union {idx}]
<1> DEFINE n == activeAuditorCount
           free == {k \in 0..(n - 1) : (word + k) % n \notin drawn.used}
           first == CHOOSE k \in free : \A j \in free : k <= j
           idx == (word + first) % n
<1>1. n \in Nat
  BY ListsOK DEF activeAuditorCount
<1>2. SUFFICES ASSUME free # {}, ~Party(d, activeAuditorAt(idx))
               PROVE  \E i \in 0..(activeAuditorCount - 1) :
                        /\ i \notin drawn.used
                        /\ ~Party(d, activeAuditorAt(i))
                        /\ DrawJuror(d, drawn, word) =
                             [jurors |-> Append(drawn.jurors, activeAuditorAt(i)),
                              used |-> drawn.used \union {i}]
  BY DEF DrawJuror
<1> HIDE DEF n
<1>3. first \in free
  <2>1. free \subseteq Nat
    BY <1>1
  <2> HIDE DEF free
  <2>2. PICK k \in free : \A j \in free : ~(j < k)
    BY <1>2, <2>1, LeastNatural
  <2>3. \A j \in free : k <= j
    BY <2>1, <2>2
  <2> QED BY <2>3
<1>4. first \in Nat /\ n \in Nat \ {0} /\ idx \notin drawn.used
  <2> HIDE DEF first
  <2> QED BY <1>1, <1>3
<1> HIDE DEF first
<1>5. idx \in 0..(n - 1)
  BY <1>4
<1>6. DrawJuror(d, drawn, word) = [jurors |-> Append(drawn.jurors, activeAuditorAt(idx)),
                                  used |-> drawn.used \union {idx}]
  BY <1>2 DEF DrawJuror, n, first
<1> HIDE DEF idx
<1> QED
  BY <1>2, <1>4, <1>5, <1>6 DEF n

\* So a draw stays good.
LEMMA DrawStaysGood ==
  ASSUME ListOK, NEW d, NEW drawn, GoodDraw(d, drawn), NEW word \in Nat
  PROVE  GoodDraw(d, DrawJuror(d, drawn, word))
<1>1. /\ ActiveAuditors \in Seq(Accounts) /\ IsInjective(ActiveAuditors)
      /\ activeAuditorCount \in Nat
      /\ \A u \in 0..(activeAuditorCount - 1) :
           u + 1 \in DOMAIN ActiveAuditors /\ activeAuditorAt(u) \in Accounts
  BY ListsOK DEF activeAuditorCount, activeAuditorAt
<1>2. \A u, v \in 0..(activeAuditorCount - 1) : activeAuditorAt(u) = activeAuditorAt(v) => u = v
  <2> SUFFICES ASSUME NEW u \in 0..(activeAuditorCount - 1), NEW v \in 0..(activeAuditorCount - 1),
                      activeAuditorAt(u) = activeAuditorAt(v)
               PROVE  u = v
    OBVIOUS
  <2>1. u + 1 = v + 1
    BY <1>1 DEF IsInjective, activeAuditorAt
  <2>2. u \in Int /\ v \in Int
    BY <1>1
  <2> QED BY <2>1, <2>2
<1> DEFINE s == drawn.jurors
           m == Len(s)
<1>3. s \in Seq(Accounts) /\ m \in Nat /\ DOMAIN s = 1..m /\ IsInjective(s)
      /\ drawn.used \in SUBSET Nat
  BY DEF GoodDraw, Draws
<1>4. SUFFICES ASSUME NEW idx \in 0..(activeAuditorCount - 1),
                      idx \notin drawn.used, ~Party(d, activeAuditorAt(idx))
               PROVE  GoodDraw(d, [jurors |-> Append(s, activeAuditorAt(idx)),
                                   used |-> drawn.used \union {idx}])
  BY DrawCases
<1> DEFINE x == activeAuditorAt(idx)
           r == Append(s, x)
<1>5. /\ x \in Accounts /\ r \in Seq(Accounts) /\ DOMAIN r = 1..(m + 1)
      /\ r[m + 1] = x /\ \A i \in 1..m : r[i] = s[i]
      /\ idx \in Nat
  BY <1>1, <1>3
<1>6. \A i \in 1..m : /\ ~Party(d, s[i])
                      /\ \E u \in drawn.used : /\ u \in 0..(activeAuditorCount - 1)
                                               /\ s[i] = activeAuditorAt(u)
  BY <1>3 DEF GoodDraw
<1>7. \A i \in 1..m : s[i] # x
  BY <1>2, <1>4, <1>6
<1> HIDE DEF s, m, x, r
<1>8. \A i \in 1..(m + 1) : i = m + 1 \/ i \in 1..m
  BY <1>3
<1>9. IsInjective(r)
  <2>1. \A i, j \in 1..m : s[i] = s[j] => i = j
    BY <1>3 DEF IsInjective
  <2> SUFFICES ASSUME NEW i \in 1..(m + 1), NEW j \in 1..(m + 1), r[i] = r[j] PROVE i = j
    BY <1>5 DEF IsInjective
  <2> QED BY <1>5, <1>7, <1>8, <2>1
<1>10. ASSUME NEW i \in 1..(m + 1)
       PROVE  /\ ~Party(d, r[i])
              /\ \E u \in drawn.used \union {idx} :
                   /\ u \in 0..(activeAuditorCount - 1)
                   /\ r[i] = activeAuditorAt(u)
  <2>1. CASE i = m + 1
    BY <1>4, <1>5, <2>1 DEF x
  <2>2. CASE i \in 1..m
    BY <1>5, <1>6, <2>2
  <2> QED BY <1>8, <2>1, <2>2
<1> DEFINE b == [jurors |-> r, used |-> drawn.used \union {idx}]
<1>11. b \in Draws /\ b.jurors = r /\ b.used = drawn.used \union {idx}
  BY <1>3, <1>5 DEF Draws
<1> HIDE DEF b
<1>12. GoodDraw(d, b)
  BY <1>5, <1>9, <1>10, <1>11 DEF GoodDraw
<1> QED
  BY <1>12 DEF b, r, x, s

\* A draw stays in its type, whatever it has picked.
LEMMA DrawTyped ==
  ASSUME ListOK, NEW d, NEW drawn \in Draws, NEW word \in Nat
  PROVE  DrawJuror(d, drawn, word) \in Draws
<1>1. \A idx \in 0..(activeAuditorCount - 1) : activeAuditorAt(idx) \in Accounts /\ idx \in Nat
  BY ListsOK DEF activeAuditorCount, activeAuditorAt
<1>2. ASSUME NEW idx \in 0..(activeAuditorCount - 1)
      PROVE  [jurors |-> Append(drawn.jurors, activeAuditorAt(idx)),
              used |-> drawn.used \union {idx}] \in Draws
  <2>1. Append(drawn.jurors, activeAuditorAt(idx)) \in Seq(Accounts)
    BY <1>1 DEF Draws
  <2>2. drawn.used \union {idx} \in SUBSET Nat
    BY <1>1 DEF Draws
  <2> QED BY <2>1, <2>2 DEF Draws
<1> QED
  BY <1>2, DrawCases

\* The function MapThenFoldSet builds for DrawnJurors.
DrawIter(d, words) ==
  CHOOSE g : g = [s \in SUBSET DOMAIN words |->
    IF s = {} THEN NoDraw ELSE DrawJuror(d, g[s \ {Max(s)}], words[Max(s)])]

\* DrawnJurors is that function at the set of all words.
LEMMA DrawnIsIter ==
  ASSUME NEW d, NEW words
  PROVE  DrawnJurors(d, words) = DrawIter(d, words)[DOMAIN words].jurors
BY DEF DrawnJurors, FoldLeft, MapThenFoldSet, DrawIter, NoDraw

\* One word after the other, the draw stays good.
LEMMA DrawnIsGood ==
  ASSUME ListOK, NEW d, NEW words \in Seq(Nat)
  PROVE  GoodDraw(d, DrawIter(d, words)[DOMAIN words])
<1> DEFINE F == [x \in Draws \X Nat |-> DrawJuror(d, x[1], x[2])]
           D == DOMAIN words
           n == Len(words)
<1>1. D = 1..n /\ n \in Nat /\ (\A i \in D : words[i] \in Nat) /\ NoDraw \in Draws
  BY DEF NoDraw, Draws
<1>2. F \in [Draws \X Nat -> Draws]
  BY DrawTyped
<1>3. PICK g \in [SUBSET D -> Draws] :
        \A s \in SUBSET D : g[s] = FoldBody(F, NoDraw, words, g, s)
  <2> DEFINE base == NoDraw
             A == Draws
  <2>1. base \in A /\ F \in [A \X Nat -> A]
    BY <1>1, <1>2
  <2> HIDE DEF F, base, A
  <2>2. \E g : FoldSolves(F, base, words, A, g)
    BY <2>1, FoldSolution
  <2> QED BY <2>2 DEF base, A, FoldSolves
<1>4. ASSUME NEW s \in SUBSET D
      PROVE  g[s] = IF s = {} THEN NoDraw ELSE DrawJuror(d, g[s \ {Max(s)}], words[Max(s)])
  <2>1. CASE s = {}
    BY <1>3, <2>1 DEF FoldBody
  <2>2. CASE s # {}
    <3>1. Max(s) \in s
      BY <1>1, <2>2, MaxInSet
    <3>2. words[Max(s)] \in Nat /\ g[s \ {Max(s)}] \in Draws
      BY <1>1, <3>1
    <3>3. g[s] = F[<<g[s \ {Max(s)}], words[Max(s)]>>]
      BY <1>3, <2>2 DEF FoldBody
    <3> QED BY <2>2, <3>2, <3>3
  <2> QED BY <2>1, <2>2
<1>5. g = [s \in SUBSET D |->
             IF s = {} THEN NoDraw ELSE DrawJuror(d, g[s \ {Max(s)}], words[Max(s)])]
  BY <1>4, <1>3
<1> DEFINE G == DrawIter(d, words)
<1>6. G = [s \in SUBSET D |->
             IF s = {} THEN NoDraw ELSE DrawJuror(d, G[s \ {Max(s)}], words[Max(s)])]
  BY <1>5 DEF DrawIter
<1> HIDE DEF G, F
<1>7. ASSUME NEW k \in Nat, k < n
      PROVE  G[1..(k + 1)] = DrawJuror(d, G[1..k], words[k + 1])
  <2> DEFINE s == 1..(k + 1)
  <2>1. s \in SUBSET D /\ s # {} /\ Max(s) = k + 1 /\ s \ {k + 1} = 1..k
    BY <1>1, <1>7, PrefixStep
  <2> HIDE DEF s
  <2>2. G[s] = DrawJuror(d, G[s \ {k + 1}], words[k + 1])
    BY <1>6, <2>1
  <2> QED BY <2>1, <2>2 DEF s
<1>8. GoodDraw(d, G[1..0])
  <2>1. 1..0 = {} /\ {} \in SUBSET D
    OBVIOUS
  <2>2. G[1..0] = NoDraw
    BY <1>6, <2>1
  <2> QED BY <1>1, <2>2 DEF GoodDraw, NoDraw, IsInjective
<1> DEFINE U == {k \in Nat : k <= n => GoodDraw(d, G[1..k])}
<1>9. 0 \in U
  BY <1>8
<1>10. ASSUME NEW k \in Nat, k \in U PROVE k + 1 \in U
  <2> SUFFICES ASSUME k + 1 <= n PROVE GoodDraw(d, G[1..(k + 1)])
    OBVIOUS
  <2>1. k < n /\ k + 1 \in D /\ GoodDraw(d, G[1..k])
    BY <1>1, <1>10
  <2>2. words[k + 1] \in Nat
    BY <1>1, <2>1
  <2> QED BY <1>7, <2>1, <2>2, DrawStaysGood
<1>11. n \in U
  <2> HIDE DEF U
  <2> QED BY <1>1, <1>9, <1>10, SetInduction
<1> QED
  BY <1>1, <1>11 DEF G

\* The random words are natural numbers.
LEMMA WordsOK ==
  ASSUME ListOK, NEW size \in Nat, NEW words \in Words(size)
  PROVE  words \in Seq(Nat)
<1>1. activeAuditorCount \in Nat
  BY ListsOK DEF activeAuditorCount
<1>2. words \in [1..size -> Nat]
  BY <1>1 DEF Words
<1> QED
  BY <1>2

\* _selectJurors picks different active auditors and neither party, whatever the words.
LEMMA DrawnFacts ==
  ASSUME ListOK, NEW d, NEW size \in Nat, NEW words \in Words(size)
  PROVE  /\ DrawnJurors(d, words) \in Seq(Accounts)
         /\ IsInjective(DrawnJurors(d, words))
         /\ \A i \in DOMAIN DrawnJurors(d, words) : ~Party(d, DrawnJurors(d, words)[i])
<1>1. GoodDraw(d, DrawIter(d, words)[DOMAIN words])
  BY WordsOK, DrawnIsGood
<1>2. DrawnJurors(d, words) = DrawIter(d, words)[DOMAIN words].jurors
  BY DrawnIsIter
<1> QED
  BY <1>1, <1>2 DEF GoodDraw, Draws

\* A list that names nobody twice has as many members as places.
LEMMA InjectiveCount ==
  ASSUME NEW n \in Nat, NEW S, NEW r \in [1..n -> S], IsInjective(r)
  PROVE  Cardinality(Range(r)) = n
<1>1. r \in [1..n -> Range(r)]
  BY DEF Range
<1>2. r \in Bijection(1..n, Range(r))
  BY <1>1 DEF Bijection, Injection, Surjection, Range
<1> QED
  BY <1>2, FS_CountingElements DEF ExistsBijection

\* _prioritizeHumanExperts keeps the jurors different, none of them a party, and their number.
LEMMA SeatFacts ==
  ASSUME ListOK, config.humanExpertWeightMultiplier \in Nat,
         NEW d, NEW jury \in Seq(Accounts), IsInjective(jury),
         \A i \in DOMAIN jury : ~Party(d, jury[i])
  PROVE  LET seated == Range(SeatExperts(d, jury))
         IN  /\ seated \subseteq Accounts
             /\ Cardinality(seated) = Len(jury)
             /\ \A a \in seated : ~Party(d, a)
<1> DEFINE n == Len(jury)
           own == [i \in DOMAIN jury |-> i]
           seats == Kept(own, {i \in DOMAIN jury : ~isHumanExpert[jury[i]]})
           target == TargetExpertCount(n)
           needed == target - (n - Len(seats))
           experts == ReplacementExperts(d, jury)
           replaced == 1..LeastOf(needed, Len(experts))
           r == SeatExperts(d, jury)
<1>1. n \in Nat /\ DOMAIN jury = 1..n /\ \A i \in 1..n : jury[i] \in Accounts
  OBVIOUS
<1>2. r = [i \in 1..n |-> IF \E k \in replaced : seats[k] = i
                           THEN experts[CHOOSE k \in replaced : seats[k] = i]
                           ELSE jury[i]]
  BY <1>1 DEF SeatExperts
<1>3. /\ seats \in Seq(1..n) /\ IsInjective(seats)
  <2>1. own \in Seq(1..n) /\ IsInjective(own)
    BY <1>1 DEF IsInjective
  <2> HIDE DEF own
  <2> QED BY <2>1, KeptFacts
<1>4. /\ experts \in Seq(Accounts) /\ IsInjective(experts)
      /\ \A k \in DOMAIN experts : experts[k] \notin Range(jury) /\ ~Party(d, experts[k])
  <2> DEFINE T == {a \in Accounts \ Range(jury) : ~Party(d, a)}
             all == getActiveHumanExperts
  <2>1. all \in Seq(Accounts) /\ IsInjective(all) /\ experts = Kept(all, T)
    BY ListsOK DEF ReplacementExperts
  <2> HIDE DEF T, all, experts
  <2>2. experts \in Seq(Accounts) /\ IsInjective(experts) /\ Range(experts) \subseteq T
    BY <2>1, KeptFacts
  <2>3. \A k \in DOMAIN experts : experts[k] \in T
    BY <2>2 DEF Range
  <2> QED BY <2>2, <2>3 DEF T
<1>5. target \in Int /\ target <= n
  <2>1. Len(getActiveHumanExperts) \in Nat /\ n \div 2 \in Nat /\ n \div 2 <= n
    BY <1>1, ListsOK
  <2>2. (n * config.humanExpertWeightMultiplier) \div 10 \in Nat
    BY <1>1
  <2> HIDE DEF n
  <2> QED BY <1>1, <2>1, <2>2 DEF TargetExpertCount, LeastOf
<1>6. \A k \in replaced : k \in DOMAIN seats /\ k \in DOMAIN experts
  <2>1. DOMAIN seats = 1..Len(seats) /\ Len(seats) \in Nat
        /\ DOMAIN experts = 1..Len(experts) /\ Len(experts) \in Nat
    BY <1>3, <1>4
  <2>2. needed \in Int /\ needed <= Len(seats)
    <3> HIDE DEF target, seats, n
    <3> QED BY <1>1, <1>5, <2>1
  <2> HIDE DEF needed, seats, experts
  <2> QED BY <2>1, <2>2 DEF LeastOf
<1> DEFINE Replaced(i) == \E k \in replaced : seats[k] = i
           By(i) == CHOOSE k \in replaced : seats[k] = i
<1> HIDE DEF r, replaced, seats, experts, n
<1>7. ASSUME NEW i \in 1..n, Replaced(i)
      PROVE  /\ By(i) \in DOMAIN seats /\ By(i) \in DOMAIN experts /\ seats[By(i)] = i
             /\ r[i] = experts[By(i)]
  BY <1>2, <1>6, <1>7
<1>8. ASSUME NEW i \in 1..n, ~Replaced(i)
      PROVE  r[i] = jury[i]
  BY <1>2, <1>8
<1> HIDE DEF By, Replaced
<1>9. \A i \in 1..n : r[i] \in Accounts /\ ~Party(d, r[i])
  BY <1>1, <1>4, <1>7, <1>8
<1>10. \A i \in 1..n : jury[i] \in Range(jury)
  BY <1>1 DEF Range
<1>11. ASSUME NEW i \in 1..n, NEW j \in 1..n, r[i] = r[j] PROVE i = j
  <2>1. CASE Replaced(i) /\ Replaced(j)
    BY <1>4, <1>7, <1>11, <2>1 DEF IsInjective
  <2>2. CASE Replaced(i) /\ ~Replaced(j)
    BY <1>4, <1>7, <1>8, <1>10, <1>11, <2>2
  <2>3. CASE ~Replaced(i) /\ Replaced(j)
    BY <1>4, <1>7, <1>8, <1>10, <1>11, <2>3
  <2>4. CASE ~Replaced(i) /\ ~Replaced(j)
    BY <1>1, <1>8, <1>11, <2>4 DEF IsInjective
  <2> QED BY <2>1, <2>2, <2>3, <2>4
<1>12. r \in [1..n -> Accounts] /\ IsInjective(r)
  BY <1>2, <1>9, <1>11 DEF IsInjective
<1>13. Cardinality(Range(r)) = n
  BY <1>1, <1>12, InjectiveCount
<1>14. Range(r) \subseteq Accounts /\ \A a \in Range(r) : ~Party(d, a)
  BY <1>9, <1>12 DEF Range
<1> QED
  BY <1>13, <1>14 DEF r, n

-----------------------------------------------------------------------------
(* Disputes and their rounds.                                              *)

\* Levels a dispute can be at.
AllLevels == 0..MaxLevel

\* Who voted, and for whom.
Ballots == UNION {[S -> Winners] : S \in SUBSET Accounts}

\* The records of the contract.
DisputeSet ==
  [status : Statuses, bundle : Bundles, branchId : ChallengedBranches, faultType : FaultTypes,
   challenger : Accounts, verifier : Accounts, challengeBond : Nat, defenseBond : Nat,
   currentLevel : AllLevels, hasResponded : BOOLEAN, responseDeadline : Nat]

RoundSet ==
  [phase : Phases, jurySize : Nat, jurors : SUBSET Accounts, evidence : SUBSET EvidenceBy,
   votes : Ballots, winner : Winners, evidenceDeadline : Nat, voteDeadline : Nat,
   appealDeadline : Nat]

\* Phases in which a jury sits, and in which a round waits for one.
Sitting == {"EVIDENCE", "VOTING", "TALLY_READY"}

Waiting == {"NONE", "SELECTING_JURY"}

\* The status of a dispute agrees with the phase of its round.
Agree(x, y) ==
  /\ x.status = "OPEN" => y.phase = "NONE" /\ x.currentLevel = 0
  /\ x.status = "ROUND_ACTIVE" => /\ y.phase = "SELECTING_JURY" \/ y.phase \in Sitting
                                  /\ x.currentLevel > 0
  /\ x.status \in {"ROUND_RESOLVED", "FINALIZED"} => y.phase = "RESOLVED"

\* A sitting jury is complete and impartial.
Impartial(x, y) ==
  /\ Cardinality(y.jurors) = y.jurySize
  /\ x.challenger \notin y.jurors /\ x.verifier \notin y.jurors

\* A dispute and its round, in order.
PairOK(x, y) ==
  /\ x \in DisputeSet
  /\ y \in RoundSet
  /\ Agree(x, y)
  /\ DOMAIN y.votes \subseteq y.jurors
  /\ y.phase \in Waiting => DOMAIN y.votes = {}
  /\ y.phase \in Sitting => Impartial(x, y)

DisputesOK ==
  /\ disputes \in Seq(DisputeSet)
  /\ rounds \in Seq(RoundSet)
  /\ Len(rounds) = Len(disputes)
  /\ \A d \in Ids : PairOK(disputes[d], rounds[d])

\* A request the coordinator has not answered is of a round that waits for it.
RequestsOK ==
  \A r \in vrfRequests : \E d \in Ids, level \in 1..MaxLevel :
    /\ r = <<d, level>>
    /\ disputes[d].currentLevel = level
    /\ rounds[d].phase = "SELECTING_JURY"

\* What the owner sets, the clock, and the owners of the bundles.
SettingsOK ==
  /\ config \in Configs
  /\ fees \in [treasury : Nat, juror : Nat]
  /\ fees.treasury + fees.juror <= 10000
  /\ now \in Nat
  /\ DOMAIN bundles = Bundles
  /\ \A b \in Bundles : bundles[b] = NoBundle \/ bundles[b].owner \in Accounts

\* What the steps of one dispute rely on.
Context == ListOK /\ SettingsOK /\ DisputesOK /\ RequestsOK

\* Only dispute d and its round change, to x and y.
PairMoves(d, x, y) ==
  /\ disputes' \in Seq(DisputeSet) /\ Len(disputes') = Len(disputes)
  /\ rounds' \in Seq(RoundSet) /\ Len(rounds') = Len(rounds)
  /\ disputes'[d] = x /\ rounds'[d] = y
  /\ \A e \in Ids : e # d => disputes'[e] = disputes[e] /\ rounds'[e] = rounds[e]

\* What such a change may be: no final dispute, no answered one lost at L0 without a
\* violation, no jury and no vote replaced within a round.
Course(d, x, y) ==
  /\ disputes[d].status # "FINALIZED"
  /\ /\ disputes[d].status = "OPEN" /\ disputes[d].hasResponded
     /\ x.status = "ROUND_RESOLVED"
     => MechanicalViolation(disputes[d])
  /\ x.currentLevel = disputes[d].currentLevel /\ rounds[d].phase \in Sitting
     => /\ y.jurors = rounds[d].jurors
        /\ \A juror \in DOMAIN rounds[d].votes :
             juror \in DOMAIN y.votes /\ y.votes[juror] = rounds[d].votes[juror]

\* The requests still open are of other disputes or of the new round.
Requested(d, x, y) ==
  \A r \in vrfRequests' :
    \/ r \in vrfRequests /\ r[1] # d
    \/ /\ r = <<d, x.currentLevel>>
       /\ x.currentLevel \in 1..MaxLevel
       /\ y.phase = "SELECTING_JURY"

Change(d, x, y) == PairMoves(d, x, y) /\ PairOK(x, y) /\ Course(d, x, y) /\ Requested(d, x, y)

\* The bonds of the dispute grow by what the ladder receives.
Funded(d, x) ==
  /\ x.status # "FINALIZED"
  /\ \E bond \in Nat : /\ ladderWeth' = ladderWeth + bond
                       /\ TotalBond(x) = TotalBond(disputes[d]) + bond
  /\ pendingRewards' = pendingRewards
  /\ wethOf \in [Accounts -> Nat] => wethOf' \in [Accounts -> Nat]

\* A step of dispute d that does not settle it.
Moved(d) == \E x, y : Change(d, x, y) /\ Funded(d, x)

\* The literals of the contract's enums.
LEMMA Literals ==
  /\ {"OPEN", "ROUND_ACTIVE", "ROUND_RESOLVED", "FINALIZED"} \subseteq Statuses
  /\ {"NONE", "SELECTING_JURY", "EVIDENCE", "VOTING", "TALLY_READY", "RESOLVED"} \subseteq Phases
  /\ {"UNDECIDED", "CHALLENGER", "VERIFIER"} \subseteq Winners
  /\ AllLevels = 0..3 /\ MaxLevel = 3
BY DEF Statuses, Phases, Winners, AllLevels, MaxLevel

\* A dispute that exists, its round, and their types.
LEMMA PairExists ==
  ASSUME DisputesOK, NEW d \in Ids
  PROVE  /\ PairOK(disputes[d], rounds[d])
         /\ disputes[d] \in DisputeSet /\ rounds[d] \in RoundSet
         /\ disputes \in Seq(DisputeSet) /\ rounds \in Seq(RoundSet)
         /\ DOMAIN rounds = Ids /\ Ids = 1..Len(disputes) /\ Len(disputes) \in Nat
<1>1. PairOK(disputes[d], rounds[d])
  BY DEF DisputesOK
<1>2. /\ disputes \in Seq(DisputeSet) /\ rounds \in Seq(RoundSet)
      /\ Len(rounds) = Len(disputes)
  BY DEF DisputesOK
<1>3. DOMAIN rounds = Ids /\ Ids = 1..Len(disputes) /\ Len(disputes) \in Nat
  BY <1>2 DEF Ids
<1> QED
  BY <1>1, <1>2, <1>3 DEF PairOK

\* Replacing an element of a sequence.
LEMMA Replaced ==
  ASSUME NEW S, NEW q \in Seq(S), NEW i \in DOMAIN q, NEW v \in S
  PROVE  LET r == [q EXCEPT ![i] = v]
         IN  /\ r \in Seq(S) /\ Len(r) = Len(q)
             /\ r[i] = v /\ \A j \in DOMAIN q : j # i => r[j] = q[j]
OBVIOUS

\* The dispute and its round change together.
LEMMA BothMove ==
  ASSUME DisputesOK, NEW d \in Ids, NEW x \in DisputeSet, NEW y \in RoundSet,
         disputes' = [disputes EXCEPT ![d] = x], rounds' = [rounds EXCEPT ![d] = y]
  PROVE  PairMoves(d, x, y)
<1>1. /\ disputes \in Seq(DisputeSet) /\ rounds \in Seq(RoundSet)
      /\ DOMAIN rounds = Ids /\ d \in DOMAIN disputes
  BY PairExists DEF Ids
<1>2. /\ disputes' \in Seq(DisputeSet) /\ Len(disputes') = Len(disputes)
      /\ disputes'[d] = x /\ \A e \in Ids : e # d => disputes'[e] = disputes[e]
  BY <1>1, Replaced DEF Ids
<1>3. /\ rounds' \in Seq(RoundSet) /\ Len(rounds') = Len(rounds)
      /\ rounds'[d] = y /\ \A e \in Ids : e # d => rounds'[e] = rounds[e]
  BY <1>1, Replaced
<1> QED
  BY <1>2, <1>3 DEF PairMoves

\* Only the round changes.
LEMMA RoundMoves ==
  ASSUME DisputesOK, NEW d \in Ids, NEW y \in RoundSet,
         disputes' = disputes, rounds' = [rounds EXCEPT ![d] = y]
  PROVE  PairMoves(d, disputes[d], y)
<1>1. /\ disputes \in Seq(DisputeSet) /\ rounds \in Seq(RoundSet) /\ DOMAIN rounds = Ids
  BY PairExists
<1>2. /\ rounds' \in Seq(RoundSet) /\ Len(rounds') = Len(rounds)
      /\ rounds'[d] = y /\ \A e \in Ids : e # d => rounds'[e] = rounds[e]
  BY <1>1, Replaced
<1> QED
  BY <1>1, <1>2 DEF PairMoves

\* Only the dispute changes.
LEMMA DisputeMoves ==
  ASSUME DisputesOK, NEW d \in Ids, NEW x \in DisputeSet,
         disputes' = [disputes EXCEPT ![d] = x], rounds' = rounds
  PROVE  PairMoves(d, x, rounds[d])
<1>1. /\ disputes \in Seq(DisputeSet) /\ rounds \in Seq(RoundSet) /\ d \in DOMAIN disputes
  BY PairExists DEF Ids
<1>2. /\ disputes' \in Seq(DisputeSet) /\ Len(disputes') = Len(disputes)
      /\ disputes'[d] = x /\ \A e \in Ids : e # d => disputes'[e] = disputes[e]
  BY <1>1, Replaced DEF Ids
<1> QED
  BY <1>1, <1>2 DEF PairMoves

\* A round that waits for no jury has no open request; closing it keeps that.
LEMMA NoRequest ==
  ASSUME RequestsOK, NEW d \in Ids, NEW x, NEW y,
         rounds[d].phase # "SELECTING_JURY", vrfRequests' = vrfRequests
  PROVE  Requested(d, x, y)
BY DEF RequestsOK, Requested

\* A round that keeps its level and its phase keeps its request.
LEMMA SameRequest ==
  ASSUME RequestsOK, NEW d \in Ids, NEW x, NEW y,
         x.currentLevel = disputes[d].currentLevel, y.phase = rounds[d].phase,
         vrfRequests' = vrfRequests
  PROVE  Requested(d, x, y)
<1> SUFFICES ASSUME NEW r \in vrfRequests
             PROVE  \/ r[1] # d
                    \/ /\ r = <<d, x.currentLevel>>
                       /\ x.currentLevel \in 1..MaxLevel
                       /\ y.phase = "SELECTING_JURY"
  BY DEF Requested
<1>1. PICK e \in Ids, level \in 1..MaxLevel : /\ r = <<e, level>>
                                              /\ disputes[e].currentLevel = level
                                              /\ rounds[e].phase = "SELECTING_JURY"
  BY DEF RequestsOK
<1> QED
  BY <1>1

\* No bond moves.
LEMMA NotFunded ==
  ASSUME DisputesOK, NEW d \in Ids, NEW x, x.status # "FINALIZED",
         x.challengeBond = disputes[d].challengeBond, x.defenseBond = disputes[d].defenseBond,
         ladderWeth \in Nat,
         ladderWeth' = ladderWeth, pendingRewards' = pendingRewards, wethOf' = wethOf
  PROVE  Funded(d, x)
<1>1. disputes[d].challengeBond \in Nat /\ disputes[d].defenseBond \in Nat
  BY PairExists DEF DisputeSet
<1>2. TotalBond(x) = TotalBond(disputes[d]) + 0 /\ ladderWeth' = ladderWeth + 0
  BY <1>1 DEF TotalBond
<1> QED
  BY <1>2 DEF Funded

-----------------------------------------------------------------------------
(* One lemma per function that moves a dispute on.                         *)

\* What every step of a dispute starts from.
Before == Context /\ ladderWeth \in Nat

\* The records before a step.
LEMMA BeforePair ==
  ASSUME Before, NEW d \in Ids
  PROVE  /\ PairOK(disputes[d], rounds[d])
         /\ disputes[d] \in DisputeSet /\ rounds[d] \in RoundSet
         /\ DisputesOK /\ RequestsOK /\ ladderWeth \in Nat
         /\ now \in Nat /\ config \in Configs
BY PairExists DEF Before, Context, SettingsOK

\* The numbers the owner configured.
LEMMA ConfigFacts ==
  ASSUME config \in Configs
  PROVE  /\ config.challengeWindow \in Nat /\ config.responseWindow \in Nat
         /\ config.humanExpertWeightMultiplier \in Nat
         /\ \A level \in 1..MaxLevel : /\ config.jurySizes[level] \in Nat
                                       /\ config.evidenceWindows[level] \in Nat
                                       /\ config.voteWindows[level] \in Nat
         /\ \A level \in 0..MaxLevel : config.appealWindows[level] \in Nat
<1> DEFINE T == [1..MaxLevel -> Nat]
           W == [0..MaxLevel -> Nat]
<1>1. /\ config.challengeWindow \in Nat /\ config.responseWindow \in Nat
      /\ config.humanExpertWeightMultiplier \in Nat
      /\ config.jurySizes \in T /\ config.evidenceWindows \in T /\ config.voteWindows \in T
      /\ config.appealWindows \in W
  <2> HIDE DEF T, W
  <2>1. config \in [challengeWindow : Nat, responseWindow : Nat, useVrf : BOOLEAN,
                    treasury : Accounts, minChallengeBond : Nat, appealBonds : T,
                    jurySizes : T, evidenceWindows : T, voteWindows : T,
                    appealWindows : W, humanExpertWeightMultiplier : Nat]
    BY DEF Configs, T, W
  <2> QED BY <2>1
<1> QED
  BY <1>1

\* An answer changes nothing but itself.
LEMMA RespondMoves ==
  ASSUME Before, NEW d \in Ids, respondToDispute(d)
  PROVE  Moved(d)
<1> DEFINE x0 == disputes[d]
           y0 == rounds[d]
           x == [x0 EXCEPT !.hasResponded = TRUE]
<1>1. /\ PairOK(x0, y0) /\ x0 \in DisputeSet /\ y0 \in RoundSet
      /\ DisputesOK /\ RequestsOK /\ ladderWeth \in Nat
  BY BeforePair
<1>2. /\ x0.status = "OPEN" /\ disputes' = [disputes EXCEPT ![d] = x]
      /\ rounds' = rounds /\ vrfRequests' = vrfRequests /\ pendingRewards' = pendingRewards
      /\ ladderWeth' = ladderWeth /\ wethOf' = wethOf
  BY DEF respondToDispute
<1> HIDE DEF x0, y0
<1>3. /\ x \in DisputeSet /\ x.status = "OPEN" /\ x.currentLevel = x0.currentLevel
      /\ x.challengeBond = x0.challengeBond /\ x.defenseBond = x0.defenseBond
      /\ x.challenger = x0.challenger /\ x.verifier = x0.verifier
  BY <1>1, <1>2 DEF DisputeSet
<1> HIDE DEF x
<1>4. PairOK(x, y0)
  BY <1>1, <1>2, <1>3 DEF PairOK, Agree, Impartial
<1>5. PairMoves(d, x, y0)
  BY <1>1, <1>2, <1>3, DisputeMoves DEF x0, y0
<1>6. Course(d, x, y0)
  BY <1>2, <1>3 DEF Course, x0, y0
<1>7. Requested(d, x, y0)
  BY <1>1, <1>2, <1>3, SameRequest DEF x0, y0
<1>8. Funded(d, x)
  BY <1>1, <1>2, <1>3, NotFunded DEF x0, y0
<1> QED
  BY <1>4, <1>5, <1>6, <1>7, <1>8 DEF Moved, Change

\* A defense bond is received in full and added to the dispute.
LEMMA DefenseMoves ==
  ASSUME Before, NEW d \in Ids, NEW bond \in Bonds, postDefenseBond(d, bond)
  PROVE  Moved(d)
<1> DEFINE x0 == disputes[d]
           y0 == rounds[d]
           x == [x0 EXCEPT !.defenseBond = x0.defenseBond + bond]
<1>1. /\ PairOK(x0, y0) /\ x0 \in DisputeSet /\ y0 \in RoundSet
      /\ DisputesOK /\ RequestsOK /\ ladderWeth \in Nat /\ bond \in Nat
  BY BeforePair, LadderConstants
<1>2. /\ x0.status # "FINALIZED" /\ disputes' = [disputes EXCEPT ![d] = x]
      /\ rounds' = rounds /\ vrfRequests' = vrfRequests /\ pendingRewards' = pendingRewards
      /\ ladderWeth' = ladderWeth + bond
      /\ wethOf[x0.verifier] >= bond
      /\ wethOf' = [wethOf EXCEPT ![x0.verifier] = @ - bond]
  BY DEF postDefenseBond
<1> HIDE DEF x0, y0
<1>3. /\ x \in DisputeSet /\ x.status = x0.status /\ x.currentLevel = x0.currentLevel
      /\ x.challengeBond = x0.challengeBond /\ x.defenseBond = x0.defenseBond + bond
      /\ x.challenger = x0.challenger /\ x.verifier = x0.verifier
      /\ x0.challengeBond \in Nat /\ x0.defenseBond \in Nat /\ x0.verifier \in Accounts
  BY <1>1, <1>2 DEF DisputeSet
<1> HIDE DEF x
<1>4. PairOK(x, y0)
  BY <1>1, <1>2, <1>3 DEF PairOK, Agree, Impartial
<1>5. PairMoves(d, x, y0)
  BY <1>1, <1>2, <1>3, DisputeMoves DEF x0, y0
<1>6. Course(d, x, y0)
  BY <1>2, <1>3 DEF Course, x0, y0
<1>7. Requested(d, x, y0)
  BY <1>1, <1>2, <1>3, SameRequest DEF x0, y0
<1>8. Funded(d, x)
  <2>1. wethOf \in [Accounts -> Nat] => wethOf' \in [Accounts -> Nat]
    BY <1>1, <1>2, <1>3
  <2>2. TotalBond(x) = TotalBond(x0) + bond
    BY <1>1, <1>3 DEF TotalBond
  <2> QED BY <1>1, <1>2, <1>3, <2>1, <2>2 DEF Funded, x0
<1> QED
  BY <1>4, <1>5, <1>6, <1>7, <1>8 DEF Moved, Change

\* A round resolved without a jury: no answer, or a violation that a machine can see.
LEMMA ResolvedAtOnce ==
  ASSUME Before, NEW d \in Ids, disputes[d].status = "OPEN",
         disputes[d].hasResponded => MechanicalViolation(disputes[d]),
         rounds' = [rounds EXCEPT ![d] = Resolved(@, 0, "CHALLENGER")],
         disputes' = [disputes EXCEPT ![d].status = "ROUND_RESOLVED"],
         vrfRequests' = vrfRequests, pendingRewards' = pendingRewards,
         ladderWeth' = ladderWeth, wethOf' = wethOf
  PROVE  Moved(d)
<1> DEFINE x0 == disputes[d]
           y0 == rounds[d]
           x == [x0 EXCEPT !.status = "ROUND_RESOLVED"]
           y == Resolved(y0, 0, "CHALLENGER")
<1>1. /\ PairOK(x0, y0) /\ x0 \in DisputeSet /\ y0 \in RoundSet
      /\ DisputesOK /\ RequestsOK /\ ladderWeth \in Nat
      /\ now \in Nat /\ config \in Configs
  BY BeforePair
<1>2. /\ disputes' = [disputes EXCEPT ![d] = x] /\ rounds' = [rounds EXCEPT ![d] = y]
      /\ x0.status = "OPEN"
  BY <1>1, PairExists
<1>3. now + config.appealWindows[0] \in Nat
  BY <1>1, ConfigFacts, Literals
<1> HIDE DEF x0, y0
<1>4. /\ x \in DisputeSet /\ x.status = "ROUND_RESOLVED" /\ x.currentLevel = x0.currentLevel
      /\ x.challengeBond = x0.challengeBond /\ x.defenseBond = x0.defenseBond
  BY <1>1, <1>2, Literals DEF DisputeSet
<1>5. y \in RoundSet /\ y.phase = "RESOLVED" /\ y.votes = y0.votes /\ y.jurors = y0.jurors
  BY <1>1, <1>3, Literals DEF RoundSet, Resolved
<1>6. y0.phase = "NONE" /\ DOMAIN y0.votes \subseteq y0.jurors
  BY <1>1, <1>2 DEF PairOK, Agree
<1> HIDE DEF x, y
<1>7. PairOK(x, y)
  BY <1>4, <1>5, <1>6 DEF PairOK, Agree, Waiting, Sitting
<1>8. PairMoves(d, x, y)
  BY <1>1, <1>2, <1>4, <1>5, BothMove
<1>9. Course(d, x, y)
  BY <1>2, <1>6 DEF Course, x0, y0, Sitting
<1>10. Requested(d, x, y)
  BY <1>1, <1>6, NoRequest DEF y0
<1>11. Funded(d, x)
  BY <1>1, <1>2, <1>4, NotFunded DEF x0, y0
<1> QED
  BY <1>7, <1>8, <1>9, <1>10, <1>11 DEF Moved, Change

\* resolveForNonResponse
LEMMA NonResponseMoves ==
  ASSUME Before, NEW d \in Ids, resolveForNonResponse(d)
  PROVE  Moved(d)
BY ResolvedAtOnce DEF resolveForNonResponse

\* No votes are a ballot.
LEMMA EmptyBallot == <<>> \in Ballots /\ DOMAIN <<>> = {}
<1>1. <<>> \in [{} -> Winners]
  OBVIOUS
<1> QED
  BY <1>1 DEF Ballots

\* The jury a selection seats is complete and impartial.
LEMMA JurySeated ==
  ASSUME Before, NEW d \in Ids, NEW y0 \in RoundSet, NEW level \in 1..MaxLevel,
         NEW jury \in Juries(d, y0.jurySize)
  PROVE  LET y == WithJury(d, y0, level, jury)
         IN  /\ y \in RoundSet
             /\ y.phase = "EVIDENCE"
             /\ y.votes = y0.votes
             /\ Impartial(disputes[d], y)
<1> DEFINE seated == Range(SeatExperts(d, jury))
           deadline == now + config.evidenceWindows[level]
           size == y0.jurySize
           y == WithJury(d, y0, level, jury)
<1>1. ListOK /\ config \in Configs /\ now \in Nat /\ size \in Nat
  BY DEF Before, Context, SettingsOK, RoundSet
<1>2. config.humanExpertWeightMultiplier \in Nat /\ deadline \in Nat
  BY <1>1, ConfigFacts
<1>3. /\ jury \in Seq(Accounts) /\ IsInjective(jury) /\ \A i \in DOMAIN jury : ~Party(d, jury[i])
      /\ Len(jury) = size
  <2>1. PICK words \in Words(size) : jury = DrawnJurors(d, words) /\ Len(jury) = size
    BY DEF Juries
  <2> QED BY <1>1, <2>1, DrawnFacts
<1>4. /\ seated \subseteq Accounts /\ Cardinality(seated) = size
      /\ \A a \in seated : ~Party(d, a)
  BY <1>1, <1>2, <1>3, SeatFacts
<1>5. y = [y0 EXCEPT !.jurors = seated, !.evidenceDeadline = deadline, !.phase = "EVIDENCE"]
  BY DEF WithJury
<1> HIDE DEF seated, deadline, y
<1>6. /\ y \in RoundSet /\ y.phase = "EVIDENCE" /\ y.votes = y0.votes
      /\ y.jurors = seated /\ y.jurySize = size
  BY <1>2, <1>4, <1>5, Literals DEF RoundSet
<1>7. Impartial(disputes[d], y)
  BY <1>4, <1>6 DEF Impartial, Party
<1> QED
  BY <1>6, <1>7 DEF y

\* A round that opens waits for its jury.
LEMMA RoundOpens ==
  ASSUME Before, NEW level \in 1..MaxLevel
  PROVE  LET y == NewRound(level)
         IN  /\ y \in RoundSet
             /\ y.phase = "SELECTING_JURY"
             /\ y.jurySize = config.jurySizes[level]
             /\ y.jurors = {}
             /\ DOMAIN y.votes = {}
<1>1. config.jurySizes[level] \in Nat
  BY ConfigFacts DEF Before, Context, SettingsOK
<1>2. NoRound \in RoundSet /\ NoRound.votes = <<>> /\ NoRound.jurors = {}
  BY EmptyBallot, Literals DEF NoRound, RoundSet
<1> HIDE DEF NoRound
<1>3. /\ NewRound(level) \in RoundSet /\ NewRound(level).phase = "SELECTING_JURY"
      /\ NewRound(level).jurySize = config.jurySizes[level]
      /\ NewRound(level).votes = NoRound.votes /\ NewRound(level).jurors = NoRound.jurors
  BY <1>1, <1>2, Literals DEF NewRound, RoundSet
<1> QED
  BY <1>2, <1>3, EmptyBallot

\* _escalateToNextLevel, with the dispute x1 as the caller left it.
LEMMA Escalates ==
  ASSUME Before, NEW d \in Ids, NEW x1 \in DisputeSet,
         disputes[d].status \in {"OPEN", "ROUND_RESOLVED"},
         x1.currentLevel = disputes[d].currentLevel,
         x1.challenger = disputes[d].challenger, x1.verifier = disputes[d].verifier,
         Escalate(d, x1)
  PROVE  \E x, y : /\ Change(d, x, y)
                   /\ x.status = "ROUND_ACTIVE"
                   /\ x.challengeBond = x1.challengeBond /\ x.defenseBond = x1.defenseBond
<1> DEFINE x0 == disputes[d]
           y0 == rounds[d]
           level == x1.currentLevel + 1
           x == [x1 EXCEPT !.currentLevel = level, !.status = "ROUND_ACTIVE"]
<1>1. /\ PairOK(x0, y0) /\ x0 \in DisputeSet /\ y0 \in RoundSet
      /\ DisputesOK /\ RequestsOK
      /\ config \in Configs
  BY BeforePair
<1>2. /\ x1.currentLevel < MaxLevel
      /\ disputes' = [disputes EXCEPT ![d] = x]
  BY DEF Escalate
<1>3. x1.currentLevel \in AllLevels
  BY DEF DisputeSet
<1>4. level \in 1..MaxLevel /\ level \in AllLevels /\ level > 0 /\ level # x0.currentLevel
  BY <1>2, <1>3, Literals
<1>5. y0.phase \in {"NONE", "RESOLVED"} /\ x0.status # "FINALIZED" /\ x0.status # "ROUND_ACTIVE"
  BY <1>1 DEF PairOK, Agree
<1> HIDE DEF x0, y0, level
<1>6. /\ x \in DisputeSet /\ x.status = "ROUND_ACTIVE" /\ x.currentLevel = level
      /\ x.challengeBond = x1.challengeBond /\ x.defenseBond = x1.defenseBond
      /\ x.challenger = x0.challenger /\ x.verifier = x0.verifier
  BY <1>4, Literals DEF DisputeSet, x0
<1> HIDE DEF x
<1>7. /\ NewRound(level) \in RoundSet /\ NewRound(level).phase = "SELECTING_JURY"
      /\ NewRound(level).jurySize = config.jurySizes[level]
      /\ NewRound(level).jurors = {} /\ DOMAIN NewRound(level).votes = {}
  BY <1>4, RoundOpens
<1>8. ASSUME NEW y \in RoundSet, rounds' = [rounds EXCEPT ![d] = y], PairOK(x, y),
             Requested(d, x, y)
      PROVE  Change(d, x, y)
  <2>1. PairMoves(d, x, y)
    BY <1>1, <1>2, <1>6, <1>8, BothMove
  <2>2. Course(d, x, y)
    BY <1>4, <1>5, <1>6 DEF Course, x0, y0
  <2> QED BY <1>8, <2>1, <2>2 DEF Change
<1>9. CASE /\ rounds' = [rounds EXCEPT ![d] = NewRound(level)]
           /\ vrfRequests' = vrfRequests \union {<<d, level>>}
  <2> DEFINE y == NewRound(level)
  <2> HIDE DEF y
  <2>1. y \in RoundSet /\ y.phase = "SELECTING_JURY" /\ y.jurors = {} /\ DOMAIN y.votes = {}
    BY <1>7 DEF y
  <2>2. PairOK(x, y)
    BY <1>4, <1>6, <2>1 DEF PairOK, Agree, Sitting
  <2>3. Requested(d, x, y)
    <3>1. \A r \in vrfRequests : r[1] # d
      BY <1>1, <1>5 DEF RequestsOK, y0
    <3> QED BY <1>4, <1>6, <1>9, <2>1, <3>1 DEF Requested
  <2>4. rounds' = [rounds EXCEPT ![d] = y]
    BY <1>9 DEF y
  <2> QED BY <1>6, <1>8, <2>1, <2>2, <2>3, <2>4
<1>10. CASE /\ vrfRequests' = vrfRequests
            /\ \E jury \in Juries(d, config.jurySizes[level]) :
                 rounds' = [rounds EXCEPT ![d] = WithJury(d, NewRound(level), level, jury)]
  <2>1. PICK jury \in Juries(d, config.jurySizes[level]) :
          rounds' = [rounds EXCEPT ![d] = WithJury(d, NewRound(level), level, jury)]
    BY <1>10
  <2> DEFINE y == WithJury(d, NewRound(level), level, jury)
  <2>2. /\ y \in RoundSet /\ y.phase = "EVIDENCE" /\ DOMAIN y.votes = {}
        /\ Impartial(x0, y)
    BY <1>4, <1>7, <2>1, JurySeated DEF x0
  <2>3. rounds' = [rounds EXCEPT ![d] = y]
    BY <2>1
  <2> HIDE DEF y
  <2>4. PairOK(x, y)
    BY <1>4, <1>6, <2>2 DEF PairOK, Agree, Sitting, Waiting, Impartial
  <2>5. Requested(d, x, y)
    BY <1>1, <1>5, <1>10, NoRequest DEF y0
  <2> QED BY <1>6, <1>8, <2>2, <2>3, <2>4, <2>5
<1> QED
  BY <1>9, <1>10 DEF Escalate, level

\* runL0AutoCheck
LEMMA L0Moves ==
  ASSUME Before, NEW d \in Ids, runL0AutoCheck(d)
  PROVE  Moved(d)
<1>1. /\ disputes[d].status = "OPEN"
      /\ pendingRewards' = pendingRewards /\ ladderWeth' = ladderWeth /\ wethOf' = wethOf
  BY DEF runL0AutoCheck
<1>2. CASE MechanicalViolation(disputes[d])
  BY <1>1, <1>2, ResolvedAtOnce DEF runL0AutoCheck
<1>3. CASE ~MechanicalViolation(disputes[d])
  <2>1. Escalate(d, disputes[d])
    BY <1>3 DEF runL0AutoCheck
  <2>2. disputes[d] \in DisputeSet /\ DisputesOK /\ ladderWeth \in Nat
    BY BeforePair
  <2>3. PICK x, y : /\ Change(d, x, y)
                    /\ x.status = "ROUND_ACTIVE"
                    /\ x.challengeBond = disputes[d].challengeBond
                    /\ x.defenseBond = disputes[d].defenseBond
    BY <1>1, <2>1, <2>2, Escalates
  <2>4. Funded(d, x)
    BY <1>1, <2>2, <2>3, NotFunded
  <2> QED BY <2>3, <2>4 DEF Moved
<1> QED
  BY <1>2, <1>3

\* Nothing changes but the requests.
LEMMA PairStays ==
  ASSUME DisputesOK, NEW d \in Ids, disputes' = disputes, rounds' = rounds
  PROVE  PairMoves(d, disputes[d], rounds[d])
BY PairExists DEF PairMoves

\* The coordinator's answer uses up the request and seats a jury or nobody.
LEMMA FulfillMoves ==
  ASSUME Before, NEW d \in Ids, NEW lev, fulfillRandomWords(d, lev)
  PROVE  Moved(d)
<1> DEFINE x0 == disputes[d]
           y0 == rounds[d]
<1>1. /\ PairOK(x0, y0) /\ x0 \in DisputeSet /\ y0 \in RoundSet
      /\ DisputesOK /\ RequestsOK /\ ladderWeth \in Nat
  BY BeforePair
<1>2. /\ <<d, lev>> \in vrfRequests /\ vrfRequests' = vrfRequests \ {<<d, lev>>}
      /\ disputes' = disputes /\ pendingRewards' = pendingRewards
      /\ ladderWeth' = ladderWeth /\ wethOf' = wethOf
  BY DEF fulfillRandomWords
<1>3. /\ lev \in 1..MaxLevel /\ x0.currentLevel = lev /\ y0.phase = "SELECTING_JURY"
      /\ \A r \in vrfRequests : r[1] = d => r = <<d, lev>>
  BY <1>1, <1>2 DEF RequestsOK
<1>4. \A r \in vrfRequests' : r \in vrfRequests /\ r[1] # d
  BY <1>2, <1>3
<1>5. x0.status = "ROUND_ACTIVE" /\ x0.currentLevel > 0 /\ DOMAIN y0.votes = {}
  <2>1. x0.status \in Statuses
    BY <1>1 DEF DisputeSet
  <2>2. x0.status = "ROUND_ACTIVE"
    BY <1>1, <1>3, <2>1 DEF PairOK, Agree, Statuses
  <2> QED BY <1>1, <1>3, <2>2 DEF PairOK, Agree, Waiting
<1>6. Funded(d, x0)
  BY <1>1, <1>2, <1>5, NotFunded
<1> HIDE DEF x0, y0
<1>7. ASSUME NEW y, PairMoves(d, x0, y), PairOK(x0, y)
      PROVE  Moved(d)
  <2>1. Requested(d, x0, y)
    BY <1>4 DEF Requested
  <2>2. Course(d, x0, y)
    BY <1>3, <1>5 DEF Course, Sitting, x0, y0
  <2> QED BY <1>6, <1>7, <2>1, <2>2 DEF Moved, Change
<1>8. ASSUME NEW jury \in Juries(d, y0.jurySize),
             rounds' = [rounds EXCEPT ![d] = WithJury(d, y0, lev, jury)]
      PROVE  Moved(d)
  <2> DEFINE y == WithJury(d, y0, lev, jury)
  <2>1. /\ y \in RoundSet /\ y.phase = "EVIDENCE" /\ y.votes = y0.votes /\ Impartial(x0, y)
    BY <1>1, <1>3, <1>8, JurySeated DEF x0
  <2>2. rounds' = [rounds EXCEPT ![d] = y]
    BY <1>8
  <2> HIDE DEF y
  <2>3. PairOK(x0, y)
    BY <1>1, <1>5, <2>1 DEF PairOK, Agree, Sitting, Waiting, Impartial
  <2>4. PairMoves(d, x0, y)
    BY <1>1, <1>2, <2>1, <2>2, RoundMoves DEF x0
  <2> QED BY <1>7, <2>3, <2>4
<1>9. ASSUME rounds' = rounds
      PROVE  Moved(d)
  <2>1. PairMoves(d, x0, y0)
    BY <1>1, <1>2, <1>9, PairStays DEF x0, y0
  <2> QED BY <1>1, <1>7, <2>1
<1>10. \/ \E jury \in Juries(d, y0.jurySize) :
            rounds' = [rounds EXCEPT ![d] = WithJury(d, y0, lev, jury)]
       \/ rounds' = rounds
  BY DEF fulfillRandomWords, y0
<1> QED
  BY <1>8, <1>9, <1>10

\* A step of a sitting round that keeps its jury and its votes, or adds one of its jurors'.
LEMMA SittingMoves ==
  ASSUME Before, NEW d \in Ids, NEW y \in RoundSet,
         rounds[d].phase \in Sitting, y.phase \in Sitting,
         y.jurors = rounds[d].jurors, y.jurySize = rounds[d].jurySize,
         DOMAIN y.votes \subseteq y.jurors,
         \A j \in DOMAIN rounds[d].votes : j \in DOMAIN y.votes /\ y.votes[j] = rounds[d].votes[j],
         rounds' = [rounds EXCEPT ![d] = y],
         disputes' = disputes, vrfRequests' = vrfRequests, pendingRewards' = pendingRewards,
         ladderWeth' = ladderWeth, wethOf' = wethOf
  PROVE  Moved(d)
<1> DEFINE x0 == disputes[d]
           y0 == rounds[d]
<1>1. /\ PairOK(x0, y0) /\ x0 \in DisputeSet /\ y0 \in RoundSet
      /\ DisputesOK /\ RequestsOK /\ ladderWeth \in Nat
  BY BeforePair
<1>2. x0.status = "ROUND_ACTIVE"
  <2>1. x0.status \in Statuses
    BY <1>1 DEF DisputeSet
  <2> QED BY <1>1, <2>1 DEF PairOK, Agree, Sitting, Statuses
<1>3. Funded(d, x0)
  BY <1>1, <1>2, NotFunded
<1>4. PairMoves(d, x0, y)
  BY <1>1, RoundMoves
<1>5. Requested(d, x0, y)
  BY <1>1, NoRequest DEF Sitting
<1>6. PairOK(x0, y)
  BY <1>1, <1>2 DEF PairOK, Agree, Impartial, Sitting, Waiting
<1>7. Course(d, x0, y)
  BY <1>2 DEF Course
<1> QED
  BY <1>3, <1>4, <1>5, <1>6, <1>7 DEF Moved, Change

\* submitEvidence
LEMMA EvidenceMoves ==
  ASSUME Before, NEW d \in Ids, NEW side \in EvidenceBy, submitEvidence(d, side)
  PROVE  Moved(d)
<1> DEFINE y0 == rounds[d]
           y == [y0 EXCEPT !.evidence = y0.evidence \union {side}]
<1>1. /\ rounds' = [rounds EXCEPT ![d] = y] /\ y0.phase = "EVIDENCE"
      /\ disputes' = disputes /\ vrfRequests' = vrfRequests /\ pendingRewards' = pendingRewards
      /\ ladderWeth' = ladderWeth /\ wethOf' = wethOf
  BY DEF submitEvidence
<1>2. y0 \in RoundSet /\ PairOK(disputes[d], y0)
  BY BeforePair
<1> HIDE DEF y0
<1>3. /\ y \in RoundSet /\ y.phase = y0.phase /\ y.jurors = y0.jurors
      /\ y.jurySize = y0.jurySize /\ y.votes = y0.votes
  BY <1>2 DEF RoundSet
<1> HIDE DEF y
<1>4. DOMAIN y0.votes \subseteq y0.jurors
  BY <1>2 DEF PairOK
<1> QED
  BY <1>1, <1>3, <1>4, SittingMoves DEF Sitting, y0

\* startVoting
LEMMA StartMoves ==
  ASSUME Before, NEW d \in Ids, startVoting(d)
  PROVE  Moved(d)
<1> DEFINE y0 == rounds[d]
           deadline == now + config.voteWindows[disputes[d].currentLevel]
           y == [y0 EXCEPT !.phase = "VOTING", !.voteDeadline = deadline]
<1>1. /\ rounds' = [rounds EXCEPT ![d] = y] /\ y0.phase = "EVIDENCE"
      /\ disputes' = disputes /\ vrfRequests' = vrfRequests /\ pendingRewards' = pendingRewards
      /\ ladderWeth' = ladderWeth /\ wethOf' = wethOf
  BY DEF startVoting
<1>2. /\ y0 \in RoundSet /\ PairOK(disputes[d], y0) /\ disputes[d] \in DisputeSet
      /\ now \in Nat /\ config \in Configs
  BY BeforePair
<1>3. disputes[d].currentLevel \in 1..MaxLevel
  <2>1. disputes[d].currentLevel \in AllLevels /\ disputes[d].status \in Statuses
    BY <1>2 DEF DisputeSet
  <2>2. disputes[d].currentLevel > 0
    BY <1>1, <1>2, <2>1 DEF PairOK, Agree, Statuses
  <2> QED BY <2>1, <2>2, Literals
<1>4. deadline \in Nat
  BY <1>2, <1>3, ConfigFacts
<1> HIDE DEF y0, deadline
<1>5. /\ y \in RoundSet /\ y.phase = "VOTING" /\ y.jurors = y0.jurors
      /\ y.jurySize = y0.jurySize /\ y.votes = y0.votes
  BY <1>2, <1>4, Literals DEF RoundSet
<1> HIDE DEF y
<1>6. DOMAIN y0.votes \subseteq y0.jurors
  BY <1>2 DEF PairOK
<1> QED
  BY <1>1, <1>5, <1>6, SittingMoves DEF Sitting, y0

\* A ballot with one vote more.
LEMMA VoteAdded ==
  ASSUME NEW votes \in Ballots, NEW juror \in Accounts, NEW winner \in Winners
  PROVE  [j \in DOMAIN votes \union {juror} |-> IF j = juror THEN winner ELSE votes[j]]
           \in Ballots
<1>1. PICK S \in SUBSET Accounts : votes \in [S -> Winners]
  BY DEF Ballots
<1> DEFINE W == S \union {juror}
           more == [j \in W |-> IF j = juror THEN winner ELSE votes[j]]
<1>2. more \in [W -> Winners]
  BY <1>1
<1>3. W \in SUBSET Accounts
  OBVIOUS
<1>4. DOMAIN votes = S
  BY <1>1
<1> HIDE DEF more
<1>5. more \in Ballots
  BY <1>2, <1>3 DEF Ballots
<1> QED
  BY <1>4, <1>5 DEF more

\* castVote
LEMMA VoteMoves ==
  ASSUME Before, NEW d \in Ids, NEW juror \in Accounts, NEW winner \in Verdicts,
         castVote(d, juror, winner)
  PROVE  Moved(d)
<1> DEFINE y0 == rounds[d]
           more == [j \in DOMAIN y0.votes \union {juror} |->
                      IF j = juror THEN winner ELSE y0.votes[j]]
           phase == IF VotesCast(y0) + 1 = y0.jurySize THEN "TALLY_READY" ELSE y0.phase
           y == [y0 EXCEPT !.votes = more, !.phase = phase]
<1>1. /\ rounds' = [rounds EXCEPT ![d] = y] /\ y0.phase = "VOTING"
      /\ juror \in y0.jurors /\ juror \notin DOMAIN y0.votes
      /\ disputes' = disputes /\ vrfRequests' = vrfRequests /\ pendingRewards' = pendingRewards
      /\ ladderWeth' = ladderWeth /\ wethOf' = wethOf
  BY DEF castVote, WithVote, IsJuror, HasVoted
<1>2. y0 \in RoundSet /\ PairOK(disputes[d], y0)
  BY BeforePair
<1>3. phase \in {"VOTING", "TALLY_READY"} /\ winner \in Winners /\ y0.votes \in Ballots
  BY <1>1, <1>2, LadderConstants DEF RoundSet
<1> HIDE DEF y0, phase
<1>4. /\ more \in Ballots
      /\ DOMAIN more = DOMAIN y0.votes \union {juror}
      /\ \A j \in DOMAIN y0.votes : more[j] = y0.votes[j]
  BY <1>1, <1>3, VoteAdded
<1> HIDE DEF more
<1>5. /\ y \in RoundSet /\ y.phase = phase /\ y.jurors = y0.jurors
      /\ y.jurySize = y0.jurySize /\ y.votes = more
  BY <1>2, <1>3, <1>4, Literals DEF RoundSet
<1> HIDE DEF y
<1>6. DOMAIN y0.votes \subseteq y0.jurors
  BY <1>2 DEF PairOK
<1>7. /\ DOMAIN y.votes \subseteq y.jurors /\ y0.phase \in Sitting /\ y.phase \in Sitting
      /\ \A j \in DOMAIN y0.votes : j \in DOMAIN y.votes /\ y.votes[j] = y0.votes[j]
  BY <1>1, <1>3, <1>4, <1>5, <1>6 DEF Sitting
<1> QED
  BY <1>1, <1>5, <1>7, SittingMoves DEF y0

\* closeVoting
LEMMA CloseMoves ==
  ASSUME Before, NEW d \in Ids, closeVoting(d)
  PROVE  Moved(d)
<1> DEFINE y0 == rounds[d]
           y == [y0 EXCEPT !.phase = "TALLY_READY"]
<1>1. /\ rounds' = [rounds EXCEPT ![d] = y] /\ y0.phase = "VOTING"
      /\ disputes' = disputes /\ vrfRequests' = vrfRequests /\ pendingRewards' = pendingRewards
      /\ ladderWeth' = ladderWeth /\ wethOf' = wethOf
  BY DEF closeVoting
<1>2. y0 \in RoundSet /\ PairOK(disputes[d], y0)
  BY BeforePair
<1> HIDE DEF y0
<1>3. /\ y \in RoundSet /\ y.phase = "TALLY_READY" /\ y.jurors = y0.jurors
      /\ y.jurySize = y0.jurySize /\ y.votes = y0.votes
  BY <1>2, Literals DEF RoundSet
<1> HIDE DEF y
<1>4. DOMAIN y0.votes \subseteq y0.jurors
  BY <1>2 DEF PairOK
<1> QED
  BY <1>1, <1>3, <1>4, SittingMoves DEF Sitting, y0

\* tally
LEMMA TallyMoves ==
  ASSUME Before, NEW d \in Ids, tally(d)
  PROVE  Moved(d)
<1> DEFINE x0 == disputes[d]
           y0 == rounds[d]
           winner == Majority(y0)
           x == [x0 EXCEPT !.status = "ROUND_RESOLVED"]
           y == Resolved(y0, x0.currentLevel, winner)
<1>1. /\ PairOK(x0, y0) /\ x0 \in DisputeSet /\ y0 \in RoundSet
      /\ DisputesOK /\ RequestsOK /\ ladderWeth \in Nat
      /\ now \in Nat /\ config \in Configs
  BY BeforePair
<1>2. /\ y0.phase = "TALLY_READY" /\ vrfRequests' = vrfRequests
      /\ pendingRewards' = pendingRewards /\ ladderWeth' = ladderWeth /\ wethOf' = wethOf
      /\ disputes' = [disputes EXCEPT ![d].status = "ROUND_RESOLVED"]
      /\ rounds' = [rounds EXCEPT ![d] = Resolved(@, disputes[d].currentLevel, Majority(@))]
  BY DEF tally
<1>3. disputes' = [disputes EXCEPT ![d] = x] /\ rounds' = [rounds EXCEPT ![d] = y]
  BY <1>1, <1>2, PairExists
<1>4. x0.status = "ROUND_ACTIVE"
  <2>1. x0.status \in Statuses
    BY <1>1 DEF DisputeSet
  <2> QED BY <1>1, <1>2, <2>1 DEF PairOK, Agree, Statuses
<1>5. now + config.appealWindows[x0.currentLevel] \in Nat
  <2>1. x0.currentLevel \in 0..MaxLevel
    BY <1>1 DEF DisputeSet, AllLevels
  <2> QED BY <1>1, <2>1, ConfigFacts
<1>6. winner \in Winners
  BY Literals DEF Majority
<1> HIDE DEF x0, y0, winner
<1>7. /\ x \in DisputeSet /\ x.status = "ROUND_RESOLVED" /\ x.currentLevel = x0.currentLevel
      /\ x.challengeBond = x0.challengeBond /\ x.defenseBond = x0.defenseBond
  BY <1>1, Literals DEF DisputeSet
<1>8. y \in RoundSet /\ y.phase = "RESOLVED" /\ y.votes = y0.votes /\ y.jurors = y0.jurors
  BY <1>1, <1>5, <1>6, Literals DEF RoundSet, Resolved
<1>9. DOMAIN y0.votes \subseteq y0.jurors
  BY <1>1 DEF PairOK
<1> HIDE DEF x, y
<1>10. PairOK(x, y)
  BY <1>7, <1>8, <1>9 DEF PairOK, Agree, Waiting, Sitting
<1>11. PairMoves(d, x, y)
  BY <1>1, <1>3, <1>7, <1>8, BothMove
<1>12. Course(d, x, y)
  BY <1>4, <1>8 DEF Course, x0, y0
<1>13. Requested(d, x, y)
  BY <1>1, <1>2, NoRequest DEF y0
<1>14. Funded(d, x)
  BY <1>1, <1>2, <1>7, NotFunded DEF x0, y0
<1> QED
  BY <1>10, <1>11, <1>12, <1>13, <1>14 DEF Moved, Change

\* appeal: the bond of the side that lost grows by what the ladder receives.
LEMMA AppealMoves ==
  ASSUME Before, NEW d \in Ids, NEW bond \in Bonds, appeal(d, bond)
  PROVE  Moved(d)
<1> DEFINE x0 == disputes[d]
           side == Loser(d)
           x1 == WithBond(x0, side, bond)
           appellant == Account(x0, side)
<1>1. /\ x0 \in DisputeSet /\ ladderWeth \in Nat /\ bond \in Nat
  BY BeforePair, LadderConstants
<1>2. /\ x0.status = "ROUND_RESOLVED" /\ Escalate(d, x1)
      /\ wethOf[appellant] >= bond
      /\ wethOf' = [wethOf EXCEPT ![appellant] = @ - bond]
      /\ ladderWeth' = ladderWeth + bond /\ pendingRewards' = pendingRewards
  BY DEF appeal
<1> HIDE DEF x0, side
<1>3. appellant \in Accounts
  BY <1>1 DEF Account, DisputeSet
<1> HIDE DEF appellant
<1>4. /\ x1 \in DisputeSet /\ x1.currentLevel = x0.currentLevel
      /\ x1.challenger = x0.challenger /\ x1.verifier = x0.verifier
      /\ TotalBond(x1) = TotalBond(x0) + bond
  <2>1. x0.challengeBond \in Nat /\ x0.defenseBond \in Nat
    BY <1>1 DEF DisputeSet
  <2>2. CASE side = "CHALLENGER"
    <3> DEFINE sum == x0.challengeBond + bond
               x2 == [x0 EXCEPT !.challengeBond = sum]
    <3>1. x1 = x2 /\ sum \in Nat
      BY <1>1, <2>1, <2>2 DEF WithBond
    <3> HIDE DEF sum
    <3>2. /\ x2 \in DisputeSet /\ x2.currentLevel = x0.currentLevel
          /\ x2.challenger = x0.challenger /\ x2.verifier = x0.verifier
          /\ x2.challengeBond = sum /\ x2.defenseBond = x0.defenseBond
      BY <1>1, <3>1 DEF DisputeSet
    <3> HIDE DEF x2
    <3>3. TotalBond(x2) = TotalBond(x0) + bond
      BY <1>1, <2>1, <3>2 DEF TotalBond, sum
    <3> QED BY <3>1, <3>2, <3>3
  <2>3. CASE side # "CHALLENGER"
    <3> DEFINE sum == x0.defenseBond + bond
               x2 == [x0 EXCEPT !.defenseBond = sum]
    <3>1. x1 = x2 /\ sum \in Nat
      BY <1>1, <2>1, <2>3 DEF WithBond
    <3> HIDE DEF sum
    <3>2. /\ x2 \in DisputeSet /\ x2.currentLevel = x0.currentLevel
          /\ x2.challenger = x0.challenger /\ x2.verifier = x0.verifier
          /\ x2.defenseBond = sum /\ x2.challengeBond = x0.challengeBond
      BY <1>1, <3>1 DEF DisputeSet
    <3> HIDE DEF x2
    <3>3. TotalBond(x2) = TotalBond(x0) + bond
      BY <1>1, <2>1, <3>2 DEF TotalBond, sum
    <3> QED BY <3>1, <3>2, <3>3
  <2> QED BY <2>2, <2>3
<1> HIDE DEF x1
<1>5. PICK x, y : /\ Change(d, x, y)
                  /\ x.status = "ROUND_ACTIVE"
                  /\ x.challengeBond = x1.challengeBond
                  /\ x.defenseBond = x1.defenseBond
  BY <1>2, <1>4, Escalates DEF x0
<1>6. Funded(d, x)
  <2>1. wethOf \in [Accounts -> Nat] => wethOf' \in [Accounts -> Nat]
    BY <1>1, <1>2, <1>3
  <2>2. TotalBond(x) = TotalBond(x0) + bond
    BY <1>4, <1>5 DEF TotalBond
  <2> QED BY <1>1, <1>2, <1>5, <2>1, <2>2 DEF Funded, x0
<1> QED
  BY <1>5, <1>6 DEF Moved

\* finalize changes the status of a resolved dispute and nothing else of it.
LEMMA FinalizeMoves ==
  ASSUME Before, NEW d \in Ids, finalize(d)
  PROVE  /\ Change(d, disputes'[d], rounds[d])
         /\ disputes'[d].status = "FINALIZED"
<1> DEFINE x0 == disputes[d]
           y0 == rounds[d]
           x == [x0 EXCEPT !.status = "FINALIZED"]
<1>1. /\ PairOK(x0, y0) /\ x0 \in DisputeSet /\ y0 \in RoundSet
      /\ DisputesOK /\ RequestsOK
  BY BeforePair
<1>2. /\ x0.status = "ROUND_RESOLVED" /\ vrfRequests' = vrfRequests
      /\ disputes' = [disputes EXCEPT ![d] = x] /\ rounds' = rounds
  BY DEF finalize
<1> HIDE DEF x0, y0
<1>3. /\ x \in DisputeSet /\ x.status = "FINALIZED" /\ x.currentLevel = x0.currentLevel
      /\ x.challenger = x0.challenger /\ x.verifier = x0.verifier
  BY <1>1, Literals DEF DisputeSet
<1>4. y0.phase = "RESOLVED"
  BY <1>1, <1>2 DEF PairOK, Agree
<1> HIDE DEF x
<1>5. PairOK(x, y0)
  BY <1>1, <1>3, <1>4 DEF PairOK, Agree, Waiting, Sitting
<1>6. PairMoves(d, x, y0)
  BY <1>1, <1>2, <1>3, DisputeMoves DEF x0, y0
<1>7. Course(d, x, y0)
  BY <1>2, <1>3, <1>4 DEF Course, x0, y0, Sitting
<1>8. Requested(d, x, y0)
  BY <1>1, <1>2, <1>4, NoRequest DEF y0
<1> QED
  BY <1>3, <1>5, <1>6, <1>7, <1>8 DEF Change, PairMoves, y0

\* A dispute that opens, with a round that nobody has asked for yet.
Opened(x) ==
  /\ x.status = "OPEN"
  /\ PairOK(x, NoRound)
  /\ disputes' = Append(disputes, x)
  /\ rounds' = Append(rounds, NoRound)
  /\ vrfRequests' = vrfRequests
  /\ \E bond \in Nat : TotalBond(x) = bond /\ ladderWeth' = ladderWeth + bond
  /\ pendingRewards' = pendingRewards
  /\ wethOf \in [Accounts -> Nat] => wethOf' \in [Accounts -> Nat]

\* openDispute
LEMMA OpenMoves ==
  ASSUME Before, NEW who \in Parties, NEW b \in Bundles, NEW i \in ChallengedBranches,
         NEW f \in FaultTypes, NEW bond \in Bonds, openDispute(who, b, i, f, bond)
  PROVE  \E x : Opened(x)
<1> DEFINE owner == bundles[b].owner
           deadline == now + config.responseWindow
           x == [status |-> "OPEN", bundle |-> b, branchId |-> i, faultType |-> f,
                 challenger |-> who, verifier |-> owner, challengeBond |-> bond,
                 defenseBond |-> 0, currentLevel |-> 0, hasResponded |-> FALSE,
                 responseDeadline |-> deadline]
<1>1. /\ SettingsOK /\ now \in Nat /\ config \in Configs /\ bond \in Nat
      /\ who \in Accounts
  <2>1. SettingsOK /\ now \in Nat /\ config \in Configs
    BY DEF Before, Context, SettingsOK
  <2>2. Bonds \subseteq Nat /\ Parties \subseteq Accounts
    BY LadderConstants
  <2> QED BY <2>1, <2>2
<1>2. /\ disputes' = Append(disputes, x) /\ rounds' = Append(rounds, NoRound)
      /\ vrfRequests' = vrfRequests /\ ladderWeth' = ladderWeth + bond
      /\ pendingRewards' = pendingRewards
      /\ wethOf[who] >= bond /\ wethOf' = [wethOf EXCEPT ![who] = @ - bond]
      /\ bundles[b] # NoBundle
  BY DEF openDispute
<1>3. owner \in Accounts /\ deadline \in Nat
  BY <1>1, <1>2, ConfigFacts DEF SettingsOK
<1> HIDE DEF owner, deadline
<1>4. 0 \in AllLevels
  BY Literals
<1>5. /\ x \in DisputeSet /\ x.status = "OPEN" /\ x.currentLevel = 0
      /\ x.challengeBond = bond /\ x.defenseBond = 0
  BY <1>1, <1>3, <1>4, Literals DEF DisputeSet
<1> HIDE DEF x
<1>6. NoRound \in RoundSet /\ NoRound.phase = "NONE" /\ DOMAIN NoRound.votes = {}
  <2> DEFINE ballot == <<>>
  <2>1. ballot \in Ballots /\ DOMAIN ballot = {}
    BY EmptyBallot
  <2> HIDE DEF ballot
  <2>2. NoRound = [phase |-> "NONE", jurySize |-> 0, jurors |-> {}, evidence |-> {},
                   votes |-> ballot, winner |-> "UNDECIDED", evidenceDeadline |-> 0,
                   voteDeadline |-> 0, appealDeadline |-> 0]
    BY DEF NoRound, ballot
  <2> QED BY <2>1, <2>2, Literals DEF RoundSet
<1>7. PairOK(x, NoRound)
  BY <1>5, <1>6 DEF PairOK, Agree, Waiting, Sitting
<1>8. TotalBond(x) = bond
  BY <1>1, <1>5 DEF TotalBond
<1>9. wethOf \in [Accounts -> Nat] => wethOf' \in [Accounts -> Nat]
  BY <1>1, <1>2
<1> QED
  BY <1>1, <1>2, <1>5, <1>7, <1>8, <1>9 DEF Opened

-----------------------------------------------------------------------------
(* The records and the money after a step.                                 *)

\* A change of one dispute keeps every dispute and every request in order.
LEMMA ChangeKeeps ==
  ASSUME DisputesOK, RequestsOK, NEW d \in Ids, NEW x, NEW y, Change(d, x, y)
  PROVE  DisputesOK' /\ RequestsOK' /\ Ids' = Ids
<1>1. /\ disputes \in Seq(DisputeSet) /\ rounds \in Seq(RoundSet)
      /\ DOMAIN rounds = Ids /\ Ids = 1..Len(disputes) /\ Len(disputes) \in Nat
  BY PairExists
<1>2. /\ disputes' \in Seq(DisputeSet) /\ Len(disputes') = Len(disputes)
      /\ rounds' \in Seq(RoundSet) /\ Len(rounds') = Len(rounds)
      /\ disputes'[d] = x /\ rounds'[d] = y
      /\ \A e \in Ids : e # d => disputes'[e] = disputes[e] /\ rounds'[e] = rounds[e]
      /\ PairOK(x, y) /\ Requested(d, x, y)
  BY DEF Change, PairMoves
<1>3. Ids' = Ids
  BY <1>1, <1>2 DEF Ids
<1>4. \A e \in Ids : PairOK(disputes'[e], rounds'[e])
  BY <1>2 DEF DisputesOK
<1>5. DisputesOK'
  <2>1. Len(rounds') = Len(disputes')
    BY <1>2 DEF DisputesOK
  <2>2. \A e \in Ids' : PairOK(disputes[e], rounds[e])'
    BY <1>3, <1>4 DEF PairOK, Agree, Impartial
  <2> QED BY <1>2, <2>1, <2>2 DEF DisputesOK
<1>6. RequestsOK'
  <2> SUFFICES ASSUME NEW r \in vrfRequests'
               PROVE  \E e \in Ids', level \in 1..MaxLevel :
                        /\ r = <<e, level>>
                        /\ disputes'[e].currentLevel = level
                        /\ rounds'[e].phase = "SELECTING_JURY"
    BY DEF RequestsOK
  <2>1. CASE r \in vrfRequests /\ r[1] # d
    BY <1>2, <1>3, <2>1 DEF RequestsOK
  <2>2. CASE ~(r \in vrfRequests /\ r[1] # d)
    BY <1>2, <1>3, <2>2 DEF Requested
  <2> QED BY <2>1, <2>2
<1> QED
  BY <1>3, <1>5, <1>6

\* A dispute that opens leaves the others and their requests as they are.
LEMMA OpenedKeeps ==
  ASSUME DisputesOK, RequestsOK, NEW x, Opened(x)
  PROVE  /\ DisputesOK' /\ RequestsOK'
         /\ Ids' = Ids \union {Len(disputes) + 1} /\ Len(disputes) + 1 \notin Ids
         /\ disputes'[Len(disputes) + 1] = x
         /\ \A e \in Ids : disputes'[e] = disputes[e] /\ rounds'[e] = rounds[e]
<1> DEFINE n == Len(disputes) + 1
<1>1. /\ disputes \in Seq(DisputeSet) /\ rounds \in Seq(RoundSet) /\ Len(rounds) = Len(disputes)
      /\ \A e \in Ids : PairOK(disputes[e], rounds[e])
  BY DEF DisputesOK
<1>2. /\ disputes' = Append(disputes, x) /\ rounds' = Append(rounds, NoRound)
      /\ PairOK(x, NoRound) /\ vrfRequests' = vrfRequests
      /\ x \in DisputeSet /\ NoRound \in RoundSet
  BY DEF Opened, PairOK
<1>3. /\ Ids' = Ids \union {n} /\ n \notin Ids
      /\ disputes' \in Seq(DisputeSet) /\ Len(disputes') = n /\ disputes'[n] = x
      /\ \A e \in Ids : disputes'[e] = disputes[e]
  BY <1>1, <1>2 DEF Ids
<1>4. /\ rounds' \in Seq(RoundSet) /\ Len(rounds') = n /\ rounds'[n] = NoRound
      /\ \A e \in Ids : rounds'[e] = rounds[e]
  BY <1>1, <1>2 DEF Ids
<1> HIDE DEF n
<1>5. \A e \in Ids' : PairOK(disputes'[e], rounds'[e])
  BY <1>1, <1>2, <1>3, <1>4
<1>6. DisputesOK'
  <2>1. \A e \in Ids' : PairOK(disputes[e], rounds[e])'
    BY <1>5 DEF PairOK, Agree, Impartial
  <2> QED BY <1>3, <1>4, <2>1 DEF DisputesOK
<1>7. RequestsOK'
  <2> SUFFICES ASSUME NEW r \in vrfRequests'
               PROVE  \E e \in Ids', level \in 1..MaxLevel :
                        /\ r = <<e, level>>
                        /\ disputes'[e].currentLevel = level
                        /\ rounds'[e].phase = "SELECTING_JURY"
    BY DEF RequestsOK
  <2>1. PICK e \in Ids, level \in 1..MaxLevel :
          /\ r = <<e, level>>
          /\ disputes[e].currentLevel = level
          /\ rounds[e].phase = "SELECTING_JURY"
    BY <1>2 DEF RequestsOK
  <2> QED BY <1>3, <1>4, <2>1
<1> QED
  BY <1>3, <1>4, <1>6, <1>7 DEF n

\* The bond of a dispute that is still to be paid out.
OpenBond(x) == IF x.status = "FINALIZED" THEN 0 ELSE TotalBond(x)

\* The bonds of a dispute are natural numbers.
LEMMA OpenBondTyped ==
  ASSUME NEW x \in DisputeSet
  PROVE  OpenBond(x) \in Nat /\ TotalBond(x) \in Nat
<1>1. x.challengeBond \in Nat /\ x.defenseBond \in Nat
  BY DEF DisputeSet
<1> QED
  BY <1>1 DEF OpenBond, TotalBond

\* The bonds at stake, as a sum over the disputes.
LEMMA BondsTyped ==
  ASSUME DisputesOK
  PROVE  /\ IsFiniteSet(Ids)
         /\ [e \in Ids |-> OpenBond(disputes[e])] \in [Ids -> Nat]
         /\ OpenBonds = SumFunction([e \in Ids |-> OpenBond(disputes[e])])
         /\ OpenBonds \in Nat
<1>1. /\ disputes \in Seq(DisputeSet) /\ \A e \in Ids : disputes[e] \in DisputeSet
      /\ Ids = 1..Len(disputes) /\ Len(disputes) \in Nat
  BY DEF DisputesOK, Ids
<1>2. IsFiniteSet(Ids)
  BY <1>1, FS_Interval
<1> DEFINE f == [e \in Ids |-> OpenBond(disputes[e])]
<1>3. f \in [Ids -> Nat]
  BY <1>1, OpenBondTyped
<1>4. OpenBonds = SumFunction(f)
  BY DEF OpenBonds, OpenBond
<1> HIDE DEF f
<1>5. SumFunction(f) \in Nat
  BY <1>2, <1>3, SumBounds
<1> QED
  BY <1>2, <1>3, <1>4, <1>5 DEF f

\* What a change of one dispute does to the bonds at stake.
LEMMA BondsMove ==
  ASSUME DisputesOK, RequestsOK, NEW d \in Ids, NEW x, NEW y, Change(d, x, y)
  PROVE  OpenBonds' = OpenBonds + OpenBond(x) - OpenBond(disputes[d])
<1>1. DisputesOK' /\ Ids' = Ids
  BY ChangeKeeps
<1> DEFINE f == [e \in Ids |-> OpenBond(disputes[e])]
           h == [e \in Ids |-> OpenBond(disputes'[e])]
<1>2. /\ IsFiniteSet(Ids) /\ f \in [Ids -> Nat] /\ OpenBonds = SumFunction(f)
  BY BondsTyped
<1>3. \A e \in Ids : disputes'[e] \in DisputeSet
  BY <1>1 DEF DisputesOK, Ids
<1>4. h \in [Ids -> Nat]
  BY <1>3, OpenBondTyped
<1>5. OpenBonds' = SumFunction(h)
  BY <1>1 DEF OpenBonds, OpenBond, TotalBond
<1>6. f[d] = OpenBond(disputes[d]) /\ h[d] = OpenBond(x) /\ \A e \in Ids \ {d} : f[e] = h[e]
  BY DEF Change, PairMoves
<1> HIDE DEF f, h
<1>7. f \in [Ids -> Int] /\ h \in [Ids -> Int]
  BY <1>2, <1>4
<1>8. SumFunction(h) = SumFunction(f) + h[d] - f[d]
  BY <1>2, <1>6, <1>7, SumChanged
<1> QED
  BY <1>2, <1>5, <1>6, <1>8

\* What a new dispute does to the bonds at stake.
LEMMA BondsGrow ==
  ASSUME DisputesOK, RequestsOK, NEW x, Opened(x)
  PROVE  OpenBonds' = OpenBonds + TotalBond(x)
<1> DEFINE n == Len(disputes) + 1
           f == [e \in Ids |-> OpenBond(disputes[e])]
           h == [e \in Ids \union {n} |-> OpenBond(disputes'[e])]
<1>1. /\ DisputesOK' /\ Ids' = Ids \union {n} /\ n \notin Ids /\ disputes'[n] = x
      /\ \A e \in Ids : disputes'[e] = disputes[e]
  BY OpenedKeeps
<1>2. /\ IsFiniteSet(Ids) /\ f \in [Ids -> Nat] /\ OpenBonds = SumFunction(f)
  BY BondsTyped
<1>3. \A e \in Ids \union {n} : disputes'[e] \in DisputeSet
  BY <1>1 DEF DisputesOK, Ids
<1> HIDE DEF n
<1>4. h \in [Ids \union {n} -> Nat]
  BY <1>3, OpenBondTyped
<1>5. OpenBonds' = SumFunction(h)
  BY <1>1 DEF OpenBonds, OpenBond, TotalBond
<1>6. h[n] = TotalBond(x) /\ \A e \in Ids : f[e] = h[e]
  BY <1>1 DEF OpenBond, Opened
<1> HIDE DEF f, h
<1>7. f \in [Ids -> Int] /\ h \in [Ids \union {n} -> Int]
  BY <1>2, <1>4
<1>8. SumFunction(h) = SumFunction(f) + h[n]
  BY <1>1, <1>2, <1>6, <1>7, SumGrown
<1> QED
  BY <1>2, <1>5, <1>6, <1>8

\* The ladder's money: what it holds covers what it owes.
Books ==
  /\ pendingRewards \in [Accounts -> Nat]
  /\ ladderWeth \in Nat
  /\ wethOf \in [Accounts -> Nat]
  /\ LadderSolvent

\* The rewards still to be claimed.
LEMMA RewardsTyped ==
  ASSUME Books
  PROVE  /\ pendingRewards \in [Accounts -> Int]
         /\ SumFunction(pendingRewards) \in Nat
         /\ \A a \in Accounts : pendingRewards[a] <= SumFunction(pendingRewards)
BY RegistryConstants, SumBounds DEF Books

\* A step that does not settle a dispute keeps the books.
LEMMA MovedKeeps ==
  ASSUME DisputesOK, RequestsOK, Books, NEW d \in Ids, Moved(d)
  PROVE  DisputesOK' /\ RequestsOK' /\ Books'
<1>1. PICK x, y : Change(d, x, y) /\ Funded(d, x)
  BY DEF Moved
<1>2. DisputesOK' /\ RequestsOK' /\ OpenBonds' = OpenBonds + OpenBond(x) - OpenBond(disputes[d])
  BY <1>1, ChangeKeeps, BondsMove
<1>3. PICK bond \in Nat : /\ ladderWeth' = ladderWeth + bond
                          /\ TotalBond(x) = TotalBond(disputes[d]) + bond
  BY <1>1 DEF Funded
<1>4. disputes[d].status # "FINALIZED" /\ x.status # "FINALIZED"
  BY <1>1 DEF Change, Course, Funded
<1>5. TotalBond(disputes[d]) \in Nat /\ OpenBonds \in Nat
  BY PairExists, OpenBondTyped, BondsTyped
<1>6. OpenBonds' = OpenBonds + bond
  BY <1>2, <1>3, <1>4, <1>5 DEF OpenBond
<1>7. pendingRewards' = pendingRewards /\ wethOf' \in [Accounts -> Nat]
  BY <1>1 DEF Funded, Books
<1>8. /\ SumFunction(pendingRewards) \in Nat /\ ladderWeth \in Nat
      /\ ladderWeth >= OpenBonds + SumFunction(pendingRewards)
  BY RewardsTyped DEF Books, LadderSolvent
<1>9. SumFunction(pendingRewards') = SumFunction(pendingRewards)
  BY <1>7
<1>10. ladderWeth' \in Nat /\ ladderWeth' >= OpenBonds' + SumFunction(pendingRewards')
  BY <1>3, <1>5, <1>6, <1>8, <1>9
<1> QED
  BY <1>2, <1>7, <1>10 DEF Books, LadderSolvent

\* Opening a dispute keeps the books.
LEMMA OpenedBooks ==
  ASSUME DisputesOK, RequestsOK, Books, NEW x, Opened(x)
  PROVE  Books'
<1>1. OpenBonds' = OpenBonds + TotalBond(x) /\ OpenBonds \in Nat
  BY BondsGrow, BondsTyped
<1>2. PICK bond \in Nat : TotalBond(x) = bond /\ ladderWeth' = ladderWeth + bond
  BY DEF Opened
<1>3. pendingRewards' = pendingRewards /\ wethOf' \in [Accounts -> Nat]
  BY DEF Opened, Books
<1>4. /\ SumFunction(pendingRewards) \in Nat /\ ladderWeth \in Nat
      /\ ladderWeth >= OpenBonds + SumFunction(pendingRewards)
  BY RewardsTyped DEF Books, LadderSolvent
<1>5. SumFunction(pendingRewards') = SumFunction(pendingRewards)
  BY <1>3
<1>6. ladderWeth' \in Nat /\ ladderWeth' >= OpenBonds' + SumFunction(pendingRewards')
  BY <1>1, <1>2, <1>4, <1>5
<1> QED
  BY <1>3, <1>6 DEF Books, LadderSolvent

-----------------------------------------------------------------------------
(* Settling a dispute.                                                     *)

\* What the owner's fees take of an amount, together no more than the amount.
LEMMA FeesWithin ==
  ASSUME NEW amount \in Nat, NEW j \in Nat, NEW t \in Nat, j + t <= 10000
  PROVE  /\ Bps(amount, j) \in Nat /\ Bps(amount, t) \in Nat
         /\ Bps(amount, j) + Bps(amount, t) <= amount
<1> DEFINE p == amount * j
           q == amount * t
           m == Bps(amount, j)
           n == Bps(amount, t)
<1>1. p \in Nat /\ q \in Nat /\ p + q = amount * (j + t)
  OBVIOUS
<1>2. amount * (j + t) <= amount * 10000
  <2>1. (j + t) * amount <= 10000 * amount
    BY ProductsMonotone
  <2> QED BY <2>1
<1>3. m = p \div 10000 /\ n = q \div 10000
  BY DEF Bps
<1> HIDE DEF p, q, m, n
<1>4. m \in Nat /\ m * 10000 <= p /\ n \in Nat /\ n * 10000 <= q
  BY <1>1, <1>3, DivisionBounds
<1>5. m + n <= amount
  BY <1>1, <1>2, <1>4
<1> QED
  BY <1>4, <1>5 DEF m, n

\* Half of a natural number.
LEMMA HalfTwice ==
  ASSUME NEW n \in Nat
  PROVE  n \div 2 \in Nat /\ (n \div 2) + (n \div 2) <= n
OBVIOUS

\* The parties and the treasury get no more than the jurors' part leaves.
LEMMA PaidWithin ==
  ASSUME SettingsOK, NEW x \in DisputeSet, NEW winner \in Winners
  PROVE  LET kept == Bps(TotalBond(x), fees.juror)
         IN  /\ kept \in Nat /\ Bps(TotalBond(x), fees.treasury) \in Nat
             /\ PayoutTo(x, winner, "CHALLENGER") \in Nat
             /\ PayoutTo(x, winner, "VERIFIER") \in Nat
             /\ PaidOut(x, winner) \in Nat
             /\ PaidOut(x, winner) + kept <= TotalBond(x)
<1> DEFINE total == TotalBond(x)
           kept == Bps(total, fees.juror)
           cut == Bps(total, fees.treasury)
           rest == Remainder(x)
           toC == PayoutTo(x, winner, "CHALLENGER")
           toV == PayoutTo(x, winner, "VERIFIER")
<1>1. total \in Nat
  BY OpenBondTyped
<1>2. fees.juror \in Nat /\ fees.treasury \in Nat /\ fees.juror + fees.treasury <= 10000
  BY DEF SettingsOK
<1>3. kept \in Nat /\ cut \in Nat /\ kept + cut <= total
  <2> DEFINE j == fees.juror
             t == fees.treasury
  <2>1. total \in Nat /\ j \in Nat /\ t \in Nat /\ j + t <= 10000
    BY <1>1, <1>2
  <2> HIDE DEF total, j, t
  <2>2. /\ Bps(total, j) \in Nat /\ Bps(total, t) \in Nat
        /\ Bps(total, j) + Bps(total, t) <= total
    BY <2>1, FeesWithin
  <2> QED BY <2>2 DEF j, t
<1>4. rest = total - kept - cut
  BY DEF Remainder
<1>5. /\ winner = "CHALLENGER" => toC = rest /\ toV = 0
      /\ winner = "VERIFIER" => toC = 0 /\ toV = rest
      /\ winner = "UNDECIDED" => toC = rest \div 2 /\ toV = rest \div 2
  BY DEF PayoutTo
<1>6. PaidOut(x, winner) = toC + toV + cut
  BY DEF PaidOut
<1>7. winner \in {"UNDECIDED", "CHALLENGER", "VERIFIER"}
  BY DEF Winners
<1> HIDE DEF total, kept, cut, rest, toC, toV
<1>8. rest \in Nat
  BY <1>1, <1>3, <1>4
<1>9. toC \in Nat /\ toV \in Nat /\ toC + toV <= rest
  BY <1>5, <1>7, <1>8, HalfTwice
<1>10. PaidOut(x, winner) \in Nat /\ PaidOut(x, winner) + kept <= total
  BY <1>1, <1>3, <1>4, <1>6, <1>8, <1>9
<1> QED
  BY <1>3, <1>9, <1>10 DEF total, kept, cut, toC, toV

\* The rewards of those who voted are no more than the jurors' part.
LEMMA RewardsWithin ==
  ASSUME SettingsOK, pendingRewards \in [Accounts -> Nat],
         NEW x \in DisputeSet, NEW y, DOMAIN y.votes \subseteq Accounts
  PROVE  LET after == [a \in Accounts |->
               pendingRewards[a] + (IF HasVoted(y, a) THEN RewardPerJuror(x, y) ELSE 0)]
         IN  /\ after \in [Accounts -> Nat]
             /\ SumFunction(after)
                  <= SumFunction(pendingRewards) + Bps(TotalBond(x), fees.juror)
<1> DEFINE voters == DOMAIN y.votes
           n == VotesCast(y)
           each == RewardPerJuror(x, y)
           kept == Bps(TotalBond(x), fees.juror)
           extra == [a \in Accounts |-> IF a \in voters THEN each ELSE 0]
           after == [a \in Accounts |->
                       pendingRewards[a] + (IF HasVoted(y, a) THEN each ELSE 0)]
           sum == [a \in Accounts |-> pendingRewards[a] + extra[a]]
<1>1. kept \in Nat
  BY LadderConstants, PaidWithin DEF Winners
<1>2. IsFiniteSet(voters) /\ n \in Nat /\ n = Cardinality(voters)
  BY RegistryConstants, FS_Subset, FS_CardinalityType DEF VotesCast
<1>3. each = IF n = 0 THEN 0 ELSE kept \div n
  BY DEF RewardPerJuror
<1> HIDE DEF kept, n, each
<1>4. each \in Nat /\ n * each <= kept
  <2>1. CASE n = 0
    BY <1>1, <1>3, <2>1
  <2>2. CASE n # 0
    <3>1. each = kept \div n /\ n \in Nat \ {0}
      BY <1>2, <1>3, <2>2
    <3>2. each \in Nat /\ each * n <= kept
      BY <1>1, <3>1, DivisionBounds
    <3> QED BY <1>2, <3>2
  <2> QED BY <2>1, <2>2
<1>5. extra \in [Accounts -> Int] /\ pendingRewards \in [Accounts -> Int]
  BY <1>4
<1>6. SumFunction(extra) = n * each
  <2> HIDE DEF voters
  <2>1. voters \in SUBSET Accounts /\ each \in Int
    BY <1>4 DEF voters
  <2>2. SumFunction([a \in Accounts |-> IF a \in voters THEN each ELSE 0])
          = Cardinality(voters) * each
    BY <2>1, RegistryConstants, SumConstant
  <2> QED BY <1>2, <2>2
<1>7. after = sum /\ after \in [Accounts -> Nat]
  BY <1>4 DEF HasVoted
<1> HIDE DEF extra
<1>8. SumFunction(sum) = SumFunction(pendingRewards) + SumFunction(extra)
  BY <1>5, RegistryConstants, SumAdds
<1> HIDE DEF sum
<1>9. SumFunction(pendingRewards) \in Nat
  BY RegistryConstants, SumBounds
<1>10. SumFunction(after) = SumFunction(pendingRewards) + n * each
  BY <1>6, <1>7, <1>8
<1>11. n * each \in Nat
  BY <1>2, <1>4
<1>12. SumFunction(after) <= SumFunction(pendingRewards) + kept
  <2> HIDE DEF after
  <2> QED BY <1>1, <1>4, <1>9, <1>10, <1>11
<1> QED
  BY <1>7, <1>12 DEF kept, each

\* finalize pays no more than the dispute's bonds.
LEMMA FinalizeKeeps ==
  ASSUME Before, Books, NEW d \in Ids, finalize(d)
  PROVE  DisputesOK' /\ RequestsOK' /\ Books'
<1> DEFINE x0 == disputes[d]
           y0 == rounds[d]
           winner == y0.winner
           out == PaidOut(x0, winner)
           kept == Bps(TotalBond(x0), fees.juror)
<1>1. /\ x0 \in DisputeSet /\ y0 \in RoundSet /\ PairOK(x0, y0)
      /\ DisputesOK /\ RequestsOK /\ SettingsOK
  BY BeforePair DEF Before, Context
<1>2. Change(d, disputes'[d], y0) /\ disputes'[d].status = "FINALIZED"
  BY FinalizeMoves
<1>3. DisputesOK' /\ RequestsOK'
  BY <1>1, <1>2, ChangeKeeps
<1>4. /\ x0.status = "ROUND_RESOLVED" /\ ladderWeth >= out /\ ladderWeth' = ladderWeth - out
      /\ pendingRewards' = [a \in Accounts |->
           pendingRewards[a] + (IF HasVoted(y0, a) THEN RewardPerJuror(x0, y0) ELSE 0)]
      /\ wethOf' = Paid(x0, winner)
  BY DEF finalize
<1>5. winner \in Winners /\ DOMAIN y0.votes \subseteq Accounts
  BY <1>1 DEF RoundSet, PairOK
<1>6. /\ pendingRewards \in [Accounts -> Nat] /\ ladderWeth \in Nat
      /\ wethOf \in [Accounts -> Nat]
      /\ ladderWeth >= OpenBonds + SumFunction(pendingRewards)
  BY DEF Books, LadderSolvent
<1>7. SumFunction(pendingRewards) \in Nat /\ OpenBonds \in Nat /\ TotalBond(x0) \in Nat
  BY <1>1, RewardsTyped, BondsTyped, OpenBondTyped
<1>8. OpenBonds' = OpenBonds - TotalBond(x0)
  <2>1. OpenBonds' = OpenBonds + OpenBond(disputes'[d]) - OpenBond(x0)
    BY <1>1, <1>2, BondsMove
  <2>2. OpenBond(disputes'[d]) = 0 /\ OpenBond(x0) = TotalBond(x0)
    BY <1>2, <1>4 DEF OpenBond
  <2> QED BY <1>7, <2>1, <2>2
<1>9. /\ kept \in Nat /\ out \in Nat /\ out + kept <= TotalBond(x0)
      /\ PayoutTo(x0, winner, "CHALLENGER") \in Nat
      /\ PayoutTo(x0, winner, "VERIFIER") \in Nat
      /\ Bps(TotalBond(x0), fees.treasury) \in Nat
  <2> HIDE DEF x0, winner
  <2> QED BY <1>1, <1>5, PaidWithin
<1>10. /\ pendingRewards' \in [Accounts -> Nat]
       /\ SumFunction(pendingRewards') <= SumFunction(pendingRewards) + kept
  <2> HIDE DEF x0, y0
  <2> QED BY <1>1, <1>4, <1>5, <1>6, RewardsWithin
<1>11. wethOf' \in [Accounts -> Nat]
  <2> DEFINE toC == PayoutTo(x0, winner, "CHALLENGER")
             toV == PayoutTo(x0, winner, "VERIFIER")
             cut == Bps(TotalBond(x0), fees.treasury)
  <2>1. wethOf' = [a \in Accounts |->
                     wethOf[a]
                     + (IF a = x0.challenger THEN toC ELSE 0)
                     + (IF a = x0.verifier THEN toV ELSE 0)
                     + (IF a = config.treasury THEN cut ELSE 0)]
    BY <1>4 DEF Paid
  <2> HIDE DEF toC, toV, cut, x0
  <2> QED BY <1>6, <1>9, <2>1 DEF toC, toV, cut
<1>12. SumFunction(pendingRewards') \in Nat
  BY <1>10, RegistryConstants, SumBounds
<1> HIDE DEF out, kept, x0
<1>13. ladderWeth' \in Nat /\ ladderWeth' >= OpenBonds' + SumFunction(pendingRewards')
  BY <1>4, <1>6, <1>7, <1>8, <1>9, <1>10, <1>12
<1> QED
  BY <1>3, <1>10, <1>11, <1>13 DEF Books, LadderSolvent

\* claimRewards pays what the books owe.
LEMMA ClaimKeeps ==
  ASSUME DisputesOK, RequestsOK, Books, NEW a \in Accounts, claimRewards(a)
  PROVE  DisputesOK' /\ RequestsOK' /\ Books'
<1> DEFINE f == pendingRewards
           h == pendingRewards'
<1>1. /\ f[a] > 0 /\ ladderWeth >= f[a] /\ h = [f EXCEPT ![a] = 0]
      /\ ladderWeth' = ladderWeth - f[a] /\ wethOf' = [wethOf EXCEPT ![a] = @ + f[a]]
      /\ disputes' = disputes /\ rounds' = rounds /\ vrfRequests' = vrfRequests
  BY DEF claimRewards
<1>2. DisputesOK' /\ RequestsOK' /\ OpenBonds' = OpenBonds
  BY <1>1 DEF DisputesOK, RequestsOK, OpenBonds, Ids, PairOK, Agree, Impartial
<1>3. /\ f \in [Accounts -> Nat] /\ ladderWeth \in Nat /\ wethOf \in [Accounts -> Nat]
      /\ ladderWeth >= OpenBonds + SumFunction(f)
      /\ SumFunction(f) \in Nat /\ OpenBonds \in Nat
  BY RewardsTyped, BondsTyped DEF Books, LadderSolvent
<1> HIDE DEF f
<1>4. /\ h \in [Accounts -> Nat] /\ h[a] = 0 /\ f[a] \in Nat
      /\ \A b \in Accounts \ {a} : f[b] = h[b]
      /\ wethOf' \in [Accounts -> Nat]
  BY <1>1, <1>3
<1> HIDE DEF h
<1>5. f \in [Accounts -> Int] /\ h \in [Accounts -> Int]
  BY <1>3, <1>4
<1>6. SumFunction(h) = SumFunction(f) + h[a] - f[a]
  BY <1>4, <1>5, RegistryConstants, SumChanged
<1>7. ladderWeth' \in Nat /\ ladderWeth' >= OpenBonds' + SumFunction(h)
  BY <1>1, <1>2, <1>3, <1>4, <1>6
<1> QED
  BY <1>2, <1>4, <1>7 DEF Books, LadderSolvent, h

-----------------------------------------------------------------------------
(* The whole ladder.                                                       *)

\* The inductive invariant of the ladder with its registries.
LadderInv == Counted /\ Backed /\ SettingsOK /\ DisputesOK /\ RequestsOK /\ Books

\* What the list of auditors is for the draws.
LEMMA ListFromRegistry == Backed => ListOK
BY DEF Backed, RegistryTypeOK, ListOK

\* The ladder touches nothing of the registry but the auditors' WETH.
LEMMA RegistryKept ==
  ASSUME Counted, Backed, registryVars' = registryVars, wethOf' \in [Accounts -> Nat]
  PROVE  Counted' /\ Backed'
<1>1. /\ minStake' = minStake /\ minHumanExpertStake' = minHumanExpertStake
      /\ stakeOf' = stakeOf /\ lockedStake' = lockedStake /\ active' = active
      /\ isHumanExpert' = isHumanExpert /\ humanExpertCount' = humanExpertCount
      /\ auditorList' = auditorList /\ registryWeth' = registryWeth /\ ownerEth' = ownerEth
      /\ minStakeChanged' = minStakeChanged /\ slashedUnlocked' = slashedUnlocked
  BY DEF registryVars
<1>2. Counted'
  BY <1>1 DEF Counted, ExpertsCounted
<1>3. RegistryBacked'
  BY <1>1 DEF Backed, RegistryBacked
<1>4. RegistryTypeOK'
  BY <1>1 DEF Backed, RegistryTypeOK
<1> QED
  BY <1>2, <1>3, <1>4 DEF Backed

\* Steps that leave the settings, the clock and the bundles alone.
LEMMA SettingsKept ==
  ASSUME SettingsOK, config' = config, fees' = fees, now' = now, bundles' = bundles
  PROVE  SettingsOK'
BY DEF SettingsOK

\* Steps that leave the disputes and the ladder's money alone.
LEMMA DisputesKept ==
  ASSUME DisputesOK, RequestsOK, disputes' = disputes, rounds' = rounds,
         vrfRequests' = vrfRequests
  PROVE  DisputesOK' /\ RequestsOK' /\ OpenBonds' = OpenBonds
BY DEF DisputesOK, RequestsOK, OpenBonds, Ids, PairOK, Agree, Impartial

\* The same for the books, when the accounts' WETH keeps its type.
LEMMA BooksKept ==
  ASSUME Books, OpenBonds' = OpenBonds, pendingRewards' = pendingRewards,
         ladderWeth' = ladderWeth, wethOf' \in [Accounts -> Nat]
  PROVE  Books'
<1>1. SumFunction(pendingRewards') = SumFunction(pendingRewards)
  OBVIOUS
<1> QED
  BY <1>1 DEF Books, LadderSolvent

\* An array of settings keeps its type when the owner sets an element.
LEMMA SettingSet ==
  ASSUME NEW S, NEW f \in [S -> Nat], NEW i, NEW v \in Nat
  PROVE  [f EXCEPT ![i] = v] \in [S -> Nat]
OBVIOUS

\* The setters of the configuration keep its types.
LEMMA ConfigureConfig ==
  ASSUME config \in Configs,
         \/ \E amount \in OwnerValues.bonds :
              setMinChallengeBond(amount) \/ \E level \in Levels : setAppealBond(level, amount)
         \/ \E level \in Levels, size \in OwnerValues.jurySizes : setJurySize(level, size)
         \/ \E window \in OwnerValues.windows :
              \/ \E level \in Levels : setTimeWindows(level, window)
              \/ setChallengeWindow(window)
              \/ setResponseWindow(window)
         \/ \E multiplier \in OwnerValues.multipliers :
              setHumanExpertWeightMultiplier(multiplier)
         \/ \E account \in OwnerValues.treasuries : setTreasury(account)
         \/ \E enabled \in OwnerValues.vrf : setUseVrf(enabled)
  PROVE  /\ config' \in Configs
         /\ UNCHANGED <<disputes, rounds, vrfRequests, pendingRewards, ladderWeth, paused, fees,
                        registryVars, bundleVars, wethOf, now>>
<1> DEFINE T == [1..MaxLevel -> Nat]
           W == [0..MaxLevel -> Nat]
           C == [challengeWindow : Nat, responseWindow : Nat, useVrf : BOOLEAN,
                 treasury : Accounts, minChallengeBond : Nat, appealBonds : T, jurySizes : T,
                 evidenceWindows : T, voteWindows : T, appealWindows : W,
                 humanExpertWeightMultiplier : Nat]
<1>1. Configs = C
  BY DEF Configs
<1>2. \A f \in T, v \in Nat : \A i : [f EXCEPT ![i] = v] \in T
  BY SettingSet
<1>3. \A f \in W, v \in Nat : \A i : [f EXCEPT ![i] = v] \in W
  BY SettingSet
<1>4. /\ OwnerValues.bonds \subseteq Nat /\ OwnerValues.jurySizes \subseteq Nat
      /\ OwnerValues.windows \subseteq Nat /\ OwnerValues.multipliers \subseteq Nat
      /\ OwnerValues.treasuries \subseteq Accounts /\ OwnerValues.vrf \subseteq BOOLEAN
  BY LadderConstants
<1> HIDE DEF T, W
<1>5. config \in C
  BY <1>1
<1>6. /\ config.appealBonds \in T /\ config.jurySizes \in T /\ config.evidenceWindows \in T
      /\ config.voteWindows \in T /\ config.appealWindows \in W
  BY <1>5
<1> SUFFICES ASSUME NEW c \in C, SetConfig(c)
             PROVE  /\ config' \in C
                    /\ UNCHANGED <<disputes, rounds, vrfRequests, pendingRewards, ladderWeth,
                                   paused, fees, registryVars, bundleVars, wethOf, now>>
  <2>1. \A v \in Nat : /\ [config EXCEPT !.minChallengeBond = v] \in C
                       /\ [config EXCEPT !.challengeWindow = v] \in C
                       /\ [config EXCEPT !.responseWindow = v] \in C
                       /\ [config EXCEPT !.humanExpertWeightMultiplier = v] \in C
    BY <1>5
  <2>2. \A v \in Accounts : [config EXCEPT !.treasury = v] \in C
    BY <1>5
  <2>3. \A v \in BOOLEAN : [config EXCEPT !.useVrf = v] \in C
    BY <1>5
  <2>4. \A v \in Nat : \A i : [config EXCEPT !.appealBonds[i] = v] \in C
    <3> SUFFICES ASSUME NEW v \in Nat, NEW i
                 PROVE  [config EXCEPT !.appealBonds[i] = v] \in C
      OBVIOUS
    <3> DEFINE f == [config.appealBonds EXCEPT ![i] = v]
    <3>1. f \in T
      BY <1>2, <1>6
    <3>2. [config EXCEPT !.appealBonds[i] = v] = [config EXCEPT !.appealBonds = f]
      BY <1>5
    <3> HIDE DEF f
    <3>3. [config EXCEPT !.appealBonds = f] \in C
      BY <1>5, <3>1
    <3> QED BY <3>2, <3>3
  <2>5. \A v \in Nat : \A i : [config EXCEPT !.jurySizes[i] = v] \in C
    <3> SUFFICES ASSUME NEW v \in Nat, NEW i
                 PROVE  [config EXCEPT !.jurySizes[i] = v] \in C
      OBVIOUS
    <3> DEFINE f == [config.jurySizes EXCEPT ![i] = v]
    <3>1. f \in T
      BY <1>2, <1>6
    <3>2. [config EXCEPT !.jurySizes[i] = v] = [config EXCEPT !.jurySizes = f]
      BY <1>5
    <3> HIDE DEF f
    <3>3. [config EXCEPT !.jurySizes = f] \in C
      BY <1>5, <3>1
    <3> QED BY <3>2, <3>3
  <2>6. \A v \in Nat : \A i : [config EXCEPT !.evidenceWindows[i] = v, !.voteWindows[i] = v,
                                             !.appealWindows[i] = v] \in C
    <3> SUFFICES ASSUME NEW v \in Nat, NEW i
                 PROVE  [config EXCEPT !.evidenceWindows[i] = v, !.voteWindows[i] = v,
                                       !.appealWindows[i] = v] \in C
      OBVIOUS
    <3> DEFINE e == [config.evidenceWindows EXCEPT ![i] = v]
               o == [config.voteWindows EXCEPT ![i] = v]
               p == [config.appealWindows EXCEPT ![i] = v]
    <3>1. e \in T /\ o \in T /\ p \in W
      BY <1>2, <1>3, <1>6
    <3>2. [config EXCEPT !.evidenceWindows[i] = v, !.voteWindows[i] = v, !.appealWindows[i] = v]
            = [config EXCEPT !.evidenceWindows = e, !.voteWindows = o, !.appealWindows = p]
      BY <1>5
    <3> HIDE DEF e, o, p
    <3>3. [config EXCEPT !.evidenceWindows = e, !.voteWindows = o, !.appealWindows = p] \in C
      BY <1>5, <3>1
    <3> QED BY <3>2, <3>3
  <2> HIDE DEF C
  <2>7. \E c \in C : SetConfig(c)
    BY <1>4, <2>1, <2>2, <2>3, <2>4, <2>5, <2>6
       DEF setMinChallengeBond, setAppealBond, setJurySize, setTimeWindows, setChallengeWindow,
           setResponseWindow, setHumanExpertWeightMultiplier, setTreasury, setUseVrf
  <2> QED BY <1>1, <2>7
<1> HIDE DEF C
<1> QED
  BY DEF SetConfig

\* Whatever the owner sets, the settings stay in their types and the fees within the whole.
LEMMA ConfigureSettings ==
  ASSUME SettingsOK, Configure
  PROVE  /\ SettingsOK'
         /\ UNCHANGED <<disputes, rounds, vrfRequests, pendingRewards, ladderWeth,
                        registryVars, bundleVars, wethOf, now>>
<1>1. config \in Configs /\ fees \in [treasury : Nat, juror : Nat] /\ now \in Nat
      /\ fees.treasury + fees.juror <= 10000
  BY DEF SettingsOK
<1> DEFINE Rest == UNCHANGED <<disputes, rounds, vrfRequests, pendingRewards, ladderWeth,
                               registryVars, bundleVars, wethOf, now>>
           Right == /\ fees' \in [treasury : Nat, juror : Nat]
                    /\ fees'.treasury + fees'.juror <= 10000
                    /\ config' \in Configs
                    /\ Rest
<1>2. ASSUME NEW bps \in OwnerValues.feeBps, setTreasuryFeeBps(bps) \/ setJurorRewardBps(bps)
      PROVE  Right
  <2>1. bps \in Nat
    BY LadderConstants
  <2> QED BY <1>1, <1>2, <2>1 DEF setTreasuryFeeBps, setJurorRewardBps, SetFees
<1>3. ASSUME NEW p \in OwnerValues.pauses, SetPaused(p)
      PROVE  Right
  BY <1>1, <1>3 DEF SetPaused
<1>4. ASSUME ~(\E bps \in OwnerValues.feeBps : setTreasuryFeeBps(bps) \/ setJurorRewardBps(bps)),
             ~(\E p \in OwnerValues.pauses : SetPaused(p))
      PROVE  Right
  BY <1>1, <1>4, ConfigureConfig DEF Configure
<1>5. Right
  BY <1>2, <1>3, <1>4
<1>6. bundles' = bundles /\ now' = now
  BY <1>5 DEF bundleVars
<1>7. SettingsOK'
  BY <1>1, <1>5, <1>6 DEF SettingsOK
<1> QED
  BY <1>5, <1>7

\* A bundle belongs to an account.
LEMMA BundleSettings ==
  ASSUME SettingsOK, BundleNext, config' = config, fees' = fees, now' = now
  PROVE  SettingsOK'
<1>1. DOMAIN bundles = Bundles /\ \A b \in Bundles : bundles[b] = NoBundle
                                                     \/ bundles[b].owner \in Accounts
  BY DEF SettingsOK
<1>2. ASSUME NEW b \in Bundles, NEW owner \in Submitters, NEW n, NEW budget,
             registerBundle(b, owner, n, budget)
      PROVE  /\ DOMAIN bundles' = Bundles
             /\ \A e \in Bundles : bundles'[e] = NoBundle \/ bundles'[e].owner \in Accounts
  BY <1>1, <1>2, LadderConstants DEF registerBundle
<1>3. ASSUME NEW b, NEW i, NEW c, NEW s, registerBranch(b, i, c, s)
      PROVE  /\ DOMAIN bundles' = Bundles
             /\ \A e \in Bundles : bundles'[e] = NoBundle \/ bundles'[e].owner \in Accounts
  BY <1>1, <1>3 DEF registerBranch
<1>4. /\ DOMAIN bundles' = Bundles
      /\ \A e \in Bundles : bundles'[e] = NoBundle \/ bundles'[e].owner \in Accounts
  BY <1>2, <1>3 DEF BundleNext
<1> QED
  BY <1>4 DEF SettingsOK

\* What a step does to the disputes.
Kinds ==
  \/ \E x : Opened(x)
  \/ \E d \in Ids : \E x, y : Change(d, x, y)
  \/ disputes' = disputes /\ rounds' = rounds

\* The ladder holds its invariant at deployment.
LEMMA InitLadder == RegistryInit /\ BundleInit /\ now = 0 /\ LadderInit => LadderInv
<1> SUFFICES ASSUME RegistryInit, BundleInit, now = 0, LadderInit
             PROVE  LadderInv
  OBVIOUS
<1>1. Counted /\ Backed
  BY InitCounted, InitBacked
<1>2. SettingsOK
  BY LadderConstants DEF LadderInit, BundleInit, SettingsOK
<1>3. disputes = <<>> /\ rounds = <<>> /\ vrfRequests = {} /\ ladderWeth = 0
      /\ pendingRewards = [a \in Accounts |-> 0]
  BY DEF LadderInit
<1>4. Ids = {}
  BY <1>3 DEF Ids
<1>5. DisputesOK
  <2>1. disputes \in Seq(DisputeSet) /\ rounds \in Seq(RoundSet) /\ Len(rounds) = Len(disputes)
    BY <1>3
  <2> QED BY <1>4, <2>1 DEF DisputesOK
<1>6. RequestsOK
  BY <1>3 DEF RequestsOK
<1>7. Books
  <2> DEFINE f == [e \in Ids |-> OpenBond(disputes[e])]
  <2>1. IsFiniteSet(Ids) /\ f \in [Ids -> Nat] /\ OpenBonds = SumFunction(f)
    BY <1>5, BondsTyped
  <2>2. f \in [Ids -> Int]
    BY <2>1
  <2> HIDE DEF f
  <2>3. SumFunction(f) = 0
    BY <1>4, <2>1, <2>2, SumZero
  <2>4. pendingRewards \in [Accounts -> Int] /\ \A a \in Accounts : pendingRewards[a] = 0
    BY <1>3
  <2>5. SumFunction(pendingRewards) = 0
    BY <2>4, RegistryConstants, SumZero
  <2>6. wethOf \in [Accounts -> Nat] /\ pendingRewards \in [Accounts -> Nat]
    BY <1>1, <1>3 DEF Backed, RegistryTypeOK
  <2> QED BY <1>3, <2>1, <2>3, <2>5, <2>6 DEF Books, LadderSolvent
<1> QED
  BY <1>1, <1>2, <1>5, <1>6, <1>7 DEF LadderInv

\* A step of the disputes, with what it leaves alone.
LEMMA DisputeStep ==
  ASSUME LadderInv, DisputesOK', RequestsOK', Books',
         UNCHANGED <<config, fees, registryVars, bundleVars, now>>
  PROVE  LadderInv'
<1>1. wethOf' \in [Accounts -> Nat]
  BY DEF Books
<1>2. Counted' /\ Backed'
  BY <1>1, RegistryKept DEF LadderInv
<1>3. SettingsOK'
  BY SettingsKept DEF LadderInv, bundleVars
<1> QED
  BY <1>2, <1>3 DEF LadderInv

\* Every step of the ladder keeps the invariant and is of a known kind.
LEMMA NextLadder ==
  ASSUME LadderInv, LadderNext
  PROVE  LadderInv' /\ Kinds
<1>1. /\ Counted /\ Backed /\ SettingsOK /\ DisputesOK /\ RequestsOK /\ Books
      /\ Before /\ Context
  <2>1. ladderWeth \in Nat
    BY DEF LadderInv, Books
  <2> QED BY <2>1, ListFromRegistry DEF LadderInv, Before, Context
<1>2. ASSUME NEW who \in Parties, NEW b \in Bundles, NEW i \in ChallengedBranches,
             NEW f \in FaultTypes, NEW bond \in Bonds, openDispute(who, b, i, f, bond)
      PROVE  LadderInv' /\ Kinds
  <2>1. PICK x : Opened(x)
    BY <1>1, <1>2, OpenMoves
  <2>2. DisputesOK' /\ RequestsOK' /\ Books'
    BY <1>1, <2>1, OpenedKeeps, OpenedBooks
  <2>3. UNCHANGED <<config, fees, registryVars, bundleVars, now>>
    BY <1>2 DEF openDispute
  <2> QED BY <2>1, <2>2, <2>3, DisputeStep DEF Kinds
<1>3. ASSUME NEW d \in Ids, Moved(d),
             UNCHANGED <<config, fees, registryVars, bundleVars, now>>
      PROVE  LadderInv' /\ Kinds
  <2>1. DisputesOK' /\ RequestsOK' /\ Books'
    BY <1>1, <1>3, MovedKeeps
  <2>2. Kinds
    BY <1>3 DEF Moved, Kinds
  <2> QED BY <1>3, <2>1, <2>2, DisputeStep
<1>4. ASSUME NEW d \in Ids, finalize(d)
      PROVE  LadderInv' /\ Kinds
  <2>1. DisputesOK' /\ RequestsOK' /\ Books'
    BY <1>1, <1>4, FinalizeKeeps
  <2>2. Kinds
    BY <1>1, <1>4, FinalizeMoves DEF Kinds
  <2>3. UNCHANGED <<config, fees, registryVars, bundleVars, now>>
    BY <1>4 DEF finalize
  <2> QED BY <2>1, <2>2, <2>3, DisputeStep
<1>5. ASSUME NEW d \in Ids,
             \/ respondToDispute(d)
             \/ \E bond \in Bonds : postDefenseBond(d, bond) \/ appeal(d, bond)
             \/ \E side \in EvidenceBy : submitEvidence(d, side)
             \/ \E juror \in Accounts, winner \in Verdicts : castVote(d, juror, winner)
      PROVE  LadderInv' /\ Kinds
  <2>1. Moved(d)
    BY <1>1, <1>5, RespondMoves, DefenseMoves, AppealMoves, EvidenceMoves, VoteMoves
  <2>2. UNCHANGED <<config, fees, registryVars, bundleVars, now>>
    BY <1>5 DEF respondToDispute, postDefenseBond, appeal, submitEvidence, castVote
  <2> QED BY <1>3, <2>1, <2>2
<1>6. ASSUME NEW d \in Ids, Advance(d), ~finalize(d)
      PROVE  LadderInv' /\ Kinds
  <2>1. Moved(d)
    BY <1>1, <1>6, NonResponseMoves, L0Moves, FulfillMoves, StartMoves, CloseMoves, TallyMoves
       DEF Advance
  <2>2. UNCHANGED <<config, fees, registryVars, bundleVars, now>>
    BY <1>6 DEF Advance, resolveForNonResponse, runL0AutoCheck, fulfillRandomWords, startVoting,
                closeVoting, tally
  <2> QED BY <1>3, <2>1, <2>2
<1>7. ASSUME NEW a \in Accounts, claimRewards(a)
      PROVE  LadderInv' /\ Kinds
  <2>1. DisputesOK' /\ RequestsOK' /\ Books'
    BY <1>1, <1>7, ClaimKeeps
  <2>2. UNCHANGED <<config, fees, registryVars, bundleVars, now>> /\ disputes' = disputes
        /\ rounds' = rounds
    BY <1>7 DEF claimRewards
  <2> QED BY <2>1, <2>2, DisputeStep DEF Kinds
<1>8. ASSUME disputes' = disputes, rounds' = rounds, vrfRequests' = vrfRequests,
             pendingRewards' = pendingRewards, ladderWeth' = ladderWeth,
             wethOf' \in [Accounts -> Nat], Counted', Backed', SettingsOK'
      PROVE  LadderInv' /\ Kinds
  <2>1. DisputesOK' /\ RequestsOK' /\ OpenBonds' = OpenBonds
    BY <1>1, <1>8, DisputesKept
  <2>2. Books'
    BY <1>1, <1>8, <2>1, BooksKept
  <2> QED BY <1>8, <2>1, <2>2 DEF LadderInv, Kinds
<1>9. wethOf \in [Accounts -> Nat]
  BY <1>1 DEF Books
<1>10. CASE Configure
  <2>1. /\ SettingsOK'
        /\ UNCHANGED <<disputes, rounds, vrfRequests, pendingRewards, ladderWeth,
                       registryVars, wethOf>>
    BY <1>1, <1>10, ConfigureSettings
  <2>2. Counted' /\ Backed'
    BY <1>1, <1>9, <2>1, RegistryKept
  <2> QED BY <1>8, <1>9, <2>1, <2>2
<1>11. CASE RegistryNext /\ UNCHANGED <<ladderVars, bundleVars, now>>
  <2>1. Counted' /\ Backed'
    BY <1>1, <1>11, NextCounted, NextBacked
  <2>2. SettingsOK'
    BY <1>1, <1>11, SettingsKept DEF ladderVars, bundleVars
  <2>3. wethOf' \in [Accounts -> Nat]
    BY <2>1 DEF Backed, RegistryTypeOK
  <2> QED BY <1>8, <1>11, <2>1, <2>2, <2>3 DEF ladderVars
<1>12. CASE BundleNext /\ UNCHANGED <<ladderVars, registryVars, wethOf, now>>
  <2>1. Counted' /\ Backed'
    BY <1>1, <1>9, <1>12, RegistryKept
  <2>2. SettingsOK'
    BY <1>1, <1>12, BundleSettings DEF ladderVars
  <2> QED BY <1>8, <1>9, <1>12, <2>1, <2>2 DEF ladderVars
<1>13. CASE Tick
  <2>1. Counted' /\ Backed'
    BY <1>1, <1>9, <1>13, RegistryKept DEF Tick
  <2>2. SettingsOK'
    BY <1>1, <1>13 DEF Tick, ladderVars, bundleVars, SettingsOK
  <2> QED BY <1>8, <1>9, <1>13, <2>1, <2>2 DEF Tick, ladderVars
<1> QED
  BY <1>2, <1>4, <1>5, <1>6, <1>7, <1>10, <1>11, <1>12, <1>13 DEF LadderNext

\* The same for steps that change nothing.
LEMMA NextLadderBox ==
  LadderInv /\ [LadderNext]_ladderSystemVars => LadderInv' /\ Kinds
<1> SUFFICES ASSUME LadderInv, [LadderNext]_ladderSystemVars
             PROVE  LadderInv' /\ Kinds
  OBVIOUS
<1>1. CASE UNCHANGED ladderSystemVars
  <2>1. UNCHANGED <<config, fees, registryVars, bundleVars, now, disputes, rounds, vrfRequests,
                    pendingRewards, ladderWeth, wethOf>>
    BY <1>1 DEF ladderSystemVars, ladderVars
  <2>2. DisputesOK' /\ RequestsOK' /\ OpenBonds' = OpenBonds
    BY <2>1, DisputesKept DEF LadderInv
  <2>3. Books'
    BY <2>1, <2>2, BooksKept DEF LadderInv, Books
  <2> QED BY <2>1, <2>2, <2>3, DisputeStep DEF Kinds
<1> QED
  BY <1>1, NextLadder

\* The inductive invariant holds of every behaviour of the ladder.
LEMMA LadderAlways == LadderSpec => []LadderInv
<1>1. LadderInv /\ [LadderNext]_ladderSystemVars => LadderInv'
  BY NextLadderBox
<1> QED
  BY InitLadder, <1>1, PTL DEF LadderSpec

\* However the auditors come and go while a jury is drawn, and whatever experts replace, a
\* sitting jury of DisputeLadder.sol (_selectJurors, _prioritizeHumanExperts) has its size,
\* no juror twice and neither party: for any accounts, sizes and random words.
THEOREM JuriesAreImpartial == LadderSpec => []ImpartialJury
<1>1. LadderInv => ImpartialJury
  BY DEF LadderInv, DisputesOK, PairOK, Impartial, Sitting, ImpartialJury, Party
<1> QED
  BY LadderAlways, <1>1, PTL

\* The records of every dispute, the requests to the coordinator and the WETH of
\* DisputeLadder.sol agree, for any bonds, fees and number of disputes.
THEOREM LadderStaysSound == LadderSpec => []LadderIsSound
<1>1. LadderInv => LadderTypeOK
  <2> SUFFICES ASSUME LadderInv PROVE LadderTypeOK
    OBVIOUS
  <2>1. ASSUME NEW d \in Ids
        PROVE  /\ disputes[d].status \in Statuses
               /\ disputes[d].challenger \in Accounts
               /\ disputes[d].verifier \in Accounts
               /\ disputes[d].challengeBond \in Nat
               /\ disputes[d].defenseBond \in Nat
               /\ disputes[d].currentLevel \in 0..MaxLevel
               /\ rounds[d].phase \in Phases
               /\ rounds[d].winner \in Winners
               /\ rounds[d].jurors \subseteq Accounts
               /\ DOMAIN rounds[d].votes \subseteq rounds[d].jurors
    <3>1. PairOK(disputes[d], rounds[d])
      BY DEF LadderInv, DisputesOK
    <3> QED BY <3>1 DEF PairOK, DisputeSet, RoundSet, AllLevels
  <2> QED BY <2>1 DEF LadderInv, DisputesOK, Books, LadderTypeOK
<1>2. LadderInv => StatusMatchesPhase
  <2> SUFFICES ASSUME LadderInv PROVE StatusMatchesPhase
    OBVIOUS
  <2>1. ASSUME NEW d \in Ids
        PROVE  CASE disputes[d].status = "OPEN" ->
                      rounds[d].phase = "NONE" /\ disputes[d].currentLevel = 0
                 [] disputes[d].status = "ROUND_ACTIVE" ->
                      /\ rounds[d].phase \in {"SELECTING_JURY", "EVIDENCE", "VOTING",
                                              "TALLY_READY"}
                      /\ disputes[d].currentLevel > 0
                 [] OTHER -> rounds[d].phase = "RESOLVED"
    <3>1. Agree(disputes[d], rounds[d]) /\ disputes[d].status \in Statuses
      BY DEF LadderInv, DisputesOK, PairOK, DisputeSet
    <3> QED BY <3>1 DEF Agree, Sitting, Statuses
  <2>2. ASSUME NEW r \in vrfRequests
        PROVE  disputes[r[1]].currentLevel = r[2] /\ rounds[r[1]].phase = "SELECTING_JURY"
    BY DEF LadderInv, RequestsOK
  <2> QED BY <2>1, <2>2 DEF StatusMatchesPhase
<1>3. LadderInv => LadderSolvent
  BY DEF LadderInv, Books
<1> QED
  BY LadderAlways, <1>1, <1>2, <1>3, PTL DEF LadderIsSound

\* A step of the ladder ignores no answer, changes no finalized dispute and replaces no
\* juror and no vote within a round, in whatever order parties, jurors, coordinator, owner
\* and clock act.
THEOREM DisputesRunTheirCourseAlways == LadderSpec => DisputesRunTheirCourse
<1> DEFINE Heard == \A d \in Ids : (/\ disputes[d].status = "OPEN" /\ disputes[d].hasResponded
                                    /\ disputes'[d].status = "ROUND_RESOLVED")
                                   => MechanicalViolation(disputes[d])
           Final == \A d \in Ids : disputes[d].status = "FINALIZED"
                      => disputes'[d] = disputes[d] /\ rounds'[d] = rounds[d]
           Ballot == \A d \in Ids :
                      (/\ disputes'[d].currentLevel = disputes[d].currentLevel
                       /\ rounds[d].phase \in {"EVIDENCE", "VOTING", "TALLY_READY"})
                      => /\ rounds'[d].jurors = rounds[d].jurors
                         /\ \A juror \in DOMAIN rounds[d].votes :
                              /\ juror \in DOMAIN rounds'[d].votes
                              /\ rounds'[d].votes[juror] = rounds[d].votes[juror]
<1>1. ASSUME LadderInv, Kinds
      PROVE  Heard /\ Final /\ Ballot
  <2>1. CASE \A e \in Ids : disputes'[e] = disputes[e] /\ rounds'[e] = rounds[e]
    BY <2>1
  <2>2. ASSUME NEW d \in Ids, NEW x, NEW y, Change(d, x, y)
        PROVE  Heard /\ Final /\ Ballot
    <3>1. /\ disputes'[d] = x /\ rounds'[d] = y
          /\ \A e \in Ids : e # d => disputes'[e] = disputes[e] /\ rounds'[e] = rounds[e]
          /\ Course(d, x, y)
      BY <2>2 DEF Change, PairMoves
    <3>2. Heard
      BY <3>1 DEF Course
    <3>3. Final
      BY <3>1 DEF Course
    <3>4. Ballot
      BY <3>1 DEF Course, Sitting
    <3> QED BY <3>2, <3>3, <3>4
  <2>3. ASSUME NEW x, Opened(x)
        PROVE  Heard /\ Final /\ Ballot
    BY <1>1, <2>1, <2>3, OpenedKeeps DEF LadderInv
  <2> QED BY <1>1, <2>1, <2>2, <2>3 DEF Kinds
<1>2. LadderInv /\ [LadderNext]_ladderSystemVars => Heard /\ Final /\ Ballot
  <2> HIDE DEF Heard, Final, Ballot
  <2> QED BY <1>1, NextLadderBox
<1>3. LadderInv /\ [LadderNext]_ladderSystemVars
        => [Heard]_ladderSystemVars /\ [Final]_ladderSystemVars /\ [Ballot]_ladderSystemVars
  <2> HIDE DEF Heard, Final, Ballot
  <2> QED BY <1>2
<1> QED
  BY LadderAlways, <1>3, PTL
     DEF LadderSpec, DisputesRunTheirCourse, AnsweredIsHeard, FinalIsFinal, BallotsKept
=============================================================================
