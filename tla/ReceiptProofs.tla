---------------------------- MODULE ReceiptProofs ----------------------------
(***************************************************************************)
(* Proofs about ReceiptDisputeManager and VerifierRegistry together, for   *)
(* any accounts, amounts, windows and delays: money, statuses and counters *)
(* agree, receipts are spaced, a final receipt stays final, and nobody     *)
(* withdraws while a receipt of its own is younger than the delay.         *)
(***************************************************************************)
EXTENDS ReceiptDisputeManager, SumTheorems, SequenceTheorems, TLAPS

\* The settings of both contracts and the clock.
SettingsTyped ==
  /\ minStake \in Nat /\ withdrawDelay \in Nat /\ minReceiptInterval \in Nat
  /\ reputationConfig \in [reward : Nat, penalty : Nat, win : Nat, loss : Nat]
  /\ authorizedCallers \subseteq Accounts
  /\ economics \in EconomicConfigs
  /\ windows \in [dispute : Nat, response : Nat]
  /\ now \in Nat

RecordsTyped ==
  /\ verifiers \in [Accounts -> Verifier]
  /\ wallet \in [Accounts -> Nat]
  /\ receipts \in Seq(Receipt)
  /\ disputes \in Seq(Dispute)
  /\ Len(disputes) = Len(receipts)

\* The stake a verifier's status promises.
SoundVerifier(v) ==
  /\ v.status = "UNREGISTERED" => v.stake = 0
  /\ "minStake" \notin changed /\ v.status = "ACTIVE" => v.stake >= minStake

\* A receipt and its dispute are at the same stage.
SoundReceipt(r, d) ==
  /\ d.status = "NONE" <=> ~r.disputed
  /\ d.status = "RESOLVED" => r.finalized
  /\ r.finalized /\ r.disputed => d.status = "RESOLVED"
  /\ r.finalized /\ ~r.disputed => now > r.disputeDeadline
  /\ r.submittedAt <= now
  /\ d.status = "OPEN" => d.verifierBond = 0

Gap == IF minReceiptInterval < withdrawDelay THEN minReceiptInterval ELSE withdrawDelay

\* What the times in a verifier's record say about a receipt it submitted.
Spaced(v, r) ==
  /\ v.status = "EXITING" => v.exitRequestedAt >= r.submittedAt
  /\ "delays" \notin changed =>
       /\ v.lastActiveAt + minReceiptInterval >= r.submittedAt + Gap
       /\ v.status = "UNREGISTERED" => now >= r.submittedAt + withdrawDelay

\* The bonds a dispute holds.
Held(d) ==
  IF d.status \in {"OPEN", "RESPONDED"} THEN d.challengerBond + d.verifierBond ELSE 0

Stakes(vs) == [a \in Accounts |-> vs[a].stake]

HeldIn(ds) == [id \in DOMAIN ds |-> Held(ds[id])]

FinalOf(rs, a) == {id \in DOMAIN rs : rs[id].verifier = a /\ rs[id].finalized}

ResolvedOf(rs, ds, a) == {id \in DOMAIN rs : rs[id].verifier = a /\ ds[id].status = "RESOLVED"}

\* The counters of a verifier's record count these receipts and disputes.
Counted(v, rs, ds, a) ==
  /\ v.jobsCompleted = Cardinality(FinalOf(rs, a))
  /\ v.disputesWon + v.disputesLost = Cardinality(ResolvedOf(rs, ds, a))

Without(w, s, t) == [w EXCEPT !.stake = s, !.status = t]

With(w, s, t, x) == [w EXCEPT !.stake = s, !.status = t, !.exitRequestedAt = x]

\* The inductive invariant.
ReceiptInv ==
  /\ SettingsTyped
  /\ RecordsTyped
  /\ \A a \in Accounts : SoundVerifier(verifiers[a]) /\ Counted(verifiers[a], receipts, disputes, a)
  /\ \A id \in Ids : /\ SoundReceipt(receipts[id], disputes[id])
                     /\ Spaced(VerifierOf(id), receipts[id])
  /\ registryEth = SumFunction(Stakes(verifiers))
  /\ managerEth = SumFunction(HeldIn(disputes))
  /\ ReceiptsAreSpaced

-----------------------------------------------------------------------------
(* Records and sums.                                                       *)

\* The constants' types, one by one.
LEMMA RegistryConstantsTyped ==
  /\ IsFiniteSet(Accounts)
  /\ \A a \in Verifiers : a \in Accounts
  /\ \A a \in Callers : a \in Accounts
  /\ \A v \in Values : v \in Nat
  /\ \A bps \in SlashBps : bps \in 0..10000
  /\ (\A amount \in MinStakes : amount \in Nat) /\ (\A delay \in Delays : delay \in Nat)
<1>1. IsFiniteSet(Accounts)
  BY RegistryAccounts
<1>2. \A a \in Verifiers : a \in Accounts
  <2>1. Verifiers \subseteq Accounts
    BY RegistryAccounts
  <2> QED BY <2>1
<1>3. \A a \in Callers : a \in Accounts
  <2>1. Callers \subseteq Accounts
    BY RegistryAccounts
  <2> QED BY <2>1
<1>4. \A v \in Values : v \in Nat
  BY RegistryAmounts
<1>5. \A bps \in SlashBps : bps \in 0..10000
  <2>1. SlashBps \subseteq 0..10000
    BY RegistryShares
  <2> QED BY <2>1
<1>6. \A amount \in MinStakes : amount \in Nat
  <2>1. MinStakes \subseteq Nat
    BY RegistryAmounts
  <2> QED BY <2>1
<1>7. \A delay \in Delays : delay \in Nat
  <2>1. Delays \subseteq Nat
    BY RegistrySettings
  <2> QED BY <2>1
<1> QED
  BY <1>1, <1>2, <1>3, <1>4, <1>5, <1>6, <1>7

\* A verifier's record after a change of its stake, status and exit time.
LEMMA RecordWith ==
  ASSUME NEW w \in Verifier, NEW s \in Nat, NEW t \in Statuses, NEW x \in Nat
  PROVE  /\ With(w, s, t, x) \in Verifier
         /\ With(w, s, t, x).stake = s /\ With(w, s, t, x).status = t
         /\ With(w, s, t, x).exitRequestedAt = x
         /\ With(w, s, t, x).lastActiveAt = w.lastActiveAt
         /\ With(w, s, t, x).jobsCompleted = w.jobsCompleted
         /\ With(w, s, t, x).disputesWon = w.disputesWon
         /\ With(w, s, t, x).disputesLost = w.disputesLost
<1> DEFINE v == With(w, s, t, x)
<1>1. v \in Verifier
  BY DEF With, Verifier
<1>2. v.stake = s /\ v.status = t /\ v.exitRequestedAt = x
  BY DEF With, Verifier
<1>3. /\ v.lastActiveAt = w.lastActiveAt /\ v.jobsCompleted = w.jobsCompleted
      /\ v.disputesWon = w.disputesWon /\ v.disputesLost = w.disputesLost
  BY DEF With, Verifier
<1> QED
  BY <1>1, <1>2, <1>3

\* The exit time may be left as it is.
LEMMA RecordWithoutExit ==
  ASSUME NEW w, w \in Verifier, NEW s, NEW t
  PROVE  Without(w, s, t) = With(w, s, t, w.exitRequestedAt)
BY DEF With, Without, Verifier

\* The ids of receipts and of disputes are the same numbers.
LEMMA IdsAreNumbers ==
  ASSUME RecordsTyped
  PROVE  /\ Len(receipts) \in Nat
         /\ Ids = 1..Len(receipts) /\ DOMAIN disputes = Ids /\ IsFiniteSet(Ids)
         /\ \A id \in Ids : receipts[id] \in Receipt /\ disputes[id] \in Dispute
<1>1. /\ Len(receipts) \in Nat /\ Len(disputes) \in Nat
      /\ receipts \in [1..Len(receipts) -> Receipt] /\ DOMAIN receipts = 1..Len(receipts)
      /\ disputes \in [1..Len(disputes) -> Dispute] /\ DOMAIN disputes = 1..Len(disputes)
  BY LenProperties DEF RecordsTyped
<1>2. IsFiniteSet(1..Len(receipts))
  BY <1>1, FS_Interval
<1> QED
  BY <1>1, <1>2 DEF RecordsTyped, Ids

\* The stakes of all accounts, when one record changes.
LEMMA StakesMove ==
  ASSUME NEW vs \in [Accounts -> Verifier], NEW a \in Accounts, NEW v \in Verifier
  PROVE  /\ SumFunction(Stakes(vs)) \in Nat
         /\ vs[a].stake <= SumFunction(Stakes(vs))
         /\ SumFunction(Stakes([vs EXCEPT ![a] = v])) =
              SumFunction(Stakes(vs)) + v.stake - vs[a].stake
<1> DEFINE f == Stakes(vs)
           h == Stakes([vs EXCEPT ![a] = v])
<1>1. f \in [Accounts -> Nat] /\ h \in [Accounts -> Nat]
  BY DEF Stakes, Verifier
<1>2. f[a] = vs[a].stake /\ h[a] = v.stake /\ \A y \in Accounts \ {a} : f[y] = h[y]
  BY DEF Stakes
<1> HIDE DEF f, h
<1>3. IsFiniteSet(Accounts)
  BY RegistryAccounts
<1>4. f \in [Accounts -> Int] /\ h \in [Accounts -> Int]
  BY <1>1
<1>5. SumFunction(h) = SumFunction(f) + h[a] - f[a]
  BY <1>2, <1>3, <1>4, SumChanged
<1>6. SumFunction(f) \in Nat /\ f[a] <= SumFunction(f)
  BY <1>1, <1>3, SumBounds
<1> QED
  BY <1>2, <1>5, <1>6 DEF f, h

\* What a dispute holds is an amount.
LEMMA HeldTyped == \A d \in Dispute : Held(d) \in Nat
BY DEF Held, Dispute

\* The bonds of all disputes, when one changes.
LEMMA HeldMoves ==
  ASSUME NEW ds \in Seq(Dispute), NEW id \in DOMAIN ds, NEW d \in Dispute
  PROVE  /\ SumFunction(HeldIn(ds)) \in Nat
         /\ Held(ds[id]) <= SumFunction(HeldIn(ds))
         /\ SumFunction(HeldIn([ds EXCEPT ![id] = d])) =
              SumFunction(HeldIn(ds)) + Held(d) - Held(ds[id])
<1> DEFINE D == DOMAIN ds
           f == HeldIn(ds)
           h == HeldIn([ds EXCEPT ![id] = d])
<1>1. D = 1..Len(ds) /\ Len(ds) \in Nat /\ ds \in [D -> Dispute]
  BY LenProperties
<1>2. f \in [D -> Nat] /\ h \in [D -> Nat]
  BY <1>1, HeldTyped DEF HeldIn
<1>3. f[id] = Held(ds[id]) /\ h[id] = Held(d) /\ \A y \in D \ {id} : f[y] = h[y]
  BY <1>1 DEF HeldIn
<1>4. IsFiniteSet(D) /\ id \in D
  BY <1>1, FS_Interval
<1> HIDE DEF f, h, D
<1>5. f \in [D -> Int] /\ h \in [D -> Int]
  BY <1>2
<1>6. SumFunction(h) = SumFunction(f) + h[id] - f[id]
  BY <1>3, <1>4, <1>5, SumChanged
<1>7. SumFunction(f) \in Nat /\ f[id] <= SumFunction(f)
  BY <1>2, <1>4, SumBounds
<1> QED
  BY <1>3, <1>6, <1>7 DEF f, h

-----------------------------------------------------------------------------
(* What a call keeps, by what it changes.                                  *)

\* A setter of the owner, or time.
LEMMA SettingsChange ==
  ASSUME ReceiptInv, SettingsTyped', now' >= now, changed \subseteq changed',
         "minStake" \notin changed' => minStake' = minStake,
         "delays" \notin changed' =>
           withdrawDelay' = withdrawDelay /\ minReceiptInterval' = minReceiptInterval,
         UNCHANGED <<verifiers, receipts, disputes, managerEth, registryEth, wallet>>
  PROVE  ReceiptInv'
<1>1. /\ RecordsTyped' /\ now \in Nat /\ now' \in Nat
  BY DEF ReceiptInv, RecordsTyped, SettingsTyped
<1>2. \A a \in Accounts :
        SoundVerifier(verifiers[a])' /\ Counted(verifiers[a], receipts, disputes, a)'
  BY DEF ReceiptInv, SoundVerifier
<1>3. ASSUME NEW id \in Ids
      PROVE  SoundReceipt(receipts[id], disputes[id])' /\ Spaced(VerifierOf(id), receipts[id])'
  <2>1. /\ receipts[id] \in Receipt
        /\ receipts[id].submittedAt \in Nat /\ receipts[id].disputeDeadline \in Nat
    BY IdsAreNumbers DEF ReceiptInv, Receipt
  <2>2. SoundReceipt(receipts[id], disputes[id]) /\ Spaced(VerifierOf(id), receipts[id])
    BY DEF ReceiptInv
  <2>3. SoundReceipt(receipts[id], disputes[id])'
    BY <1>1, <2>1, <2>2 DEF SoundReceipt
  <2>4. Spaced(VerifierOf(id), receipts[id])'
    <3>1. "delays" \notin changed' => withdrawDelay \in Nat
      BY DEF ReceiptInv, SettingsTyped
    <3> QED BY <1>1, <2>1, <2>2, <3>1 DEF Spaced, Gap, VerifierOf
  <2> QED BY <2>3, <2>4
<1>4. ReceiptsAreSpaced'
  BY DEF ReceiptInv, ReceiptsAreSpaced, Ids
<1> QED
  BY <1>1, <1>2, <1>3, <1>4 DEF ReceiptInv, Ids

\* A call of the registry that changes the record of one verifier but not its counters.
LEMMA VerifierChanges ==
  ASSUME ReceiptInv, NEW a \in Accounts, NEW v \in Verifier,
         verifiers' = [verifiers EXCEPT ![a] = v],
         SoundVerifier(v),
         v.jobsCompleted = verifiers[a].jobsCompleted,
         v.disputesWon = verifiers[a].disputesWon, v.disputesLost = verifiers[a].disputesLost,
         \A id \in Ids : receipts[id].verifier = a => Spaced(v, receipts[id]),
         wallet' \in [Accounts -> Nat],
         registryEth' = registryEth + v.stake - verifiers[a].stake,
         UNCHANGED <<managerVars, settings, now>>
  PROVE  ReceiptInv'
<1>1. /\ RecordsTyped' /\ SettingsTyped'
  BY DEF ReceiptInv, RecordsTyped, SettingsTyped, managerVars, settings
<1>2. /\ verifiers \in [Accounts -> Verifier]
      /\ \A b \in Accounts : verifiers'[b] = IF b = a THEN v ELSE verifiers[b]
  BY DEF ReceiptInv, RecordsTyped
<1>3. /\ Ids' = Ids
      /\ \A id \in Ids : receipts[id] \in Receipt /\ receipts[id].verifier \in Accounts
  BY IdsAreNumbers DEF ReceiptInv, Ids, Receipt, managerVars
<1>4. ASSUME NEW b \in Accounts
      PROVE  SoundVerifier(verifiers[b])' /\ Counted(verifiers[b], receipts, disputes, b)'
  BY <1>2 DEF ReceiptInv, SoundVerifier, Counted, managerVars, settings
<1>5. ASSUME NEW id \in Ids
      PROVE  SoundReceipt(receipts[id], disputes[id])' /\ Spaced(VerifierOf(id), receipts[id])'
  <2>1. SoundReceipt(receipts[id], disputes[id])'
    BY DEF ReceiptInv, SoundReceipt, managerVars
  <2>2. Spaced(VerifierOf(id), receipts[id])'
    BY <1>2, <1>3 DEF ReceiptInv, Spaced, Gap, VerifierOf, managerVars, settings
  <2> QED BY <2>1, <2>2
<1>6. registryEth' = SumFunction(Stakes(verifiers'))
  <2>1. /\ SumFunction(Stakes(verifiers)) \in Nat
        /\ SumFunction(Stakes(verifiers')) =
             SumFunction(Stakes(verifiers)) + v.stake - verifiers[a].stake
    BY <1>2, StakesMove
  <2> QED BY <2>1 DEF ReceiptInv
<1>7. ReceiptsAreSpaced' /\ managerEth' = SumFunction(HeldIn(disputes'))
  BY DEF ReceiptInv, ReceiptsAreSpaced, Ids, managerVars, settings
<1> QED
  BY <1>1, <1>3, <1>4, <1>5, <1>6, <1>7 DEF ReceiptInv

\* The counts move with one receipt and its dispute.
LEMMA CountsMove ==
  ASSUME NEW rs \in Seq(Receipt), NEW ds \in Seq(Dispute), Len(ds) = Len(rs),
         NEW id \in DOMAIN rs, NEW r \in Receipt, NEW d \in Dispute,
         r.verifier = rs[id].verifier,
         rs[id].finalized => r.finalized,
         ds[id].status = "RESOLVED" => d.status = "RESOLVED",
         NEW b \in Accounts, NEW old \in Verifier, Counted(old, rs, ds, b), NEW v \in Verifier,
         b # r.verifier => v = old,
         b = r.verifier =>
           /\ v.jobsCompleted = old.jobsCompleted
                                  + (IF r.finalized /\ ~rs[id].finalized THEN 1 ELSE 0)
           /\ v.disputesWon + v.disputesLost = old.disputesWon + old.disputesLost
                + (IF d.status = "RESOLVED" /\ ds[id].status # "RESOLVED" THEN 1 ELSE 0)
  PROVE  Counted(v, [rs EXCEPT ![id] = r], [ds EXCEPT ![id] = d], b)
<1> DEFINE rn == [rs EXCEPT ![id] = r]
           dn == [ds EXCEPT ![id] = d]
<1>1. /\ DOMAIN rs = 1..Len(rs) /\ DOMAIN ds = DOMAIN rs /\ Len(rs) \in Nat
      /\ rs \in [DOMAIN rs -> Receipt] /\ ds \in [DOMAIN rs -> Dispute]
  BY LenProperties
<1>2. /\ DOMAIN rn = DOMAIN rs
      /\ \A x \in DOMAIN rs : rn[x] = (IF x = id THEN r ELSE rs[x])
      /\ \A x \in DOMAIN rs : dn[x] = (IF x = id THEN d ELSE ds[x])
  BY <1>1
<1> HIDE DEF rn, dn
<1>3. IsFiniteSet(DOMAIN rs)
  BY <1>1, FS_Interval
<1>4. /\ FinalOf(rs, b) \in SUBSET DOMAIN rs
      /\ ResolvedOf(rs, ds, b) \in SUBSET DOMAIN rs
  BY DEF FinalOf, ResolvedOf
<1>5. IsFiniteSet(FinalOf(rs, b)) /\ IsFiniteSet(ResolvedOf(rs, ds, b))
  BY <1>3, <1>4, FS_Subset
<1>6. /\ Cardinality(FinalOf(rs, b)) = old.jobsCompleted
      /\ Cardinality(ResolvedOf(rs, ds, b)) = old.disputesWon + old.disputesLost
  BY DEF Counted
<1>7. v.jobsCompleted = Cardinality(FinalOf(rn, b))
  <2>1. CASE b = r.verifier /\ r.finalized /\ ~rs[id].finalized
    <3>1. FinalOf(rn, b) = FinalOf(rs, b) \union {id} /\ id \notin FinalOf(rs, b)
      BY <1>2, <2>1 DEF FinalOf
    <3>2. Cardinality(FinalOf(rs, b) \union {id}) = Cardinality(FinalOf(rs, b)) + 1
      BY <1>5, <3>1, FS_AddElement
    <3>3. Cardinality(FinalOf(rn, b)) = Cardinality(FinalOf(rs, b)) + 1
      BY <3>1, <3>2, Zenon
    <3> QED BY <1>6, <2>1, <3>3
  <2>2. CASE ~(b = r.verifier /\ r.finalized /\ ~rs[id].finalized)
    <3>1. FinalOf(rn, b) = FinalOf(rs, b)
      BY <1>2, <2>2 DEF FinalOf
    <3>2. v.jobsCompleted = old.jobsCompleted
      BY <2>2 DEF Verifier
    <3> QED BY <1>6, <3>1, <3>2
  <2> QED BY <2>1, <2>2
<1>8. v.disputesWon + v.disputesLost = Cardinality(ResolvedOf(rn, dn, b))
  <2>1. CASE b = r.verifier /\ d.status = "RESOLVED" /\ ds[id].status # "RESOLVED"
    <3>1. /\ ResolvedOf(rn, dn, b) = ResolvedOf(rs, ds, b) \union {id}
          /\ id \notin ResolvedOf(rs, ds, b)
      BY <1>2, <2>1 DEF ResolvedOf
    <3>2. IsFiniteSet(ResolvedOf(rs, ds, b))
      BY <1>5
    <3>3. Cardinality(ResolvedOf(rs, ds, b) \union {id}) = Cardinality(ResolvedOf(rs, ds, b)) + 1
      BY <3>1, <3>2, FS_AddElement
    <3>4. Cardinality(ResolvedOf(rn, dn, b)) = Cardinality(ResolvedOf(rs, ds, b)) + 1
      BY <3>1, <3>3
    <3> QED BY <1>6, <2>1, <3>4
  <2>2. CASE ~(b = r.verifier /\ d.status = "RESOLVED" /\ ds[id].status # "RESOLVED")
    <3>1. ResolvedOf(rn, dn, b) = ResolvedOf(rs, ds, b)
      BY <1>2, <2>2 DEF ResolvedOf
    <3>2. v.disputesWon + v.disputesLost = old.disputesWon + old.disputesLost
      BY <2>2 DEF Verifier
    <3> QED BY <1>6, <3>1, <3>2
  <2> QED BY <2>1, <2>2
<1> QED
  BY <1>7, <1>8 DEF Counted, rn, dn

\* A call about one receipt, that may count it and settle its dispute.
LEMMA ReceiptChanges ==
  ASSUME ReceiptInv, NEW id \in Ids, NEW r \in Receipt, NEW d \in Dispute, NEW v \in Verifier,
         receipts' = [receipts EXCEPT ![id] = r],
         disputes' = [disputes EXCEPT ![id] = d],
         verifiers' = [verifiers EXCEPT ![receipts[id].verifier] = v],
         r.verifier = receipts[id].verifier, r.submittedAt = receipts[id].submittedAt,
         receipts[id].finalized => r.finalized,
         disputes[id].status = "RESOLVED" => d.status = "RESOLVED",
         SoundReceipt(r, d),
         v.stake = VerifierOf(id).stake, SoundVerifier(v),
         v.status \in {VerifierOf(id).status, "SLASHED"},
         v.lastActiveAt = VerifierOf(id).lastActiveAt,
         v.exitRequestedAt = VerifierOf(id).exitRequestedAt,
         v.jobsCompleted = VerifierOf(id).jobsCompleted
                             + (IF r.finalized /\ ~receipts[id].finalized THEN 1 ELSE 0),
         v.disputesWon + v.disputesLost = VerifierOf(id).disputesWon + VerifierOf(id).disputesLost
           + (IF d.status = "RESOLVED" /\ disputes[id].status # "RESOLVED" THEN 1 ELSE 0),
         wallet' \in [Accounts -> Nat],
         managerEth' = managerEth + Held(d) - Held(disputes[id]),
         UNCHANGED <<economics, windows, settings, registryEth, now>>
  PROVE  ReceiptInv'
<1> DEFINE a == receipts[id].verifier
<1>1. /\ RecordsTyped /\ receipts \in Seq(Receipt) /\ disputes \in Seq(Dispute)
      /\ Len(disputes) = Len(receipts) /\ verifiers \in [Accounts -> Verifier]
  BY DEF ReceiptInv, RecordsTyped
<1>2. /\ Ids = 1..Len(receipts) /\ Ids = 1..Len(disputes) /\ DOMAIN receipts = Ids
      /\ DOMAIN disputes = Ids
      /\ \A x \in Ids : receipts[x] \in Receipt /\ disputes[x] \in Dispute
  BY <1>1, IdsAreNumbers DEF Ids
<1>3. a \in Accounts
  BY <1>2 DEF Receipt
<1>4. /\ receipts' \in Seq(Receipt) /\ Len(receipts') = Len(receipts)
      /\ disputes' \in Seq(Dispute) /\ Len(disputes') = Len(disputes)
      /\ \A x \in Ids : receipts'[x] = IF x = id THEN r ELSE receipts[x]
      /\ \A x \in Ids : disputes'[x] = IF x = id THEN d ELSE disputes[x]
  BY <1>1, <1>2, ExceptSeq
<1>5. \A b \in Accounts : verifiers'[b] = IF b = a THEN v ELSE verifiers[b]
  BY <1>1
<1>6. RecordsTyped' /\ SettingsTyped'
  BY <1>1, <1>4 DEF ReceiptInv, RecordsTyped, SettingsTyped, settings
<1>7. Ids' = Ids
  BY <1>4, <1>6, <1>2, IdsAreNumbers DEF Ids
<1>8. ASSUME NEW b \in Accounts
      PROVE  SoundVerifier(verifiers[b])' /\ Counted(verifiers[b], receipts, disputes, b)'
  <2>1. SoundVerifier(verifiers[b])'
    BY <1>5 DEF ReceiptInv, SoundVerifier, settings
  <2>2. verifiers[b] \in Verifier /\ verifiers'[b] \in Verifier
    BY <1>1, <1>5
  <2>3. Counted(verifiers[b], receipts, disputes, b)
    BY DEF ReceiptInv
  <2>4. /\ b # r.verifier => verifiers'[b] = verifiers[b]
        /\ b = r.verifier => verifiers'[b] = v /\ verifiers[b] = VerifierOf(id)
    BY <1>5 DEF VerifierOf
  <2>5. PICK old, new, rs, ds :
          old = verifiers[b] /\ new = verifiers'[b] /\ rs = receipts /\ ds = disputes
    OBVIOUS
  <2>6. /\ rs \in Seq(Receipt) /\ ds \in Seq(Dispute) /\ Len(ds) = Len(rs) /\ id \in DOMAIN rs
        /\ old \in Verifier /\ new \in Verifier /\ Counted(old, rs, ds, b)
        /\ r.verifier = rs[id].verifier /\ (rs[id].finalized => r.finalized)
        /\ ds[id].status = "RESOLVED" => d.status = "RESOLVED"
    BY <1>1, <1>2, <2>2, <2>3, <2>5
  <2>7. /\ b # r.verifier => new = old
        /\ b = r.verifier =>
             /\ new.jobsCompleted = old.jobsCompleted
                                    + (IF r.finalized /\ ~rs[id].finalized THEN 1 ELSE 0)
             /\ new.disputesWon + new.disputesLost = old.disputesWon + old.disputesLost
                  + (IF d.status = "RESOLVED" /\ ds[id].status # "RESOLVED" THEN 1 ELSE 0)
    BY <2>4, <2>5
  <2>8. Counted(new, [rs EXCEPT ![id] = r], [ds EXCEPT ![id] = d], b)
    BY <2>6, <2>7, CountsMove
  <2> QED BY <2>1, <2>5, <2>8
<1>9. ASSUME NEW x \in Ids
      PROVE  SoundReceipt(receipts[x], disputes[x])' /\ Spaced(VerifierOf(x), receipts[x])'
  <2>1. SoundReceipt(receipts[x], disputes[x])'
    BY <1>4 DEF ReceiptInv, SoundReceipt
  <2>2. receipts'[x].verifier = receipts[x].verifier /\ receipts'[x].submittedAt = receipts[x].submittedAt
    BY <1>4
  <2>3. Spaced(VerifierOf(x), receipts[x]) /\ receipts[x].verifier \in Accounts
    BY <1>2 DEF ReceiptInv, Receipt
  <2>4. Spaced(VerifierOf(x), receipts[x])'
    <3> DEFINE w == VerifierOf(x)
               u == verifiers'[receipts[x].verifier]
    <3>1. /\ u.status = w.status \/ u.status = "SLASHED"
          /\ u.lastActiveAt = w.lastActiveAt /\ u.exitRequestedAt = w.exitRequestedAt
      BY <1>5, <2>3 DEF VerifierOf
    <3>2. VerifierOf(x)' = u
      BY <2>2 DEF VerifierOf
    <3> HIDE DEF u, w
    <3> QED BY <2>2, <2>3, <3>1, <3>2 DEF Spaced, Gap, settings, w
  <2> QED BY <2>1, <2>4
<1>10. registryEth' = SumFunction(Stakes(verifiers'))
  <2>1. Stakes(verifiers') = Stakes(verifiers)
    BY <1>5 DEF Stakes, VerifierOf
  <2> QED BY <2>1 DEF ReceiptInv
<1>11. managerEth' = SumFunction(HeldIn(disputes'))
  <2>1. /\ SumFunction(HeldIn(disputes)) \in Nat
        /\ SumFunction(HeldIn(disputes')) =
             SumFunction(HeldIn(disputes)) + Held(d) - Held(disputes[id])
    BY <1>1, <1>2, HeldMoves
  <2> QED BY <2>1 DEF ReceiptInv
<1>12. ReceiptsAreSpaced'
  <2>1. \A x \in Ids : /\ receipts'[x].verifier = receipts[x].verifier
                        /\ receipts'[x].submittedAt = receipts[x].submittedAt
    BY <1>4
  <2> QED BY <1>7, <2>1 DEF ReceiptInv, ReceiptsAreSpaced, settings
<1> QED
  BY <1>6, <1>7, <1>8, <1>9, <1>10, <1>11, <1>12 DEF ReceiptInv

-----------------------------------------------------------------------------
(* The calls, one by one.                                                  *)

\* No account is registered, no receipt submitted: the invariant holds.
LEMMA InitReceipts == ReceiptInit => ReceiptInv
<1> SUFFICES ASSUME ReceiptInit PROVE ReceiptInv
  OBVIOUS
<1> USE DEF ReceiptInit, VerifierRegistryInit
<1>1. NoVerifier \in Verifier
  BY DEF NoVerifier, Verifier, Statuses
<1>2. /\ receipts \in Seq(Receipt) /\ disputes \in Seq(Dispute)
      /\ Len(receipts) = 0 /\ Len(disputes) = 0 /\ DOMAIN receipts = {} /\ DOMAIN disputes = {}
  BY EmptySeq
<1>3. RecordsTyped
  BY <1>1, <1>2, RegistryAccounts, RegistryAmounts DEF RecordsTyped
<1>4. SettingsTyped
  BY RegistryAmounts, RegistrySettings, RegistryShares, ReceiptWindows DEF SettingsTyped
<1>5. ASSUME NEW a \in Accounts
      PROVE  SoundVerifier(verifiers[a]) /\ Counted(verifiers[a], receipts, disputes, a)
  <2>1. FinalOf(receipts, a) = {} /\ ResolvedOf(receipts, disputes, a) = {}
    BY <1>2 DEF FinalOf, ResolvedOf
  <2>2. /\ verifiers[a].stake = 0 /\ verifiers[a].status = "UNREGISTERED"
        /\ verifiers[a].jobsCompleted = 0
        /\ verifiers[a].disputesWon = 0 /\ verifiers[a].disputesLost = 0
    BY DEF NoVerifier
  <2>3. Cardinality({}) = 0
    BY FS_EmptySet
  <2>4. verifiers[a].jobsCompleted = Cardinality(FinalOf(receipts, a))
    BY <2>1, <2>2, <2>3
  <2>5. verifiers[a].disputesWon + verifiers[a].disputesLost
          = Cardinality(ResolvedOf(receipts, disputes, a))
    <3>1. 0 + 0 = Cardinality({})
      BY <2>3
    <3> QED BY <2>1, <2>2, <3>1
  <2>6. Counted(verifiers[a], receipts, disputes, a)
    BY <2>4, <2>5 DEF Counted
  <2> QED BY <2>2, <2>6 DEF SoundVerifier
<1>6. registryEth = SumFunction(Stakes(verifiers))
  <2>1. Stakes(verifiers) \in [Accounts -> Int] /\ \A a \in Accounts : Stakes(verifiers)[a] = 0
    BY DEF Stakes, NoVerifier
  <2>2. IsFiniteSet(Accounts)
    BY RegistryAccounts
  <2> QED BY <2>1, <2>2, SumZero
<1>7. managerEth = SumFunction(HeldIn(disputes))
  <2>1. HeldIn(disputes) \in [{} -> Int]
    BY <1>2 DEF HeldIn
  <2>2. SumFunction(HeldIn(disputes)) = 0
    BY <2>1, SumZero, FS_EmptySet
  <2> QED BY <2>2
<1>8. Ids = {}
  BY <1>2 DEF Ids
<1> QED
  BY <1>3, <1>4, <1>5, <1>6, <1>7, <1>8 DEF ReceiptInv, ReceiptsAreSpaced

\* A verifier whose stake or status changes by its own call.
LEMMA VerifierCallKeeps == ReceiptInv /\ VerifierCall /\ UNCHANGED managerVars => ReceiptInv'
<1> SUFFICES ASSUME ReceiptInv, VerifierCall, UNCHANGED managerVars PROVE ReceiptInv'
  OBVIOUS
<1>1. /\ verifiers \in [Accounts -> Verifier] /\ wallet \in [Accounts -> Nat]
      /\ minStake \in Nat /\ withdrawDelay \in Nat /\ minReceiptInterval \in Nat /\ now \in Nat
  BY DEF ReceiptInv, RecordsTyped, SettingsTyped
<1>2. (\A a \in Verifiers : a \in Accounts) /\ (\A value \in Values : value \in Nat)
  BY RegistryConstantsTyped
<1>3. \A id \in Ids : /\ receipts[id].submittedAt \in Nat /\ receipts[id].submittedAt <= now
                       /\ Spaced(verifiers[receipts[id].verifier], receipts[id])
  BY IdsAreNumbers DEF ReceiptInv, SoundReceipt, Receipt, VerifierOf
<1>4. ASSUME NEW a \in Verifiers
      PROVE  /\ a \in Accounts /\ verifiers[a] \in Verifier /\ SoundVerifier(verifiers[a])
             /\ verifiers[a].stake \in Nat /\ verifiers[a].lastActiveAt \in Nat
             /\ verifiers[a].exitRequestedAt \in Nat
  BY <1>1, <1>2 DEF ReceiptInv, Verifier
<1>5. ASSUME NEW a \in Verifiers, NEW value \in Values, registerVerifier(a, value)
      PROVE  ReceiptInv'
  <2> DEFINE w == verifiers[a]
             first == IF minReceiptInterval > now THEN 0 ELSE now - minReceiptInterval
             v == [w EXCEPT !.stake = value, !.status = "ACTIVE", !.lastActiveAt = first]
  <2>0. w \in Verifier /\ first \in Nat /\ first + minReceiptInterval >= now
    BY <1>1, <1>4
  <2>1. /\ v \in Verifier /\ v.stake = value /\ v.status = "ACTIVE" /\ v.lastActiveAt \in Nat
        /\ v.lastActiveAt + minReceiptInterval >= now
        /\ v.jobsCompleted = verifiers[a].jobsCompleted
        /\ v.disputesWon = verifiers[a].disputesWon /\ v.disputesLost = verifiers[a].disputesLost
    <3> HIDE DEF w, first
    <3>1. v \in Verifier /\ v.stake = value /\ v.status = "ACTIVE" /\ v.lastActiveAt = first
      BY <1>2, <2>0 DEF Verifier, Statuses
    <3>2. /\ v.jobsCompleted = w.jobsCompleted
          /\ v.disputesWon = w.disputesWon /\ v.disputesLost = w.disputesLost
      BY <2>0 DEF Verifier
    <3> QED BY <2>0, <3>1, <3>2 DEF w
  <2>2. verifiers[a].status = "UNREGISTERED" /\ verifiers[a].stake = 0 /\ value >= minStake
    BY <1>4, <1>5 DEF registerVerifier, SoundVerifier
  <2>3. wallet' \in [Accounts -> Nat]
    BY <1>1, <1>2, <1>4, <1>5 DEF registerVerifier, Pays
  <2>4. registryEth' = registryEth + v.stake - verifiers[a].stake
    <3>1. registryEth \in Int
      BY <1>1, <1>4, StakesMove DEF ReceiptInv
    <3> QED BY <1>2, <1>5, <2>1, <2>2, <3>1 DEF registerVerifier
  <2>5. verifiers' = [verifiers EXCEPT ![a] = v] /\ UNCHANGED <<settings, now>>
    BY <1>5 DEF registerVerifier
  <2> HIDE DEF v
  <2>6. \A id \in Ids : receipts[id].verifier = a => Spaced(v, receipts[id])
    BY <1>1, <1>3, <2>1, <2>2 DEF Spaced, Gap
  <2>7. SoundVerifier(v)
    BY <2>1, <2>2 DEF SoundVerifier
  <2> QED BY <1>4, <2>1, <2>3, <2>4, <2>5, <2>6, <2>7, VerifierChanges
<1>6. ASSUME NEW a \in Verifiers, NEW value \in Values, depositStake(a, value)
      PROVE  ReceiptInv'
  <2> DEFINE w == verifiers[a]
             returns == w.status = "EXITING" /\ w.stake + value >= minStake
             st == IF returns THEN "ACTIVE" ELSE w.status
             ex == IF returns THEN 0 ELSE w.exitRequestedAt
             v == With(w, w.stake + value, st, ex)
  <2>0. w \in Verifier /\ w.stake \in Nat /\ value \in Nat /\ w.stake + value \in Nat
    BY <1>2, <1>4
  <2>a. st \in Statuses /\ ex \in Nat
    BY <1>4 DEF Statuses, Verifier
  <2>b. /\ v \in Verifier /\ v.stake = w.stake + value /\ v.status = st
        /\ v.exitRequestedAt = ex /\ v.lastActiveAt = w.lastActiveAt
        /\ v.jobsCompleted = w.jobsCompleted
        /\ v.disputesWon = w.disputesWon /\ v.disputesLost = w.disputesLost
    <3> HIDE DEF st, ex, w
    <3>1. PICK u, n, t, x : u = w /\ n = w.stake + value /\ t = st /\ x = ex
      OBVIOUS
    <3>2. u \in Verifier /\ n \in Nat /\ t \in Statuses /\ x \in Nat
      BY <2>0, <2>a, <3>1
    <3>3. v = With(u, n, t, x)
      BY <3>1
    <3> HIDE DEF v
    <3> QED BY <3>1, <3>2, <3>3, RecordWith
  <2>1. /\ v \in Verifier /\ v.stake = verifiers[a].stake + value
        /\ v.lastActiveAt = verifiers[a].lastActiveAt
        /\ \/ v.status = verifiers[a].status /\ v.exitRequestedAt = verifiers[a].exitRequestedAt
           \/ v.status = "ACTIVE" /\ v.stake >= minStake
        /\ v.jobsCompleted = verifiers[a].jobsCompleted
        /\ v.disputesWon = verifiers[a].disputesWon /\ v.disputesLost = verifiers[a].disputesLost
    <3> HIDE DEF v
    <3> QED BY <2>b
  <2>2. verifiers[a].status # "UNREGISTERED"
    BY <1>6 DEF depositStake
  <2>3. wallet' \in [Accounts -> Nat]
    BY <1>1, <1>2, <1>4, <1>6 DEF depositStake, Pays
  <2>4. registryEth' = registryEth + v.stake - verifiers[a].stake
    <3>1. registryEth \in Int
      BY <1>1, <1>4, StakesMove DEF ReceiptInv
    <3> QED BY <1>2, <1>4, <1>6, <2>1, <3>1 DEF depositStake
  <2>5. verifiers' = [verifiers EXCEPT ![a] = v] /\ UNCHANGED <<settings, now>>
    <3>1. Deposited(w, value) = v
      <4>1. Deposited(w, value) = [w EXCEPT !.stake = @ + value,
                                            !.status = IF returns THEN "ACTIVE" ELSE @,
                                            !.exitRequestedAt = IF returns THEN 0 ELSE @]
        BY DEF Deposited
      <4> HIDE DEF w, returns
      <4> QED BY <2>0, <4>1 DEF With, Verifier
    <3>2. verifiers' = [verifiers EXCEPT ![a] = Deposited(w, value)] /\ UNCHANGED <<settings, now>>
      BY <1>6 DEF depositStake
    <3> HIDE DEF v, w
    <3> QED BY <3>1, <3>2
  <2> HIDE DEF v, returns, st, ex, w
  <2>6. \A id \in Ids : receipts[id].verifier = a => Spaced(v, receipts[id])
    BY <1>1, <1>3, <1>4, <2>1, <2>2 DEF Spaced, Gap
  <2>7. SoundVerifier(v)
    BY <1>1, <1>2, <1>4, <2>1, <2>2 DEF SoundVerifier
  <2> QED BY <1>4, <2>1, <2>3, <2>4, <2>5, <2>6, <2>7, VerifierChanges
<1>7. ASSUME NEW a \in Verifiers, NEW v, v = Exiting(verifiers[a]),
             verifiers[a].status # "UNREGISTERED",
             verifiers' = [verifiers EXCEPT ![a] = v],
             UNCHANGED <<settings, registryEth, wallet, now>>
      PROVE  ReceiptInv'
  <2>1. /\ v \in Verifier /\ v.stake = verifiers[a].stake /\ v.status = "EXITING"
        /\ v.exitRequestedAt = now /\ v.lastActiveAt = verifiers[a].lastActiveAt
        /\ v.jobsCompleted = verifiers[a].jobsCompleted
        /\ v.disputesWon = verifiers[a].disputesWon /\ v.disputesLost = verifiers[a].disputesLost
    BY <1>1, <1>4, <1>7 DEF Exiting, Verifier, Statuses
  <2>2. \A id \in Ids : receipts[id].verifier = a => Spaced(v, receipts[id])
    BY <1>1, <1>3, <2>1 DEF Spaced, Gap
  <2>3. registryEth' = registryEth + v.stake - verifiers[a].stake
    <3>1. registryEth \in Int
      BY <1>1, <1>4, StakesMove DEF ReceiptInv
    <3> QED BY <1>4, <1>7, <2>1, <3>1
  <2>4. SoundVerifier(v) /\ wallet' \in [Accounts -> Nat]
    BY <1>1, <1>7, <2>1 DEF SoundVerifier
  <2> QED BY <1>4, <1>7, <2>1, <2>2, <2>3, <2>4, VerifierChanges
<1>8. ASSUME NEW a \in Verifiers, NEW amount \in Values, withdrawStake(a, amount)
      PROVE  ReceiptInv'
  <2> DEFINE w == verifiers[a]
             st == IF w.stake = amount THEN "UNREGISTERED" ELSE w.status
             v == With(w, w.stake - amount, st, w.exitRequestedAt)
  <2>1. /\ verifiers[a].status = "EXITING" /\ now >= verifiers[a].exitRequestedAt + withdrawDelay
        /\ amount <= verifiers[a].stake
    BY <1>8 DEF withdrawStake, CooledDown
  <2>2. /\ v \in Verifier /\ v.stake = verifiers[a].stake - amount
        /\ v.status = IF v.stake = 0 THEN "UNREGISTERED" ELSE "EXITING"
        /\ v.exitRequestedAt = verifiers[a].exitRequestedAt
        /\ v.lastActiveAt = verifiers[a].lastActiveAt
        /\ v.jobsCompleted = verifiers[a].jobsCompleted
        /\ v.disputesWon = verifiers[a].disputesWon /\ v.disputesLost = verifiers[a].disputesLost
    <3>1. /\ w \in Verifier /\ w.stake \in Nat /\ amount \in Nat /\ w.exitRequestedAt \in Nat
          /\ amount <= w.stake /\ w.status = "EXITING" /\ w.stake - amount \in Nat
      BY <1>2, <1>4, <2>1
    <3>2. st \in Statuses
      BY <3>1 DEF Statuses
    <3>3. /\ v \in Verifier /\ v.stake = w.stake - amount /\ v.status = st
          /\ v.exitRequestedAt = w.exitRequestedAt /\ v.lastActiveAt = w.lastActiveAt
          /\ v.jobsCompleted = w.jobsCompleted
          /\ v.disputesWon = w.disputesWon /\ v.disputesLost = w.disputesLost
      <4> HIDE DEF w, st
      <4>1. PICK u, n, t, x :
              u = w /\ n = w.stake - amount /\ t = st /\ x = w.exitRequestedAt
        OBVIOUS
      <4>2. u \in Verifier /\ n \in Nat /\ t \in Statuses /\ x \in Nat
        BY <3>1, <3>2, <4>1
      <4>3. v = With(u, n, t, x)
        BY <4>1
      <4> HIDE DEF v
      <4> QED BY <4>1, <4>2, <4>3, RecordWith
    <3> HIDE DEF v
    <3> QED BY <3>1, <3>3
  <2>3. wallet' \in [Accounts -> Nat]
    BY <1>1, <1>2, <1>4, <1>8 DEF withdrawStake
  <2>4. registryEth' = registryEth + v.stake - verifiers[a].stake
    <3>1. registryEth \in Int
      BY <1>1, <1>4, StakesMove DEF ReceiptInv
    <3> QED BY <1>2, <1>4, <1>8, <2>2, <3>1 DEF withdrawStake
  <2>5. verifiers' = [verifiers EXCEPT ![a] = v] /\ UNCHANGED <<settings, now>>
    <3>1. w \in Verifier
      BY <1>4
    <3>2. Withdrawn(w, amount) = v
      <4>1. Withdrawn(w, amount) = [w EXCEPT !.stake = @ - amount, !.status = st]
        BY <3>1 DEF Withdrawn, Verifier
      <4> HIDE DEF w, st
      <4> QED BY <3>1, <4>1 DEF With, Verifier
    <3>3. verifiers' = [verifiers EXCEPT ![a] = Withdrawn(w, amount)] /\ UNCHANGED <<settings, now>>
      BY <1>8 DEF withdrawStake
    <3> HIDE DEF v, w
    <3> QED BY <3>2, <3>3
  <2> HIDE DEF v, st, w
  <2>6. \A id \in Ids : receipts[id].verifier = a => Spaced(v, receipts[id])
    BY <1>1, <1>3, <1>4, <2>1, <2>2 DEF Spaced
  <2>7. SoundVerifier(v)
    BY <2>2 DEF SoundVerifier
  <2> QED BY <1>4, <2>2, <2>3, <2>4, <2>5, <2>6, <2>7, VerifierChanges
<1>9. ASSUME NEW a \in Verifiers, setActive(a, TRUE)
      PROVE  ReceiptInv'
  <2> DEFINE v == [verifiers[a] EXCEPT !.status = "ACTIVE", !.exitRequestedAt = 0]
  <2>1. /\ v \in Verifier /\ v.stake = verifiers[a].stake /\ v.status = "ACTIVE"
        /\ v.lastActiveAt = verifiers[a].lastActiveAt
        /\ v.jobsCompleted = verifiers[a].jobsCompleted
        /\ v.disputesWon = verifiers[a].disputesWon /\ v.disputesLost = verifiers[a].disputesLost
    BY <1>4 DEF Verifier, Statuses
  <2>2. /\ verifiers' = [verifiers EXCEPT ![a] = v] /\ verifiers[a].stake >= minStake
        /\ UNCHANGED <<settings, registryEth, wallet, now>>
    BY <1>9 DEF setActive
  <2> HIDE DEF v
  <2>3. \A id \in Ids : receipts[id].verifier = a => Spaced(v, receipts[id])
    BY <1>3, <2>1 DEF Spaced, Gap
  <2>4. registryEth' = registryEth + v.stake - verifiers[a].stake
    <3>1. registryEth \in Int
      BY <1>1, <1>4, StakesMove DEF ReceiptInv
    <3> QED BY <1>4, <2>1, <2>2, <3>1
  <2>5. SoundVerifier(v) /\ wallet' \in [Accounts -> Nat]
    BY <1>1, <2>1, <2>2 DEF SoundVerifier
  <2> QED BY <1>4, <2>1, <2>2, <2>3, <2>4, <2>5, VerifierChanges
<1>10. ASSUME NEW a \in Verifiers, requestExit(a) \/ setActive(a, FALSE)
       PROVE  ReceiptInv'
  BY <1>7, <1>10 DEF requestExit, setActive
<1> QED
  BY <1>5, <1>6, <1>8, <1>9, <1>10 DEF VerifierCall

\* A slash takes at most the stake.
LEMMA SlashBounds ==
  ASSUME NEW v \in Verifier, NEW bps \in Nat, bps <= 10000
  PROVE  SlashedAmount(v, bps) \in Nat /\ SlashedAmount(v, bps) <= v.stake
<1>1. v.stake \in Nat
  BY DEF Verifier
<1>2. bps \in 0..10000 /\ 10000 \in Nat \ {0}
  OBVIOUS
<1>3. (v.stake * bps) \div 10000 \in 0..v.stake
  BY <1>1, <1>2, ShareWithin
<1> QED
  BY <1>1, <1>3 DEF SlashedAmount

\* What a slash leaves of a record.
LEMMA SlashLeaves ==
  ASSUME minStake \in Nat, NEW w, w \in Verifier, SoundVerifier(w), NEW bps \in Nat, bps <= 10000,
         NEW v, v = AfterSlash(w, bps)
  PROVE  /\ v \in Verifier /\ SoundVerifier(v)
         /\ v.stake = w.stake - SlashedAmount(w, bps)
         /\ v.status = w.status \/ v.status = "SLASHED"
         /\ v.exitRequestedAt = w.exitRequestedAt /\ v.lastActiveAt = w.lastActiveAt
         /\ v.jobsCompleted = w.jobsCompleted
         /\ v.disputesWon = w.disputesWon /\ v.disputesLost = w.disputesLost
<1> DEFINE s == SlashedAmount(w, bps)
           st == IF w.stake - s < minStake THEN "SLASHED" ELSE w.status
<1>1. /\ w.stake \in Nat /\ s \in Nat /\ s <= w.stake /\ w.status \in Statuses
      /\ w.exitRequestedAt \in Nat
  BY SlashBounds DEF Verifier
<1>2. st \in Statuses
  BY <1>1 DEF Statuses
<1>3. v = With(w, w.stake - s, st, w.exitRequestedAt)
  <2>1. v = [w EXCEPT !.stake = w.stake - s, !.status = st]
    BY DEF AfterSlash, Verifier
  <2> HIDE DEF s, st
  <2>3. PICK n, t : n = w.stake - s /\ t = st
    OBVIOUS
  <2>4. v = [w EXCEPT !.stake = n, !.status = t]
    BY <2>1, <2>3
  <2>5. v = With(w, n, t, w.exitRequestedAt)
    <3>1. v = Without(w, n, t)
      BY <2>4 DEF Without
    <3> QED BY <3>1, RecordWithoutExit
  <2> QED BY <2>3, <2>5
<1>4. /\ v \in Verifier /\ v.stake = w.stake - s /\ v.status = st
      /\ v.exitRequestedAt = w.exitRequestedAt /\ v.lastActiveAt = w.lastActiveAt
      /\ v.jobsCompleted = w.jobsCompleted
      /\ v.disputesWon = w.disputesWon /\ v.disputesLost = w.disputesLost
  <2> HIDE DEF s, st
  <2>1. PICK n, t, x : n = w.stake - s /\ t = st /\ x = w.exitRequestedAt
    OBVIOUS
  <2>2. n \in Nat /\ t \in Statuses /\ x \in Nat
    BY <1>1, <1>2, <2>1
  <2>3. v = With(w, n, t, x)
    BY <1>3, <2>1
  <2> QED BY <2>1, <2>2, <2>3, RecordWith
<1> HIDE DEF s
<1>5. SoundVerifier(v)
  BY <1>1, <1>4 DEF SoundVerifier
<1> QED
  BY <1>4, <1>5 DEF s

\* A slash by an account the owner authorised.
LEMMA SlashKeeps ==
  ASSUME ReceiptInv, UNCHANGED managerVars, NEW caller \in Callers, NEW recipient \in Callers,
         NEW a \in Verifiers, NEW bps \in SlashBps, slashVerifier(caller, a, bps, recipient)
  PROVE  ReceiptInv'
<1> DEFINE v == AfterSlash(verifiers[a], bps)
<1>1. a \in Accounts /\ recipient \in Accounts /\ bps \in 0..10000
  BY RegistryConstantsTyped
<1>0. bps \in Nat /\ bps <= 10000
  BY <1>1
<1>2. /\ verifiers \in [Accounts -> Verifier] /\ wallet \in [Accounts -> Nat]
      /\ verifiers[a] \in Verifier /\ verifiers[a].stake \in Nat
      /\ SoundVerifier(verifiers[a]) /\ minStake \in Nat
  <2>1. /\ verifiers \in [Accounts -> Verifier] /\ wallet \in [Accounts -> Nat]
        /\ minStake \in Nat
    BY DEF ReceiptInv, RecordsTyped, SettingsTyped
  <2>2. SoundVerifier(verifiers[a]) /\ verifiers[a] \in Verifier
    BY <1>1, <2>1 DEF ReceiptInv
  <2>3. verifiers[a].stake \in Nat
    BY <2>2 DEF Verifier
  <2> QED BY <2>1, <2>2, <2>3
<1>3. /\ v \in Verifier /\ v.stake = verifiers[a].stake - SlashedAmount(verifiers[a], bps)
      /\ v.status = verifiers[a].status \/ v.status = "SLASHED"
      /\ SoundVerifier(v)
      /\ v.exitRequestedAt = verifiers[a].exitRequestedAt
      /\ v.lastActiveAt = verifiers[a].lastActiveAt
      /\ v.jobsCompleted = verifiers[a].jobsCompleted
      /\ v.disputesWon = verifiers[a].disputesWon /\ v.disputesLost = verifiers[a].disputesLost
  BY <1>0, <1>2, SlashLeaves
<1>4. /\ SlashedAmount(verifiers[a], bps) \in Nat
      /\ SlashedAmount(verifiers[a], bps) <= verifiers[a].stake
  BY <1>0, <1>2, SlashBounds
<1>5. wallet' \in [Accounts -> Nat]
  <2>1. wallet' = [wallet EXCEPT ![recipient] = @ + SlashedAmount(verifiers[a], bps)]
    BY DEF slashVerifier
  <2> QED BY <1>1, <1>2, <1>4, <2>1
<1>6. /\ verifiers' = [verifiers EXCEPT ![a] = v] /\ UNCHANGED <<settings, now>>
      /\ registryEth' = registryEth - SlashedAmount(verifiers[a], bps)
  BY DEF slashVerifier
<1>7. registryEth' = registryEth + v.stake - verifiers[a].stake
  <2>1. registryEth \in Int
    BY <1>1, <1>2, StakesMove DEF ReceiptInv
  <2> HIDE DEF v
  <2> QED BY <1>2, <1>3, <1>4, <1>6, <2>1
<1> HIDE DEF v
<1>8. \A id \in Ids : receipts[id].verifier = a => Spaced(v, receipts[id])
  <2>1. \A id \in Ids : Spaced(verifiers[receipts[id].verifier], receipts[id])
    BY DEF ReceiptInv, VerifierOf
  <2> QED BY <1>3, <2>1 DEF Spaced
<1>9. PICK u : u = v
  OBVIOUS
<1>10. /\ u \in Verifier /\ SoundVerifier(u)
       /\ u.jobsCompleted = verifiers[a].jobsCompleted
       /\ u.disputesWon = verifiers[a].disputesWon /\ u.disputesLost = verifiers[a].disputesLost
       /\ verifiers' = [verifiers EXCEPT ![a] = u]
       /\ registryEth' = registryEth + u.stake - verifiers[a].stake
  BY <1>3, <1>6, <1>7, <1>9
<1>11. \A id \in Ids : receipts[id].verifier = a => Spaced(u, receipts[id])
  BY <1>8, <1>9
<1>12. UNCHANGED <<managerVars, settings, now>> /\ a \in Accounts
  BY <1>1, <1>6
<1> HIDE DEF v
<1> QED
  BY <1>5, <1>10, <1>11, <1>12, VerifierChanges

\* The owner sets a parameter of the registry.
LEMMA OwnerCallKeeps == ReceiptInv /\ RegistryOwnerCall /\ UNCHANGED managerVars => ReceiptInv'
<1> SUFFICES ASSUME ReceiptInv, RegistryOwnerCall, UNCHANGED managerVars PROVE ReceiptInv'
  OBVIOUS
<1>1. /\ (\A amount \in MinStakes : amount \in Nat) /\ (\A delay \in Delays : delay \in Nat)
      /\ (\A a \in Callers : a \in Accounts)
  BY RegistryConstantsTyped
<1>0. ReputationConfigs \subseteq [reward : Nat, penalty : Nat, win : Nat, loss : Nat]
  BY RegistryShares
<1>2. SettingsTyped
  BY DEF ReceiptInv
<1>3. ASSUME NEW caller \in Callers, NEW allowed \in BOOLEAN, setAuthorizedCaller(caller, allowed)
      PROVE  ReceiptInv'
  <2>1. SettingsTyped'
    BY <1>1, <1>2, <1>3 DEF setAuthorizedCaller, SettingsTyped, managerVars
  <2> QED BY <1>2, <1>3, <2>1, SettingsChange DEF setAuthorizedCaller, managerVars, SettingsTyped
<1>4. ASSUME NEW amount \in MinStakes, setMinStake(amount)
      PROVE  ReceiptInv'
  <2>1. SettingsTyped'
    BY <1>1, <1>2, <1>4 DEF setMinStake, SettingsTyped, managerVars
  <2> QED BY <1>2, <1>4, <2>1, SettingsChange DEF setMinStake, managerVars, SettingsTyped
<1>5. ASSUME NEW delay \in Delays, setWithdrawDelay(delay)
      PROVE  ReceiptInv'
  <2>1. SettingsTyped'
    BY <1>1, <1>2, <1>5 DEF setWithdrawDelay, SettingsTyped, managerVars
  <2> QED BY <1>2, <1>5, <2>1, SettingsChange DEF setWithdrawDelay, managerVars, SettingsTyped
<1>6. ASSUME NEW delay \in Delays, setMinReceiptInterval(delay)
      PROVE  ReceiptInv'
  <2>1. SettingsTyped'
    BY <1>1, <1>2, <1>6 DEF setMinReceiptInterval, SettingsTyped, managerVars
  <2> QED BY <1>2, <1>6, <2>1, SettingsChange DEF setMinReceiptInterval, managerVars, SettingsTyped
<1>7. ASSUME NEW rc \in ReputationConfigs, setReputationConfig(rc)
      PROVE  ReceiptInv'
  <2>1. SettingsTyped'
    BY <1>0, <1>2, <1>7 DEF setReputationConfig, SettingsTyped, managerVars
  <2> QED BY <1>2, <1>7, <2>1, SettingsChange DEF setReputationConfig, managerVars, SettingsTyped
<1> QED
  BY <1>3, <1>4, <1>5, <1>6, <1>7 DEF RegistryOwnerCall

\* The owner of the manager sets its parameters, or time passes.
LEMMA ManagerSettingsKeep ==
  ReceiptInv /\ (\/ \E newEconomics \in EconomicConfigs : setEconomicConfig(newEconomics)
                 \/ \E newWindows \in Windows : setWindows(newWindows)
                 \/ Tick) => ReceiptInv'
<1> SUFFICES ASSUME ReceiptInv,
                    \/ \E newEconomics \in EconomicConfigs : setEconomicConfig(newEconomics)
                    \/ \E newWindows \in Windows : setWindows(newWindows)
                    \/ Tick
             PROVE  ReceiptInv'
  OBVIOUS
<1>1. SettingsTyped
  BY DEF ReceiptInv
<1>2. Windows \subseteq [dispute : Nat, response : Nat]
  BY ReceiptWindows
<1>3. ASSUME NEW newEconomics \in EconomicConfigs, setEconomicConfig(newEconomics)
      PROVE  ReceiptInv'
  <2>1. SettingsTyped'
    BY <1>1, <1>3 DEF setEconomicConfig, SettingsTyped, registryVars, settings
  <2> QED BY <1>1, <1>3, <2>1, SettingsChange
        DEF setEconomicConfig, registryVars, settings, SettingsTyped
<1>4. ASSUME NEW newWindows \in Windows, setWindows(newWindows)
      PROVE  ReceiptInv'
  <2>1. SettingsTyped'
    BY <1>1, <1>2, <1>4 DEF setWindows, SettingsTyped, registryVars, settings
  <2> QED BY <1>1, <1>4, <2>1, SettingsChange
        DEF setWindows, registryVars, settings, SettingsTyped
<1>5. ASSUME Tick PROVE ReceiptInv'
  <2>1. SettingsTyped'
    BY <1>1, <1>5 DEF Tick, SettingsTyped, registryVars, settings, managerVars
  <2> QED BY <1>1, <1>5, <2>1, SettingsChange
        DEF Tick, registryVars, settings, managerVars, SettingsTyped
<1> QED
  BY <1>3, <1>4, <1>5

-----------------------------------------------------------------------------
(* Receipts and disputes, call by call.                                    *)

\* A new receipt: the submitter is active and its interval has passed.
LEMMA SubmitKeeps ==
  ASSUME ReceiptInv, NEW a \in Verifiers, submitReceipt(a)
  PROVE  ReceiptInv'
<1>0. PICK n : n = Len(receipts) + 1
  OBVIOUS
<1> DEFINE r == [verifier |-> a, submittedAt |-> now, disputeDeadline |-> now + windows.dispute,
                 finalized |-> FALSE, disputed |-> FALSE]
           v == recordActivity(verifiers[a])
<1>1. /\ RecordsTyped /\ receipts \in Seq(Receipt) /\ disputes \in Seq(Dispute)
      /\ Len(disputes) = Len(receipts) /\ verifiers \in [Accounts -> Verifier]
      /\ minStake \in Nat /\ withdrawDelay \in Nat /\ minReceiptInterval \in Nat /\ now \in Nat
      /\ windows.dispute \in Nat /\ wallet \in [Accounts -> Nat]
  BY DEF ReceiptInv, RecordsTyped, SettingsTyped
<1>2. a \in Accounts
  BY RegistryConstantsTyped
<1>3. /\ Len(receipts) \in Nat /\ Ids = 1..Len(receipts) /\ DOMAIN disputes = Ids /\ IsFiniteSet(Ids)
      /\ \A id \in Ids : receipts[id] \in Receipt /\ disputes[id] \in Dispute
  BY <1>1, IdsAreNumbers
<1>4. r \in Receipt /\ NoDispute \in Dispute /\ Held(NoDispute) = 0
  BY <1>1, <1>2 DEF Receipt, NoDispute, Dispute, Held
<1>5. /\ receipts' = Append(receipts, r) /\ disputes' = Append(disputes, NoDispute)
      /\ verifiers' = [verifiers EXCEPT ![a] = v]
      /\ verifiers[a].status = "ACTIVE"
      /\ now >= verifiers[a].lastActiveAt + minReceiptInterval
      /\ UNCHANGED <<economics, windows, managerEth, settings, registryEth, wallet, now>>
  BY DEF submitReceipt, canSubmitReceipt
<1>6. /\ r.verifier = a /\ r.submittedAt = now /\ ~r.finalized /\ ~r.disputed
      /\ NoDispute.status = "NONE"
  BY DEF NoDispute
<1> HIDE DEF r
<1>7. /\ receipts' \in Seq(Receipt) /\ Len(receipts') = n /\ receipts'[n] = r
      /\ \A id \in Ids : receipts'[id] = receipts[id]
  BY <1>0, <1>1, <1>3, <1>4, <1>5, AppendProperties
<1>8. /\ disputes' \in Seq(Dispute) /\ Len(disputes') = n /\ disputes'[n] = NoDispute
      /\ \A id \in Ids : disputes'[id] = disputes[id]
  BY <1>0, <1>1, <1>3, <1>4, <1>5, AppendProperties
<1>9. Ids' = Ids \union {n} /\ n \notin Ids /\ DOMAIN disputes' = Ids \union {n}
  <2>1. DOMAIN receipts' = 1..n /\ DOMAIN disputes' = 1..n
    BY <1>7, <1>8, LenProperties
  <2> QED BY <1>0, <1>3, <2>1 DEF Ids
<1>10. /\ verifiers[a] \in Verifier /\ v \in Verifier /\ v.stake = verifiers[a].stake
       /\ v.status = "ACTIVE" /\ v.lastActiveAt = now
       /\ v.jobsCompleted = verifiers[a].jobsCompleted
       /\ v.disputesWon = verifiers[a].disputesWon /\ v.disputesLost = verifiers[a].disputesLost
       /\ verifiers[a].lastActiveAt \in Nat
  BY <1>1, <1>2, <1>5 DEF recordActivity, Verifier
<1> HIDE DEF v
<1>11. \A b \in Accounts : verifiers'[b] = IF b = a THEN v ELSE verifiers[b]
  BY <1>1, <1>5
<1>12. RecordsTyped' /\ SettingsTyped'
  <2>1. RecordsTyped'
    BY <1>1, <1>2, <1>5, <1>7, <1>8, <1>10 DEF RecordsTyped
  <2> QED BY <1>5, <2>1 DEF ReceiptInv, SettingsTyped, settings
<1>13. ASSUME NEW b \in Accounts
       PROVE  SoundVerifier(verifiers[b])' /\ Counted(verifiers[b], receipts, disputes, b)'
  <2>1. /\ SoundVerifier(verifiers[b]) /\ Counted(verifiers[b], receipts, disputes, b)
        /\ SoundVerifier(verifiers[a])
    BY <1>2 DEF ReceiptInv
  <2>2. FinalOf(receipts', b) = FinalOf(receipts, b)
    BY <1>6, <1>7, <1>9 DEF FinalOf, Ids
  <2>3. ResolvedOf(receipts', disputes', b) = ResolvedOf(receipts, disputes, b)
    BY <1>6, <1>7, <1>8, <1>9 DEF ResolvedOf, Ids
  <2>4. SoundVerifier(verifiers[b])'
    BY <1>5, <1>10, <1>11, <2>1 DEF SoundVerifier, settings
  <2>5. /\ verifiers'[b].jobsCompleted = verifiers[b].jobsCompleted
        /\ verifiers'[b].disputesWon = verifiers[b].disputesWon
        /\ verifiers'[b].disputesLost = verifiers[b].disputesLost
    BY <1>10, <1>11
  <2> QED BY <2>1, <2>2, <2>3, <2>4, <2>5 DEF Counted
<1>14. \A id \in Ids : /\ receipts[id].verifier \in Accounts /\ receipts[id].submittedAt \in Nat
                       /\ SoundReceipt(receipts[id], disputes[id])
                       /\ Spaced(verifiers[receipts[id].verifier], receipts[id])
  BY <1>3 DEF ReceiptInv, VerifierOf, Receipt
<1>15. ASSUME NEW id \in Ids
       PROVE  SoundReceipt(receipts[id], disputes[id])' /\ Spaced(VerifierOf(id), receipts[id])'
  <2>1. SoundReceipt(receipts[id], disputes[id])'
    BY <1>5, <1>7, <1>8, <1>14 DEF SoundReceipt
  <2>2. VerifierOf(id)' = IF receipts[id].verifier = a THEN v ELSE verifiers[receipts[id].verifier]
    BY <1>7, <1>11, <1>14 DEF VerifierOf
  <2>3. CASE receipts[id].verifier = a
    <3>1. Spaced(verifiers[a], receipts[id]) /\ receipts[id].submittedAt \in Nat
      BY <1>14, <2>3
    <3>2. VerifierOf(id)' = v /\ receipts'[id] = receipts[id]
      BY <1>7, <2>2, <2>3
    <3>3. "delays" \notin changed =>
             now + minReceiptInterval >= receipts[id].submittedAt + Gap
      <4>1. "delays" \notin changed =>
              verifiers[a].lastActiveAt + minReceiptInterval >= receipts[id].submittedAt + Gap
        BY <3>1 DEF Spaced
      <4>2. /\ verifiers[a].lastActiveAt \in Nat /\ minReceiptInterval \in Nat /\ now \in Nat
            /\ Gap \in Nat /\ receipts[id].submittedAt \in Nat
        BY <1>1, <1>10, <3>1 DEF Gap
      <4>3. now >= verifiers[a].lastActiveAt + minReceiptInterval
        BY <1>5
      <4> QED BY <4>1, <4>2, <4>3
    <3>4. UNCHANGED <<minReceiptInterval, withdrawDelay, changed, now>> /\ Gap' = Gap
      BY <1>5 DEF settings, Gap
    <3>5. v.status = "ACTIVE" /\ v.lastActiveAt = now
      BY <1>10
    <3>6. Spaced(VerifierOf(id), receipts[id])'
      BY <3>2, <3>3, <3>4, <3>5 DEF Spaced
    <3> QED BY <2>1, <3>6
  <2>4. CASE receipts[id].verifier # a
    <3>1. Spaced(verifiers[receipts[id].verifier], receipts[id])
      BY <1>14
    <3>2. VerifierOf(id)' = verifiers[receipts[id].verifier] /\ receipts'[id] = receipts[id]
      BY <1>7, <2>2, <2>4
    <3> QED BY <1>5, <2>1, <3>1, <3>2 DEF Spaced, Gap, settings
  <2> QED BY <2>3, <2>4
<1>16. SoundReceipt(receipts[n], disputes[n])' /\ Spaced(VerifierOf(n), receipts[n])'
  <2>1. VerifierOf(n)' = v
    BY <1>2, <1>6, <1>7, <1>11 DEF VerifierOf
  <2>2. SoundReceipt(receipts[n], disputes[n])'
    BY <1>1, <1>5, <1>6, <1>7, <1>8 DEF SoundReceipt
  <2>3. Spaced(VerifierOf(n), receipts[n])'
    BY <1>1, <1>5, <1>6, <1>7, <1>10, <2>1 DEF Spaced, Gap, settings
  <2> QED BY <2>2, <2>3
<1>17. registryEth' = SumFunction(Stakes(verifiers'))
  <2>1. /\ SumFunction(Stakes(verifiers)) \in Nat
        /\ SumFunction(Stakes(verifiers')) =
             SumFunction(Stakes(verifiers)) + v.stake - verifiers[a].stake
    BY <1>1, <1>2, <1>5, <1>10, StakesMove
  <2>2. v.stake \in Nat
    BY <1>10 DEF Verifier
  <2> QED BY <1>5, <1>10, <2>1, <2>2 DEF ReceiptInv
<1>18. managerEth' = SumFunction(HeldIn(disputes'))
  <2> DEFINE f == HeldIn(disputes)
             h == HeldIn(disputes')
  <2>1. f \in [Ids -> Int] /\ h \in [Ids \union {n} -> Int]
    <3>1. \A id \in Ids : Held(disputes[id]) \in Int
      BY <1>3, HeldTyped
    <3>2. \A id \in Ids \union {n} : Held(disputes'[id]) \in Int
      BY <1>4, <1>8, <3>1
    <3> QED BY <1>3, <1>9, <3>1, <3>2 DEF HeldIn
  <2>2. h[n] = 0 /\ \A id \in Ids : f[id] = h[id]
    BY <1>3, <1>4, <1>8, <1>9 DEF HeldIn
  <2>3. managerEth = SumFunction(f) /\ SumFunction(f) \in Int
    <3>1. SumFunction(f) \in Int
      <4> HIDE DEF f
      <4> QED BY <1>3, <2>1, SumTyped
    <3> QED BY <3>1 DEF ReceiptInv
  <2> HIDE DEF f, h
  <2>4. SumFunction(h) = SumFunction(f) + h[n]
    <3>1. PICK S, g, k : S = Ids /\ g = f /\ k = h
      OBVIOUS
    <3>2. /\ IsFiniteSet(S) /\ n \notin S /\ g \in [S -> Int] /\ k \in [S \union {n} -> Int]
          /\ \A x \in S : g[x] = k[x]
      BY <1>3, <1>9, <2>1, <2>2, <3>1
    <3>3. SumFunction(k) = SumFunction(g) + k[n]
      BY <3>2, SumGrown
    <3> QED BY <3>1, <3>3
  <2>5. SumFunction(h) = SumFunction(f)
    BY <2>2, <2>3, <2>4
  <2> QED BY <1>5, <2>3, <2>5 DEF h
<1>19. ReceiptsAreSpaced'
  <2> SUFFICES ASSUME NEW i \in Ids', NEW j \in Ids', i < j,
                      receipts'[i].verifier = receipts'[j].verifier, "delays" \notin changed
               PROVE  receipts'[j].submittedAt >= receipts'[i].submittedAt + Gap
    BY <1>5 DEF ReceiptsAreSpaced, Gap, settings
  <2>1. i \in Ids
    BY <1>0, <1>3, <1>9
  <2>2. CASE j \in Ids
    BY <1>7, <2>1, <2>2 DEF ReceiptInv, ReceiptsAreSpaced, Gap
  <2>3. CASE j = n
    <3>1. receipts[i].verifier = a /\ receipts'[i] = receipts[i]
      BY <1>6, <1>7, <2>1, <2>3
    <3>2. /\ verifiers[a].lastActiveAt + minReceiptInterval >= receipts[i].submittedAt + Gap
          /\ receipts[i].submittedAt \in Nat /\ Gap \in Nat
      BY <1>1, <1>14, <2>1, <3>1 DEF Spaced, Gap
    <3>3. receipts'[j].submittedAt = now
      BY <1>6, <1>7, <2>3
    <3>4. verifiers[a].lastActiveAt \in Nat /\ minReceiptInterval \in Nat /\ now \in Nat
      BY <1>1, <1>10
    <3>5. now >= verifiers[a].lastActiveAt + minReceiptInterval
      BY <1>5
    <3> QED BY <3>1, <3>2, <3>3, <3>4, <3>5
  <2> QED BY <1>9, <2>2, <2>3
<1>20. \A id \in Ids' : /\ SoundReceipt(receipts[id], disputes[id])'
                        /\ Spaced(VerifierOf(id), receipts[id])'
  BY <1>9, <1>15, <1>16
<1> QED
  BY <1>12, <1>13, <1>17, <1>18, <1>19, <1>20 DEF ReceiptInv

\* The counters of a receipt's or a dispute's result.
LEMMA ResultsCount ==
  ASSUME reputationConfig \in [reward : Nat, penalty : Nat, win : Nat, loss : Nat],
         NEW w, w \in Verifier, NEW won
  PROVE  LET x == recordReceiptResult(w, won)
             y == recordDisputeResult(w, won)
         IN  /\ x \in Verifier /\ y \in Verifier
             /\ x.stake = w.stake /\ x.status = w.status /\ x.lastActiveAt = w.lastActiveAt
             /\ x.exitRequestedAt = w.exitRequestedAt
             /\ x.jobsCompleted = w.jobsCompleted + 1
             /\ x.disputesWon = w.disputesWon /\ x.disputesLost = w.disputesLost
             /\ y.stake = w.stake /\ y.status = w.status /\ y.lastActiveAt = w.lastActiveAt
             /\ y.exitRequestedAt = w.exitRequestedAt /\ y.jobsCompleted = w.jobsCompleted
             /\ y.disputesWon + y.disputesLost = w.disputesWon + w.disputesLost + 1
<1> DEFINE rp == reputationConfig
           s == w.reputationScore
<1>1. /\ s \in Nat /\ rp.reward \in Nat /\ rp.penalty \in Nat /\ rp.win \in Nat /\ rp.loss \in Nat
      /\ w.jobsCompleted \in Nat /\ w.disputesWon \in Nat /\ w.disputesLost \in Nat
  BY DEF Verifier
<1>2. Lowered(s, rp.penalty) \in Nat /\ Lowered(s, rp.loss) \in Nat
  BY <1>1 DEF Lowered
<1>3. PICK k, l, m, j, dw, dl :
        /\ j = w.jobsCompleted + 1 /\ dw = w.disputesWon + 1 /\ dl = w.disputesLost + 1
        /\ k = IF won THEN s + rp.reward ELSE Lowered(s, rp.penalty)
        /\ l = s + rp.win /\ m = Lowered(s, rp.loss)
  OBVIOUS
<1>a. j \in Nat /\ dw \in Nat /\ dl \in Nat
  BY <1>1, <1>3
<1>b. k \in Nat /\ l \in Nat /\ m \in Nat
  BY <1>1, <1>2, <1>3
<1>c. dw + w.disputesLost = w.disputesWon + w.disputesLost + 1
  BY <1>1, <1>3
<1>d. w.disputesWon + dl = w.disputesWon + w.disputesLost + 1
  BY <1>1, <1>3
<1>4. recordReceiptResult(w, won) =
        [w EXCEPT !.jobsCompleted = j, !.reputationScore = k]
  BY <1>3 DEF recordReceiptResult, Verifier
<1>5. won => recordDisputeResult(w, won) =
               [w EXCEPT !.disputesWon = dw, !.reputationScore = l]
  BY <1>3 DEF recordDisputeResult, Verifier
<1>6. ~won => recordDisputeResult(w, won) =
                [w EXCEPT !.disputesLost = dl, !.reputationScore = m]
  BY <1>3 DEF recordDisputeResult, Verifier
<1> HIDE DEF rp, s
<1>7. /\ recordReceiptResult(w, won) \in Verifier
      /\ recordDisputeResult(w, won) \in Verifier
  <2>1. recordReceiptResult(w, won) \in Verifier
    BY <1>4, <1>a, <1>b DEF Verifier
  <2>2. CASE won
    BY <1>5, <1>a, <1>b, <2>1, <2>2 DEF Verifier
  <2>3. CASE ~won
    BY <1>6, <1>a, <1>b, <2>1, <2>3 DEF Verifier
  <2> QED BY <2>2, <2>3
<1>8. LET x == recordReceiptResult(w, won)
      IN  /\ x.stake = w.stake /\ x.status = w.status /\ x.lastActiveAt = w.lastActiveAt
          /\ x.exitRequestedAt = w.exitRequestedAt
          /\ x.jobsCompleted = w.jobsCompleted + 1
          /\ x.disputesWon = w.disputesWon /\ x.disputesLost = w.disputesLost
  BY <1>3, <1>4 DEF Verifier
<1>9. LET y == recordDisputeResult(w, won)
      IN  /\ y.stake = w.stake /\ y.status = w.status /\ y.lastActiveAt = w.lastActiveAt
          /\ y.exitRequestedAt = w.exitRequestedAt /\ y.jobsCompleted = w.jobsCompleted
          /\ y.disputesWon + y.disputesLost = w.disputesWon + w.disputesLost + 1
  <2> DEFINE y == recordDisputeResult(w, won)
  <2>1. /\ y.stake = w.stake /\ y.status = w.status /\ y.lastActiveAt = w.lastActiveAt
        /\ y.exitRequestedAt = w.exitRequestedAt /\ y.jobsCompleted = w.jobsCompleted
    BY <1>5, <1>6 DEF Verifier
  <2>2. CASE won
    <3>1. y.disputesWon = dw /\ y.disputesLost = w.disputesLost
      BY <1>5, <2>2 DEF Verifier
    <3> HIDE DEF y
    <3>2. y.disputesWon + y.disputesLost = w.disputesWon + w.disputesLost + 1
      BY <1>c, <3>1
    <3> QED BY <2>1, <3>2 DEF y
  <2>3. CASE ~won
    <3>1. y.disputesWon = w.disputesWon /\ y.disputesLost = dl
      BY <1>6, <2>3 DEF Verifier
    <3> HIDE DEF y
    <3>2. y.disputesWon + y.disputesLost = w.disputesWon + w.disputesLost + 1
      BY <1>d, <3>1
    <3> QED BY <2>1, <3>2 DEF y
  <2> QED BY <2>2, <2>3
<1> QED
  BY <1>7, <1>8, <1>9

\* What the invariant says of one receipt.
LEMMA ReceiptFacts ==
  ASSUME ReceiptInv, NEW id \in Ids
  PROVE  /\ receipts[id] \in Receipt /\ disputes[id] \in Dispute
         /\ receipts[id].verifier \in Accounts
         /\ receipts[id].disputeDeadline \in Nat /\ receipts[id].submittedAt \in Nat
         /\ receipts[id].finalized \in BOOLEAN /\ receipts[id].disputed \in BOOLEAN
         /\ disputes[id].challengerBond \in Nat /\ disputes[id].verifierBond \in Nat
         /\ SoundReceipt(receipts[id], disputes[id])
         /\ VerifierOf(id) \in Verifier /\ SoundVerifier(VerifierOf(id))
         /\ verifiers[receipts[id].verifier] = VerifierOf(id)
         /\ verifiers \in [Accounts -> Verifier] /\ wallet \in [Accounts -> Nat]
         /\ now \in Nat /\ minStake \in Nat /\ windows.response \in Nat
         /\ managerEth \in Nat
<1>1. RecordsTyped /\ disputes \in Seq(Dispute)
  BY DEF ReceiptInv, RecordsTyped
<1>2. receipts[id] \in Receipt /\ disputes[id] \in Dispute /\ id \in DOMAIN disputes
  BY <1>1, IdsAreNumbers
<1>3. /\ receipts[id].verifier \in Accounts
      /\ receipts[id].disputeDeadline \in Nat /\ receipts[id].submittedAt \in Nat
      /\ receipts[id].finalized \in BOOLEAN /\ receipts[id].disputed \in BOOLEAN
  BY <1>2 DEF Receipt
<1>4. disputes[id].challengerBond \in Nat /\ disputes[id].verifierBond \in Nat
  BY <1>2 DEF Dispute
<1>5. /\ verifiers \in [Accounts -> Verifier] /\ wallet \in [Accounts -> Nat]
      /\ now \in Nat /\ minStake \in Nat /\ windows.response \in Nat
  BY DEF ReceiptInv, RecordsTyped, SettingsTyped
<1>6. VerifierOf(id) = verifiers[receipts[id].verifier]
  BY DEF VerifierOf
<1>7. VerifierOf(id) \in Verifier /\ SoundVerifier(VerifierOf(id))
  BY <1>3, <1>5, <1>6 DEF ReceiptInv
<1>8. SoundReceipt(receipts[id], disputes[id])
  BY DEF ReceiptInv
<1>9. managerEth \in Nat
  <2>1. SumFunction(HeldIn(disputes)) \in Nat
    BY <1>1, <1>2, HeldMoves
  <2> QED BY <2>1 DEF ReceiptInv
<1> QED
  BY <1>2, <1>3, <1>4, <1>5, <1>6, <1>7, <1>8, <1>9

\* A challenge comes before the receipt is final, and only once.
LEMMA ChallengeKeeps ==
  ASSUME ReceiptInv, NEW id \in Ids, NEW a \in Accounts, NEW bond \in Bonds,
         challengeReceipt(a, id, bond)
  PROVE  ReceiptInv'
<1>1. bond \in Nat
  <2>1. Bonds \subseteq Nat
    BY ReceiptBounds
  <2> QED BY <2>1
<1>2. PICK r, d, v :
        /\ r = [receipts[id] EXCEPT !.disputed = TRUE]
        /\ d = [challenger |-> a, challengerBond |-> bond, verifierBond |-> 0,
                responseDeadline |-> now + windows.response, status |-> "OPEN"]
        /\ v = VerifierOf(id)
  OBVIOUS
<1>3. /\ receipts[id] \in Receipt /\ SoundReceipt(receipts[id], disputes[id])
      /\ receipts[id].disputeDeadline \in Nat /\ receipts[id].submittedAt \in Nat
      /\ v \in Verifier /\ SoundVerifier(v) /\ verifiers[receipts[id].verifier] = v
      /\ verifiers \in [Accounts -> Verifier] /\ wallet \in [Accounts -> Nat]
      /\ now \in Nat /\ windows.response \in Nat /\ managerEth \in Nat
      /\ v.jobsCompleted \in Nat /\ v.disputesWon \in Nat /\ v.disputesLost \in Nat
  BY <1>2, ReceiptFacts DEF Verifier
<1>4. ~receipts[id].disputed /\ now <= receipts[id].disputeDeadline
  BY DEF challengeReceipt, Challengeable
<1>5. /\ r \in Receipt /\ r.verifier = receipts[id].verifier
      /\ r.submittedAt = receipts[id].submittedAt /\ r.finalized = receipts[id].finalized
      /\ r.disputed
  BY <1>2, <1>3 DEF Receipt
<1>6. /\ d \in Dispute /\ d.status = "OPEN" /\ d.challengerBond = bond /\ d.verifierBond = 0
      /\ Held(d) = bond
  BY <1>1, <1>2, <1>3 DEF Dispute, Held
<1>7. ~receipts[id].finalized /\ disputes[id].status = "NONE" /\ Held(disputes[id]) = 0
  BY <1>3, <1>4 DEF SoundReceipt, Held
<1>8. SoundReceipt(r, d)
  BY <1>3, <1>5, <1>6, <1>7 DEF SoundReceipt
<1>9. wallet' \in [Accounts -> Nat]
  BY <1>1, <1>3 DEF challengeReceipt, Pays
<1>10. /\ receipts' = [receipts EXCEPT ![id] = r] /\ disputes' = [disputes EXCEPT ![id] = d]
       /\ managerEth' = managerEth + Held(d) - Held(disputes[id])
       /\ UNCHANGED <<economics, windows, settings, registryEth, now>>
  BY <1>1, <1>2, <1>3, <1>6, <1>7 DEF challengeReceipt, registryVars
<1>11. verifiers' = [verifiers EXCEPT ![receipts[id].verifier] = v]
  BY <1>3 DEF challengeReceipt, registryVars
<1>12. /\ v.stake = VerifierOf(id).stake /\ v.status \in {VerifierOf(id).status, "SLASHED"}
       /\ v.lastActiveAt = VerifierOf(id).lastActiveAt
       /\ v.exitRequestedAt = VerifierOf(id).exitRequestedAt
       /\ v.jobsCompleted = VerifierOf(id).jobsCompleted
                              + (IF r.finalized /\ ~receipts[id].finalized THEN 1 ELSE 0)
       /\ v.disputesWon + v.disputesLost = VerifierOf(id).disputesWon + VerifierOf(id).disputesLost
            + (IF d.status = "RESOLVED" /\ disputes[id].status # "RESOLVED" THEN 1 ELSE 0)
  BY <1>2, <1>3, <1>5, <1>6, <1>7
<1> QED
  BY <1>3, <1>5, <1>6, <1>7, <1>8, <1>9, <1>10, <1>11, <1>12, ReceiptChanges

\* An answer adds the verifier's bond, which an open dispute does not have yet.
LEMMA RespondKeeps ==
  ASSUME ReceiptInv, NEW id \in Ids, NEW bond \in Bonds, respondToDispute(id, bond)
  PROVE  ReceiptInv'
<1>1. bond \in Nat
  <2>1. Bonds \subseteq Nat
    BY ReceiptBounds
  <2> QED BY <2>1
<1>2. PICK r, d, v :
        /\ r = receipts[id] /\ v = VerifierOf(id)
        /\ d = [disputes[id] EXCEPT !.verifierBond = bond, !.status = "RESPONDED"]
  OBVIOUS
<1>3. /\ receipts[id] \in Receipt /\ disputes[id] \in Dispute
      /\ SoundReceipt(receipts[id], disputes[id])
      /\ disputes[id].challengerBond \in Nat /\ disputes[id].verifierBond \in Nat
      /\ receipts[id].verifier \in Accounts
      /\ v \in Verifier /\ SoundVerifier(v) /\ verifiers[receipts[id].verifier] = v
      /\ verifiers \in [Accounts -> Verifier] /\ wallet \in [Accounts -> Nat]
      /\ now \in Nat /\ managerEth \in Nat
      /\ v.jobsCompleted \in Nat /\ v.disputesWon \in Nat /\ v.disputesLost \in Nat
  BY <1>2, ReceiptFacts DEF Verifier
<1>4. disputes[id].status = "OPEN" /\ disputes[id].verifierBond = 0
  BY <1>3 DEF respondToDispute, SoundReceipt
<1>5. /\ d \in Dispute /\ d.status = "RESPONDED"
      /\ d.challengerBond = disputes[id].challengerBond /\ d.verifierBond = bond
  BY <1>1, <1>2, <1>3 DEF Dispute
<1>6. /\ Held(d) = disputes[id].challengerBond + bond
      /\ Held(disputes[id]) = disputes[id].challengerBond
  BY <1>3, <1>4, <1>5 DEF Held
<1>7. SoundReceipt(r, d)
  BY <1>2, <1>3, <1>4, <1>5 DEF SoundReceipt
<1>8. wallet' \in [Accounts -> Nat]
  BY <1>1, <1>3 DEF respondToDispute, Pays
<1>9. /\ receipts' = [receipts EXCEPT ![id] = r] /\ disputes' = [disputes EXCEPT ![id] = d]
  <2>1. receipts \in Seq(Receipt) /\ disputes \in Seq(Dispute)
    BY DEF ReceiptInv, RecordsTyped
  <2>2. receipts' = [receipts EXCEPT ![id] = r]
    BY <1>2, <2>1 DEF respondToDispute
  <2>3. id \in DOMAIN disputes
    BY IdsAreNumbers DEF ReceiptInv
  <2>4. disputes' = [disputes EXCEPT ![id] = d]
    BY <1>2, <2>1, <2>3 DEF respondToDispute
  <2> QED BY <2>2, <2>4
<1>10. /\ managerEth' = managerEth + Held(d) - Held(disputes[id])
       /\ UNCHANGED <<economics, windows, settings, registryEth, now>>
  BY <1>1, <1>3, <1>6 DEF respondToDispute, registryVars
<1>11. verifiers' = [verifiers EXCEPT ![receipts[id].verifier] = v]
  BY <1>3 DEF respondToDispute, registryVars
<1>12. /\ v.stake = VerifierOf(id).stake /\ v.status \in {VerifierOf(id).status, "SLASHED"}
       /\ v.lastActiveAt = VerifierOf(id).lastActiveAt
       /\ v.exitRequestedAt = VerifierOf(id).exitRequestedAt
       /\ v.jobsCompleted = VerifierOf(id).jobsCompleted
                              + (IF r.finalized /\ ~receipts[id].finalized THEN 1 ELSE 0)
       /\ v.disputesWon + v.disputesLost = VerifierOf(id).disputesWon + VerifierOf(id).disputesLost
            + (IF d.status = "RESOLVED" /\ disputes[id].status # "RESOLVED" THEN 1 ELSE 0)
  BY <1>2, <1>3, <1>5
<1>13. /\ r \in Receipt /\ r.verifier = receipts[id].verifier
       /\ r.submittedAt = receipts[id].submittedAt /\ (receipts[id].finalized => r.finalized)
       /\ disputes[id].status = "RESOLVED" => d.status = "RESOLVED"
  BY <1>2, <1>3, <1>4
<1> QED
  BY <1>3, <1>5, <1>7, <1>8, <1>9, <1>10, <1>11, <1>12, <1>13, ReceiptChanges

\* A receipt that nobody challenged becomes final when its window has passed.
LEMMA FinalizeKeeps ==
  ASSUME ReceiptInv, NEW id \in Ids, finalizeReceipt(id)
  PROVE  ReceiptInv'
<1>1. PICK r, d, w, v :
        /\ r = [receipts[id] EXCEPT !.finalized = TRUE] /\ d = disputes[id]
        /\ w = VerifierOf(id) /\ v = recordReceiptResult(w, TRUE)
  OBVIOUS
<1>2. /\ receipts[id] \in Receipt /\ disputes[id] \in Dispute
      /\ SoundReceipt(receipts[id], disputes[id])
      /\ receipts[id].disputeDeadline \in Nat /\ receipts[id].submittedAt \in Nat
      /\ w \in Verifier /\ SoundVerifier(w) /\ verifiers[receipts[id].verifier] = w
      /\ wallet \in [Accounts -> Nat] /\ now \in Nat /\ managerEth \in Nat
  BY <1>1, ReceiptFacts
<1>3. /\ ~receipts[id].finalized /\ ~receipts[id].disputed /\ now > receipts[id].disputeDeadline
      /\ UNCHANGED <<disputes, economics, windows, managerEth, settings, registryEth, wallet, now>>
  BY DEF finalizeReceipt
<1>4. /\ r \in Receipt /\ r.verifier = receipts[id].verifier
      /\ r.submittedAt = receipts[id].submittedAt /\ r.finalized /\ r.disputed = receipts[id].disputed
      /\ r.disputeDeadline = receipts[id].disputeDeadline
  BY <1>1, <1>2 DEF Receipt
<1>5. reputationConfig \in [reward : Nat, penalty : Nat, win : Nat, loss : Nat]
  BY DEF ReceiptInv, SettingsTyped
<1>6. /\ v \in Verifier /\ v.stake = w.stake /\ v.status = w.status
      /\ v.lastActiveAt = w.lastActiveAt /\ v.exitRequestedAt = w.exitRequestedAt
      /\ v.jobsCompleted = w.jobsCompleted + 1
      /\ v.disputesWon = w.disputesWon /\ v.disputesLost = w.disputesLost
  BY <1>1, <1>2, <1>5, ResultsCount
<1>7. disputes[id].status = "NONE" /\ Held(d) = 0 /\ Held(disputes[id]) = 0
  BY <1>1, <1>2, <1>3 DEF SoundReceipt, Held
<1>8. SoundReceipt(r, d)
  BY <1>1, <1>2, <1>3, <1>4, <1>7 DEF SoundReceipt
<1>9. SoundVerifier(v)
  BY <1>2, <1>6 DEF SoundVerifier
<1>10. /\ receipts' = [receipts EXCEPT ![id] = r] /\ disputes' = [disputes EXCEPT ![id] = d]
  <2>1. disputes \in Seq(Dispute)
    BY DEF ReceiptInv, RecordsTyped
  <2>2. receipts' = [receipts EXCEPT ![id] = r]
    BY <1>1 DEF finalizeReceipt
  <2> QED BY <1>1, <1>3, <2>1, <2>2
<1>11. verifiers' = [verifiers EXCEPT ![receipts[id].verifier] = v]
  BY <1>1 DEF finalizeReceipt, VerifierOf
<1>12. /\ managerEth' = managerEth + Held(d) - Held(disputes[id])
       /\ wallet' \in [Accounts -> Nat]
  BY <1>2, <1>3, <1>7
<1>13. /\ w.jobsCompleted \in Nat /\ w.disputesWon \in Nat /\ w.disputesLost \in Nat
  BY <1>2 DEF Verifier
<1>14. /\ v.stake = VerifierOf(id).stake /\ v.status \in {VerifierOf(id).status, "SLASHED"}
       /\ v.lastActiveAt = VerifierOf(id).lastActiveAt
       /\ v.exitRequestedAt = VerifierOf(id).exitRequestedAt
       /\ v.jobsCompleted = VerifierOf(id).jobsCompleted
                              + (IF r.finalized /\ ~receipts[id].finalized THEN 1 ELSE 0)
       /\ v.disputesWon + v.disputesLost = VerifierOf(id).disputesWon + VerifierOf(id).disputesLost
            + (IF d.status = "RESOLVED" /\ disputes[id].status # "RESOLVED" THEN 1 ELSE 0)
  <2>1. v.jobsCompleted = VerifierOf(id).jobsCompleted
                            + (IF r.finalized /\ ~receipts[id].finalized THEN 1 ELSE 0)
    BY <1>1, <1>3, <1>4, <1>6, <1>13
  <2>2. v.disputesWon + v.disputesLost = VerifierOf(id).disputesWon + VerifierOf(id).disputesLost
          + (IF d.status = "RESOLVED" /\ disputes[id].status # "RESOLVED" THEN 1 ELSE 0)
    <3>1. (IF d.status = "RESOLVED" /\ disputes[id].status # "RESOLVED" THEN 1 ELSE 0) = 0
      BY <1>1
    <3>2. v.disputesWon = VerifierOf(id).disputesWon /\ v.disputesLost = VerifierOf(id).disputesLost
      BY <1>1, <1>6
    <3>3. VerifierOf(id).disputesWon \in Nat /\ VerifierOf(id).disputesLost \in Nat
      BY <1>1, <1>13
    <3> QED BY <3>1, <3>2, <3>3
  <2> QED BY <1>1, <1>6, <2>1, <2>2
<1>15. /\ d \in Dispute /\ (receipts[id].finalized => r.finalized)
       /\ disputes[id].status = "RESOLVED" => d.status = "RESOLVED"
       /\ UNCHANGED <<economics, windows, settings, registryEth, now>>
  BY <1>1, <1>2, <1>3
<1> QED
  BY <1>4, <1>6, <1>8, <1>9, <1>10, <1>11, <1>12, <1>14, <1>15, ReceiptChanges

\* How _resolve ends a dispute, whoever wins: the receipt is final, the bonds leave.
LEMMA ResolutionKeeps ==
  ASSUME ReceiptInv, NEW id \in Ids, Resolved(id),
         disputes[id].status \in {"OPEN", "RESPONDED"}, ~receipts[id].finalized,
         NEW to, wallet' = [wallet EXCEPT ![to] = @ + BondsOf(disputes[id])],
         NEW w, w \in Verifier, SoundVerifier(w), w.stake = VerifierOf(id).stake,
         w.status \in {VerifierOf(id).status, "SLASHED"},
         w.lastActiveAt = VerifierOf(id).lastActiveAt,
         w.exitRequestedAt = VerifierOf(id).exitRequestedAt,
         w.jobsCompleted = VerifierOf(id).jobsCompleted,
         w.disputesWon = VerifierOf(id).disputesWon,
         w.disputesLost = VerifierOf(id).disputesLost,
         NEW v, \E won \in BOOLEAN : v = recordDisputeResult(recordReceiptResult(w, won), won),
         verifiers' = [verifiers EXCEPT ![receipts[id].verifier] = v],
         managerEth' = managerEth - BondsOf(disputes[id]),
         UNCHANGED <<economics, windows, settings, registryEth, now>>
  PROVE  ReceiptInv'
<1>0. PICK won \in BOOLEAN : v = recordDisputeResult(recordReceiptResult(w, won), won)
  OBVIOUS
<1>1. PICK r, d, u :
        /\ r = [receipts[id] EXCEPT !.finalized = TRUE]
        /\ d = [disputes[id] EXCEPT !.status = "RESOLVED"]
        /\ u = recordReceiptResult(w, won) /\ v = recordDisputeResult(u, won)
  BY <1>0
<1>2. /\ receipts[id] \in Receipt /\ disputes[id] \in Dispute
      /\ SoundReceipt(receipts[id], disputes[id])
      /\ receipts[id].disputed \in BOOLEAN /\ receipts[id].submittedAt \in Nat
      /\ disputes[id].challengerBond \in Nat /\ disputes[id].verifierBond \in Nat
      /\ wallet \in [Accounts -> Nat] /\ now \in Nat /\ managerEth \in Nat
  BY ReceiptFacts
<1>3. /\ r \in Receipt /\ r.verifier = receipts[id].verifier
      /\ r.submittedAt = receipts[id].submittedAt /\ r.finalized /\ r.disputed = receipts[id].disputed
  BY <1>1, <1>2 DEF Receipt
<1>4. d \in Dispute /\ d.status = "RESOLVED"
  BY <1>1, <1>2 DEF Dispute
<1>5. reputationConfig \in [reward : Nat, penalty : Nat, win : Nat, loss : Nat]
  BY DEF ReceiptInv, SettingsTyped
<1>6. /\ u \in Verifier /\ u.stake = w.stake /\ u.status = w.status
      /\ u.lastActiveAt = w.lastActiveAt /\ u.exitRequestedAt = w.exitRequestedAt
      /\ u.jobsCompleted = w.jobsCompleted + 1
      /\ u.disputesWon = w.disputesWon /\ u.disputesLost = w.disputesLost
  BY <1>1, <1>5, ResultsCount
<1>7. /\ v \in Verifier /\ v.stake = u.stake /\ v.status = u.status
      /\ v.lastActiveAt = u.lastActiveAt /\ v.exitRequestedAt = u.exitRequestedAt
      /\ v.jobsCompleted = u.jobsCompleted
      /\ v.disputesWon + v.disputesLost = u.disputesWon + u.disputesLost + 1
  BY <1>1, <1>5, <1>6, ResultsCount
<1>8. /\ BondsOf(disputes[id]) = disputes[id].challengerBond + disputes[id].verifierBond
      /\ Held(disputes[id]) = BondsOf(disputes[id]) /\ Held(d) = 0
      /\ BondsOf(disputes[id]) \in Nat
  BY <1>2, <1>4 DEF BondsOf, Held
<1>9. SoundReceipt(r, d)
  BY <1>2, <1>3, <1>4 DEF SoundReceipt
<1>10. SoundVerifier(v)
  BY <1>6, <1>7 DEF SoundVerifier
<1>11. /\ receipts' = [receipts EXCEPT ![id] = r] /\ disputes' = [disputes EXCEPT ![id] = d]
  BY <1>1 DEF Resolved
<1>12. verifiers' = [verifiers EXCEPT ![receipts[id].verifier] = v]
  OBVIOUS
<1>13. wallet' \in [Accounts -> Nat]
  <2>1. PICK bonds \in Nat : bonds = BondsOf(disputes[id])
    BY <1>8
  <2>2. wallet' = [wallet EXCEPT ![to] = @ + bonds]
    BY <2>1
  <2>3. CASE to \in Accounts
    BY <1>2, <2>2, <2>3
  <2>4. CASE to \notin Accounts
    <3>1. wallet' = wallet
      BY <1>2, <2>2, <2>4
    <3> QED BY <1>2, <3>1
  <2> QED BY <2>3, <2>4
<1>14. managerEth' = managerEth + Held(d) - Held(disputes[id])
  BY <1>2, <1>8
<1>15. w.jobsCompleted \in Nat /\ w.disputesWon \in Nat /\ w.disputesLost \in Nat
  BY DEF Verifier
<1>16. v.jobsCompleted = VerifierOf(id).jobsCompleted
                           + (IF r.finalized /\ ~receipts[id].finalized THEN 1 ELSE 0)
  BY <1>3, <1>6, <1>7, <1>15
<1>17. v.disputesWon + v.disputesLost = VerifierOf(id).disputesWon + VerifierOf(id).disputesLost
         + (IF d.status = "RESOLVED" /\ disputes[id].status # "RESOLVED" THEN 1 ELSE 0)
  BY <1>4, <1>6, <1>7, <1>15
<1>18. /\ v.stake = VerifierOf(id).stake /\ v.status \in {VerifierOf(id).status, "SLASHED"}
       /\ v.lastActiveAt = VerifierOf(id).lastActiveAt
       /\ v.exitRequestedAt = VerifierOf(id).exitRequestedAt
       /\ v \in Verifier
       /\ (receipts[id].finalized => r.finalized)
       /\ disputes[id].status = "RESOLVED" => d.status = "RESOLVED"
  BY <1>3, <1>4, <1>6, <1>7
<1> QED
  BY <1>3, <1>4, <1>9, <1>10, <1>11, <1>12, <1>13, <1>14, <1>16, <1>17, <1>18, ReceiptChanges

\* The shares a slash may have.
ShareBps == {b \in Nat : b <= 10000}

\* For the challenger: the slash that goes through takes nothing from the stake.
LEMMA ChallengerWinsKeeps ==
  ASSUME ReceiptInv, NEW id \in Ids, NEW bps \in ShareBps, ResolveForChallenger(id, bps),
         disputes[id].status \in {"OPEN", "RESPONDED"}, ~receipts[id].finalized,
         managerEth' = managerEth - BondsOf(disputes[id]),
         UNCHANGED <<economics, windows, settings, registryEth, now>>
  PROVE  ReceiptInv'
<1>1. PICK w, v, to :
        w = VerifierOf(id) /\ v = AfterSlash(w, bps) /\ to = disputes[id].challenger
  OBVIOUS
<1>a. PICK x : x = recordDisputeResult(recordReceiptResult(v, FALSE), FALSE)
  BY DEF recordDisputeResult, recordReceiptResult
<1>b. \E won \in BOOLEAN : x = recordDisputeResult(recordReceiptResult(v, won), won)
  <2>1. \E won \in BOOLEAN : ~won
    BY Zenon
  <2>2. PICK won \in BOOLEAN : ~won
    BY <2>1
  <2>3. x = recordDisputeResult(recordReceiptResult(v, won), won)
    BY <1>a, <2>2 DEF recordDisputeResult, recordReceiptResult
  <2> QED BY <2>3
<1>2. w \in Verifier /\ SoundVerifier(w) /\ minStake \in Nat /\ w.stake \in Nat
  BY <1>1, ReceiptFacts DEF Verifier
<1>3. /\ v \in Verifier /\ SoundVerifier(v)
      /\ v.stake = w.stake - SlashedAmount(w, bps)
      /\ v.status = w.status \/ v.status = "SLASHED"
      /\ v.exitRequestedAt = w.exitRequestedAt /\ v.lastActiveAt = w.lastActiveAt
      /\ v.jobsCompleted = w.jobsCompleted
      /\ v.disputesWon = w.disputesWon /\ v.disputesLost = w.disputesLost
  BY <1>1, <1>2, SlashLeaves DEF ShareBps
<1>4. SlashedAmount(w, bps) = 0 /\ Resolved(id)
  BY <1>1 DEF ResolveForChallenger
<1>5. v.stake = w.stake
  BY <1>2, <1>3, <1>4
<1>6. /\ wallet' = [wallet EXCEPT ![to] = @ + BondsOf(disputes[id])]
      /\ verifiers' = [verifiers EXCEPT ![receipts[id].verifier] = x]
  BY <1>1, <1>a DEF ResolveForChallenger, VerifierOf, recordDisputeResult, recordReceiptResult
<1>7. /\ v.stake = VerifierOf(id).stake
      /\ v.status \in {VerifierOf(id).status, "SLASHED"}
      /\ v.lastActiveAt = VerifierOf(id).lastActiveAt
      /\ v.exitRequestedAt = VerifierOf(id).exitRequestedAt
      /\ v.jobsCompleted = VerifierOf(id).jobsCompleted
      /\ v.disputesWon = VerifierOf(id).disputesWon /\ v.disputesLost = VerifierOf(id).disputesLost
  BY <1>1, <1>3, <1>5
<1>8. v \in Verifier /\ SoundVerifier(v)
  BY <1>3
<1> QED
  BY <1>b, <1>4, <1>6, <1>7, <1>8, ResolutionKeeps

\* For the verifier: nothing is slashed.
LEMMA VerifierWinsKeeps ==
  ASSUME ReceiptInv, NEW id \in Ids, ResolveForVerifier(id),
         disputes[id].status \in {"OPEN", "RESPONDED"}, ~receipts[id].finalized,
         managerEth' = managerEth - BondsOf(disputes[id]),
         UNCHANGED <<economics, windows, settings, registryEth, now>>
  PROVE  ReceiptInv'
<1>1. PICK w, x, to :
        /\ w = VerifierOf(id) /\ to = receipts[id].verifier
        /\ x = recordDisputeResult(recordReceiptResult(w, TRUE), TRUE)
  OBVIOUS
<1>2. w \in Verifier /\ SoundVerifier(w) /\ w.status \in {VerifierOf(id).status, "SLASHED"}
  BY <1>1, ReceiptFacts
<1>3. /\ Resolved(id) /\ wallet' = [wallet EXCEPT ![to] = @ + BondsOf(disputes[id])]
      /\ verifiers' = [verifiers EXCEPT ![receipts[id].verifier] = x]
      /\ \E won \in BOOLEAN : x = recordDisputeResult(recordReceiptResult(w, won), won)
  BY <1>1 DEF ResolveForVerifier, VerifierOf
<1> QED
  BY <1>1, <1>2, <1>3, ResolutionKeeps

\* The three ways a dispute ends.
LEMMA ResolveKeeps ==
  ASSUME ReceiptInv, NEW id \in Ids,
         (\E challengerWins \in BOOLEAN : resolveDispute(id, challengerWins))
           \/ finalizeExpiredDispute(id)
  PROVE  ReceiptInv'
<1>1. /\ economics.slashBpsIncorrect \in Nat /\ economics.slashBpsIncorrect <= 10000
      /\ economics.slashBpsNoResponse \in Nat /\ economics.slashBpsNoResponse <= 10000
  <2>1. EconomicConfigs \subseteq [challengeBond : Nat, responseBond : Nat,
                                   slashBpsIncorrect : Nat, slashBpsNoResponse : Nat]
    BY ReceiptEconomics
  <2>2. \A c \in EconomicConfigs : c.slashBpsIncorrect <= 10000 /\ c.slashBpsNoResponse <= 10000
    BY ReceiptEconomics
  <2>3. economics \in EconomicConfigs
    BY DEF ReceiptInv, SettingsTyped
  <2> QED BY <2>1, <2>2, <2>3
<1>2. PICK p, q : p = economics.slashBpsIncorrect /\ q = economics.slashBpsNoResponse
  OBVIOUS
<1>3. CASE resolveDispute(id, TRUE)
  <2>1. /\ ResolveForChallenger(id, p) /\ disputes[id].status \in {"OPEN", "RESPONDED"}
        /\ ~receipts[id].finalized /\ managerEth' = managerEth - BondsOf(disputes[id])
        /\ UNCHANGED <<economics, windows, settings, registryEth, now>>
    BY <1>2, <1>3 DEF resolveDispute
  <2>2. p \in ShareBps
    BY <1>1, <1>2 DEF ShareBps
  <2> QED BY <2>1, <2>2, ChallengerWinsKeeps
<1>4. CASE resolveDispute(id, FALSE)
  BY <1>4, VerifierWinsKeeps DEF resolveDispute
<1>5. CASE finalizeExpiredDispute(id)
  <2>1. /\ ResolveForChallenger(id, q) /\ disputes[id].status \in {"OPEN", "RESPONDED"}
        /\ ~receipts[id].finalized /\ managerEth' = managerEth - BondsOf(disputes[id])
        /\ UNCHANGED <<economics, windows, settings, registryEth, now>>
    BY <1>2, <1>5 DEF finalizeExpiredDispute
  <2>2. q \in ShareBps
    BY <1>1, <1>2 DEF ShareBps
  <2> QED BY <2>1, <2>2, ChallengerWinsKeeps
<1> QED
  BY <1>3, <1>4, <1>5

-----------------------------------------------------------------------------
(* The theorems.                                                           *)

\* The invariant of every reachable state.
LEMMA StepKeeps == ReceiptInv /\ [ReceiptNext]_allVars => ReceiptInv'
<1> SUFFICES ASSUME ReceiptInv, [ReceiptNext]_allVars PROVE ReceiptInv'
  OBVIOUS
<1>1. CASE (\E newEconomics \in EconomicConfigs : setEconomicConfig(newEconomics))
             \/ (\E newWindows \in Windows : setWindows(newWindows)) \/ Tick
  BY <1>1, ManagerSettingsKeep
<1>2. ASSUME NEW a \in Verifiers, submitReceipt(a) PROVE ReceiptInv'
  BY <1>2, SubmitKeeps
<1>3. ASSUME NEW id \in Ids, NEW a \in Accounts, NEW bond \in Bonds, challengeReceipt(a, id, bond)
      PROVE  ReceiptInv'
  BY <1>3, ChallengeKeeps
<1>4. ASSUME NEW id \in Ids, NEW bond \in Bonds, respondToDispute(id, bond) PROVE ReceiptInv'
  BY <1>4, RespondKeeps
<1>5. ASSUME NEW id \in Ids, finalizeReceipt(id) PROVE ReceiptInv'
  BY <1>5, FinalizeKeeps
<1>6. ASSUME NEW id \in Ids,
             (\E challengerWins \in BOOLEAN : resolveDispute(id, challengerWins))
               \/ finalizeExpiredDispute(id)
      PROVE  ReceiptInv'
  BY <1>6, ResolveKeeps
<1>7. CASE RegistryNext /\ UNCHANGED managerVars
  <2>1. CASE VerifierCall
    BY <1>7, <2>1, VerifierCallKeeps
  <2>2. CASE RegistryOwnerCall
    BY <1>7, <2>2, OwnerCallKeeps
  <2>3. ASSUME NEW caller \in Callers, NEW recipient \in Callers, NEW a \in Verifiers,
               NEW bps \in SlashBps, slashVerifier(caller, a, bps, recipient)
        PROVE  ReceiptInv'
    BY <1>7, <2>3, SlashKeeps
  <2> QED BY <1>7, <2>1, <2>2, <2>3 DEF RegistryNext
<1>8. CASE UNCHANGED allVars
  <2>1. UNCHANGED <<managerVars, registryVars, wallet, now>>
    BY <1>8 DEF allVars
  <2>2. SettingsTyped /\ SettingsTyped' /\ now \in Nat
    BY <2>1 DEF ReceiptInv, SettingsTyped, managerVars, registryVars, settings
  <2> QED BY <2>1, <2>2, SettingsChange DEF managerVars, registryVars, settings
<1> QED
  BY <1>1, <1>2, <1>3, <1>4, <1>5, <1>6, <1>7, <1>8 DEF ReceiptNext

\* The inductive invariant gives the properties of the runs.
LEMMA InvariantSuffices == ReceiptInv => ReceiptsAreSound
<1> SUFFICES ASSUME ReceiptInv PROVE ReceiptsAreSound
  OBVIOUS
<1>1. ReceiptTypeOK
  <2>1. RecordsTyped /\ SettingsTyped
    BY DEF ReceiptInv
  <2>2. SumFunction(Stakes(verifiers)) \in Nat
    <3>1. IsFiniteSet(Accounts)
      BY RegistryConstantsTyped
    <3>2. Stakes(verifiers) \in [Accounts -> Nat]
      BY <2>1 DEF RecordsTyped, Stakes, Verifier
    <3> QED BY <3>1, <3>2, SumBounds
  <2>3. SumFunction(HeldIn(disputes)) \in Nat
    <3>1. IsFiniteSet(Ids) /\ DOMAIN disputes = Ids /\ \A id \in Ids : disputes[id] \in Dispute
      BY <2>1, IdsAreNumbers
    <3>2. HeldIn(disputes) \in [Ids -> Nat]
      BY <3>1, HeldTyped DEF HeldIn
    <3> QED BY <3>1, <3>2, SumBounds
  <2>4. registryEth \in Nat /\ managerEth \in Nat
    BY <2>2, <2>3 DEF ReceiptInv
  <2> QED BY <2>1, <2>4 DEF ReceiptTypeOK, RecordsTyped, SettingsTyped
<1>2. FundsMatchClaims
  <2>1. registryEth = SumFunction([a \in Accounts |-> verifiers[a].stake])
    BY DEF ReceiptInv, Stakes
  <2>2. DOMAIN disputes = Ids
    BY IdsAreNumbers DEF ReceiptInv
  <2>3. HeldIn(disputes) = [id \in Ids |->
          IF disputes[id].status \in {"OPEN", "RESPONDED"}
          THEN disputes[id].challengerBond + disputes[id].verifierBond ELSE 0]
    BY <2>2 DEF HeldIn, Held
  <2>4. managerEth = SumFunction(HeldIn(disputes))
    BY DEF ReceiptInv
  <2> QED BY <2>1, <2>3, <2>4 DEF FundsMatchClaims
<1>3. StatusMatchesStake
  BY DEF ReceiptInv, SoundVerifier, StatusMatchesStake
<1>4. CountersMatchReceipts
  <2> SUFFICES ASSUME NEW a \in Accounts
               PROVE  /\ verifiers[a].jobsCompleted =
                           Cardinality({id \in {i \in Ids : receipts[i].verifier = a} :
                                          receipts[id].finalized})
                      /\ verifiers[a].disputesWon + verifiers[a].disputesLost =
                           Cardinality({id \in {i \in Ids : receipts[i].verifier = a} :
                                          disputes[id].status = "RESOLVED"})
    BY DEF CountersMatchReceipts
  <2>1. /\ FinalOf(receipts, a) = {id \in {i \in Ids : receipts[i].verifier = a} :
                                     receipts[id].finalized}
        /\ ResolvedOf(receipts, disputes, a) = {id \in {i \in Ids : receipts[i].verifier = a} :
                                                  disputes[id].status = "RESOLVED"}
    BY DEF FinalOf, ResolvedOf, Ids
  <2>2. Counted(verifiers[a], receipts, disputes, a)
    BY DEF ReceiptInv
  <2> QED BY <2>1, <2>2 DEF Counted
<1>5. ReceiptsAreSpaced
  BY DEF ReceiptInv
<1> QED
  BY <1>1, <1>2, <1>3, <1>4, <1>5 DEF ReceiptsAreSound

\* The invariant holds in every reachable state.
LEMMA ReceiptInvAlways == ReceiptSpec => []ReceiptInv
<1>1. ReceiptInit => ReceiptInv
  BY InitReceipts
<1>2. ReceiptInv /\ [ReceiptNext]_allVars => ReceiptInv'
  BY StepKeeps
<1> QED
  BY <1>1, <1>2, PTL DEF ReceiptSpec

\* For every finite set of accounts and any number of receipts, VerifierRegistry.sol holds
\* the sum of the stakes and ReceiptDisputeManager.sol the bonds of the disputes that have
\* not ended: no end of a dispute pays a bond twice or keeps one.
THEOREM ClaimsAreHeld == ReceiptSpec => []FundsMatchClaims
<1>1. ReceiptInv => FundsMatchClaims
  BY InvariantSuffices DEF ReceiptsAreSound
<1> QED
  BY ReceiptInvAlways, <1>1, PTL

\* jobsCompleted, disputesWon and disputesLost, counted by hand in two contracts, are the
\* numbers of final receipts and of resolved disputes, through leaving and registering again.
THEOREM ResultsAreCountedOnce == ReceiptSpec => []CountersMatchReceipts
<1>1. ReceiptInv => CountersMatchReceipts
  BY InvariantSuffices DEF ReceiptsAreSound
<1> QED
  BY ReceiptInvAlways, <1>1, PTL

\* In every reachable state ETH, stakes, statuses and counters of the two contracts agree
\* and receipts are spaced, whichever of the three functions ended the disputes.
THEOREM ReceiptsStaySound == ReceiptSpec => []ReceiptsAreSound
<1>1. ReceiptInv => ReceiptsAreSound
  BY InvariantSuffices
<1> QED
  BY ReceiptInvAlways, <1>1, PTL

\* A final receipt and its dispute do not change.
LEMMA FinalStays ==
  ReceiptInv /\ [ReceiptNext]_allVars =>
    \A id \in Ids : receipts[id].finalized =>
      receipts'[id] = receipts[id] /\ disputes'[id] = disputes[id]
<1> SUFFICES ASSUME ReceiptInv, [ReceiptNext]_allVars, NEW id \in Ids, receipts[id].finalized
             PROVE  receipts'[id] = receipts[id] /\ disputes'[id] = disputes[id]
  OBVIOUS
<1>1. /\ RecordsTyped /\ receipts \in Seq(Receipt) /\ disputes \in Seq(Dispute)
      /\ Len(disputes) = Len(receipts)
  BY DEF ReceiptInv, RecordsTyped
<1>2. /\ Ids = 1..Len(receipts) /\ Len(receipts) \in Nat /\ DOMAIN disputes = Ids
      /\ SoundReceipt(receipts[id], disputes[id])
  BY <1>1, IdsAreNumbers DEF ReceiptInv
<1>3. ASSUME NEW x \in Ids, NEW a, NEW bond, challengeReceipt(a, x, bond)
      PROVE  receipts'[id] = receipts[id] /\ disputes'[id] = disputes[id]
  <2>1. ~receipts[x].disputed /\ now <= receipts[x].disputeDeadline
    BY <1>3 DEF challengeReceipt, Challengeable
  <2>2. now \in Nat /\ receipts[x].disputeDeadline \in Nat /\ SoundReceipt(receipts[x], disputes[x])
    BY ReceiptFacts
  <2>3. x # id
    BY <2>1, <2>2 DEF SoundReceipt
  <2> QED BY <1>1, <1>2, <1>3, <2>3 DEF challengeReceipt, Ids
<1>4. ASSUME NEW x \in Ids, NEW bond, respondToDispute(x, bond)
      PROVE  receipts'[id] = receipts[id] /\ disputes'[id] = disputes[id]
  <2>1. disputes[x].status = "OPEN"
    BY <1>4 DEF respondToDispute
  <2>2. x # id
    BY <1>2, <2>1 DEF SoundReceipt
  <2> QED BY <1>1, <1>2, <1>4, <2>2 DEF respondToDispute, Ids
<1>5. ASSUME NEW x \in Ids, finalizeReceipt(x)
      PROVE  receipts'[id] = receipts[id] /\ disputes'[id] = disputes[id]
  BY <1>1, <1>2, <1>5 DEF finalizeReceipt, Ids
<1>6. ASSUME NEW x \in Ids,
             (\E challengerWins \in BOOLEAN : resolveDispute(x, challengerWins))
               \/ finalizeExpiredDispute(x)
      PROVE  receipts'[id] = receipts[id] /\ disputes'[id] = disputes[id]
  <2>1. ~receipts[x].finalized /\ Resolved(x)
    BY <1>6 DEF resolveDispute, finalizeExpiredDispute, ResolveForChallenger, ResolveForVerifier
  <2>2. x # id
    BY <2>1
  <2> QED BY <1>1, <1>2, <2>1, <2>2 DEF Resolved, Ids
<1>7. ASSUME NEW a \in Verifiers, submitReceipt(a)
      PROVE  receipts'[id] = receipts[id] /\ disputes'[id] = disputes[id]
  <2>1. PICK r : receipts' = Append(receipts, r) /\ disputes' = Append(disputes, NoDispute)
    BY <1>7 DEF submitReceipt
  <2> QED BY <1>1, <1>2, <2>1
<1>8. CASE UNCHANGED <<receipts, disputes>>
  BY <1>8
<1>9. ASSUME \/ \E newEconomics \in EconomicConfigs : setEconomicConfig(newEconomics)
             \/ \E newWindows \in Windows : setWindows(newWindows)
             \/ RegistryNext /\ UNCHANGED managerVars
             \/ Tick
             \/ UNCHANGED allVars
      PROVE  UNCHANGED <<receipts, disputes>>
  BY <1>9 DEF setEconomicConfig, setWindows, Tick, managerVars, allVars
<1> QED
  BY <1>3, <1>4, <1>5, <1>6, <1>7, <1>8, <1>9 DEF ReceiptNext

\* Nobody is in its cool-down with a receipt younger than its exit.
LEMMA WithdrawalWaits ==
  ReceiptInv =>
    \A a \in Accounts, amount \in Values : withdrawStake(a, amount)
      => \A id \in Ids : receipts[id].verifier = a =>
           now >= receipts[id].submittedAt + withdrawDelay
<1> SUFFICES ASSUME ReceiptInv, NEW a \in Accounts, NEW amount \in Values, withdrawStake(a, amount),
                    NEW id \in Ids, receipts[id].verifier = a
             PROVE  now >= receipts[id].submittedAt + withdrawDelay
  OBVIOUS
<1>1. verifiers[a].status = "EXITING" /\ now >= verifiers[a].exitRequestedAt + withdrawDelay
  BY DEF withdrawStake, CooledDown
<1>2. /\ VerifierOf(id) = verifiers[a] /\ VerifierOf(id) \in Verifier
      /\ receipts[id].submittedAt \in Nat /\ now \in Nat
  BY ReceiptFacts DEF VerifierOf
<1>3. Spaced(VerifierOf(id), receipts[id])
  BY DEF ReceiptInv
<1>4. verifiers[a].exitRequestedAt \in Nat /\ withdrawDelay \in Nat
  BY <1>2 DEF Verifier, ReceiptInv, SettingsTyped
<1>5. verifiers[a].exitRequestedAt >= receipts[id].submittedAt
  BY <1>1, <1>2, <1>3 DEF Spaced
<1> QED
  BY <1>1, <1>2, <1>4, <1>5

\* No behaviour changes a final receipt, and none lets a verifier withdraw before
\* withdrawDelay has passed since its last receipt.
THEOREM ReceiptsKeepTerms == ReceiptSpec => ReceiptsKeepTheirTerms
<1>1. ReceiptInit => ReceiptInv
  BY InitReceipts
<1>2. ReceiptInv /\ [ReceiptNext]_allVars => ReceiptInv'
  BY StepKeeps
<1>3. ReceiptInv /\ [ReceiptNext]_allVars =>
        [\A id \in Ids : receipts[id].finalized =>
           receipts'[id] = receipts[id] /\ disputes'[id] = disputes[id]]_allVars
  BY FinalStays
<1>4. ReceiptInv /\ [ReceiptNext]_allVars =>
        [\A a \in Accounts, amount \in Values : withdrawStake(a, amount)
           => \A id \in Ids : receipts[id].verifier = a =>
                now >= receipts[id].submittedAt + withdrawDelay]_allVars
  BY WithdrawalWaits
<1> QED
  BY <1>1, <1>2, <1>3, <1>4, PTL
     DEF ReceiptSpec, ReceiptsKeepTheirTerms, FinalReceiptsStay, WithdrawalsCoolDown

=============================================================================
