------------------------ MODULE ReceiptDisputeManager ------------------------
(***************************************************************************)
(* Receipts and bonded disputes about them                                 *)
(* (contracts/ReceiptDisputeManager.sol), composed with the registry that  *)
(* keeps the verifiers' stakes.  The contract has neither receive nor      *)
(* fallback, so a plain transfer of ETH to it reverts: slashVerifier pays  *)
(* the slashed stake to it in that way.                                    *)
(***************************************************************************)
EXTENDS VerifierRegistry, Sequences

CONSTANTS
  Bonds,            \* bonds sent with challenges and responses
  EconomicConfigs,  \* values of setEconomicConfig, the constructor's included
  Windows,          \* values of setWindows
  InitialWindows,   \* dispute and response windows at the start
  MaxReceipts

ASSUME ReceiptBounds == Bonds \subseteq Nat /\ MaxReceipts \in Nat

ASSUME ReceiptEconomics ==
  /\ EconomicConfigs \subseteq [challengeBond : Nat, responseBond : Nat,
                                slashBpsIncorrect : Nat, slashBpsNoResponse : Nat]
  /\ \A c \in EconomicConfigs : c.slashBpsIncorrect <= 10000 /\ c.slashBpsNoResponse <= 10000

ASSUME ReceiptWindows ==
  /\ Windows \subseteq [dispute : Nat, response : Nat]
  /\ InitialWindows \in [dispute : Nat, response : Nat]

VARIABLES
  receipts,    \* sequence; the index is the receiptId
  disputes,    \* the dispute of each receipt
  economics,
  windows,
  managerEth

managerVars == <<receipts, disputes, economics, windows, managerEth>>

allVars == <<managerVars, registryVars, wallet, now>>

NoAccount == "0x0"

NoDispute == [challenger |-> NoAccount, challengerBond |-> 0, verifierBond |-> 0,
              responseDeadline |-> 0, status |-> "NONE"]

ReceiptInit ==
  /\ VerifierRegistryInit
  /\ receipts = <<>>
  /\ disputes = <<>>
  /\ economics \in EconomicConfigs
  /\ windows = InitialWindows
  /\ managerEth = 0

Ids == DOMAIN receipts

VerifierOf(id) == verifiers[receipts[id].verifier]

-----------------------------------------------------------------------------

setEconomicConfig(newEconomics) ==
  /\ economics' = newEconomics
  /\ UNCHANGED <<receipts, disputes, windows, managerEth, registryVars, wallet, now>>

setWindows(newWindows) ==
  /\ windows' = newWindows
  /\ UNCHANGED <<receipts, disputes, economics, managerEth, registryVars, wallet, now>>

submitReceipt(a) ==
  /\ Len(receipts) < MaxReceipts
  /\ canSubmitReceipt(verifiers[a])
  /\ receipts' = Append(receipts,
       [verifier |-> a, submittedAt |-> now, disputeDeadline |-> now + windows.dispute,
        finalized |-> FALSE, disputed |-> FALSE])
  /\ disputes' = Append(disputes, NoDispute)
  /\ verifiers' = [verifiers EXCEPT ![a] = recordActivity(@)]
  /\ UNCHANGED <<economics, windows, managerEth, settings, registryEth, wallet, now>>

Challengeable(receipt) == ~receipt.disputed /\ now <= receipt.disputeDeadline

challengeReceipt(a, id, bond) ==
  /\ Challengeable(receipts[id])
  /\ bond >= economics.challengeBond
  /\ a # receipts[id].verifier
  /\ Pays(a, bond)
  /\ receipts' = [receipts EXCEPT ![id].disputed = TRUE]
  /\ disputes' = [disputes EXCEPT ![id] =
       [challenger |-> a, challengerBond |-> bond, verifierBond |-> 0,
        responseDeadline |-> now + windows.response, status |-> "OPEN"]]
  /\ managerEth' = managerEth + bond
  /\ UNCHANGED <<economics, windows, registryVars, now>>

respondToDispute(id, bond) ==
  /\ disputes[id].status = "OPEN"
  /\ now <= disputes[id].responseDeadline
  /\ bond >= economics.responseBond
  /\ Pays(receipts[id].verifier, bond)
  /\ disputes' = [disputes EXCEPT ![id].verifierBond = bond, ![id].status = "RESPONDED"]
  /\ managerEth' = managerEth + bond
  /\ UNCHANGED <<receipts, economics, windows, registryVars, now>>

finalizeReceipt(id) ==
  /\ ~receipts[id].finalized
  /\ ~receipts[id].disputed
  /\ now > receipts[id].disputeDeadline
  /\ receipts' = [receipts EXCEPT ![id].finalized = TRUE]
  /\ verifiers' = [verifiers EXCEPT ![receipts[id].verifier] = recordReceiptResult(@, TRUE)]
  /\ UNCHANGED <<disputes, economics, windows, managerEth, settings, registryEth, wallet, now>>

M_BondsOf(dispute) == dispute.challengerBond

BondsOf(dispute) == dispute.challengerBond + dispute.verifierBond

\* The first writes of _resolve.
Resolved(id) ==
  /\ disputes' = [disputes EXCEPT ![id].status = "RESOLVED"]
  /\ receipts' = [receipts EXCEPT ![id].finalized = TRUE]

\* _resolve for the challenger.  The slashed stake is sent to this contract, which takes
\* no ETH: unless it rounds to zero the call reverts, and _resolve with it.
ResolveForChallenger(id, bps) ==
  /\ SlashedAmount(VerifierOf(id), bps) = 0
  /\ Resolved(id)
  /\ wallet' = [wallet EXCEPT ![disputes[id].challenger] = @ + BondsOf(disputes[id])]
  /\ verifiers' = [verifiers EXCEPT ![receipts[id].verifier] =
       recordDisputeResult(recordReceiptResult(AfterSlash(@, bps), FALSE), FALSE)]

ResolveForVerifier(id) ==
  /\ Resolved(id)
  /\ wallet' = [wallet EXCEPT ![receipts[id].verifier] = @ + BondsOf(disputes[id])]
  /\ verifiers' = [verifiers EXCEPT ![receipts[id].verifier] =
       recordDisputeResult(recordReceiptResult(@, TRUE), TRUE)]

\* The owner decides, at any time while the dispute is open.
resolveDispute(id, challengerWins) ==
  /\ disputes[id].status \in {"OPEN", "RESPONDED"}
  /\ ~receipts[id].finalized
  /\ IF challengerWins THEN ResolveForChallenger(id, economics.slashBpsIncorrect)
     ELSE ResolveForVerifier(id)
  /\ managerEth' = managerEth - BondsOf(disputes[id])
  /\ UNCHANGED <<economics, windows, settings, registryEth, now>>

finalizeExpiredDispute(id) ==
  /\ disputes[id].status = "OPEN"
  /\ now > disputes[id].responseDeadline
  /\ ~receipts[id].finalized
  /\ ResolveForChallenger(id, economics.slashBpsNoResponse)
  /\ managerEth' = managerEth - BondsOf(disputes[id])
  /\ UNCHANGED <<economics, windows, settings, registryEth, now>>

\* A receipt can still be challenged, or a dispute answered.
DeadlineAhead ==
  \E id \in Ids : \/ ~receipts[id].disputed /\ now <= receipts[id].disputeDeadline
                  \/ disputes[id].status = "OPEN" /\ now <= disputes[id].responseDeadline

\* Time bound: MaxTime, and then until the deadlines it left open have passed.
Tick ==
  /\ now < MaxTime \/ DeadlineAhead
  /\ now' = now + 1
  /\ UNCHANGED <<managerVars, registryVars, wallet>>

-----------------------------------------------------------------------------

ReceiptNext ==
  \/ \E newEconomics \in EconomicConfigs : setEconomicConfig(newEconomics)
  \/ \E newWindows \in Windows : setWindows(newWindows)
  \/ \E a \in Verifiers : submitReceipt(a)
  \/ \E id \in Ids :
       \/ \E a \in Accounts, bond \in Bonds : challengeReceipt(a, id, bond)
       \/ \E bond \in Bonds : respondToDispute(id, bond)
       \/ finalizeReceipt(id)
       \/ \E challengerWins \in BOOLEAN : resolveDispute(id, challengerWins)
       \/ finalizeExpiredDispute(id)
  \/ RegistryNext /\ UNCHANGED managerVars
  \/ Tick

ReceiptSpec == ReceiptInit /\ [][ReceiptNext]_allVars

\* Time passes, and anyone may call the two functions that wait for a deadline.
FairReceiptSpec ==
  /\ ReceiptSpec
  /\ WF_allVars(Tick)
  /\ \A id \in 1..MaxReceipts :
       /\ WF_allVars(id \in Ids /\ finalizeReceipt(id))
       /\ WF_allVars(id \in Ids /\ finalizeExpiredDispute(id))

-----------------------------------------------------------------------------

Receipt ==
  [verifier : Accounts, submittedAt : Nat, disputeDeadline : Nat, finalized : BOOLEAN,
   disputed : BOOLEAN]

Dispute ==
  [challenger : Accounts \union {NoAccount}, challengerBond : Nat, verifierBond : Nat,
   responseDeadline : Nat, status : {"NONE", "OPEN", "RESPONDED", "RESOLVED"}]

\* The variables keep their Solidity types, and each receipt has its dispute record.
ReceiptTypeOK ==
  /\ verifiers \in [Accounts -> Verifier]
  /\ wallet \in [Accounts -> Nat]
  /\ registryEth \in Nat
  /\ managerEth \in Nat
  /\ receipts \in Seq(Receipt)
  /\ disputes \in Seq(Dispute)
  /\ Len(disputes) = Len(receipts)
  /\ economics \in EconomicConfigs
  /\ authorizedCallers \subseteq Accounts

\* Both contracts hold what they owe: the registry the stakes, through registering again,
\* slashes and partial withdrawals; the manager the bonds of unresolved disputes, none
\* of them paid twice by the three functions that end a dispute.
FundsMatchClaims ==
  /\ registryEth = SumFunction([a \in Accounts |-> verifiers[a].stake])
  /\ managerEth = SumFunction([id \in Ids |->
       IF disputes[id].status \in {"OPEN", "RESPONDED"}
       THEN disputes[id].challengerBond + disputes[id].verifierBond ELSE 0])

\* Registration overwrites the stake (VerifierRegistry.sol:84): there is none to lose.
\* An ACTIVE verifier has the minimum stake whichever way it became active, and only the
\* owner's raising the minimum leaves it with less.
StatusMatchesStake ==
  \A a \in Accounts :
    /\ verifiers[a].status = "UNREGISTERED" => verifiers[a].stake = 0
    /\ "minStake" \notin changed /\ verifiers[a].status = "ACTIVE" => verifiers[a].stake >= minStake

\* The counters agree with the receipts: a receipt is counted once however it ends, a
\* dispute only when it is resolved (recordReceiptResult, recordDisputeResult).
CountersMatchReceipts ==
  \A a \in Accounts :
    LET of == {id \in Ids : receipts[id].verifier = a} IN
    /\ verifiers[a].jobsCompleted = Cardinality({id \in of : receipts[id].finalized})
    /\ verifiers[a].disputesWon + verifiers[a].disputesLost =
         Cardinality({id \in of : disputes[id].status = "RESOLVED"})

\* A final receipt stays as it is: it cannot be challenged, answered or resolved any more.
FinalReceiptsStay ==
  [][\A id \in Ids : receipts[id].finalized =>
       receipts'[id] = receipts[id] /\ disputes'[id] = disputes[id]]_allVars

\* withdrawStake pays a verifier out only when the withdrawDelay then in force has passed since
\* each receipt it ever submitted, whatever it did in between: leave, return by a deposit,
\* be slashed, leave again.
WithdrawalsCoolDown ==
  [][\A a \in Accounts, amount \in Values : withdrawStake(a, amount)
       => \A id \in Ids : receipts[id].verifier = a =>
            now >= receipts[id].submittedAt + withdrawDelay]_allVars

\* minReceiptInterval "enforces a minimum gap between receipt submissions"
\* (VERIFIER_LIFECYCLE.md:18).  Registering again after a full withdrawal starts without
\* a gap, so what holds, while the owner leaves both alone, is the interval or the
\* withdrawal delay, whichever is shorter.
ReceiptsAreSpaced ==
  LET gap == IF minReceiptInterval < withdrawDelay THEN minReceiptInterval ELSE withdrawDelay
  IN  \A i, j \in Ids : (i < j /\ receipts[i].verifier = receipts[j].verifier /\ "delays" \notin changed)
        => receipts[j].submittedAt >= receipts[i].submittedAt + gap

\* VERIFIER_LIFECYCLE.md:35: "If verifier does not respond in time: finalizeExpiredDispute":
\* a dispute nobody answered is resolved.  The slash cannot be paid to the manager.
UnansweredDisputesResolve ==
  \A id \in 1..MaxReceipts :
    (id \in Ids /\ disputes[id].status = "OPEN")
      ~> (id \in Ids /\ disputes[id].status # "OPEN")

\* The two contracts keep their books in order: ETH, stakes, statuses and counters agree,
\* though a dispute may end through three functions and a verifier leave and return.
ReceiptsAreSound ==
  /\ ReceiptTypeOK
  /\ FundsMatchClaims
  /\ StatusMatchesStake
  /\ CountersMatchReceipts
  /\ ReceiptsAreSpaced

\* No step reopens a final receipt or lets a verifier withdraw while one may be disputed.
ReceiptsKeepTheirTerms == FinalReceiptsStay /\ WithdrawalsCoolDown
=============================================================================
