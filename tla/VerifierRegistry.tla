--------------------------- MODULE VerifierRegistry ---------------------------
(***************************************************************************)
(* Verifiers of receipts (contracts/VerifierRegistry.sol): registration    *)
(* with a stake, exit after a delay, the rate limit on receipts, the       *)
(* reputation counters and slashing by callers the owner authorised.       *)
(* Operators and metadata URIs are left out: nothing reads them.           *)
(***************************************************************************)
EXTENDS Integers, FiniteSets, Functions

CONSTANTS
  Accounts,
  Verifiers,          \* accounts that register in this instance
  Values,             \* amounts of ETH sent and withdrawn
  InitialWallet,      \* ETH of each account: bounds what is staked
  Callers,            \* accounts the owner authorises
  SlashBps,           \* fractions they slash
  MinStakes,          \* values the owner sets; the first parameters are below
  InitialMinStake,
  InitialWithdrawDelay,
  InitialMinReceiptInterval,
  Delays,             \* values of setWithdrawDelay and setMinReceiptInterval
  ReputationConfigs,  \* values of setReputationConfig, the constructor's included
  MaxTime

ASSUME RegistryAccounts ==
  IsFiniteSet(Accounts) /\ Verifiers \subseteq Accounts /\ Callers \subseteq Accounts

ASSUME RegistryAmounts ==
  /\ Values \subseteq Nat \ {0}
  /\ InitialWallet \in Nat /\ MinStakes \subseteq Nat /\ InitialMinStake \in Nat

ASSUME RegistrySettings ==
  /\ Delays \subseteq Nat /\ InitialWithdrawDelay \in Nat
  /\ InitialMinReceiptInterval \in Nat /\ MaxTime \in Nat

ASSUME RegistryShares ==
  /\ SlashBps \subseteq 0..10000
  /\ ReputationConfigs \subseteq [reward : Nat, penalty : Nat, win : Nat, loss : Nat]

Statuses == {"UNREGISTERED", "ACTIVE", "EXITING", "SLASHED"}

VARIABLES
  verifiers,
  minStake,
  withdrawDelay,
  minReceiptInterval,
  reputationConfig,
  authorizedCallers,  \* accounts, besides the dispute manager
  registryEth,
  wallet,
  changed,            \* history: which of minStake and delays the owner has changed
  now

settings == <<minStake, withdrawDelay, minReceiptInterval, reputationConfig, authorizedCallers,
              changed>>

registryVars == <<verifiers, settings, registryEth>>

NoVerifier ==
  [stake |-> 0, status |-> "UNREGISTERED", reputationScore |-> 0, jobsCompleted |-> 0,
   disputesWon |-> 0, disputesLost |-> 0, lastActiveAt |-> 0, exitRequestedAt |-> 0]

VerifierRegistryInit ==
  /\ verifiers = [a \in Accounts |-> NoVerifier]
  /\ minStake = InitialMinStake
  /\ withdrawDelay = InitialWithdrawDelay
  /\ minReceiptInterval = InitialMinReceiptInterval
  /\ reputationConfig \in ReputationConfigs
  /\ authorizedCallers = {}
  /\ registryEth = 0
  /\ wallet = [a \in Accounts |-> InitialWallet]
  /\ changed = {}
  /\ now = 0

-----------------------------------------------------------------------------
\* The verifier's own calls.

\* ETH that comes with a call of account a.
Pays(a, value) ==
  /\ wallet[a] >= value
  /\ wallet' = [wallet EXCEPT ![a] = @ - value]

\* The first receipt need not wait for the interval.
registerVerifier(a, value) ==
  /\ verifiers[a].status = "UNREGISTERED"
  /\ value >= minStake
  /\ Pays(a, value)
  /\ verifiers' = [verifiers EXCEPT ![a] =
       [@ EXCEPT !.stake = value, !.status = "ACTIVE",
                 !.lastActiveAt = IF minReceiptInterval > now THEN 0 ELSE now - minReceiptInterval]]
  /\ registryEth' = registryEth + value
  /\ UNCHANGED <<settings, now>>

\* Enough stake turns an exit back.
Deposited(v, value) ==
  LET returns == v.status = "EXITING" /\ v.stake + value >= minStake
  IN  [v EXCEPT !.stake = @ + value,
                !.status = IF returns THEN "ACTIVE" ELSE @,
                !.exitRequestedAt = IF returns THEN 0 ELSE @]

depositStake(a, value) ==
  /\ verifiers[a].status # "UNREGISTERED"
  /\ Pays(a, value)
  /\ verifiers' = [verifiers EXCEPT ![a] = Deposited(@, value)]
  /\ registryEth' = registryEth + value
  /\ UNCHANGED <<settings, now>>

Exiting(v) == [v EXCEPT !.status = "EXITING", !.exitRequestedAt = now]

requestExit(a) ==
  /\ verifiers[a].status = "ACTIVE"
  /\ verifiers' = [verifiers EXCEPT ![a] = Exiting(@)]
  /\ UNCHANGED <<settings, registryEth, wallet, now>>

M_CooledDown(v) == now >= withdrawDelay

CooledDown(v) == now >= v.exitRequestedAt + withdrawDelay

Withdrawn(v, amount) ==
  [v EXCEPT !.stake = @ - amount,
            !.status = IF v.stake = amount THEN "UNREGISTERED" ELSE @]

withdrawStake(a, amount) ==
  /\ verifiers[a].status = "EXITING"
  /\ CooledDown(verifiers[a])
  /\ amount <= verifiers[a].stake
  /\ verifiers' = [verifiers EXCEPT ![a] = Withdrawn(@, amount)]
  /\ registryEth' = registryEth - amount
  /\ wallet' = [wallet EXCEPT ![a] = @ + amount]
  /\ UNCHANGED <<settings, now>>

\* From any registered status, SLASHED included.
setActive(a, active) ==
  /\ verifiers[a].status # "UNREGISTERED"
  /\ active => verifiers[a].stake >= minStake
  /\ verifiers' = [verifiers EXCEPT ![a] =
       IF active THEN [@ EXCEPT !.status = "ACTIVE", !.exitRequestedAt = 0] ELSE Exiting(@)]
  /\ UNCHANGED <<settings, registryEth, wallet, now>>

-----------------------------------------------------------------------------
\* The owner's calls.

setAuthorizedCaller(caller, allowed) ==
  /\ authorizedCallers' = IF allowed THEN authorizedCallers \union {caller}
                          ELSE authorizedCallers \ {caller}
  /\ UNCHANGED <<verifiers, minStake, withdrawDelay, minReceiptInterval, reputationConfig,
                 registryEth, wallet, changed, now>>

setMinStake(amount) ==
  /\ minStake' = amount
  /\ changed' = changed \union {"minStake"}
  /\ UNCHANGED <<verifiers, withdrawDelay, minReceiptInterval, reputationConfig,
                 authorizedCallers, registryEth, wallet, now>>

setWithdrawDelay(delay) ==
  /\ withdrawDelay' = delay
  /\ changed' = changed \union {"delays"}
  /\ UNCHANGED <<verifiers, minStake, minReceiptInterval, reputationConfig,
                 authorizedCallers, registryEth, wallet, now>>

setMinReceiptInterval(interval) ==
  /\ minReceiptInterval' = interval
  /\ changed' = changed \union {"delays"}
  /\ UNCHANGED <<verifiers, minStake, withdrawDelay, reputationConfig,
                 authorizedCallers, registryEth, wallet, now>>

setReputationConfig(rc) ==
  /\ reputationConfig' = rc
  /\ UNCHANGED <<verifiers, minStake, withdrawDelay, minReceiptInterval,
                 authorizedCallers, registryEth, wallet, changed, now>>

-----------------------------------------------------------------------------
\* Calls of authorised contracts, as updates of one verifier's record.

canSubmitReceipt(v) == v.status = "ACTIVE" /\ now >= v.lastActiveAt + minReceiptInterval

\* Its guard, status ACTIVE, follows from canSubmitReceipt where it is called.
recordActivity(v) == [v EXCEPT !.lastActiveAt = now]

\* Reputation stops at zero.
Lowered(score, penalty) == IF score > penalty THEN score - penalty ELSE 0

recordReceiptResult(v, accurate) ==
  [v EXCEPT !.jobsCompleted = @ + 1,
            !.reputationScore = IF accurate THEN @ + reputationConfig.reward
                                ELSE Lowered(@, reputationConfig.penalty)]

recordDisputeResult(v, verifierWon) ==
  IF verifierWon
  THEN [v EXCEPT !.disputesWon = @ + 1, !.reputationScore = @ + reputationConfig.win]
  ELSE [v EXCEPT !.disputesLost = @ + 1,
                 !.reputationScore = Lowered(@, reputationConfig.loss)]

SlashedAmount(v, bps) == (v.stake * bps) \div 10000

\* Whoever falls below the minimum is SLASHED, whatever its status was.
AfterSlash(v, bps) ==
  LET left == v.stake - SlashedAmount(v, bps)
  IN  [v EXCEPT !.stake = left, !.status = IF left < minStake THEN "SLASHED" ELSE @]

\* slashVerifier by an authorised account, paid to an account.
slashVerifier(caller, a, bps, recipient) ==
  /\ caller \in authorizedCallers
  /\ verifiers' = [verifiers EXCEPT ![a] = AfterSlash(@, bps)]
  /\ registryEth' = registryEth - SlashedAmount(verifiers[a], bps)
  /\ wallet' = [wallet EXCEPT ![recipient] = @ + SlashedAmount(verifiers[a], bps)]
  /\ UNCHANGED <<settings, now>>

-----------------------------------------------------------------------------

VerifierCall ==
  \/ \E a \in Verifiers, value \in Values :
       registerVerifier(a, value) \/ depositStake(a, value) \/ withdrawStake(a, value)
  \/ \E a \in Verifiers : requestExit(a) \/ \E active \in BOOLEAN : setActive(a, active)

RegistryOwnerCall ==
  \/ \E caller \in Callers, allowed \in BOOLEAN : setAuthorizedCaller(caller, allowed)
  \/ \E amount \in MinStakes : setMinStake(amount)
  \/ \E delay \in Delays : setWithdrawDelay(delay) \/ setMinReceiptInterval(delay)
  \/ \E rc \in ReputationConfigs : setReputationConfig(rc)

RegistryNext ==
  \/ VerifierCall
  \/ RegistryOwnerCall
  \/ \E caller, recipient \in Callers, a \in Verifiers, bps \in SlashBps :
       slashVerifier(caller, a, bps, recipient)

Verifier ==
  [stake : Nat, status : Statuses, reputationScore : Nat, jobsCompleted : Nat,
   disputesWon : Nat, disputesLost : Nat, lastActiveAt : Nat, exitRequestedAt : Nat]
=============================================================================
