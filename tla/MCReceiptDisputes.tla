-------------------------- MODULE MCReceiptDisputes --------------------------
(* Small instances of ReceiptDisputeManager with VerifierRegistry.         *)
EXTENDS ReceiptDisputeManager

\* Half the stake for a wrong receipt, a quarter for no response: an odd stake rounds,
\* and the stake of one is not slashed at all.
Economics == {[challengeBond |-> 1, responseBond |-> 1, slashBpsIncorrect |-> 5000,
               slashBpsNoResponse |-> 2500]}

OneTick == [dispute |-> 0, response |-> 0]

\* The challenge window cannot be used up before the response window is over.
LongChallenge == {[dispute |-> 1, response |-> 0]}

Reputation == {[reward |-> 2, penalty |-> 1, win |-> 1, loss |-> 2]}
=============================================================================
