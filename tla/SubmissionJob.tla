---------------------------- MODULE SubmissionJob ----------------------------
(***************************************************************************)
(* A submission under way: the state the providers' flows share, the world *)
(* around them, and the steps common to several.  Time is what a quote has *)
(* left, counted down.                                                     *)
(*                                                                         *)
(* An async function is the sequence of awaits it still has before it      *)
(* (job.todo); what runs between two awaits is one step.  An await that    *)
(* rejects ends the submission.  A callee's awaits are put in front.       *)
(***************************************************************************)
EXTENDS Sequences, BalanceCap

CONSTANTS
  Evm, Miden,       \* the accounts of the two wallets
  None,
  Amount,           \* the amounts a transfer may be of
  Holdings,         \* the Miden balances there may be
  Cost,             \* what a quote takes: a fee, or what a payout falls short
  Lifetime,         \* the 60 s of a quote without an authorization
  CircleLifetime,   \* how long Circle lets a quote live
  Headroom,         \* the 30 s Circle wants left at the burn
  MaxChanges        \* bound on what the user and the chains change meanwhile

ASSUME TimeAssumption ==
  /\ {Lifetime, Headroom, MaxChanges} \subseteq Nat
  /\ CircleLifetime \subseteq Nat

Receives == {"cctp", "arc", "agglayer-in", "epoch-in"}
Sends    == {"withdrawal", "agglayer-out", "epoch-out"}
Route    == Receives \cup Sends

VARIABLES
  route,            \* the route of the form
  draft,            \* the amount typed
  evm, chain,       \* the EVM wallet: its account, whether on the source chain
  miden,            \* the account of the Bread wallet
  held,             \* the balances of that account
  changes,
  offer,            \* the quote on display, for the request or an earlier one
  form,             \* the form: editing, reviewing or submitting
  job               \* the submission

world == <<route, draft, evm, chain, miden, held, changes>>
vars == <<world, offer, form, job>>

(* A quote is for a transfer.  `honest`: the fee Circle signed is the fee  *)
(* it quoted.                                                              *)
Quote == [amount: Amount, evm: Evm, miden: Miden, cost: Cost,
          honest: BOOLEAN, left: Nat]
TermsOf(quote) ==
  [amount |-> quote.amount, evm |-> quote.evm, miden |-> quote.miden]
Review == [amount: Amount, evm: Evm, miden: Miden, quote: Quote]

ASSUME NoneAssumption == None \notin Quote \cup Review
ASSUME CostAssumption ==
  /\ Amount \cup Cost \subseteq Nat
  /\ \E cost \in Cost : \A other \in Cost : cost <= other

ASSUME HoldingsAssumption == Holdings \subseteq [Symbol -> Nat]

NoJob == [todo |-> <<>>, evm |-> None, miden |-> None, quote |-> None,
          asked |-> 0, window |-> 0, retried |-> FALSE, read |-> None,
          priced |-> {}, broadcast |-> 0, receipt |-> "none"]

Reviewed == form.review
Step     == IF job.todo = <<>> THEN "none" ELSE Head(job.todo)
Recorded == job.receipt # "none"

----------------------------------------------------------------------------
(* Whether a quote may be reviewed or submitted: by its own deadline, or   *)
(* always when the provider's authorization is checked at submission.      *)
IsQuoteReviewable(quote) ==
  quote # None /\ (route = "cctp" \/ quote.left > 0)

(* Go on with the awaits `todo`.  A validation notes what its quote has    *)
(* left as it is asked for.                                                *)
Validating == {"validate", "window", "prepare", "expired"}
Continue(j, todo) ==
  /\ job' = [j EXCEPT
       !.todo = todo,
       !.asked = IF todo # <<>> /\ Head(todo) \in Validating
                 THEN j.quote.left ELSE 0]
  /\ UNCHANGED form

Advance(j) == Continue(j, Tail(j.todo))

(* Mutant: only a receipt with its source transaction counts.              *)
KnowsItsSource == IF job.receipt = "sourced" THEN "submitted" ELSE "failed"

(* An error leaves the form open for editing; with a receipt on record it  *)
(* asks not to submit again.                                               *)
ErrorText == IF Recorded THEN "submitted" ELSE "failed"

(* Mutant: the review is not cleared.                                      *)
KeepsReview(error) ==
  /\ form' = [form EXCEPT !.status = "editing", !.error = error]
  /\ job' = NoJob

Ended(error) ==
  /\ form' = [status |-> "editing", review |-> None, error |-> error]
  /\ job' = NoJob
Fail    == Ended(ErrorText)
Succeed == Ended("")

(* The wallet accepted a source transaction; `receipt` is what is recorded *)
(* of it.                                                                  *)
Broadcast(receipt) == [job EXCEPT !.broadcast = @ + 1, !.receipt = receipt]

----------------------------------------------------------------------------
(* Awaits that only succeed or reject: an SDK import or a provider's       *)
(* module, a contract read, a gas estimate, the token approval             *)
(* (TokenApproval), building a note.                                       *)
Still == UNCHANGED <<world, offer>>

Plain == {"recipient", "available", "approve", "estimate", "build"}
PlainAnswer == Step \in Plain /\ Advance(job) /\ Still

(* A fee suggestion that cannot be read is left out, never an error.       *)
SuggestEvmFees == Step = "fees" /\ Advance(job) /\ Still

(* The wallet is asked to change to the source network, if it must.        *)
EnsureEvmNetwork ==
  /\ Step = "network"
  /\ chain' = TRUE
  /\ Advance(job)
  /\ UNCHANGED <<route, draft, evm, miden, held, changes, offer>>

(* The two reads of assertWallet: the account, then the chain.             *)
AssertAccount == Step = "account" /\ evm = job.evm /\ Advance(job) /\ Still
AssertChain   == Step = "chain" /\ chain /\ Advance(job) /\ Still

(* The wallet accepts an EVM deposit, and the flow records its hash.       *)
DepositBroadcast ==
  /\ Step = "deposit"
  /\ Advance(Broadcast("sourced"))
  /\ Still

(* The flow has returned: the form is released.                            *)
Finish == Step = "done" /\ Succeed /\ Still

(* An await rejects: the network, a check that fails, the user declining.  *)
Rejected ==
  /\ Step \notin {"none", "open", "fees", "prices", "done"}
  /\ Fail
  /\ Still

SharedStep ==
  \/ PlainAnswer
  \/ SuggestEvmFees
  \/ EnsureEvmNetwork
  \/ AssertAccount
  \/ AssertChain
  \/ Finish
  \/ Rejected
=============================================================================
