---------------------------- MODULE ProviderFlows ----------------------------
(***************************************************************************)
(* The other providers' submissions: direct Arc deposits and USDCx         *)
(* withdrawals (src/src/bridge/providers/xreserve), Agglayer both ways     *)
(* (providers/agglayer), and Epoch both ways (providers/epoch), whose      *)
(* intents SDK drives the wallets itself.                                  *)
(***************************************************************************)
EXTENDS CctpDeposit

ArcDepositSteps ==
  <<"recipient", "network", "available", "approve", "account", "chain",
    "estimate", "fees", "account", "chain", "deposit", "done">>

(* An ERC-20 is approved and its gas estimated; ETH needs neither.         *)
AgglayerDepositSteps ==
  {<<"network", "account", "chain">> \o token \o
     <<"fees", "account", "chain", "deposit", "done">> :
   token \in {<<>>, <<"approve", "estimate">>}}

AgglayerSendSteps == <<"build", "request", "confirm", "done">>
WithdrawalSteps   == <<"fresh", "available", "request", "confirm", "done">>
CrossChainIntent  == <<"build", "request", "confirm", "allocate">>
EpochSendSteps    ==
  <<"available", "fresh">> \o CrossChainIntent \o <<"done">>
EpochReceiveSteps == <<"network", "connection", "fresh", "solve">>

----------------------------------------------------------------------------
(* Mutant: a fresh estimate is taken as it is.                             *)
TakesAnyFee(fee) == TRUE

(* A fresh estimate for the reviewed terms; the reviewed fee is a limit.   *)
WithinReviewed(fee) == fee <= Reviewed.quote.cost
FreshWithdrawalQuote ==
  /\ Step = "fresh" /\ route = "withdrawal"
  /\ \E fee \in WithdrawalFees(Request) :
       /\ WithinReviewed(fee)
       /\ Advance([job EXCEPT !.quote = [@ EXCEPT !.cost = fee]])
  /\ Still

(* The reviewed payout is the least that is asked of Epoch's solvers.      *)
ReviewedMinTokenOut == Reviewed.amount - Reviewed.quote.cost
FreshEpochQuote ==
  /\ Step = "fresh" /\ route \in {"epoch-in", "epoch-out"}
  /\ \E cost \in EpochShortfalls(Request, ReviewedMinTokenOut) :
       Advance([job EXCEPT !.quote = [@ EXCEPT !.cost = cost]])
  /\ Still

----------------------------------------------------------------------------
(* The Bread wallet accepts a note: its request is recorded before the     *)
(* wait for its confirmation, which brings the source transaction.         *)
RequestNote ==
  Step = "request" /\ Advance(Broadcast("submitted")) /\ Still

NoteConfirmed ==
  /\ Step = "confirm"
  /\ Advance([job EXCEPT !.receipt = "sourced"])
  /\ Still

----------------------------------------------------------------------------
(* Epoch receives: the connection is read again before the SDK may sign.   *)
EpochConnection ==
  /\ Step = "connection"
  /\ evm = Reviewed.evm
  /\ chain
  /\ Advance(job)
  /\ Still

(* The SDK submits in turn, after an approval or not, or as one batch when *)
(* the wallet can.                                                         *)
InTurn(approval) ==
  approval \o <<"epoch-deposit", "settle", "allocate", "done">>
InBatch == <<"batch", "bundle", "allocate", "done">>
Solve ==
  /\ Step = "solve"
  /\ \E plan \in {InBatch, InTurn(<<>>), InTurn(<<"epoch-approval">>)} :
       Continue(job, plan)
  /\ Still

(* An approval is no deposit: nothing is published for it.                 *)
ApprovalAccepted ==
  Step = "epoch-approval" /\ Advance(job) /\ Still

(* The SDK answers a wallet error by submitting once more.                 *)
Resubmit(j) == Continue([j EXCEPT !.retried = TRUE], InTurn(<<>>))
WalletError ==
  /\ Step \in {"epoch-approval", "epoch-deposit", "batch"}
  /\ ~job.retried
  /\ Resubmit(job)
  /\ Still

(* Mutant: what the callback throws reaches the SDK as a wallet error.      *)
RethrowsToSdk(j, threw) ==
  IF threw /\ ~j.retried THEN Resubmit(j) ELSE Advance(j)

(* A published deposit is recorded, once for a hash; what the callback     *)
(* throws stays with it, so that a broadcast never looks like an error.    *)
AfterPublish(j, threw) == Advance(j)
EpochDepositAccepted ==
  /\ Step = "epoch-deposit"
  /\ \E threw \in BOOLEAN : AfterPublish(Broadcast("sourced"), threw)
  /\ Still

(* A bundle has an identifier and no hash; its status may show the         *)
(* approval alone, and is asked again until it shows the deposit.          *)
BatchAccepted ==
  /\ Step = "batch"
  /\ Advance([job EXCEPT !.broadcast = @ + 1])
  /\ Still
BundleRegistered ==
  /\ Step = "bundle"
  /\ Advance([job EXCEPT !.receipt = "sourced"])
  /\ Still

(* The deposit confirms: the SDK reports the hash again.                   *)
DepositSettled ==
  /\ Step = "settle"
  /\ Advance([job EXCEPT !.receipt = "sourced"])
  /\ Still

(* The allocator accepts the intent and names it.                          *)
Allocated ==
  /\ Step = "allocate"
  /\ Advance([job EXCEPT !.receipt = "observed"])
  /\ Still

----------------------------------------------------------------------------
FlowSteps ==
  CASE route = "cctp"         -> {CctpDepositSteps}
    [] route = "arc"          -> {ArcDepositSteps}
    [] route = "agglayer-in"  -> AgglayerDepositSteps
    [] route = "agglayer-out" -> {AgglayerSendSteps}
    [] route = "withdrawal"   -> {WithdrawalSteps}
    [] route = "epoch-out"    -> {EpochSendSteps}
    [] route = "epoch-in"     -> {EpochReceiveSteps}

FlowStep ==
  \/ SharedStep
  \/ CctpStep
  \/ DepositBroadcast
  \/ FreshWithdrawalQuote
  \/ FreshEpochQuote
  \/ RequestNote
  \/ NoteConfirmed
  \/ EpochConnection
  \/ Solve
  \/ ApprovalAccepted
  \/ WalletError
  \/ EpochDepositAccepted
  \/ BatchAccepted
  \/ BundleRegistered
  \/ DepositSettled
  \/ Allocated
=============================================================================
