-------------------------------- MODULE Quotes --------------------------------
(***************************************************************************)
(* What a quote may say (src/src/bridge/quotes.ts and the providers'       *)
(* quotes): a service's answer is taken only if it is for the transfer     *)
(* asked about and its numbers agree.  The answers here are about another  *)
(* route, account, amount or token, or do not add up.                      *)
(***************************************************************************)
EXTENDS SubmissionJob

Subject == {"asked", "other"}

(* Circle signs a fee for an amount of the source chain's token.           *)
CctpReplies == [amount: Amount, token: Subject, fee: Cost]
CctpFees(request) ==
  {r.fee : r \in {s \in CctpReplies :
                    s.amount = request.amount /\ s.token = "asked"}}

(* The payout of a withdrawal is what is burned less the fee.              *)
WithdrawalReplies(request) ==
  [payout: Subject, account: Subject, fee: Cost,
   received: {0, request.amount} \cup {request.amount - fee : fee \in Cost}]
AssertPayoutBindings(reply) == reply.payout = "asked"
AssertMidenBindings(reply)  == reply.account = "asked"
AssertWithdrawalAmounts(amount, reply) ==
  reply.received > 0 /\ reply.received + reply.fee = amount
WithdrawalFees(request) ==
  {r.fee : r \in {s \in WithdrawalReplies(request) :
     /\ AssertPayoutBindings(s)
     /\ AssertMidenBindings(s)
     /\ AssertWithdrawalAmounts(request.amount, s)}}

(* Epoch's solvers offer a payout, perhaps none.                           *)
TokenOut(request) == {0} \cup {request.amount - cost : cost \in Cost}
RequireEstimate(out, minTokenOut) == out > 0 /\ out >= minTokenOut
EpochShortfalls(request, minTokenOut) ==
  {request.amount - out : out \in {o \in TokenOut(request) :
                                     RequireEstimate(o, minTokenOut)}}

(* The other deposits and sends bring the same amount.                     *)
NoFee == {CHOOSE cost \in Cost : \A other \in Cost : cost <= other}

QuoteCosts(request) ==
  CASE route = "cctp"                      -> CctpFees(request)
    [] route = "withdrawal"                -> WithdrawalFees(request)
    [] route \in {"epoch-in", "epoch-out"} -> EpochShortfalls(request, 0)
    [] OTHER                               -> NoFee
=============================================================================
