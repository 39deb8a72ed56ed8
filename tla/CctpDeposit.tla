----------------------------- MODULE CctpDeposit -----------------------------
(***************************************************************************)
(* A USDC deposit through Circle                                           *)
(* (src/src/bridge/providers/xreserve/cctp-deposit.ts, cctp-quote.ts and   *)
(* the API behind them, circle-api.server.ts).  A quote signed by Circle   *)
(* fixes the fee and dies within minutes; checking it, approving the token *)
(* and preparing the burn take about as long.                              *)
(***************************************************************************)
EXTENDS Quotes

Request == [amount |-> Reviewed.amount, evm |-> Reviewed.evm,
            miden |-> Reviewed.miden]

(* A quote authorizes one route, wallet pair and amount.                   *)
AssertCctpQuoteMatches(quote) == TermsOf(quote) = Request

(* The fee ceiling is the reviewed quote's.                                *)
VerifyAuthorization(quote) ==
  /\ AssertCctpQuoteMatches(quote)
  /\ quote.honest
  /\ quote.cost <= Reviewed.quote.cost

----------------------------------------------------------------------------
(* Circle's answers to a validation of a quote with `left` to live, and    *)
(* what the API makes of them: a quote that may be claimed, one that has   *)
(* expired and nothing else, and an error for everything else.             *)
Validation(left) ==
  [claimable: {left > 0}, expired: {left = 0}, left: {left},
   failed: IF left > 0 THEN {{}}
           ELSE {{"QUOTE_EXPIRED"}, {"QUOTE_EXPIRED", "OTHER"}}]
  \cup [claimable: {FALSE}, expired: {FALSE}, left: {left},
        failed: {{"OTHER"}}]

AssertValidationOutcome(v) ==
  \/ v.claimable /\ ~v.expired /\ v.failed = {}
  \/ ~v.claimable /\ v.expired /\ v.left = 0 /\ v.failed = {"QUOTE_EXPIRED"}

(* The answers that reach the policy: Circle looked at the quote some time *)
(* since it was asked.                                                     *)
Validations ==
  {v \in UNION {Validation(left) : left \in job.quote.left..job.asked} :
     AssertValidationOutcome(v)}

(* What is left of the quote's window, counted from before the request.    *)
Window(claimable, remaining) ==
  IF claimable /\ remaining > Headroom THEN remaining - Headroom ELSE 0

(* Mutant: counted from the answer.                                        *)
CountsFromAnswer(v) == Window(v.claimable, v.left)

SubmissionDeadline(v) ==
  Window(v.claimable, v.left - (job.asked - job.quote.left))
HasSubmissionWindow(window) == window > 0

----------------------------------------------------------------------------
RefreshSteps == <<"quote", "authorize", "window">>
BurnSteps    == <<"simulate", "fees", "prepare", "account", "burn">>

(* depositViaCctp, from its first await; the deposit ends it.              *)
CctpDepositSteps ==
  <<"recipient", "available", "network", "authorize", "validate", "approve",
    "account", "chain", "validate">> \o BurnSteps

(* A fresh quote for the same transfer, from the reviewed terms.           *)
FetchCctpQuote ==
  /\ Step = "quote"
  /\ \E quote \in [amount: Amount, evm: {Reviewed.evm}, miden: Miden,
                   cost: CctpFees(Request), honest: BOOLEAN,
                   left: CircleLifetime] :
       /\ AssertCctpQuoteMatches(quote)
       /\ Advance([job EXCEPT !.quote = quote])
  /\ Still

Authorize ==
  Step = "authorize" /\ VerifyAuthorization(job.quote) /\ Advance(job) /\ Still

(* reuseOrRefresh: keep the quote while it has a window.                   *)
ReuseOrRefresh ==
  /\ Step = "validate"
  /\ \E v \in Validations :
       IF HasSubmissionWindow(SubmissionDeadline(v)) THEN Advance(job)
       ELSE Continue(job, RefreshSteps \o Tail(job.todo))
  /\ Still

(* A fresh quote without a window ends the deposit.                        *)
RefreshedWindow ==
  /\ Step = "window"
  /\ \E v \in Validations : HasSubmissionWindow(SubmissionDeadline(v))
  /\ Advance(job)
  /\ Still

(* The simulation passes, or reverts because the quote has expired.        *)
Simulate ==
  /\ Step = "simulate"
  /\ \/ job.quote.left > 0 /\ Advance(job)
     \/ job.quote.left = 0
        /\ Continue(job, <<"expired">> \o SubSeq(job.todo, 4, Len(job.todo)))
  /\ Still

(* Fee latency precedes the last validity check.                           *)
PreparedBurn ==
  /\ Step = "prepare"
  /\ \E v \in Validations :
       Advance([job EXCEPT !.window = SubmissionDeadline(v)])
  /\ Still

(* An expired simulation is rebuilt only if Circle agrees it has expired.  *)
ExpiredBurn ==
  /\ Step = "expired"
  /\ \E v \in Validations : ~HasSubmissionWindow(SubmissionDeadline(v))
  /\ Advance([job EXCEPT !.window = 0])
  /\ Still

(* Mutant: the one retry is not remembered.                                *)
RetriesForever(ready) ==
  IF ready THEN Continue(job, <<"deposit", "done">>)
  ELSE Continue([job EXCEPT !.window = 0], RefreshSteps \o BurnSteps)

(* After the last wallet check the burn goes to the wallet, within its     *)
(* window; otherwise it is prepared once more with a fresh quote.          *)
BurnOrRetry(ready) ==
  IF ready THEN Continue([job EXCEPT !.window = 0], <<"deposit", "done">>)
  ELSE IF ~job.retried
    THEN Continue([job EXCEPT !.window = 0, !.retried = TRUE],
                  RefreshSteps \o BurnSteps)
    ELSE Fail
SubmitBurn ==
  /\ Step = "burn"
  /\ chain
  /\ BurnOrRetry(HasSubmissionWindow(job.window))
  /\ Still

CctpStep ==
  \/ FetchCctpQuote
  \/ Authorize
  \/ ReuseOrRefresh
  \/ RefreshedWindow
  \/ Simulate
  \/ PreparedBurn
  \/ ExpiredBurn
  \/ SubmitBurn
=============================================================================
