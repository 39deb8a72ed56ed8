--------------------------- MODULE BridgeSubmission ---------------------------
(***************************************************************************)
(* A transfer from the form to the wallet: quoting and review              *)
(* (src/src/app/components/bridge/use-bridge-transfer.ts, use-bridge-quote *)
(* and app/lib/provider-quotes.ts), the submission common to all providers *)
(* (app/lib/bridge-submission.ts), the balance limit it verifies           *)
(* (app/lib/use-balance-cap.ts), and the providers' flows.                 *)
(***************************************************************************)
EXTENDS ProviderFlows

Editing(error) == [status |-> "editing", review |-> None, error |-> error]

Init ==
  /\ route \in Route
  /\ draft \in Amount
  /\ evm \in Evm /\ miden \in Miden
  /\ chain = TRUE
  /\ held \in Holdings
  /\ changes = 0
  /\ offer = None
  /\ form = Editing("")
  /\ job = NoJob

----------------------------------------------------------------------------
(* What the user, the wallets and the chains do in the meantime.           *)
CountDown(time) == IF time > 0 THEN time - 1 ELSE 0
Older(quote) ==
  IF quote = None THEN None ELSE [quote EXCEPT !.left = CountDown(@)]
OlderReview(review) ==
  IF review = None THEN None ELSE [review EXCEPT !.quote = Older(@)]

Tick ==
  /\ offer' = Older(offer)
  /\ form' = [form EXCEPT !.review = OlderReview(@)]
  /\ job' = [job EXCEPT !.quote = Older(@), !.window = CountDown(@)]
  /\ UNCHANGED world

Change ==
  /\ changes < MaxChanges
  /\ changes' = changes + 1
  /\ \/ draft' \in (Amount \ {draft}) /\ form.status # "submitting"
        /\ UNCHANGED <<evm, chain, miden, held>>
     \/ evm' \in ((Evm \cup {None}) \ {evm})
        /\ UNCHANGED <<draft, chain, miden, held>>
     \/ chain' = ~chain /\ UNCHANGED <<draft, evm, miden, held>>
     \/ miden' \in ((Miden \cup {None}) \ {miden})
        /\ held' \in (IF miden' = None THEN {held} ELSE Holdings)
        /\ UNCHANGED <<draft, evm, chain>>
     \/ held' \in (Holdings \ {held}) /\ UNCHANGED <<draft, evm, chain, miden>>
  /\ UNCHANGED <<route, offer, form, job>>

----------------------------------------------------------------------------
(* The quote query follows the draft and the accounts; it is off while a   *)
(* review freezes them.  A failed refresh takes the offer away, and an     *)
(* answer read from the cache was issued earlier; an offer for an earlier  *)
(* request stays until then.                                               *)
RequiresQuote == route \notin {"arc", "agglayer-in", "agglayer-out"}
Issued == IF route = "cctp" THEN CircleLifetime ELSE {Lifetime}
Requested == [amount |-> draft, evm |-> evm, miden |-> miden]

QuoteAnswer ==
  /\ form.review = None
  /\ evm # None /\ miden # None
  /\ \/ \E quote \in [amount: {draft}, evm: {evm}, miden: {miden},
                      cost: QuoteCosts(Requested),
                      honest: IF route = "cctp" THEN BOOLEAN ELSE {TRUE},
                      left: UNION {0..life : life \in Issued}] :
          offer' = quote
     \/ offer' = None
  /\ UNCHANGED <<world, form, job>>

Live ==
  IF IsQuoteReviewable(offer) /\ TermsOf(offer) = Requested THEN offer
  ELSE None

----------------------------------------------------------------------------
(* The form.  A receive is blocked while the displayed balance exceeds the *)
(* limit, or is being checked.  The offer under review goes to the cache,  *)
(* from where a later query may answer with it.                            *)
CapBlocked == IF route \in Receives THEN BOOLEAN ELSE {FALSE}

OpenReview ==
  /\ form.status = "editing"
  /\ \E blocked \in CapBlocked :
       IF blocked \/ Live = None
       THEN form' = Editing("failed") /\ UNCHANGED offer
       ELSE /\ form' = [status |-> "reviewing", error |-> "",
                        review |-> [amount |-> draft, evm |-> evm,
                                    miden |-> miden, quote |-> Live]]
            /\ offer' = None
  /\ UNCHANGED <<world, job>>

CancelReview ==
  /\ form.status = "reviewing"
  /\ form' = Editing("")
  /\ UNCHANGED <<world, offer, job>>

(* The wallets as they are now sign; they must be the reviewed ones.       *)
WalletsChanged == Reviewed.evm # evm \/ Reviewed.miden # miden

(* An EVM wallet may be known by its address before its provider is; then  *)
(* the submission only opens it.                                           *)
Opening == IF route \in Receives THEN {<<"load">>, <<"open">>} ELSE {<<"load">>}

ConfirmReview ==
  /\ form.status = "reviewing"
  /\ \E blocked \in CapBlocked, opening \in Opening :
       IF blocked \/ WalletsChanged
       THEN form' = Editing("failed") /\ UNCHANGED job
       ELSE /\ form' = [form EXCEPT !.status = "submitting"]
            /\ job' = [NoJob EXCEPT !.todo = opening, !.evm = evm,
                                    !.miden = miden]
  /\ UNCHANGED <<world, offer>>

----------------------------------------------------------------------------
(* The submission itself.                                                  *)
OpenEvmWallet == Step = "open" /\ Succeed /\ Still

QuoteHolds == RequiresQuote => IsQuoteReviewable(Reviewed.quote)

(* Mutant: the quote is not checked again.                                 *)
StartsUnchecked ==
  \E steps \in FlowSteps : Continue([job EXCEPT !.quote = Reviewed.quote,
                                     !.read = None, !.priced = {}], steps)

(* The quote is bound to the submission when the provider is loaded, and   *)
(* checked again when the account and price reads are over.                *)
StartFlow ==
  IF QuoteHolds
  THEN \E steps \in FlowSteps :
         Continue([job EXCEPT !.quote = Reviewed.quote, !.read = None,
                              !.priced = {}], steps)
  ELSE Fail

ProviderLoaded ==
  /\ Step = "load"
  /\ IF RequiresQuote =>
          QuoteHolds /\ TermsOf(Reviewed.quote) = [amount |-> Reviewed.amount,
                         evm |-> Reviewed.evm, miden |-> Reviewed.miden]
     THEN IF route \in Receives
          THEN Continue(job, <<"balances", "prices", "verdict">>)
          ELSE StartFlow
     ELSE Fail
  /\ Still

(* verifyBalanceCap: fresh balances, a price for each, the balances again. *)
FreshBalances ==
  /\ Step = "balances"
  /\ miden = Reviewed.miden
  /\ Advance([job EXCEPT !.read = held])
  /\ Still

FreshPrices ==
  /\ Step = "prices"
  /\ \E priced \in SUBSET PriceSymbols(job.read) :
       Advance([job EXCEPT !.priced = priced])
  /\ Still

(* Mutant: the limit is judged by the balances read first.                 *)
JudgesFirstRead ==
  EvaluateBalanceCap(Reviewed.amount, job.read, job.priced) = "allowed"

(* The prices still cover the holdings, and the deposit fits.              *)
Allowed ==
  /\ PriceSymbols(held) \subseteq PriceSymbols(job.read)
  /\ EvaluateBalanceCap(Reviewed.amount, held, job.priced) = "allowed"

Verdict ==
  /\ Step = "verdict"
  /\ miden = Reviewed.miden
  /\ Allowed
  /\ StartFlow
  /\ Still

----------------------------------------------------------------------------
SubmissionStep ==
  \/ OpenEvmWallet
  \/ ProviderLoaded
  \/ FreshBalances
  \/ FreshPrices
  \/ Verdict
  \/ FlowStep

FormStep == OpenReview \/ CancelReview \/ ConfirmReview

Next ==
  \/ Tick
  \/ Change
  \/ QuoteAnswer
  \/ FormStep
  \/ SubmissionStep

(* The network answers or its request times out; a user may never answer   *)
(* a wallet, and a chain may never confirm.                                *)
OnUser == {"open", "network", "approve", "deposit", "request",
           "epoch-approval", "epoch-deposit", "batch"}
OnChain == {"confirm", "settle", "bundle"}
Answer == Step \notin OnUser \cup OnChain /\ SubmissionStep

Spec == Init /\ [][Next]_vars
FairSpec == Spec /\ WF_vars(Answer)

----------------------------------------------------------------------------
(* Values have their types, and a submission runs while the form shows it. *)
TypeOK ==
  /\ route \in Route /\ draft \in Amount
  /\ evm \in Evm \cup {None} /\ miden \in Miden \cup {None}
  /\ chain \in BOOLEAN /\ held \in Holdings
  /\ changes \in 0..MaxChanges
  /\ offer \in Quote \cup {None}
  /\ form.status \in {"editing", "reviewing", "submitting"}
  /\ form.error \in {"", "failed", "submitted"}
  /\ (form.review = None) = (form.status = "editing")
  /\ (job.todo # <<>>) = (form.status = "submitting")
  /\ job.receipt \in {"none", "submitted", "sourced", "observed"}

(* A review makes at most one transfer: the wallet accepts one source      *)
(* transaction, a receipt is kept from the moment the page can name it,    *)
(* and none without it (bridge-submission.ts:103, deposit-tracking.ts).    *)
ReceiptPerBroadcast ==
  /\ job.broadcast <= 1
  /\ Recorded => job.broadcast = 1
  /\ job.broadcast = 1 => Recorded \/ Step = "bundle"

(* A deposit that passes the limit fits under it by exact arithmetic, in   *)
(* the finest unit of the prices and the limit, with the balances of that  *)
(* moment; only a holding whose price was refused is left out              *)
(* (use-balance-cap.ts:40).                                                *)
Finest == Max({TokenScale + Price[s].scale : s \in Symbol} \cup {CapUsd.scale})
ExactUsd(d) == d.units * Pow10[Finest - d.scale]
PricedUsd ==
  MapThenSumSet(LAMBDA s : ExactUsd(Worth(s, held[s])),
                {s \in job.priced : held[s] > 0})
CapHolds ==
  [][Step = "verdict" /\ Step' \notin {"none", "verdict"} =>
       /\ \A s \in Symbol : held[s] > 0 => s \in PriceSymbols(job.read)
       /\ ExactUsd(Worth(Deposited, Reviewed.amount)) + PricedUsd
            <= ExactUsd(CapUsd)]_vars

(* A provider that needs a quote starts on one that is still valid, however*)
(* long the balance and price reads took (bridge-submission.ts:95).        *)
StartsOnLiveQuote ==
  [][job.quote = None /\ job'.quote # None
        /\ route \in {"epoch-in", "epoch-out", "withdrawal"} =>
       Reviewed.quote.left > 0]_vars

(* What a wallet is asked to sign is the reviewed transfer: its accounts,  *)
(* its amount, no worse than its fee or payout, and on the source chain    *)
(* where the flow checks the wallet itself (use-bridge-transfer.ts:86,     *)
(* cctp-quote.ts:75, xreserve/flows.ts:113, epoch-execute.ts:119).         *)
Prompts == {"deposit", "request", "epoch-deposit", "batch"}
Asked ==
  IF route = "cctp" THEN TermsOf(job.quote)
  ELSE [amount |-> Reviewed.amount, evm |-> job.evm, miden |-> job.miden]
Prompted == job'.todo # job.todo /\ Step' \in Prompts
SignsReviewed ==
  [][Prompted =>
       /\ Asked' = Request
       /\ job'.quote.cost <= Reviewed.quote.cost
       /\ job'.quote.honest
       /\ (Step' = "deposit" => chain)]_vars

(* A burn reaches the wallet with more than Circle's 30 s left on the      *)
(* quote it carries (cctp-quote.ts:92, cctp-deposit.ts:47).                *)
BurnsInWindow ==
  [][Prompted /\ route = "cctp" =>
       job'.quote.left > Headroom]_vars

(* A submission that ends in an error after a broadcast the page knows of  *)
(* says not to submit again (bridge-submission.ts:112).                    *)
WarnsOnceBroadcast ==
  [][job.broadcast > 0 /\ Step # "bundle" /\ job'.todo = <<>> =>
       form'.error # "failed"]_vars

(* A submission ends, or waits for the user or for a chain: quotes that    *)
(* keep expiring do not keep it going (bridge-submission.ts:119,           *)
(* cctp-deposit.ts:49).                                                    *)
SubmissionEnds ==
  form.status = "submitting" ~>
    form.status # "submitting" \/ Step \in OnUser \cup OnChain
=============================================================================
