-------------------------- MODULE ActivityTracking --------------------------
(***************************************************************************)
(* Transfers from the wallet's acceptance to their outcome: the chains,    *)
(* the page that submits (bridge-submission.ts and the providers' flows),  *)
(* the polls of every open receipt page (use-activity-tracking.ts,         *)
(* tracking.ts, the monitors), and the receipt store between them.         *)
(*                                                                         *)
(* An observation is three moments: the poll takes a snapshot of the       *)
(* receipt, some service answers, the answer is merged into the receipt    *)
(* the tab holds by then.  Services lag: an answer may report any stage    *)
(* the transfer has passed.  Submissions run in the page that started      *)
(* them and die with it.                                                   *)
(***************************************************************************)
EXTENDS ActivityStore

VARIABLES
  transfer,    \* transfer[r]: the stage the chains have brought r to
  submission,  \* submission[r]: the page submitting r, and how far it is
  poll         \* poll[t]: the snapshot tab t is asking about

vars == <<stored, memory, transfer, submission, poll>>

InFlight == <<"accepted", "mined", "observed", "claimable", "delivered">>
Stage == {"accepted", "mined", "observed", "claimable", "delivered",
          "rejected", "undeliverable"}
Rejections == {"rejected", "undeliverable"}
Final == Rejections \cup {"delivered"}

(* Every flow first records a transfer whose source the wallet accepted,   *)
(* with no outcome, no delivery and no interruption: the records of        *)
(* agglayer/flows.ts, epoch/flows.ts and xreserve/flows.ts.                *)
ASSUME FirstRecordAssumption ==
  \A r \in Receipt : \A a \in Opening[r] :
    /\ a["status"] \notin Settled
    /\ ~Known(a, "failureLeg") /\ ~Known(a, "destinationTxHash")
    /\ a["epochRecoveryRequired"] # "yes"
    /\ a["xreserveStatus"] \in {None, "submitted"}
    /\ a["xreserveBurnStatus"] # "discarded"

ASSUME NoneAssumption == None \notin Receipt

Unsubmitted == [tab |-> None, stage |-> None]
Idle == [receipt |-> None, snapshot |-> Absent]

Init ==
  /\ StoreInit
  /\ transfer   = [r \in Receipt |-> None]
  /\ submission = [r \in Receipt |-> Unsubmitted]
  /\ poll       = [t \in Tab |-> Idle]

Submitting(t, r) ==
  submission[r].tab = t /\ submission[r].stage \in {"running", "confirmed"}

DirectionOf(t, r) == memory[t][r].activity["direction"]

Reports(fields) ==
  [f \in Field |-> IF f \in DOMAIN fields THEN fields[f] ELSE None]

-----------------------------------------------------------------------------
(* The chains.  An Epoch intent is allocated by the submitting page        *)
(* itself, once its deposit is final.                                      *)
Course(d, stage) ==
  CASE stage = "accepted"  -> {"mined", "rejected"}
    [] stage = "mined"     -> {"observed"}
    [] stage = "observed"  -> IF d = "agglayer-send" THEN {"claimable"}
                              ELSE IF d \in Epoch
                                   THEN {"delivered", "undeliverable"}
                                   ELSE {"delivered"}
    [] stage = "claimable" -> {"delivered"}
    [] OTHER               -> {}

(* What a service may report of a transfer at this stage.                  *)
Passed(d, stage) ==
  LET before == CASE stage = None            -> {}
                  [] stage = "rejected"      -> {"accepted"}
                  [] stage = "undeliverable" -> {"accepted", "mined", "observed"}
                  [] OTHER -> {InFlight[i] : i \in
                                 {j \in 1..5 : \E k \in 1..5 :
                                    InFlight[k] = stage /\ j < k}}
  IN  {stage} \cup (IF d = "agglayer-send" THEN before
                    ELSE before \ {"claimable"})

IsMined(stage) == stage \notin {None, "accepted", "rejected"}

(* The direction a receipt was opened with, wherever it is held.           *)
OpenedAs(r) ==
  IF Present(stored[r]) THEN stored[r]["direction"]
  ELSE LET holders == {t \in Tab : Present(memory[t][r].activity)}
       IN  IF holders = {} THEN None
           ELSE DirectionOf(CHOOSE t \in holders : TRUE, r)

ChainStep(r) ==
  \E stage \in Course(OpenedAs(r), transfer[r]) :
    /\ (OpenedAs(r) \in Epoch /\ stage = "observed") =>
         IF OpenedAs(r) = "epoch-send"
         THEN submission[r].stage = "confirmed"
         ELSE submission[r].stage = "running"
    /\ transfer' = [transfer EXCEPT ![r] = stage]
    /\ UNCHANGED <<stored, memory, submission, poll>>

-----------------------------------------------------------------------------
(* The submitting page.                                                    *)
Continues(d) == d \notin {"agglayer-receive", "xreserve-receive"}

(* The wallet accepts and the flow records the receipt in one turn.        *)
Submit(t, r, a, now) ==
  /\ submission[r] = Unsubmitted
  /\ Record(t, r, a, now)
  /\ transfer' = [transfer EXCEPT ![r] = "accepted"]
  /\ submission' = [submission EXCEPT ![r] =
       [tab |-> t, stage |-> IF Continues(a["direction"]) THEN "running"
                             ELSE "done"]]
  /\ UNCHANGED poll

Reported(t, r, patch, stage, now) ==
  /\ ApplyPatch(t, r, patch, now)
  /\ submission' = [submission EXCEPT ![r].stage = stage]
  /\ UNCHANGED <<transfer, poll>>

(* waitForTransaction resolves: a withdrawal learns its Miden transaction. *)
Confirm(t, r, now) ==
  /\ Submitting(t, r) /\ submission[r].stage = "running"
  /\ IsMined(transfer[r])
  /\ \/ /\ DirectionOf(t, r) \in {"agglayer-send", "xreserve-send"}
        /\ Reported(t, r, Reports([sourceTxHash |-> "known"]), "done", now)
     \/ /\ DirectionOf(t, r) = "epoch-send"
        /\ Reported(t, r, Reports([status |-> "source_finality",
                                   sourceTxHash |-> "known"]),
                    "confirmed", now)

(* The Epoch SDK reports the broadcast deposit a second time.              *)
Rebroadcast(t, r, now) ==
  /\ Submitting(t, r)
  /\ DirectionOf(t, r) = "epoch-receive"
  /\ Reported(t, r, Reports([status |-> "source_finality",
                             sourceTxHash |-> "known"]), "running", now)

(* runEpochTransfer resolves with the nonce of the allocated intent.       *)
Allocate(t, r, now) ==
  /\ Submitting(t, r)
  /\ DirectionOf(t, r) \in Epoch
  /\ transfer[r] \in {"observed", "delivered", "undeliverable"}
  /\ Reported(t, r, Reports([status |-> "message_observed",
                             sourceTxHash |-> "known",
                             epochIntentNonce |-> "known",
                             epochRecoveryRequired |-> "no"]),
              "done", now)

(* The submission throws after the receipt: only Epoch updates it.         *)
Interrupt(t, r, now) ==
  /\ Submitting(t, r)
  /\ \/ /\ DirectionOf(t, r) = "epoch-send"
        /\ Reported(t, r, Reports([epochRecoveryRequired |-> "yes"]),
                    "lost", now)
     \/ /\ DirectionOf(t, r) = "epoch-receive"
        /\ Reported(t, r, Absent, "lost", now)
     \/ /\ DirectionOf(t, r) \in {"agglayer-send", "xreserve-send"}
        /\ submission' = [submission EXCEPT ![r].stage = "lost"]
        /\ UNCHANGED <<stored, memory, transfer, poll>>

ReloadPage(t) ==
  /\ Reload(t)
  /\ submission' = [r \in Receipt |->
       IF Submitting(t, r) THEN [submission[r] EXCEPT !.stage = "lost"]
       ELSE submission[r]]
  /\ poll' = [poll EXCEPT ![t] = Idle]
  /\ UNCHANGED transfer

SyncPage(t, now) ==
  Sync(t, now) /\ UNCHANGED <<transfer, submission, poll>>

-----------------------------------------------------------------------------
(* canPoll of each monitor.                                                *)

(* Mutant: a withdrawal that is ready to claim is no longer polled.        *)
CanPollUntilClaimable(a) ==
  /\ Present(a)
  /\ a["status"] \notin Settled \cup {"claim_available"}

(* Mutant: a confirmed Epoch deposit is no longer polled, nonce or not.    *)
CanPollUntilDeposited(a) ==
  /\ Present(a)
  /\ a["status"] \notin Settled
  /\ a["direction"] = "epoch-receive" => ~Known(a, "epochDepositConfirmed")

CanPoll(a) ==
  CASE a["direction"] = "agglayer-receive" ->
         /\ a["status"] # "failed"
         /\ a["status"] = "complete" => ~Known(a, "destinationTxHash")
    [] a["direction"] = "epoch-receive" ->
         /\ a["status"] \notin Settled
         /\ ~Known(a, "epochIntentNonce") => ~Known(a, "epochDepositConfirmed")
    [] a["direction"] = "xreserve-send" -> FALSE
    [] OTHER -> Present(a) /\ a["status"] \notin Settled

SourceFailed == Reports([status |-> "failed", failureLeg |-> "source"])
AtSource     == Reports([status |-> "source_finality"])

(* The source transaction and the deposit index are read independently; a  *)
(* deposit is delivered when it is ready, its claim hash may come later.   *)
AgglayerReceiveAnswers(seen) ==
  CASE seen = "rejected" -> {SourceFailed, Absent}
    [] seen \in {"accepted", "mined"} -> {AtSource, Absent}
    [] seen = "observed" ->
         {AtSource, Reports([status |-> "message_observed"])}
    [] OTHER ->
         {AtSource, Reports([status |-> "complete"]),
          Reports([status |-> "complete", destinationTxHash |-> "known"])}

(* A withdrawal is matched by its exit hashes, recovered from its own      *)
(* Miden transaction, and delivered only once claimed.                     *)
(* Mutant: ready to claim counts as delivered, as it does on a deposit.    *)
AgglayerSendReady(a, seen) ==
  IF Known(a, "sourceTxHash") /\ IsMined(seen)
  THEN {Reports([agglayerExitHashes |-> "known",
                 status |-> IF seen \in {"claimable", "delivered"}
                            THEN "complete" ELSE "source_finality"])}
  ELSE {Absent}

(* Mutant: a withdrawal is matched by its destination address alone.       *)
AgglayerSendByAddress(a, seen) ==
  IF seen = "delivered"
  THEN {Reports([status |-> "complete", destinationTxHash |-> "known"])}
  ELSE {Absent}

AgglayerSendAnswers(a, seen) ==
  IF ~Known(a, "agglayerExitHashes")
     /\ (~Known(a, "sourceTxHash") \/ ~IsMined(seen))
  THEN {Absent}
  ELSE LET found(fields) == {[Reports(fields) EXCEPT
                               !["agglayerExitHashes"] = "known"]}
       IN CASE seen = "observed"  -> found([status |-> "message_observed"])
            [] seen = "claimable" -> found([status |-> "claim_available"])
            [] seen = "delivered" ->
                 found([status |-> "complete", destinationTxHash |-> "known"])
            [] OTHER -> found(<<>>)

(* The rows of the intent; the destination row may show its hash early.    *)
IntentAnswers(seen) ==
  CASE seen = "observed" ->
         {Reports([status |-> "message_observed"]),
          Reports([status |-> "message_observed",
                   destinationTxHash |-> "known"])}
    [] seen = "delivered" ->
         {Reports([status |-> "complete", destinationTxHash |-> "known"])}
    [] seen = "undeliverable" ->
         {Reports([status |-> "failed", failureLeg |-> "destination"])}
    [] OTHER -> {AtSource}

(* Mutant: the monitor does not ask whether the submission is running.     *)
EpochSendRecovers(t, r, a, seen) ==
  IF Known(a, "epochIntentNonce") THEN IntentAnswers(seen)
  ELSE {Reports([epochRecoveryRequired |-> "yes"])}

(* Mutant: a withdrawal stays pending when its page has gone.              *)
EpochSendWaits(t, r, a, seen) ==
  IF Known(a, "epochIntentNonce") THEN IntentAnswers(seen) ELSE {Absent}

EpochSendAnswers(t, r, a, seen) ==
  LET recovery(block) == Reports([epochRecoveryRequired |-> "yes",
                                  epochMidenBlock |-> block])
  IN  IF Known(a, "epochIntentNonce") THEN IntentAnswers(seen)
      ELSE IF Submitting(t, r) THEN {Absent}
      ELSE {recovery(None)} \cup
           (IF /\ ~Known(a, "epochMidenBlock") /\ ~Known(a, "sourceTxHash")
               /\ IsMined(seen)
            THEN {recovery("known")} ELSE {})

EpochReceiveAnswers(a, seen) ==
  IF Known(a, "epochIntentNonce") THEN IntentAnswers(seen)
  ELSE CASE seen = "rejected" -> {SourceFailed}
         [] seen = "accepted" -> {Absent}
         [] OTHER -> {Reports([epochDepositConfirmed |-> "yes"])}

(* A terminal state cannot regress, and attestation alone is not delivery. *)
(* The Miden note of a deposit, shown with its delivery, is left out.      *)
XreserveStages == <<"submitted", "confirmed", "attested">>
XreserveProgress(a, observed, fields) ==
  LET index(s) == CHOOSE i \in 0..3 :
                    \/ i # 0 /\ XreserveStages[i] = s
                    \/ i = 0 /\ \A k \in 1..3 : XreserveStages[k] # s
      later == IF index(a["xreserveStatus"]) > index(observed)
               THEN a["xreserveStatus"] ELSE observed
  IN  [Reports(fields) EXCEPT
        !["xreserveStatus"] = later,
        !["status"] = IF later = "attested" THEN "message_observed"
                      ELSE "source_finality"]

XreserveReceiveAnswers(a, seen, now) ==
  LET attested == XreserveProgress(a, "attested", <<>>)
      delivered ==
        Reports([xreserveStatus |-> "delivered", status |-> "complete",
                 destinationTxAt |-> IF Known(a, "destinationTxAt")
                                     THEN a["destinationTxAt"] ELSE now])
  IN CASE seen = "rejected" ->
            {Reports([status |-> "failed", xreserveStatus |-> "reverted"])}
       [] seen = "accepted" -> {XreserveProgress(a, "submitted", <<>>)}
       [] seen = "mined" ->
            {XreserveProgress(a, "submitted", [xreserveForwarding |-> "yes"]),
             XreserveProgress(a, "confirmed", [xreserveForwarding |-> "no"])}
       [] seen = "observed" -> {attested}
       [] OTHER -> {attested, delivered}

Answers(t, r, a, seen, now) ==
  CASE a["direction"] = "agglayer-receive" -> AgglayerReceiveAnswers(seen)
    [] a["direction"] = "agglayer-send"    -> AgglayerSendAnswers(a, seen)
    [] a["direction"] = "epoch-send"       -> EpochSendAnswers(t, r, a, seen)
    [] a["direction"] = "epoch-receive"    -> EpochReceiveAnswers(a, seen)
    [] OTHER                       -> XreserveReceiveAnswers(a, seen, now)

-----------------------------------------------------------------------------
(* The polling loop of an open receipt page.                               *)
StartPoll(t, r) ==
  /\ poll[t] = Idle
  /\ CanPoll(memory[t][r].activity)
  /\ poll' = [poll EXCEPT ![t] =
               [receipt |-> r, snapshot |-> memory[t][r].activity]]
  /\ UNCHANGED <<stored, memory, transfer, submission>>

(* Only what differs from the snapshot is merged, into the newest receipt. *)
ApplyAnswer(t, r, seen, now) ==
  LET snapshot == poll[t].snapshot IN
  /\ poll[t].receipt = r
  /\ \E answer \in Answers(t, r, snapshot, seen, now) :
       ApplyPatch(t, r, Changed(snapshot, answer), now)
  /\ poll' = [poll EXCEPT ![t] = Idle]
  /\ UNCHANGED <<transfer, submission>>

(* The request fails, or the page is refreshed, left or hidden.            *)
AbortPoll(t) ==
  /\ poll[t] # Idle
  /\ poll' = [poll EXCEPT ![t] = Idle]
  /\ UNCHANGED <<stored, memory, transfer, submission>>

-----------------------------------------------------------------------------
TrackingNext ==
  \/ \E r \in Receipt : ChainStep(r)
  \/ \E t \in Tab : ReloadPage(t) \/ AbortPoll(t)
  \/ \E t \in Tab, now \in Time : SyncPage(t, now)
  \/ \E t \in Tab, r \in Receipt : StartPoll(t, r)
  \/ \E t \in Tab, r \in Receipt, now \in Time :
       \/ \E a \in Opening[r] : Submit(t, r, a, now)
       \/ Confirm(t, r, now) \/ Rebroadcast(t, r, now)
       \/ Allocate(t, r, now) \/ Interrupt(t, r, now)
       \/ \E seen \in Passed(poll[t].snapshot["direction"], transfer[r]) :
            ApplyAnswer(t, r, seen, now)

TrackingSpec == Init /\ [][TrackingNext]_vars

-----------------------------------------------------------------------------
(* Every receipt that can be on a screen or in storage.                    *)
Rows(r) == {stored[r]} \cup {memory[t][r].activity : t \in Tab}

(* Polls only hold receipts, and only known submissions run.               *)
TrackingTypeOK ==
  /\ TypeOK
  /\ transfer \in [Receipt -> Stage \cup {None}]
  /\ submission \in [Receipt -> [tab: Tab \cup {None},
                       stage: {None, "running", "confirmed", "done", "lost"}]]
  /\ poll \in [Tab -> [receipt: Receipt \cup {None}, snapshot: Activity]]

(* No receipt, in any tab or in storage, shows an outcome the chains have  *)
(* not reached: "complete" only for what is delivered, "failed" only for   *)
(* what can no longer be.  Lagging answers, stale snapshots, interrupted   *)
(* submissions and replays must not add up to one.                         *)
OutcomeIsTrue ==
  \A r \in Receipt : \A a \in Rows(r) :
    /\ a["status"] = "complete" => transfer[r] = "delivered"
    /\ a["status"] = "failed" => transfer[r] \in Rejections

(* An outcome arrives whole: the fields that explain it (the failed leg,   *)
(* Circle's stage) agree with the status, though they are stored, retried  *)
(* and merged as separate changed fields (the providers' phaseFields).     *)
OutcomeIsWhole ==
  \A r \in Receipt : \A a \in Rows(r) :
    /\ Known(a, "failureLeg") => a["status"] = "failed"
    /\ a["direction"] = "xreserve-receive" =>
         /\ (a["status"] = "complete") <=> (a["xreserveStatus"] = "delivered")
         /\ (a["status"] = "failed")   <=> (a["xreserveStatus"] = "reverted")
         /\ a["status"] = "complete" => Known(a, "destinationTxAt")
    /\ a["direction"] \in {"agglayer-receive"} \cup Epoch =>
         (a["status"] = "failed" => Known(a, "failureLeg"))

(* "Do not label a healthy in-page confirmation as interrupted"            *)
(* (epoch/flows.ts:16-18): while the page that submits a withdrawal is     *)
(* alive and at it, no receipt calls the withdrawal interrupted.           *)
HealthyNotInterrupted ==
  \A r \in Receipt :
    (\E t \in Tab : Submitting(t, r)) =>
      \A a \in Rows(r) : a["epochRecoveryRequired"] # "yes"

-----------------------------------------------------------------------------
(* The fairness of an open page: polls are retried on a timer; now and     *)
(* then every service works and the answer reports the present stage;      *)
(* mounts, focus and storage events sync the store; storage works now and  *)
(* then.  Nothing is assumed of the chains, the submissions or the user,   *)
(* who may reload for ever.                                                *)
ApplyPresent(t, r, now) ==
  LET snapshot == poll[t].snapshot
      answers  == Answers(t, r, snapshot, transfer[r], now)
      Decides(answer) == answer["status"] \in Settled
  IN
  /\ poll[t].receipt = r
  /\ Present(memory[t][r].activity)
  /\ \E answer \in answers :
       /\ (\E other \in answers : Decides(other)) => Decides(answer)
       /\ SyncSucceeds(t,
            Published(t, r, Merge(memory[t][r].activity,
                                  Changed(snapshot, answer), now)), now)
  /\ poll' = [poll EXCEPT ![t] = Idle]
  /\ UNCHANGED <<transfer, submission>>

SyncWorks(t, now) ==
  /\ SyncSucceeds(t, memory[t], now)
  /\ UNCHANGED <<transfer, submission, poll>>

(* A sync of tab t has something to do.                                    *)
Behind(t) ==
  \/ Pending(memory[t])
  \/ \E r \in Receipt : memory[t][r].activity # ReadRow(stored[r])

(* Strong fairness, with what enables each step written out.               *)
Fairness ==
  \A t \in Tab, now \in Time :
    /\ []<>Behind(t) => []<><<SyncWorks(t, now)>>_vars
    /\ \A r \in Receipt :
         /\ SF_vars(StartPoll(t, r))
         /\ []<>(poll[t].receipt = r) => []<><<ApplyPresent(t, r, now)>>_vars

LiveSpec == TrackingSpec /\ Fairness

(* What a durable receipt must hold for its monitor to find the outcome.   *)
Trackable(a, stage) ==
  CASE a["direction"] = "agglayer-send" ->
         Known(a, "sourceTxHash") /\ stage = "delivered"
    [] a["direction"] \in Epoch ->
         \/ Known(a, "epochIntentNonce")
         \/ a["direction"] = "epoch-receive" /\ stage = "rejected"
    [] a["direction"] \in {"agglayer-receive", "xreserve-receive"} -> TRUE
    [] OTHER -> FALSE

(* Every transfer a monitor can follow is settled in the durable history   *)
(* once the chains have settled it: no lost answer, failed write or        *)
(* reload leaves it waiting for ever, nor does a settled-looking tab.      *)
EventuallySettled ==
  \A r \in Receipt :
    (transfer[r] \in Final /\ Trackable(stored[r], transfer[r]))
      ~> stored[r]["status"] \in Settled

(* A withdrawal whose page died before the nonce was known does not look   *)
(* healthy for ever: its receipt says that it needs recovery ("a reload    *)
(* loses it", epoch/flows.ts:16-18).                                       *)
InterruptionIsReported ==
  \A r \in Receipt :
    (stored[r]["direction"] = "epoch-send" /\ submission[r].stage = "lost")
      ~> \/ stored[r]["epochRecoveryRequired"] = "yes"
         \/ Known(stored[r], "epochIntentNonce")
=============================================================================
