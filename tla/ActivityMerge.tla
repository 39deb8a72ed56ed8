--------------------------- MODULE ActivityMerge ---------------------------
(***************************************************************************)
(* A receipt as the bridge keeps it, its interpretation by the six         *)
(* provider/direction tables, and the one merge rule through which every   *)
(* observation reaches it (src/src/bridge/activity.ts).                    *)
(*                                                                         *)
(* A receipt is a function from field names to values; a field the code    *)
(* leaves undefined has the value None.  A patch has the same shape, None  *)
(* meaning that the patch does not mention the field.  Identifiers and     *)
(* hashes are abstracted to "known"; the other values are the code's.      *)
(***************************************************************************)
EXTENDS Naturals

CONSTANT Time  \* The values Date.now() takes when a destination is stamped.

None == "undefined"

Direction == {"agglayer-send", "agglayer-receive", "epoch-send",
              "epoch-receive", "xreserve-send", "xreserve-receive"}

Epoch == {"epoch-send", "epoch-receive"}

Status == {"signature", "source_finality", "message_observed",
           "claim_available", "claim_submitted", "complete", "failed"}

Settled == {"complete", "failed"}

XreserveStatus == {"submitted", "confirmed", "attested", "delivered",
                   "reverted", "cancelled", "replaced"}

(***************************************************************************)
(* sourceTxHash stands for the source-chain transaction (midenTxId too, on *)
(* a withdrawal), midenNoteId for the wallet request and source note ids,  *)
(* destinationTxHash for the hashes of the destination leg (claimTxHash,   *)
(* and midenTxId on a deposit), epochIntentNonce for the nonce and sponsor *)
(* the Epoch status lookup is keyed on.                                    *)
(***************************************************************************)
Evidence == {"sourceTxHash", "midenNoteId", "agglayerExitHashes",
             "epochIntentNonce", "epochMidenBlock", "destinationTxHash"}

Field == Evidence \cup
         {"direction", "status", "failureLeg", "epochRecoveryRequired",
          "epochDepositConfirmed", "xreserveStatus", "xreserveForwarding",
          "xreserveBurnStatus", "destinationTxAt"}

Value == {None, "known", "yes", "no", "source", "destination", "pending",
          "discarded"}
         \cup Direction \cup Status \cup XreserveStatus \cup Time

Activity == {a \in [Field -> Value] : /\ a["direction"] \in Direction \cup {None}
                                      /\ a["status"] \in Status \cup {None}}

Absent == [f \in Field |-> None]
Present(a) == a["direction"] # None
Known(a, f) == a[f] # None

(***************************************************************************)
(* resolvePhase of each direction: the first line that applies decides.    *)
(***************************************************************************)
EpochSendPhase(a) ==
  IF a["status"] \in Settled \/ Known(a, "epochIntentNonce") THEN a["status"]
  ELSE IF ~(Known(a, "midenNoteId") \/ Known(a, "sourceTxHash"))
       THEN a["status"]
  ELSE IF a["epochRecoveryRequired"] # "yes" THEN "awaiting_tracking"
  ELSE IF Known(a, "epochMidenBlock") \/ Known(a, "sourceTxHash")
       THEN "recovery_confirmed"
  ELSE "recovery_unconfirmed"

EpochReceivePhase(a) ==
  IF a["status"] = "source_finality" /\ a["epochDepositConfirmed"] = "yes"
  THEN "allocation_pending"
  ELSE a["status"]

XreserveSendPhase(a) ==
  IF a["status"] = "complete" THEN "complete"
  ELSE IF a["xreserveBurnStatus"] = "discarded" THEN "discarded"
  ELSE IF a["status"] = "failed" THEN "failed"
  ELSE IF Known(a, "midenNoteId") \/ Known(a, "sourceTxHash")
       THEN "submitted"
  ELSE "signature"

XreserveReceivePhase(a) ==
  LET observed == a["xreserveStatus"] IN
  IF a["status"] = "complete" \/ observed = "delivered" THEN "delivered"
  ELSE IF observed \in {"cancelled", "replaced", "reverted"} THEN observed
  ELSE IF a["status"] = "failed" THEN "failed"
  ELSE IF observed = "attested" THEN "awaiting-delivery"
  ELSE IF observed = "confirmed" THEN "awaiting-attestation"
  ELSE IF observed = None /\ a["status"] = "message_observed"
       THEN "awaiting-delivery"
  ELSE IF a["xreserveForwarding"] = "yes" THEN "forwarding"
  ELSE IF observed = "submitted" \/ Known(a, "sourceTxHash")
       THEN "confirming"
  ELSE IF a["status"] = "signature" THEN "awaiting-signature"
  ELSE "confirming"

ResolvePhase(a) ==
  CASE a["direction"] = "epoch-send"       -> EpochSendPhase(a)
    [] a["direction"] = "epoch-receive"    -> EpochReceivePhase(a)
    [] a["direction"] = "xreserve-send"    -> XreserveSendPhase(a)
    [] a["direction"] = "xreserve-receive" -> XreserveReceivePhase(a)
    [] OTHER                               -> a["status"]

(***************************************************************************)
(* The phase tables: the lifecycle status and the progress order of every  *)
(* phase.  Terminal phases have the same order in every table.             *)
(***************************************************************************)
Claiming == {"claim_available", "claim_submitted"}

PhaseStatus(d, phase) ==
  CASE phase \in {"awaiting_tracking", "recovery_unconfirmed",
                  "recovery_confirmed", "allocation_pending", "submitted",
                  "confirming", "forwarding", "awaiting-attestation"}
         -> "source_finality"
    [] phase = "awaiting-signature" -> "signature"
    [] phase = "awaiting-delivery"  -> "message_observed"
    [] phase = "delivered"          -> "complete"
    [] phase \in {"cancelled", "replaced", "reverted", "discarded"}
         -> "failed"
    [] phase \in Claiming /\ d \in Epoch -> "message_observed"
    [] OTHER -> phase

PhaseOrder(d, phase) ==
  CASE phase \in {"signature", "awaiting-signature"} -> 0
    [] phase \in {"source_finality", "awaiting_tracking", "submitted",
                  "recovery_unconfirmed", "recovery_confirmed",
                  "allocation_pending", "confirming"} -> 1
    [] phase \in {"message_observed", "forwarding"} -> 2
    [] phase \in Claiming /\ d \in Epoch -> 2
    [] \/ phase = "claim_available" /\ d \notin Epoch
       \/ phase = "awaiting-attestation" -> 3
    [] \/ phase = "claim_submitted" /\ d \notin Epoch
       \/ phase = "awaiting-delivery" -> 4
    [] OTHER -> 5

(* Mutant: Circle's stage and Epoch's recovery are merged like metadata.   *)
StatusOnlyPhaseFields(d) == {"status", "failureLeg"}

(* The fields that together carry a direction's phase: kept or replaced as *)
(* one when an observation loses.                                          *)
PhaseFields(d) ==
  {"status", "failureLeg"} \cup
  CASE d = "epoch-send"       -> {"epochRecoveryRequired"}
    [] d = "epoch-receive"    -> {"epochDepositConfirmed"}
    [] d = "xreserve-send"    -> {"xreserveBurnStatus"}
    [] d = "xreserve-receive" -> {"xreserveStatus", "xreserveForwarding"}
    [] OTHER                  -> {}

(* activityState: the status and order that storage, polling, history and  *)
(* receipts all read.                                                      *)
StateStatus(a) == PhaseStatus(a["direction"], ResolvePhase(a))
StateOrder(a)  == PhaseOrder(a["direction"], ResolvePhase(a))

(* Mutant: the resolved phase is stored where the lifecycle status goes.   *)
NormalizeToPhase(a) ==
  [f \in Field |-> IF f = "status" THEN ResolvePhase(a) ELSE a[f]]

Normalize(a) ==
  [f \in Field |-> IF f = "status" THEN StateStatus(a) ELSE a[f]]

(* stampLegTimes, destination leg: the time its evidence first appears.    *)
StampLegTimes(a, now) ==
  [f \in Field |->
    IF f = "destinationTxAt" /\ Known(a, "destinationTxHash")
                             /\ ~Known(a, "destinationTxAt")
    THEN now ELSE a[f]]

Observed(a, patch) ==
  [f \in Field |-> IF Known(patch, f) THEN patch[f] ELSE a[f]]

(***************************************************************************)
(* applyActivityPatch: a settled receipt, or an observation older than the *)
(* receipt, keeps its phase and takes only the metadata.                   *)
(***************************************************************************)

(* Mutant: any terminal observation wins, over a settled receipt too.      *)
LosesOnOrderOnly(a, next) ==
  StateStatus(next) \notin Settled /\ StateOrder(next) < StateOrder(a)

Loses(a, next) ==
  \/ StateStatus(a) \in Settled
  \/ StateStatus(next) \notin Settled /\ StateOrder(next) < StateOrder(a)

KeepPhase(a, next) ==
  LET kept == PhaseFields(a["direction"]) IN
  [f \in Field |->
    IF f = "status" THEN StateStatus(a)
    ELSE IF f \in kept THEN a[f]
    ELSE next[f]]

Merge(a, patch, now) ==
  LET next == Normalize(Observed(a, patch))
  IN  StampLegTimes(IF Loses(a, next) THEN KeepPhase(a, next) ELSE next, now)

(***************************************************************************)
(* bridge-persistence normalizeActivity: a withdrawal through Agglayer     *)
(* whose exit hashes are unknown is reopened when it is read from storage. *)
(***************************************************************************)
Unbound(a) ==
  /\ a["direction"] = "agglayer-send"
  /\ ~Known(a, "agglayerExitHashes")
  /\ a["status"] # "failed"

Reopen(a) ==
  [f \in Field |->
    IF f = "status" /\ a[f] # "signature" THEN "source_finality"
    ELSE IF f \in {"destinationTxHash", "destinationTxAt"} THEN None
    ELSE a[f]]

ReadRow(a) ==
  IF Present(a) THEN Normalize(IF Unbound(a) THEN Reopen(a) ELSE a) ELSE a
=============================================================================
