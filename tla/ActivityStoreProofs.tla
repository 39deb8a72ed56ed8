------------------------ MODULE ActivityStoreProofs ------------------------
(***************************************************************************)
(* For any number of tabs and receipts, any openings and any observations: *)
(* the store is well typed, reading it back is lossless, a receipt shown   *)
(* as saved is durable, and the durable history implements the ledger.     *)
(*                                                                         *)
(* Every step but a reload is a sync of one tab from a snapshot `own`: the *)
(* receipts it has, or those and the receipt it just published.  So the    *)
(* argument is: syncing from good receipts keeps the invariant (SyncStep), *)
(* and publishing makes good receipts (PublishedGood).                     *)
(***************************************************************************)
EXTENDS ActivityStore, TLAPS

(***************************************************************************)
(* What the phase tables and the merge rule guarantee of any receipt and   *)
(* any patch: facts about applyActivityPatch alone, with no store.         *)
(***************************************************************************)
(* A row in the normal form of its table: its status is its phase's.       *)
Normal(a) == a["status"] = StateStatus(a)

(* An Epoch withdrawal is only ever recorded with the id of its note.      *)
HasIds(a) == a["direction"] = "epoch-send" => Known(a, "midenNoteId")

LEMMA FieldNames ==
  /\ Evidence \subseteq Field
  /\ "direction" \in Field /\ "status" \in Field /\ "destinationTxAt" \in Field
BY DEF Field, Evidence

(* The phases of the six tables; None for a receipt without a status.      *)
PhaseName == Status \cup
  {"awaiting_tracking", "recovery_unconfirmed", "recovery_confirmed",
   "allocation_pending", "submitted", "discarded", "confirming",
   "forwarding", "awaiting-attestation", "awaiting-signature",
   "awaiting-delivery", "delivered", "cancelled", "replaced", "reverted"}

LEMMA PhaseNames ==
  ASSUME NEW a \in Activity
  PROVE  /\ ResolvePhase(a) \in PhaseName \cup {None}
         /\ a["status"] \in Status => ResolvePhase(a) \in PhaseName
<1>0. a["status"] \in Status \cup {None}
  BY DEF Activity
<1>1. /\ EpochSendPhase(a) \in PhaseName \cup {None}
      /\ a["status"] \in Status => EpochSendPhase(a) \in PhaseName
  BY <1>0 DEF EpochSendPhase, PhaseName
<1>2. /\ EpochReceivePhase(a) \in PhaseName \cup {None}
      /\ a["status"] \in Status => EpochReceivePhase(a) \in PhaseName
  BY <1>0 DEF EpochReceivePhase, PhaseName
<1>3. XreserveSendPhase(a) \in PhaseName
  BY DEF XreserveSendPhase, PhaseName, Status
<1>4. XreserveReceivePhase(a) \in PhaseName
  BY DEF XreserveReceivePhase, PhaseName, Status
<1>5. QED BY <1>0, <1>1, <1>2, <1>3, <1>4 DEF ResolvePhase, PhaseName

LEMMA Tables ==
  ASSUME NEW d, NEW p \in PhaseName \cup {None}
  PROVE  /\ PhaseStatus(d, p) \in Status \cup {None}
         /\ p \in PhaseName => PhaseStatus(d, p) \in Status
         /\ PhaseOrder(d, p) \in 0..5
         /\ PhaseStatus(d, p) \in Settled => PhaseOrder(d, p) = 5
BY DEF PhaseStatus, PhaseOrder, PhaseName, Status, None, Settled, Claiming

(* The tables map every receipt to a lifecycle status and to a progress    *)
(* order in 0..5, the last for the outcomes.                               *)
LEMMA StateTyped ==
  ASSUME NEW a \in Activity
  PROVE  /\ StateStatus(a) \in Status \cup {None}
         /\ StateOrder(a) \in 0..5
         /\ a["status"] \in Status => StateStatus(a) \in Status
         /\ StateStatus(a) \in Settled => StateOrder(a) = 5
BY PhaseNames, Tables DEF StateStatus, StateOrder

(* Two receipts that agree on all but the status, where one has the status *)
(* of the other's phase, are in the same state: normal forms are stable.   *)
LEMMA Stable ==
  ASSUME NEW a \in Activity, NEW b \in Activity,
         b["status"] = StateStatus(a),
         \A f \in Field \ {"status"} : b[f] = a[f]
  PROVE  StateStatus(b) = StateStatus(a) /\ StateOrder(b) = StateOrder(a)
<1>0. /\ a["status"] \in Status \cup {None}
      /\ b["direction"] = a["direction"]
      /\ b["midenNoteId"] = a["midenNoteId"]
      /\ b["sourceTxHash"] = a["sourceTxHash"]
      /\ b["epochIntentNonce"] = a["epochIntentNonce"]
      /\ b["epochMidenBlock"] = a["epochMidenBlock"]
      /\ b["epochRecoveryRequired"] = a["epochRecoveryRequired"]
      /\ b["epochDepositConfirmed"] = a["epochDepositConfirmed"]
      /\ b["xreserveBurnStatus"] = a["xreserveBurnStatus"]
      /\ b["xreserveStatus"] = a["xreserveStatus"]
      /\ b["xreserveForwarding"] = a["xreserveForwarding"]
  BY DEF Activity, Field, Evidence
<1>1. CASE a["direction"] = "epoch-send"
  <2>1. /\ ResolvePhase(a) = EpochSendPhase(a)
        /\ ResolvePhase(b) = EpochSendPhase(b)
    BY <1>0, <1>1 DEF ResolvePhase
  <2>2. QED BY <1>0, <1>1, <2>1 DEF StateStatus, StateOrder, EpochSendPhase,
               PhaseStatus, PhaseOrder, Known, Settled, Status, None,
               Claiming, Epoch
<1>2. CASE a["direction"] = "epoch-receive"
  <2>1. /\ ResolvePhase(a) = EpochReceivePhase(a)
        /\ ResolvePhase(b) = EpochReceivePhase(b)
    BY <1>0, <1>2 DEF ResolvePhase
  <2>2. QED BY <1>0, <1>2, <2>1 DEF StateStatus, StateOrder,
               EpochReceivePhase, PhaseStatus, PhaseOrder, Known, Settled,
               Status, None, Claiming, Epoch
<1>3. CASE a["direction"] = "xreserve-send"
  <2>1. /\ ResolvePhase(a) = XreserveSendPhase(a)
        /\ ResolvePhase(b) = XreserveSendPhase(b)
    BY <1>0, <1>3 DEF ResolvePhase
  <2>2. QED BY <1>0, <1>3, <2>1 DEF StateStatus, StateOrder,
               XreserveSendPhase, PhaseStatus, PhaseOrder, Known, Settled,
               Status, None, Claiming, Epoch
<1>4. CASE a["direction"] = "xreserve-receive"
  <2>1. /\ ResolvePhase(a) = XreserveReceivePhase(a)
        /\ ResolvePhase(b) = XreserveReceivePhase(b)
    BY <1>0, <1>4 DEF ResolvePhase
  <2>2. QED BY <1>0, <1>4, <2>1 DEF StateStatus, StateOrder,
               XreserveReceivePhase, PhaseStatus, PhaseOrder, Known, Settled,
               Status, None, Claiming, Epoch
<1>5. CASE a["direction"] \notin {"epoch-send", "epoch-receive",
                                  "xreserve-send", "xreserve-receive"}
  <2>1. /\ ResolvePhase(a) = a["status"]
        /\ ResolvePhase(b) = b["status"]
    BY <1>0, <1>5 DEF ResolvePhase
  <2>2. QED BY <1>0, <1>5, <2>1 DEF StateStatus, StateOrder, PhaseStatus,
               PhaseOrder, Status, None, Claiming, Epoch
<1>6. QED BY <1>1, <1>2, <1>3, <1>4, <1>5

LEMMA Normalized ==
  ASSUME NEW a \in Activity
  PROVE  /\ Normalize(a) \in Activity
         /\ Normal(Normalize(a))
         /\ StateStatus(Normalize(a)) = StateStatus(a)
         /\ StateOrder(Normalize(a)) = StateOrder(a)
         /\ Normalize(a)["status"] = StateStatus(a)
         /\ \A f \in Field \ {"status"} : Normalize(a)[f] = a[f]
<1> DEFINE b == Normalize(a)
<1>1. /\ b["status"] = StateStatus(a)
      /\ \A f \in Field \ {"status"} : b[f] = a[f]
  BY FieldNames DEF Normalize
<1>2. b \in Activity
  BY <1>1, StateTyped, FieldNames DEF Normalize, Activity, Value
<1>3. StateStatus(b) = StateStatus(a) /\ StateOrder(b) = StateOrder(a)
  BY <1>1, <1>2, Stable
<1>4. QED BY <1>1, <1>2, <1>3 DEF Normal

-----------------------------------------------------------------------------
(* The observed receipt of a merge: the patch over the receipt.            *)
LEMMA ObservedFacts ==
  ASSUME NEW a \in Activity, NEW p \in Activity,
         p["direction"] \in {None, a["direction"]}
  PROVE  /\ Observed(a, p) \in Activity
         /\ Observed(a, p)["direction"] = a["direction"]
         /\ a["status"] \in Status => Observed(a, p)["status"] \in Status
         /\ \A f \in Field :
              Known(Observed(a, p), f) <=> Known(a, f) \/ Known(p, f)
<1> DEFINE b == Observed(a, p)
<1>1. \A f \in Field : b[f] = IF Known(p, f) THEN p[f] ELSE a[f]
  BY DEF Observed
<1>2. b["direction"] = a["direction"]
  BY <1>1, FieldNames DEF Known
<1>3. /\ b["status"] \in Status \cup {None}
      /\ a["status"] \in Status => b["status"] \in Status
  BY <1>1, FieldNames DEF Known, Activity
<1>4. b \in [Field -> Value]
  BY <1>1 DEF Observed, Activity
<1>5. \A f \in Field : Known(b, f) <=> Known(a, f) \/ Known(p, f)
  BY <1>1 DEF Known
<1>6. QED BY <1>2, <1>3, <1>4, <1>5 DEF Activity

(* An observation that loses leaves the receipt in its state, whatever     *)
(* identifiers it brings: settled receipts and later phases are kept.      *)
LEMMA KeepPhaseFacts ==
  ASSUME NEW a \in Activity, NEW n \in Activity,
         n["direction"] = a["direction"],
         Normal(a), HasIds(a), Loses(a, n),
         \A f \in Evidence : Known(a, f) => Known(n, f)
  PROVE  /\ KeepPhase(a, n) \in Activity
         /\ Normal(KeepPhase(a, n))
         /\ KeepPhase(a, n)["status"] = a["status"]
         /\ KeepPhase(a, n)["direction"] = a["direction"]
         /\ StateStatus(KeepPhase(a, n)) = StateStatus(a)
         /\ StateOrder(KeepPhase(a, n)) = StateOrder(a)
         /\ \A f \in Evidence : KeepPhase(a, n)[f] = n[f]
         /\ KeepPhase(a, n)["destinationTxAt"] = n["destinationTxAt"]
<1> DEFINE k == KeepPhase(a, n)
<1>1. /\ k["status"] = a["status"]
      /\ \A f \in Field \ {"status"} :
           k[f] = IF f \in PhaseFields(a["direction"]) THEN a[f] ELSE n[f]
  BY FieldNames DEF KeepPhase, Normal
<1>2. \A f \in Evidence \cup {"direction", "destinationTxAt"} :
        f \notin PhaseFields(a["direction"])
  BY DEF PhaseFields, Evidence
<1>3. /\ \A f \in Evidence : k[f] = n[f]
      /\ k["direction"] = a["direction"]
      /\ k["destinationTxAt"] = n["destinationTxAt"]
  BY <1>1, <1>2, FieldNames DEF Evidence
<1>4. k \in Activity
  <2>1. k = [f \in Field |-> k[f]]
    BY DEF KeepPhase
  <2>2. \A f \in Field : k[f] \in Value
    BY <1>1 DEF Activity
  <2>3. QED BY <2>1, <2>2, <1>1, <1>3 DEF Activity
<1>5. /\ a["status"] \in Status \cup {None}
      /\ StateStatus(a) = a["status"]
      /\ Known(a, "midenNoteId") => Known(n, "midenNoteId")
      /\ Known(a, "sourceTxHash") => Known(n, "sourceTxHash")
      /\ Known(a, "epochIntentNonce") => Known(n, "epochIntentNonce")
      /\ Known(a, "epochMidenBlock") => Known(n, "epochMidenBlock")
      /\ Known(k, "midenNoteId") <=> Known(n, "midenNoteId")
      /\ Known(k, "sourceTxHash") <=> Known(n, "sourceTxHash")
      /\ Known(k, "epochIntentNonce") <=> Known(n, "epochIntentNonce")
      /\ Known(k, "epochMidenBlock") <=> Known(n, "epochMidenBlock")
  BY <1>3 DEF Normal, Activity, Evidence, Known
<1>6. StateStatus(k) = StateStatus(a) /\ StateOrder(k) = StateOrder(a)
  <2>1. CASE a["direction"] = "epoch-send"
    <3>1. k["epochRecoveryRequired"] = a["epochRecoveryRequired"]
      BY <1>1, <2>1 DEF PhaseFields, Field
    <3>2. /\ ResolvePhase(a) = EpochSendPhase(a)
          /\ ResolvePhase(k) = EpochSendPhase(k)
          /\ ResolvePhase(n) = EpochSendPhase(n)
      BY <1>3, <2>1 DEF ResolvePhase
    <3>3. QED BY <1>1, <1>3, <1>5, <2>1, <3>1, <3>2
              DEF HasIds, Loses, StateStatus, StateOrder, EpochSendPhase,
                  PhaseStatus, PhaseOrder, Settled, Status, None, Claiming,
                  Epoch
  <2>2. CASE a["direction"] = "epoch-receive"
    <3>1. k["epochDepositConfirmed"] = a["epochDepositConfirmed"]
      BY <1>1, <2>2 DEF PhaseFields, Field
    <3>2. /\ ResolvePhase(a) = EpochReceivePhase(a)
          /\ ResolvePhase(k) = EpochReceivePhase(k)
      BY <1>3, <2>2 DEF ResolvePhase
    <3>3. QED BY <1>1, <1>3, <3>1, <3>2
              DEF StateStatus, StateOrder, EpochReceivePhase
  <2>3. CASE a["direction"] = "xreserve-send"
    <3>1. k["xreserveBurnStatus"] = a["xreserveBurnStatus"]
      BY <1>1, <2>3 DEF PhaseFields, Field
    <3>2. /\ ResolvePhase(a) = XreserveSendPhase(a)
          /\ ResolvePhase(k) = XreserveSendPhase(k)
          /\ ResolvePhase(n) = XreserveSendPhase(n)
      BY <1>3, <2>3 DEF ResolvePhase
    <3>3. QED BY <1>1, <1>3, <1>5, <2>3, <3>1, <3>2
              DEF Loses, StateStatus, StateOrder, XreserveSendPhase,
                  PhaseStatus, PhaseOrder, Settled, Status, None, Claiming,
                  Epoch
  <2>4. CASE a["direction"] = "xreserve-receive"
    <3>1. /\ k["xreserveStatus"] = a["xreserveStatus"]
          /\ k["xreserveForwarding"] = a["xreserveForwarding"]
      BY <1>1, <2>4 DEF PhaseFields, Field
    <3>2. /\ ResolvePhase(a) = XreserveReceivePhase(a)
          /\ ResolvePhase(k) = XreserveReceivePhase(k)
          /\ ResolvePhase(n) = XreserveReceivePhase(n)
      BY <1>3, <2>4 DEF ResolvePhase
    <3>3. ~Known(a, "sourceTxHash") /\ Known(k, "sourceTxHash")
            => ResolvePhase(a) # "awaiting-signature"
      <4>1. SUFFICES ASSUME ResolvePhase(a) = "awaiting-signature"
                     PROVE  FALSE
        OBVIOUS
      <4>2. StateStatus(a) = "signature" /\ StateOrder(a) = 0
        BY <4>1 DEF StateStatus, StateOrder, PhaseStatus, PhaseOrder, Claiming
      <4>3. QED BY <4>2, StateTyped DEF Loses, Settled
    <3>4. ResolvePhase(k) = ResolvePhase(a)
      BY <1>1, <1>5, <3>1, <3>2, <3>3 DEF XreserveReceivePhase
    <3>5. QED BY <1>3, <2>4, <3>4 DEF StateStatus, StateOrder
  <2>5. CASE a["direction"] \notin {"epoch-send", "epoch-receive",
                                    "xreserve-send", "xreserve-receive"}
    <3>1. /\ ResolvePhase(a) = a["status"]
          /\ ResolvePhase(k) = k["status"]
      BY <1>3, <2>5 DEF ResolvePhase
    <3>2. QED BY <1>1, <1>3, <3>1 DEF StateStatus, StateOrder
  <2>6. QED BY <2>1, <2>2, <2>3, <2>4, <2>5
<1>7. Normal(k)
  BY <1>1, <1>6 DEF Normal
<1>8. QED BY <1>1, <1>3, <1>4, <1>6, <1>7

(* The phase does not depend on when a leg landed.                         *)
LEMMA StampFacts ==
  ASSUME NEW a \in Activity, NEW now \in Time
  PROVE  /\ StampLegTimes(a, now) \in Activity
         /\ \A f \in Field \ {"destinationTxAt"} :
              StampLegTimes(a, now)[f] = a[f]
         /\ StateStatus(StampLegTimes(a, now)) = StateStatus(a)
         /\ StateOrder(StampLegTimes(a, now)) = StateOrder(a)
         /\ ~Known(a, "destinationTxHash") =>
              StampLegTimes(a, now)["destinationTxAt"] = a["destinationTxAt"]
<1> DEFINE b == StampLegTimes(a, now)
<1>1. \A f \in Field \ {"destinationTxAt"} : b[f] = a[f]
  BY DEF StampLegTimes
<1>2. ~Known(a, "destinationTxHash") =>
        b["destinationTxAt"] = a["destinationTxAt"]
  BY FieldNames DEF StampLegTimes
<1>3. b \in Activity
  <2>1. b \in [Field -> Value]
    BY DEF StampLegTimes, Activity, Value
  <2>2. QED BY <2>1, <1>1, FieldNames DEF Activity
<1>4. ResolvePhase(b) = ResolvePhase(a)
  <2>0. /\ b["status"] = a["status"]
        /\ b["direction"] = a["direction"]
        /\ b["midenNoteId"] = a["midenNoteId"]
        /\ b["sourceTxHash"] = a["sourceTxHash"]
        /\ b["epochIntentNonce"] = a["epochIntentNonce"]
        /\ b["epochMidenBlock"] = a["epochMidenBlock"]
        /\ b["epochRecoveryRequired"] = a["epochRecoveryRequired"]
        /\ b["epochDepositConfirmed"] = a["epochDepositConfirmed"]
        /\ b["xreserveBurnStatus"] = a["xreserveBurnStatus"]
        /\ b["xreserveStatus"] = a["xreserveStatus"]
        /\ b["xreserveForwarding"] = a["xreserveForwarding"]
    BY <1>1 DEF Field, Evidence
  <2>1. EpochSendPhase(b) = EpochSendPhase(a)
    BY <2>0 DEF EpochSendPhase, Known
  <2>2. EpochReceivePhase(b) = EpochReceivePhase(a)
    BY <2>0 DEF EpochReceivePhase
  <2>3. XreserveSendPhase(b) = XreserveSendPhase(a)
    BY <2>0 DEF XreserveSendPhase, Known
  <2>4. XreserveReceivePhase(b) = XreserveReceivePhase(a)
    BY <2>0 DEF XreserveReceivePhase, Known
  <2>5. QED BY <2>0, <2>1, <2>2, <2>3, <2>4 DEF ResolvePhase
<1>5. b["direction"] = a["direction"]
  BY <1>1, FieldNames
<1>6. QED BY <1>1, <1>2, <1>3, <1>4, <1>5 DEF StateStatus, StateOrder

(* The receipts the store may hold.                                        *)
Sound(a) ==
  /\ a \in Activity
  /\ Present(a)
  /\ a["status"] \in Status
  /\ Normal(a)
  /\ HasIds(a)

(* applyActivityPatch keeps receipts sound, never takes progress, evidence *)
(* or an outcome away, and invents no evidence.                            *)
THEOREM MergeFacts ==
  ASSUME NEW a, Sound(a), NEW p \in Activity, NEW now \in Time,
         p["direction"] \in {None, a["direction"]}
  PROVE  /\ Sound(Merge(a, p, now))
         /\ Merge(a, p, now)["direction"] = a["direction"]
         /\ StateOrder(a) <= StateOrder(Merge(a, p, now))
         /\ a["status"] \in Settled =>
              Merge(a, p, now)["status"] = a["status"]
         /\ \A f \in Evidence :
              Known(Merge(a, p, now), f) <=> Known(a, f) \/ Known(p, f)
         /\ a["direction"] = "agglayer-send" =>
              Merge(a, p, now)["status"] \in {a["status"], p["status"]}
         /\ Known(Merge(a, p, now), "destinationTxAt") =>
              \/ Known(a, "destinationTxAt") \/ Known(p, "destinationTxAt")
              \/ Known(Merge(a, p, now), "destinationTxHash")
<1> DEFINE o == Observed(a, p)
           n == Normalize(o)
           m == IF Loses(a, n) THEN KeepPhase(a, n) ELSE n
           b == StampLegTimes(m, now)
<1>0. b = Merge(a, p, now)
  BY DEF Merge
<1>1. /\ o \in Activity
      /\ o["direction"] = a["direction"]
      /\ o["status"] \in Status
      /\ \A f \in Field : Known(o, f) <=> Known(a, f) \/ Known(p, f)
      /\ o["status"] \in {a["status"], p["status"]}
  BY ObservedFacts, FieldNames DEF Sound, Observed
<1>2. /\ n \in Activity
      /\ Normal(n)
      /\ n["direction"] = a["direction"]
      /\ n["status"] = StateStatus(o)
      /\ n["status"] \in Status
      /\ \A f \in Field \ {"status"} : n[f] = o[f]
      /\ StateStatus(n) = n["status"]
  <2>1. "direction" \in Field \ {"status"}
    BY FieldNames
  <2>2. QED BY <1>1, <2>1, Normalized, StateTyped
<1>3. \A f \in Evidence : Known(n, f) <=> Known(a, f) \/ Known(p, f)
  <2>1. \A f \in Evidence : f \in Field /\ f # "status"
    BY DEF Evidence, Field
  <2>2. QED BY <1>1, <1>2, <2>1 DEF Known
<1>4. a \in Activity /\ StateStatus(a) = a["status"]
  BY DEF Sound, Normal
<1>5. /\ m \in Activity
      /\ Normal(m)
      /\ m["direction"] = a["direction"]
      /\ m["status"] \in {a["status"], n["status"]}
      /\ \A f \in Evidence : m[f] = n[f]
      /\ m["destinationTxAt"] = n["destinationTxAt"]
      /\ StateOrder(a) <= StateOrder(m)
      /\ a["status"] \in Settled => m["status"] = a["status"]
  <2>1. CASE Loses(a, n)
    <3>1. /\ Normal(a) /\ HasIds(a)
          /\ \A f \in Evidence : Known(a, f) => Known(n, f)
      BY <1>3 DEF Sound
    <3>2. m = KeepPhase(a, n)
      BY <2>1
    <3>3. StateOrder(a) \in 0..5
      BY <1>4, StateTyped
    <3>4. QED BY <1>2, <1>4, <2>1, <3>1, <3>2, <3>3, KeepPhaseFacts
  <2>2. CASE ~Loses(a, n)
    <3>1. m = n
      BY <2>2
    <3>2. a["status"] \notin Settled
      BY <1>4, <2>2 DEF Loses
    <3>3. StateOrder(a) \in 0..5 /\ StateOrder(n) \in 0..5
      BY <1>2, <1>4, StateTyped
    <3>4. StateOrder(a) <= StateOrder(n)
      BY <1>2, <2>2, <3>3, StateTyped DEF Loses
    <3>5. QED BY <1>2, <3>1, <3>2, <3>4
  <2>3. QED BY <2>1, <2>2
<1>6. /\ b \in Activity
      /\ \A f \in Field \ {"destinationTxAt"} : b[f] = m[f]
      /\ StateStatus(b) = StateStatus(m)
      /\ StateOrder(b) = StateOrder(m)
      /\ ~Known(m, "destinationTxHash") =>
           b["destinationTxAt"] = m["destinationTxAt"]
  BY <1>5, StampFacts
<1>7. b["status"] = m["status"] /\ b["direction"] = m["direction"]
  BY <1>6, FieldNames
<1>8. \A f \in Evidence : Known(b, f) <=> Known(a, f) \/ Known(p, f)
  <2>1. \A f \in Evidence : f \in Field \ {"destinationTxAt"}
    BY DEF Evidence, Field
  <2>2. QED BY <1>3, <1>5, <1>6, <2>1 DEF Known
<1>9. Sound(b)
  <2>1. Normal(b)
    BY <1>5, <1>6, <1>7 DEF Normal
  <2>2. HasIds(b)
    BY <1>5, <1>7, <1>8 DEF HasIds, Sound, Evidence
  <2>3. Present(b) /\ b["status"] \in Status
    BY <1>2, <1>5, <1>7 DEF Present, Sound
  <2>4. QED BY <1>6, <2>1, <2>2, <2>3 DEF Sound
<1>10. a["direction"] = "agglayer-send" =>
         b["status"] \in {a["status"], p["status"]}
  <2>1. SUFFICES ASSUME a["direction"] = "agglayer-send"
                 PROVE  b["status"] \in {a["status"], p["status"]}
    OBVIOUS
  <2>2. ResolvePhase(o) = o["status"]
    BY <1>1, <2>1 DEF ResolvePhase
  <2>3. StateStatus(o) = o["status"]
    BY <1>1, <2>1, <2>2 DEF StateStatus, PhaseStatus, Status, Claiming, Epoch
  <2>4. QED BY <1>1, <1>2, <1>5, <1>7, <2>3
<1>11. Known(b, "destinationTxAt") =>
         \/ Known(a, "destinationTxAt") \/ Known(p, "destinationTxAt")
         \/ Known(b, "destinationTxHash")
  <2>1. n["destinationTxAt"] = o["destinationTxAt"]
    BY <1>2, FieldNames
  <2>2. Known(o, "destinationTxAt") =>
          Known(a, "destinationTxAt") \/ Known(p, "destinationTxAt")
    BY <1>1, FieldNames
  <2>3. b["destinationTxHash"] = m["destinationTxHash"]
    BY <1>6 DEF Field, Evidence
  <2>4. QED BY <1>5, <1>6, <2>1, <2>2, <2>3 DEF Known
<1>12. StateOrder(a) <= StateOrder(b)
  BY <1>5, <1>6
<1>13. a["status"] \in Settled => b["status"] = a["status"]
  BY <1>5, <1>7
<1>14. QED
  BY <1>0, <1>5, <1>7, <1>8, <1>9, <1>10, <1>11, <1>12, <1>13

Stamped(x) == Known(x, "destinationTxAt")

LEMMA MoreFieldNames ==
  /\ "direction" \in Field /\ "status" \in Field /\ "failureLeg" \in Field
  /\ "epochRecoveryRequired" \in Field /\ "xreserveBurnStatus" \in Field
  /\ "xreserveStatus" \in Field /\ "destinationTxAt" \in Field
  /\ "destinationTxHash" \in Field /\ "agglayerExitHashes" \in Field
  /\ "xreserveForwarding" \in Field
BY DEF Field, Evidence

(* Where each field of a merged receipt comes from.                        *)
LEMMA MergeFields ==
  ASSUME NEW a, Sound(a), NEW p \in Activity, NEW now \in Time,
         p["direction"] \in {None, a["direction"]}
  PROVE  LET o == Observed(a, p)
             n == Normalize(o)
             b == Merge(a, p, now)
         IN  /\ Loses(a, n) =>
                  /\ b["status"] = a["status"]
                  /\ \A f \in PhaseFields(a["direction"]) \ {"status"} :
                       f \in Field => b[f] = a[f]
             /\ ~Loses(a, n) =>
                  /\ a["status"] \notin Settled
                  /\ b["status"] = StateStatus(o)
                  /\ \A f \in Field \ {"status", "destinationTxAt"} : b[f] = o[f]
             /\ \A f \in Field \ {"status", "destinationTxAt"} :
                  b[f] \in {a[f], p[f]}
             /\ ~Known(b, "destinationTxHash") =>
                  (Stamped(b) <=> Stamped(a) \/ Stamped(p))
<1> DEFINE o == Observed(a, p)
           n == Normalize(o)
           m == IF Loses(a, n) THEN KeepPhase(a, n) ELSE n
           b == StampLegTimes(m, now)
<1>1. b = Merge(a, p, now)
  BY DEF Merge
<1>2. /\ o \in Activity /\ a \in Activity /\ StateStatus(a) = a["status"]
      /\ \A f \in Field : o[f] = IF Known(p, f) THEN p[f] ELSE a[f]
  BY ObservedFacts DEF Sound, Normal, Observed
<1>3. /\ n["status"] = StateStatus(o)
      /\ \A f \in Field \ {"status"} : n[f] = o[f]
  BY <1>2, Normalized
<1>4. /\ \A f \in Field \ {"destinationTxAt"} : b[f] = m[f]
      /\ ~Known(m, "destinationTxHash") =>
           b["destinationTxAt"] = m["destinationTxAt"]
  BY MoreFieldNames DEF StampLegTimes
<1>5. "destinationTxAt" \notin PhaseFields(a["direction"])
  BY DEF PhaseFields
<1>6. Loses(a, n) =>
        /\ m["status"] = a["status"]
        /\ \A f \in Field \ {"status"} :
             m[f] = IF f \in PhaseFields(a["direction"]) THEN a[f] ELSE n[f]
  BY <1>2, MoreFieldNames DEF KeepPhase
<1>7. ~Loses(a, n) => m = n /\ a["status"] \notin Settled
  BY <1>2 DEF Loses
<1>8. m["destinationTxAt"] = o["destinationTxAt"]
  BY <1>3, <1>5, <1>6, <1>7, MoreFieldNames
<1>9. Known(b, "destinationTxHash") <=> Known(m, "destinationTxHash")
  BY <1>4, MoreFieldNames DEF Known
<1>10. ~Known(b, "destinationTxHash") =>
         (Stamped(b) <=> Stamped(a) \/ Stamped(p))
  BY <1>2, <1>4, <1>8, <1>9, MoreFieldNames DEF Stamped, Known
<1>11. Loses(a, n) =>
        /\ b["status"] = a["status"]
        /\ \A f \in PhaseFields(a["direction"]) \ {"status"} :
             f \in Field => b[f] = a[f]
  BY <1>4, <1>5, <1>6, MoreFieldNames
<1>12. ~Loses(a, n) =>
        /\ b["status"] = StateStatus(o)
        /\ \A f \in Field \ {"status", "destinationTxAt"} : b[f] = o[f]
  BY <1>3, <1>4, <1>7, MoreFieldNames
<1>13. \A f \in Field \ {"status", "destinationTxAt"} : b[f] \in {a[f], p[f]}
  <2> SUFFICES ASSUME NEW f \in Field \ {"status", "destinationTxAt"}
               PROVE  b[f] \in {a[f], p[f]}
    OBVIOUS
  <2>1. o[f] \in {a[f], p[f]} /\ n[f] = o[f] /\ b[f] = m[f]
    BY <1>2, <1>3, <1>4
  <2>2. m[f] \in {a[f], n[f]}
    BY <1>6, <1>7
  <2> QED
    BY <2>1, <2>2
<1> HIDE DEF b
<1> QED
  BY <1>1, <1>7, <1>10, <1>11, <1>12, <1>13

-----------------------------------------------------------------------------
(***************************************************************************)
(* The store.                                                              *)
(***************************************************************************)

Agree(a, b) == Present(a) /\ Present(b) => a["direction"] = b["direction"]

(* A durable row: sound, and never more than its exit hashes warrant.      *)
GoodRow(s) == s = Absent \/ (Sound(s) /\ Attributable(s))

(* A receipt m of a tab, while the durable row is s.                       *)
GoodReceipt(m, s) ==
  /\ m \in ReceiptRecord
  /\ m = Saved(Absent) \/ (Sound(m.activity) /\ Attributable(m.activity))
  /\ Agree(m.activity, s)
  /\ m.saved => m.changes = Absent
  /\ m.saved /\ Present(m.activity) => Covers(s, m.activity)
  /\ m.changes["direction"] \in {None, m.activity["direction"]}
  /\ m.activity["direction"] = "agglayer-send"
       /\ ~Known(m.activity, "agglayerExitHashes") =>
       /\ m.changes["status"] \in {None, "signature", "source_finality",
                                   "failed"}
       /\ ~Known(m.changes, "destinationTxHash")
       /\ ~Known(m.changes, "destinationTxAt")
  /\ EvidenceOf(m.activity) \subseteq EvidenceOf(s) \cup EvidenceOf(m.changes)

IInv ==
  /\ stored \in [Receipt -> Activity]
  /\ memory \in [Tab -> [Receipt -> ReceiptRecord]]
  /\ \A r \in Receipt : GoodRow(stored[r])
  /\ \A t \in Tab, r \in Receipt : GoodReceipt(memory[t][r], stored[r])
  /\ \A t, u \in Tab, r \in Receipt :
       Agree(memory[t][r].activity, memory[u][r].activity)

(* A snapshot tab t may sync from.                                         *)
GoodOwn(t, own) ==
  /\ own \in [Receipt -> ReceiptRecord]
  /\ \A r \in Receipt : GoodReceipt(own[r], stored[r])
  /\ \A u \in Tab \ {t}, r \in Receipt :
       Agree(own[r].activity, memory[u][r].activity)

(* The durable row s may become x.                                         *)
Advances(s, x) ==
  Present(s) =>
    /\ Present(x)
    /\ StateOrder(s) <= StateOrder(x)
    /\ EvidenceOf(s) \subseteq EvidenceOf(x)
    /\ s["status"] \in Settled => x["status"] = s["status"]
    /\ x["direction"] = s["direction"]

LEMMA AbsentFacts ==
  /\ Absent \in Activity
  /\ ~Present(Absent)
  /\ EvidenceOf(Absent) = {}
  /\ Absent["direction"] = None /\ Absent["status"] = None
  /\ Saved(Absent) \in ReceiptRecord
<1>1. \A f \in Field : Absent[f] = None
  BY DEF Absent
<1>2. Absent["direction"] = None /\ Absent["status"] = None
  BY <1>1, FieldNames
<1>3. Absent \in Activity
  BY <1>2 DEF Absent, Activity, Value
<1>4. EvidenceOf(Absent) = {}
  BY <1>1, FieldNames DEF EvidenceOf, Known
<1>5. QED BY <1>2, <1>3, <1>4 DEF Present, Saved, ReceiptRecord

(* A good row is read back as it was written.                              *)
LEMMA ReadGoodRow ==
  ASSUME NEW s \in Activity, GoodRow(s)
  PROVE  ReadRow(s) = s
<1>1. CASE ~Present(s)
  BY <1>1 DEF ReadRow
<1>2. CASE Present(s)
  <2>1. Sound(s) /\ Attributable(s)
    BY <1>2, AbsentFacts DEF GoodRow
  <2>2. s = [f \in Field |-> s[f]]
    BY DEF Activity
  <2>3. Normalize(s) = s
    BY <2>1, <2>2 DEF Sound, Normal, Normalize
  <2>4. Unbound(s) => Reopen(s) = s
    <3>1. SUFFICES ASSUME Unbound(s) PROVE Reopen(s) = s
      OBVIOUS
    <3>2. /\ s["status"] \in {"signature", "source_finality"}
          /\ s["destinationTxHash"] = None
          /\ s["destinationTxAt"] = None
      BY <2>1, <3>1 DEF Attributable, Unbound, Known
    <3>3. QED BY <2>2, <3>2 DEF Reopen
  <2>5. QED BY <1>2, <2>3, <2>4 DEF ReadRow
<1>3. QED BY <1>1, <1>2

(* Replaying a good receipt onto a good row advances the row to another    *)
(* good row, which shows what was durable and what was unsaved.            *)
LEMMA ReplayedFacts ==
  ASSUME NEW own, NEW r \in Receipt, NEW now \in Time,
         stored[r] \in Activity, GoodRow(stored[r]),
         GoodReceipt(own[r], stored[r])
  PROVE  LET s == stored[r]
             m == own[r]
             x == Replayed(own, r, now).activity
         IN  /\ x \in Activity
             /\ GoodRow(x)
             /\ Advances(s, x)
             /\ m.saved => x = s /\ Replayed(own, r, now) = Saved(s)
             /\ ~m.saved => /\ Present(x)
                            /\ x["direction"] = m.activity["direction"]
                            /\ EvidenceOf(x) \subseteq
                                 EvidenceOf(s) \cup EvidenceOf(m.changes)
                            /\ EvidenceOf(m.activity) \subseteq EvidenceOf(x)
                            /\ Replayed(own, r, now) =
                                 [m EXCEPT !.activity = x]
<1> DEFINE s == stored[r]
           m == own[r]
           x == Replayed(own, r, now).activity
<1>0. ReadRow(s) = s
  BY ReadGoodRow
<1>1. m \in ReceiptRecord /\ m.activity \in Activity /\ m.changes \in Activity
  BY DEF GoodReceipt, ReceiptRecord
<1>2. CASE m.saved
  <2>1. Replayed(own, r, now) = Saved(s) /\ x = s
    BY <1>0, <1>2 DEF Replayed, Saved
  <2>2. Advances(s, s)
    <3>1. StateOrder(s) \in 0..5
      BY StateTyped
    <3>2. QED BY <3>1 DEF Advances
  <2>3. QED BY <1>2, <2>1, <2>2
<1>3. CASE ~m.saved /\ ~Present(s)
  <2>1. Sound(m.activity) /\ Attributable(m.activity)
    BY <1>3 DEF GoodReceipt, Saved
  <2>2. Replayed(own, r, now) = m /\ x = m.activity
    BY <1>1, <1>3 DEF Replayed, ReceiptRecord
  <2>3. m = [m EXCEPT !.activity = m.activity]
    BY <1>1 DEF ReceiptRecord
  <2>4. EvidenceOf(x) \subseteq EvidenceOf(s) \cup EvidenceOf(m.changes)
    BY <2>2 DEF GoodReceipt
  <2>5. Present(x)
    BY <2>1, <2>2 DEF Sound
  <2>6. QED BY <1>1, <1>3, <2>1, <2>2, <2>3, <2>4, <2>5 DEF GoodRow, Advances
<1>4. CASE ~m.saved /\ Present(s)
  <2>1. Sound(s) /\ Attributable(s)
    BY <1>4, AbsentFacts DEF GoodRow
  <2>2. Sound(m.activity) /\ Attributable(m.activity)
    BY <1>4 DEF GoodReceipt, Saved
  <2>3. m.activity["direction"] = s["direction"]
    BY <1>4, <2>2 DEF GoodReceipt, Agree, Sound
  <2>4. m.changes["direction"] \in {None, s["direction"]}
    BY <2>3 DEF GoodReceipt
  <2>5. /\ x = Merge(s, m.changes, now)
        /\ Replayed(own, r, now) = [m EXCEPT !.activity = x]
    BY <1>0, <1>1, <1>4 DEF Replayed, ReceiptRecord
  <2>6. /\ Sound(x)
        /\ x["direction"] = s["direction"]
        /\ StateOrder(s) <= StateOrder(x)
        /\ s["status"] \in Settled => x["status"] = s["status"]
        /\ \A f \in Evidence : Known(x, f) <=> Known(s, f) \/ Known(m.changes, f)
        /\ s["direction"] = "agglayer-send" =>
             x["status"] \in {s["status"], m.changes["status"]}
        /\ Known(x, "destinationTxAt") =>
             \/ Known(s, "destinationTxAt") \/ Known(m.changes, "destinationTxAt")
             \/ Known(x, "destinationTxHash")
    BY <1>1, <2>1, <2>4, <2>5, MergeFacts
  <2>7. EvidenceOf(x) = EvidenceOf(s) \cup EvidenceOf(m.changes)
    BY <2>6 DEF EvidenceOf
  <2>8. EvidenceOf(m.activity) \subseteq EvidenceOf(x)
    BY <2>7 DEF GoodReceipt
  <2>9. Attributable(x)
    <3>1. SUFFICES ASSUME x["direction"] = "agglayer-send",
                          ~Known(x, "agglayerExitHashes")
                   PROVE  /\ x["status"] \in {"signature", "source_finality",
                                              "failed"}
                          /\ ~Known(x, "destinationTxHash")
                          /\ ~Known(x, "destinationTxAt")
      BY DEF Attributable
    <3>2. /\ "agglayerExitHashes" \in Evidence
          /\ "destinationTxHash" \in Evidence
      BY DEF Evidence
    <3>3. ~Known(s, "agglayerExitHashes")
      BY <2>6, <3>1, <3>2
    <3>4. ~Known(m.activity, "agglayerExitHashes")
      BY <2>8, <3>1, <3>2 DEF EvidenceOf
    <3>5. /\ s["status"] \in {"signature", "source_finality", "failed"}
          /\ ~Known(s, "destinationTxHash")
          /\ ~Known(s, "destinationTxAt")
      BY <2>1, <2>6, <3>1, <3>3 DEF Attributable
    <3>6. /\ m.changes["status"] \in {None, "signature", "source_finality",
                                      "failed"}
          /\ ~Known(m.changes, "destinationTxHash")
          /\ ~Known(m.changes, "destinationTxAt")
      BY <2>3, <2>6, <3>1, <3>4 DEF GoodReceipt
    <3>7. x["status"] # None
      BY <2>6 DEF Sound, Status, None
    <3>8. QED BY <2>6, <3>1, <3>2, <3>5, <3>6, <3>7
  <2>10. x \in Activity /\ Present(x)
    BY <2>6 DEF Sound
  <2>11. Advances(s, x)
    BY <2>6, <2>7, <2>10 DEF Advances
  <2>12. QED BY <1>4, <2>3, <2>5, <2>6, <2>7, <2>8, <2>9, <2>10, <2>11
             DEF GoodRow
<1>5. QED BY <1>2, <1>3, <1>4

(* What a tab holds stays good while the durable row advances.             *)
LEMMA StaysGood ==
  ASSUME NEW m, NEW s \in Activity, NEW x \in Activity, GoodRow(s),
         GoodReceipt(m, s), Advances(s, x), Agree(m.activity, x)
  PROVE  GoodReceipt(m, x)
<1>1. EvidenceOf(m.activity) \subseteq EvidenceOf(x) \cup EvidenceOf(m.changes)
  <2>1. CASE Present(s)
    BY <2>1 DEF GoodReceipt, Advances
  <2>2. CASE ~Present(s)
    BY <2>2, AbsentFacts DEF GoodReceipt, GoodRow, Sound
  <2>3. QED BY <2>1, <2>2
<1>2. m.saved /\ Present(m.activity) => Covers(x, m.activity)
  <2>1. SUFFICES ASSUME m.saved, Present(m.activity)
                 PROVE  Covers(x, m.activity)
    OBVIOUS
  <2>2. Covers(s, m.activity)
    BY <2>1 DEF GoodReceipt
  <2>3. /\ StateOrder(m.activity) \in 0..5
        /\ StateOrder(s) \in 0..5
        /\ StateOrder(x) \in 0..5
    BY StateTyped DEF GoodReceipt, ReceiptRecord
  <2>4. QED BY <2>2, <2>3 DEF Covers, Advances
<1>3. QED BY <1>1, <1>2 DEF GoodReceipt

(* A receipt taken from the durable row is good.                           *)
LEMMA SavedGood ==
  ASSUME NEW s \in Activity, GoodRow(s)
  PROVE  GoodReceipt(Saved(s), s)
<1>1. /\ Saved(s).activity = s
      /\ Saved(s).changes = Absent
      /\ Saved(s).saved = TRUE
      /\ Saved(s) \in ReceiptRecord
  BY AbsentFacts DEF Saved, ReceiptRecord
<1>2. StateOrder(s) \in 0..5
  BY StateTyped
<1>3. Present(s) => Covers(s, s)
  BY <1>2 DEF Covers
<1>4. ~Known(Absent, "destinationTxHash") /\ ~Known(Absent, "destinationTxAt")
  BY DEF Known, Absent, Field, Evidence
<1>5. QED BY <1>1, <1>3, <1>4, AbsentFacts DEF GoodReceipt, GoodRow, Agree

(* So is an unsaved one whose activity was replayed.                       *)
LEMMA UnsavedGood ==
  ASSUME NEW m, NEW s \in Activity, NEW x \in Activity,
         GoodReceipt(m, s), ~m.saved,
         GoodRow(x), Advances(s, x), Present(x),
         x["direction"] = m.activity["direction"],
         EvidenceOf(x) \subseteq EvidenceOf(s) \cup EvidenceOf(m.changes),
         EvidenceOf(m.activity) \subseteq EvidenceOf(x)
  PROVE  GoodReceipt([m EXCEPT !.activity = x], s)
<1> DEFINE k == [m EXCEPT !.activity = x]
<1>1. /\ k.activity = x /\ k.changes = m.changes /\ ~k.saved
      /\ k \in ReceiptRecord
  BY DEF GoodReceipt, ReceiptRecord
<1>2. Sound(x) /\ Attributable(x)
  BY AbsentFacts DEF GoodRow
<1>3. Agree(x, s)
  BY DEF Advances, Agree
<1>4. ~Known(x, "agglayerExitHashes") => ~Known(m.activity, "agglayerExitHashes")
  BY DEF EvidenceOf, Evidence
<1>5. QED BY <1>1, <1>2, <1>3, <1>4 DEF GoodReceipt

(* Syncing from a good snapshot keeps the invariant; every durable row     *)
(* keeps its place or advances.                                            *)
LEMMA SyncStep ==
  ASSUME IInv, NEW t \in Tab, NEW own, GoodOwn(t, own), NEW now \in Time,
         SyncFrom(t, own, now)
  PROVE  IInv' /\ \A r \in Receipt : Advances(stored[r], stored'[r])
<1> DEFINE x(r) == Replayed(own, r, now).activity
<1>1. \A r \in Receipt :
        /\ stored[r] \in Activity /\ GoodRow(stored[r])
        /\ GoodReceipt(own[r], stored[r])
        /\ own[r] \in ReceiptRecord
        /\ \A u \in Tab : GoodReceipt(memory[u][r], stored[r])
  BY DEF IInv, GoodOwn
<1>2. ASSUME NEW r \in Receipt
      PROVE  /\ x(r) \in Activity /\ GoodRow(x(r)) /\ Advances(stored[r], x(r))
             /\ own[r].saved => /\ x(r) = stored[r]
                                /\ Replayed(own, r, now) = Saved(stored[r])
             /\ ~own[r].saved =>
                  /\ Present(x(r))
                  /\ x(r)["direction"] = own[r].activity["direction"]
                  /\ EvidenceOf(x(r)) \subseteq
                       EvidenceOf(stored[r]) \cup EvidenceOf(own[r].changes)
                  /\ EvidenceOf(own[r].activity) \subseteq EvidenceOf(x(r))
                  /\ Replayed(own, r, now) = [own[r] EXCEPT !.activity = x(r)]
  BY <1>1, ReplayedFacts
<1>3. \A r \in Receipt : Advances(stored[r], stored[r])
  <2>1. \A r \in Receipt : StateOrder(stored[r]) \in 0..5
    BY <1>1, StateTyped
  <2>2. QED BY <2>1 DEF Advances
(* Whatever tab t replayed agrees with what the other tabs hold.           *)
<1>4. ASSUME NEW u \in Tab \ {t}, NEW r \in Receipt
      PROVE  Agree(x(r), memory[u][r].activity)
  <2>1. CASE own[r].saved
    <3>1. x(r) = stored[r]
      BY <1>2, <2>1
    <3>2. Agree(memory[u][r].activity, stored[r])
      BY <1>1 DEF GoodReceipt
    <3>3. QED BY <3>1, <3>2 DEF Agree
  <2>2. CASE ~own[r].saved
    <3>1. x(r)["direction"] = own[r].activity["direction"]
      BY <1>2, <2>2
    <3>2. Present(own[r].activity)
      BY <1>2, <2>2, <3>1 DEF Present
    <3>3. Agree(own[r].activity, memory[u][r].activity)
      BY DEF GoodOwn
    <3>4. QED BY <3>1, <3>2, <3>3 DEF Agree
  <2>3. QED BY <2>1, <2>2
<1>5. CASE ReadFails(t, own)
  <2>1. stored' = stored /\ memory' = [memory EXCEPT ![t] = own]
    BY <1>5 DEF ReadFails
  <2>2. memory'[t] = own /\ \A u \in Tab \ {t} : memory'[u] = memory[u]
    BY <2>1 DEF IInv
  <2>3. memory' \in [Tab -> [Receipt -> ReceiptRecord]]
    BY <2>1 DEF IInv, GoodOwn
  <2>4. \A u \in Tab, r \in Receipt : GoodReceipt(memory'[u][r], stored'[r])
    BY <1>1, <2>1, <2>2
  <2>5. ASSUME NEW u \in Tab, NEW v \in Tab, NEW r \in Receipt
        PROVE  Agree(memory'[u][r].activity, memory'[v][r].activity)
    <3>1. CASE u = t /\ v = t
      BY <3>1 DEF Agree
    <3>2. CASE u = t /\ v # t
      BY <2>2, <3>2 DEF GoodOwn
    <3>3. CASE u # t /\ v = t
      <4>1. Agree(own[r].activity, memory[u][r].activity)
        BY <3>3 DEF GoodOwn
      <4>2. QED BY <2>2, <3>3, <4>1 DEF Agree
    <3>4. CASE u # t /\ v # t
      BY <2>2, <3>4 DEF IInv
    <3>5. QED BY <3>1, <3>2, <3>3, <3>4
  <2>6. QED BY <1>3, <2>1, <2>3, <2>4, <2>5 DEF IInv
<1>6. CASE WriteFails(t, own, now)
  <2> DEFINE seen == [r \in Receipt |-> Replayed(own, r, now)]
  <2>1. stored' = stored /\ memory' = [memory EXCEPT ![t] = seen]
    BY <1>6 DEF WriteFails
  <2>2. memory'[t] = seen /\ \A u \in Tab \ {t} : memory'[u] = memory[u]
    BY <2>1 DEF IInv
  <2>3. ASSUME NEW r \in Receipt
        PROVE  /\ GoodReceipt(seen[r], stored[r])
               /\ seen[r].activity = x(r)
    <3>1. seen[r].activity = x(r)
      OBVIOUS
    <3>2. CASE own[r].saved
      <4>1. seen[r] = Saved(stored[r])
        BY <1>2, <3>2
      <4>2. QED BY <1>1, <3>1, <4>1, SavedGood
    <3>3. CASE ~own[r].saved
      <4>1. seen[r] = [own[r] EXCEPT !.activity = x(r)]
        BY <1>2, <3>3
      <4>2. QED BY <1>1, <1>2, <3>1, <3>3, <4>1, UnsavedGood
    <3>4. QED BY <3>2, <3>3
  <2>4. memory' \in [Tab -> [Receipt -> ReceiptRecord]]
    <3>1. seen \in [Receipt -> ReceiptRecord]
      BY <2>3 DEF GoodReceipt
    <3>2. QED BY <2>1, <3>1 DEF IInv
  <2>5. \A u \in Tab, r \in Receipt : GoodReceipt(memory'[u][r], stored'[r])
    BY <1>1, <2>1, <2>2, <2>3
  <2>6. ASSUME NEW u \in Tab, NEW v \in Tab, NEW r \in Receipt
        PROVE  Agree(memory'[u][r].activity, memory'[v][r].activity)
    <3>1. memory'[t][r].activity = x(r)
      BY <2>2, <2>3
    <3>2. CASE u = t /\ v = t
      BY <3>2 DEF Agree
    <3>3. CASE u = t /\ v # t
      BY <1>4, <2>2, <3>1, <3>3
    <3>4. CASE u # t /\ v = t
      <4>1. Agree(x(r), memory[u][r].activity)
        BY <1>4, <3>4
      <4>2. QED BY <2>2, <3>1, <3>4, <4>1 DEF Agree
    <3>5. CASE u # t /\ v # t
      BY <2>2, <3>5 DEF IInv
    <3>6. QED BY <3>2, <3>3, <3>4, <3>5
  <2>7. QED BY <1>3, <2>1, <2>4, <2>5, <2>6 DEF IInv
<1>7. CASE SyncSucceeds(t, own, now)
  <2> DEFINE seen == [r \in Receipt |-> Saved(x(r))]
  <2>1. memory' = [memory EXCEPT ![t] = seen]
    BY <1>7 DEF SyncSucceeds
  <2>2. memory'[t] = seen /\ \A u \in Tab \ {t} : memory'[u] = memory[u]
    BY <2>1 DEF IInv
  <2>3. stored' = [r \in Receipt |-> x(r)]
    <3>1. CASE Pending(own)
      BY <1>7, <3>1 DEF SyncSucceeds
    <3>2. CASE ~Pending(own)
      <4>1. stored' = stored
        BY <1>7, <3>2 DEF SyncSucceeds
      <4>2. \A r \in Receipt : x(r) = stored[r]
        BY <1>2, <3>2 DEF Pending
      <4>3. stored = [r \in Receipt |-> stored[r]]
        BY DEF IInv
      <4>4. QED BY <4>1, <4>2, <4>3
    <3>3. QED BY <3>1, <3>2
  <2>4. \A r \in Receipt : /\ stored'[r] = x(r)
                           /\ seen[r] = Saved(x(r))
    BY <2>3
  <2>5. stored' \in [Receipt -> Activity]
    BY <1>2, <2>3
  <2>6. \A r \in Receipt : GoodReceipt(seen[r], stored'[r])
    BY <1>2, <2>4, SavedGood
  <2>7. ASSUME NEW u \in Tab \ {t}, NEW r \in Receipt
        PROVE  GoodReceipt(memory[u][r], x(r))
    <3>1. Agree(memory[u][r].activity, x(r))
      BY <1>4 DEF Agree
    <3>2. QED BY <1>1, <1>2, <3>1, StaysGood
  <2>8. \A u \in Tab, r \in Receipt : GoodReceipt(memory'[u][r], stored'[r])
    BY <2>2, <2>4, <2>6, <2>7
  <2>9. memory' \in [Tab -> [Receipt -> ReceiptRecord]]
    <3>1. seen \in [Receipt -> ReceiptRecord]
      BY <2>6 DEF GoodReceipt
    <3>2. QED BY <2>1, <3>1 DEF IInv
  <2>10. ASSUME NEW u \in Tab, NEW v \in Tab, NEW r \in Receipt
         PROVE  Agree(memory'[u][r].activity, memory'[v][r].activity)
    <3>1. memory'[t][r].activity = x(r)
      BY <2>2 DEF Saved
    <3>2. CASE u = t /\ v = t
      BY <3>2 DEF Agree
    <3>3. CASE u = t /\ v # t
      BY <1>4, <2>2, <3>1, <3>3
    <3>4. CASE u # t /\ v = t
      <4>1. Agree(x(r), memory[u][r].activity)
        BY <1>4, <3>4
      <4>2. QED BY <2>2, <3>1, <3>4, <4>1 DEF Agree
    <3>5. CASE u # t /\ v # t
      BY <2>2, <3>5 DEF IInv
    <3>6. QED BY <3>2, <3>3, <3>4, <3>5
  <2>11. /\ \A r \in Receipt : GoodRow(stored'[r])
         /\ \A r \in Receipt : Advances(stored[r], stored'[r])
    BY <1>2, <2>4
  <2>12. QED BY <2>5, <2>8, <2>9, <2>10, <2>11 DEF IInv
<1>8. QED BY <1>5, <1>6, <1>7 DEF SyncFrom

-----------------------------------------------------------------------------
(* What publishing a good new activity makes of a tab's snapshot: the      *)
(* changed fields join the unsaved ones, and nothing shown is left out.    *)
LEMMA PublishedGood ==
  ASSUME IInv, NEW t \in Tab, NEW r \in Receipt, NEW a,
         Sound(a), Attributable(a),
         Present(memory[t][r].activity) =>
           /\ a["direction"] = memory[t][r].activity["direction"]
           /\ EvidenceOf(memory[t][r].activity) \subseteq EvidenceOf(a),
         Agree(a, stored[r]),
         \A u \in Tab \ {t} : Agree(a, memory[u][r].activity)
  PROVE  GoodOwn(t, Published(t, r, a))
<1> DEFINE m == memory[t][r]
           d == Changed(m.activity, a)
           c == Observed(m.changes, d)
           own == Published(t, r, a)
<1>1. /\ m \in ReceiptRecord /\ m.activity \in Activity
      /\ m.changes \in Activity /\ a \in Activity
      /\ GoodReceipt(m, stored[r]) /\ stored[r] \in Activity
  BY DEF IInv, ReceiptRecord, Sound
<1>2. /\ own = [memory[t] EXCEPT ![r] = Unsaved(a, c)]
      /\ own[r] = Unsaved(a, c)
      /\ \A q \in Receipt \ {r} : own[q] = memory[t][q]
  BY DEF Published, IInv
<1>3. \A f \in Field :
        c[f] = IF Known(a, f) /\ a[f] # m.activity[f] THEN a[f]
               ELSE m.changes[f]
  BY DEF Changed, Observed, Known
<1>4. c \in Activity
  <2>1. \A f \in Field : c[f] \in Value
    BY <1>1, <1>3 DEF Activity
  <2>2. c = [f \in Field |-> c[f]]
    BY DEF Observed
  <2>3. /\ c["direction"] \in Direction \cup {None}
        /\ c["status"] \in Status \cup {None}
    BY <1>1, <1>3, FieldNames DEF Activity
  <2>4. QED BY <2>1, <2>2, <2>3 DEF Activity
<1>5. Present(m.activity) \/ m = Saved(Absent)
  BY <1>1 DEF GoodReceipt, Sound
<1>6. c["direction"] \in {None, a["direction"]}
  <2>1. c["direction"] \in {a["direction"], m.changes["direction"]}
    BY <1>3, FieldNames
  <2>2. m.changes["direction"] \in {None, m.activity["direction"]}
    BY <1>1 DEF GoodReceipt
  <2>3. CASE Present(m.activity)
    BY <2>1, <2>2, <2>3
  <2>4. CASE m = Saved(Absent)
    <3>1. m.changes["direction"] = None
      BY <2>4, AbsentFacts DEF Saved
    <3>2. QED BY <2>1, <3>1
  <2>5. QED BY <1>5, <2>3, <2>4
<1>7. EvidenceOf(a) \subseteq EvidenceOf(stored[r]) \cup EvidenceOf(c)
  <2>1. SUFFICES ASSUME NEW f \in Evidence, Known(a, f)
                 PROVE  Known(stored[r], f) \/ Known(c, f)
    BY DEF EvidenceOf
  <2>2. f \in Field
    BY FieldNames
  <2>3. CASE a[f] # m.activity[f]
    BY <1>3, <2>1, <2>2, <2>3 DEF Known
  <2>4. CASE a[f] = m.activity[f]
    <3>1. Known(m.activity, f)
      BY <2>1, <2>4 DEF Known
    <3>2. Known(stored[r], f) \/ Known(m.changes, f)
      BY <1>1, <3>1 DEF GoodReceipt, EvidenceOf
    <3>3. c[f] = m.changes[f]
      BY <1>3, <2>2, <2>4
    <3>4. QED BY <3>2, <3>3 DEF Known
  <2>5. QED BY <2>3, <2>4
<1>8. ASSUME a["direction"] = "agglayer-send",
             ~Known(a, "agglayerExitHashes")
      PROVE  /\ c["status"] \in {None, "signature", "source_finality",
                                 "failed"}
             /\ ~Known(c, "destinationTxHash")
             /\ ~Known(c, "destinationTxAt")
  <2>1. /\ a["status"] \in {"signature", "source_finality", "failed"}
        /\ ~Known(a, "destinationTxHash")
        /\ ~Known(a, "destinationTxAt")
    BY <1>8 DEF Attributable
  <2>2. /\ m.changes["status"] \in {None, "signature", "source_finality",
                                    "failed"}
        /\ ~Known(m.changes, "destinationTxHash")
        /\ ~Known(m.changes, "destinationTxAt")
    <3>1. CASE Present(m.activity)
      <4>1. ~Known(m.activity, "agglayerExitHashes")
        BY <1>8, <3>1 DEF EvidenceOf, Evidence
      <4>2. QED BY <1>1, <1>8, <3>1, <4>1 DEF GoodReceipt
    <3>2. CASE m = Saved(Absent)
      BY <3>2 DEF Saved, Absent, Known, Field, Evidence
    <3>3. QED BY <1>5, <3>1, <3>2
  <2>3. "destinationTxHash" \in Field /\ "destinationTxAt" \in Field
    BY DEF Field, Evidence
  <2>4. QED BY <1>3, <2>1, <2>2, <2>3, FieldNames DEF Known
<1>9. /\ own[r].activity = a /\ own[r].changes = c /\ own[r].saved = FALSE
      /\ own[r] \in ReceiptRecord
  BY <1>1, <1>2, <1>4 DEF Unsaved, ReceiptRecord
<1>10. GoodReceipt(own[r], stored[r])
  BY <1>6, <1>7, <1>8, <1>9 DEF GoodReceipt
<1>11. ASSUME NEW q \in Receipt
       PROVE  GoodReceipt(own[q], stored[q]) /\ own[q] \in ReceiptRecord
  <2>1. CASE q = r
    BY <1>9, <1>10, <2>1
  <2>2. CASE q # r
    BY <1>2, <2>2 DEF IInv
  <2>3. QED BY <2>1, <2>2
<1>12. own \in [Receipt -> ReceiptRecord]
  BY <1>2, <1>11 DEF IInv
<1>13. ASSUME NEW u \in Tab \ {t}, NEW q \in Receipt
       PROVE  Agree(own[q].activity, memory[u][q].activity)
  <2>1. CASE q = r
    BY <1>9, <2>1
  <2>2. CASE q # r
    BY <1>2, <2>2 DEF IInv
  <2>3. QED BY <2>1, <2>2
<1>14. QED BY <1>11, <1>12, <1>13 DEF GoodOwn

-----------------------------------------------------------------------------
(* The first receipt of a submission is good.                              *)
LEMMA RecordedGood ==
  ASSUME IInv, NEW t \in Tab, NEW now \in Time, NEW r \in Receipt,
         NEW a \in Opening[r], Record(t, r, a, now)
  PROVE  LET b == Normalize(a)
         IN  /\ Sound(b) /\ GoodOwn(t, Published(t, r, b))
             /\ \A f \in Field \ {"status"} : b[f] = a[f]
             /\ b["status"] = StateStatus(a)
<1> DEFINE b == Normalize(a)
<1>1. /\ a \in Activity /\ Present(a) /\ a["status"] \in Status
      /\ a["direction"] = "epoch-send" => Known(a, "midenNoteId")
      /\ Attributable(a)
  BY OpeningAssumption
<1>2. /\ b \in Activity /\ Normal(b) /\ b["status"] = StateStatus(a)
      /\ \A f \in Field \ {"status"} : b[f] = a[f]
      /\ b["status"] \in Status
  BY <1>1, Normalized, StateTyped
<1>3. /\ b["direction"] = a["direction"]
      /\ b["midenNoteId"] = a["midenNoteId"]
      /\ b["agglayerExitHashes"] = a["agglayerExitHashes"]
      /\ b["destinationTxHash"] = a["destinationTxHash"]
      /\ b["destinationTxAt"] = a["destinationTxAt"]
  BY <1>2 DEF Field, Evidence
<1>4. Sound(b)
  BY <1>1, <1>2, <1>3 DEF Sound, Present, HasIds, Known
<1>5. Attributable(b)
  <2>1. a["direction"] = "agglayer-send" => b["status"] = a["status"]
    BY <1>1, <1>2 DEF StateStatus, ResolvePhase, PhaseStatus, Status,
                      Claiming, Epoch
  <2>2. QED BY <1>1, <1>3, <2>1 DEF Attributable, Known
<1>6. ~Present(stored[r]) /\ \A u \in Tab : ~Present(memory[u][r].activity)
  BY DEF Record
<1>7. GoodOwn(t, Published(t, r, b))
  BY <1>4, <1>5, <1>6, PublishedGood DEF Agree
<1>8. QED BY <1>2, <1>4, <1>7

(* So is what an observation makes of a receipt, if it is attributable.    *)
LEMMA PatchedGood ==
  ASSUME IInv, NEW t \in Tab, NEW now \in Time, NEW r \in Receipt,
         Present(memory[t][r].activity),
         NEW p \in Activity, p["direction"] = None,
         Attributable(Merge(memory[t][r].activity, p, now))
  PROVE  GoodOwn(t, Published(t, r, Merge(memory[t][r].activity, p, now)))
<1> DEFINE a == memory[t][r].activity
           b == Merge(a, p, now)
<1>1. /\ GoodReceipt(memory[t][r], stored[r])
      /\ \A u \in Tab : Agree(a, memory[u][r].activity)
  BY DEF IInv
<1>2. Sound(a)
  BY <1>1, AbsentFacts DEF GoodReceipt, Saved
<1>3. /\ Sound(b) /\ b["direction"] = a["direction"]
      /\ \A f \in Evidence : Known(a, f) => Known(b, f)
  BY <1>2, MergeFacts
<1>4. /\ Agree(b, stored[r])
      /\ \A u \in Tab : Agree(b, memory[u][r].activity)
  BY <1>1, <1>3 DEF GoodReceipt, Agree, Present
<1>5. EvidenceOf(a) \subseteq EvidenceOf(b)
  BY <1>3 DEF EvidenceOf
<1>6. QED BY <1>3, <1>4, <1>5, PublishedGood

-----------------------------------------------------------------------------
LEMMA InitGood == StoreInit => IInv
<1>1. Agree(Absent, Absent) /\ GoodRow(Absent)
  BY DEF Agree, GoodRow
<1>2. GoodReceipt(Saved(Absent), Absent)
  BY <1>1, AbsentFacts, SavedGood
<1>3. Saved(Absent).activity = Absent
  BY DEF Saved
<1>4. QED BY <1>1, <1>2, <1>3, AbsentFacts DEF StoreInit, Empty, IInv

(* A reload forgets what was unsaved and leaves the durable rows.          *)
LEMMA ReloadGood ==
  ASSUME IInv, NEW t \in Tab, Reload(t)
  PROVE  IInv'
<1>1. stored' = stored /\ memory' = [memory EXCEPT ![t] = Empty]
  BY DEF Reload
<1>2. memory'[t] = Empty /\ \A u \in Tab \ {t} : memory'[u] = memory[u]
  BY <1>1 DEF IInv
<1>3. Empty \in [Receipt -> ReceiptRecord]
  BY AbsentFacts DEF Empty
<1>4. ASSUME NEW r \in Receipt
      PROVE  GoodReceipt(Empty[r], stored[r])
  <2>1. Empty[r] = Saved(Absent)
    BY DEF Empty
  <2>2. GoodReceipt(Saved(Absent), Absent)
    BY AbsentFacts, SavedGood DEF GoodRow
  <2>3. QED BY <2>1, <2>2, AbsentFacts DEF GoodReceipt, Agree, Saved
<1>5. \A r \in Receipt : ~Present(Empty[r].activity)
  BY AbsentFacts DEF Empty, Saved
<1>6. \A u, v \in Tab, r \in Receipt :
        Agree(memory'[u][r].activity, memory'[v][r].activity)
  BY <1>2, <1>5 DEF IInv, Agree
<1>7. \A u \in Tab, r \in Receipt : GoodReceipt(memory'[u][r], stored'[r])
  BY <1>1, <1>2, <1>4 DEF IInv
<1>8. memory' \in [Tab -> [Receipt -> ReceiptRecord]]
  BY <1>1, <1>3 DEF IInv
<1>9. QED BY <1>1, <1>6, <1>7, <1>8 DEF IInv

(* Every action keeps the invariant, and no action takes anything from the *)
(* durable history: one step per action.                                   *)
LEMMA NextGood ==
  ASSUME IInv, [Next]_storeVars
  PROVE  IInv' /\ \A r \in Receipt : Advances(stored[r], stored'[r])
<1>0. \A r \in Receipt : Advances(stored[r], stored[r])
  <2>1. \A r \in Receipt : StateOrder(stored[r]) \in 0..5
    BY StateTyped DEF IInv
  <2>2. QED BY <2>1 DEF Advances
<1>1. ASSUME NEW t \in Tab, NEW now \in Time, NEW r \in Receipt,
             NEW a \in Opening[r], Record(t, r, a, now)
      PROVE  IInv' /\ \A q \in Receipt : Advances(stored[q], stored'[q])
  BY <1>1, RecordedGood, SyncStep DEF Record, Update
<1>2. ASSUME NEW t \in Tab, NEW now \in Time, NEW r \in Receipt,
             Present(memory[t][r].activity),
             NEW p \in Patch[memory[t][r].activity["direction"]],
             Observe(t, r, p, now)
      PROVE  IInv' /\ \A q \in Receipt : Advances(stored[q], stored'[q])
  <2>1. memory[t][r].activity["direction"] \in Direction
    BY <1>2 DEF IInv, ReceiptRecord, Activity, Present
  <2>2. p \in Activity /\ p["direction"] = None
    BY <2>1, PatchAssumption DEF Present
  <2> QED
    BY <1>2, <2>2, PatchedGood, SyncStep DEF Observe, ApplyPatch, Update
<1>3. ASSUME NEW t \in Tab, NEW now \in Time, Sync(t, now)
      PROVE  IInv' /\ \A q \in Receipt : Advances(stored[q], stored'[q])
  <2>1. GoodOwn(t, memory[t])
    BY DEF IInv, GoodOwn
  <2>2. QED BY <1>3, <2>1, SyncStep DEF Sync
<1>4. ASSUME NEW t \in Tab, Reload(t)
      PROVE  IInv' /\ \A q \in Receipt : Advances(stored[q], stored'[q])
  BY <1>0, <1>4, ReloadGood DEF Reload
<1>5. CASE UNCHANGED storeVars
  BY <1>0, <1>5 DEF storeVars, IInv
<1>6. CASE Next
  BY <1>1, <1>2, <1>3, <1>4, <1>6 DEF Next
<1>7. QED BY <1>5, <1>6

THEOREM Invariance == Spec => []IInv
<1>1. IInv /\ [Next]_storeVars => IInv'
  BY NextGood
<1>2. QED BY InitGood, <1>1, PTL DEF Spec

(* The rows are receipts of the model's types, in every reachable state.   *)
THEOREM TypeCorrect == Spec => []TypeOK
<1>1. IInv => TypeOK
  BY DEF IInv, TypeOK
<1>2. QED BY <1>1, Invariance, PTL

(* Reading the history back never changes it: normalizeActivity reopens no *)
(* withdrawal that the store itself wrote, and normalizes nothing twice.   *)
THEOREM ReadsAreLossless == Spec => []ReadIsLossless
<1>1. IInv => ReadIsLossless
  BY ReadGoodRow DEF IInv, ReadIsLossless
<1>2. QED BY <1>1, Invariance, PTL

(* A receipt without unsaved changes is durable with all it shows.         *)
THEOREM SavedReceiptsAreDurable == Spec => []SavedIsDurable
<1>1. IInv => SavedIsDurable
  BY DEF IInv, GoodReceipt, SavedIsDurable
<1>2. QED BY <1>1, Invariance, PTL

-----------------------------------------------------------------------------
(* The refinement: rows map to entries of the ledger.                      *)
LEMMA EntryTyped ==
  ASSUME NEW s \in Activity
  PROVE  Entry(s) \in Ledger!Progress
<1>1. s["status"] \in Status \cup {None} /\ StateOrder(s) \in 0..5
  BY StateTyped DEF Activity
<1>2. QED BY <1>1 DEF Entry, Ledger!Progress, EvidenceOf

LEMMA EntryAdvances ==
  ASSUME NEW s \in Activity, NEW x \in Activity, GoodRow(s), GoodRow(x),
         Advances(s, x)
  PROVE  \/ Entry(x) = Entry(s)
         \/ Entry(s) = Ledger!Unopened /\ Entry(x).status # None
         \/ /\ Entry(s).status # None
            /\ Entry(x).status # None
            /\ Entry(s).order <= Entry(x).order
            /\ Entry(s).evidence \subseteq Entry(x).evidence
            /\ Entry(s).status \in Settled => Entry(x).status = Entry(s).status
<1>0. \A y : Sound(y) => Present(y) /\ y["status"] # None
  BY DEF Sound, Status, None
<1>1. CASE Present(s)
  <2>1. Sound(s) /\ Sound(x) /\ Present(x)
    BY <1>1, AbsentFacts DEF GoodRow, Advances
  <2>2. QED BY <1>0, <1>1, <2>1 DEF Advances, Entry
<1>2. CASE ~Present(s)
  <2>1. s = Absent
    BY <1>2 DEF GoodRow, Sound
  <2>2. Entry(s) = Ledger!Unopened
    BY <2>1, AbsentFacts DEF Entry, Ledger!Unopened
  <2>3. x = Absent \/ Sound(x)
    BY DEF GoodRow
  <2>4. QED BY <1>0, <2>1, <2>2, <2>3 DEF Entry
<1>3. QED BY <1>1, <1>2

(* The durable rows implement the ledger: whatever tabs, faults, reloads   *)
(* and replays do, no transfer is lost, goes back or changes its outcome.  *)
THEOREM StoreImplementsLedger == Spec => LedgerRefined
<1> DEFINE ledger == [r \in Receipt |-> Entry(stored[r])]
<1>1. StoreInit => Ledger!Init
  <2>1. Entry(Absent) = Ledger!Unopened
    BY AbsentFacts DEF Entry, Ledger!Unopened
  <2>2. QED BY <2>1 DEF StoreInit, Ledger!Init
<1>2. ASSUME IInv, [Next]_storeVars
      PROVE  [Ledger!Next]_ledger
  <2>1. IInv' /\ \A r \in Receipt : Advances(stored[r], stored'[r])
    BY <1>2, NextGood
  <2>2. \A r \in Receipt : /\ stored[r] \in Activity /\ stored'[r] \in Activity
                           /\ GoodRow(stored[r]) /\ GoodRow(stored'[r])
    BY <1>2, <2>1 DEF IInv
  <2>3. ledger' \in [Receipt -> Ledger!Progress]
    BY <2>2, EntryTyped
  <2>4. ASSUME NEW r \in Receipt
        PROVE  Ledger!Open(r) \/ Ledger!Advance(r) \/ ledger'[r] = ledger[r]
    <3>1. ledger[r] = Entry(stored[r]) /\ ledger'[r] = Entry(stored'[r])
      OBVIOUS
    <3>2. QED BY <2>1, <2>2, <3>1, EntryAdvances DEF Ledger!Open, Ledger!Advance
  <2>5. Ledger!Next
    BY <2>3, <2>4 DEF Ledger!Next
  <2>6. QED BY <2>5
<1>3. QED BY <1>1, <1>2, Invariance, PTL DEF Spec, LedgerRefined, Ledger!Spec

-----------------------------------------------------------------------------
(***************************************************************************)
(* Replays.  What a tab keeps for a retry brings any durable row as far as *)
(* the tab has shown: the changes hold a field that carries the phase, or  *)
(* the row is there already.                                               *)
(***************************************************************************)
Ended == {"delivered", "reverted", "cancelled", "replaced"}

(* Changes c bring every row of direction d to order k at least.           *)
Carries(d, c, k) ==
  \/ k <= 1
  \/ /\ d # "xreserve-receive"
     /\ c["status"] # None /\ k <= PhaseOrder(d, c["status"])
  \/ d = "xreserve-send" /\ c["xreserveBurnStatus"] = "discarded"
  \/ /\ d = "xreserve-receive"
     /\ \/ c["status"] \in Settled \/ c["xreserveStatus"] \in Ended
        \/ k <= 4 /\ c["xreserveStatus"] = "attested"
        \/ k <= 3 /\ c["xreserveStatus"] = "confirmed"
        \/ k <= 2 /\ c["xreserveForwarding"] = "yes"

(* A receipt is past its signature, Circle's at one of its stages.         *)
Started(x) ==
  Present(x) =>
    /\ 1 <= StateOrder(x)
    /\ x["direction"] = "xreserve-receive" => x["xreserveStatus"] \in XreserveStatus

Reaches(m, s) ==
  \/ Present(s) /\ StateOrder(m.activity) <= StateOrder(s)
  \/ Carries(m.activity["direction"], m.changes, StateOrder(m.activity))

(* A receipt m of a tab, while the durable row is s.                       *)
Replays(m, s) ==
  /\ Started(m.activity)
  /\ m.activity["direction"] = "xreserve-receive" =>
       m.changes["xreserveStatus"] \in XreserveStatus \cup {None}
  /\ ~m.saved => Reaches(m, s)

AllReplay ==
  /\ \A r \in Receipt : Started(stored[r])
  /\ \A t \in Tab, r \in Receipt : Replays(memory[t][r], stored[r])

(* But for Circle's deposits, the order of a sound receipt is its status's.*)
LEMMA OrderOfStatus ==
  ASSUME NEW x, Sound(x), x["direction"] # "xreserve-receive"
  PROVE  /\ StateOrder(x) = PhaseOrder(x["direction"], x["status"])
         /\ x["direction"] = "xreserve-send" => StateOrder(x) \in {0, 1, 5}
         /\ x["direction"] = "epoch-send" /\ 2 <= StateOrder(x) =>
              x["status"] \in Settled \/ Known(x, "epochIntentNonce")
<1>1. /\ x["status"] \in Status /\ x["status"] = StateStatus(x)
      /\ x["direction"] = "epoch-send" => Known(x, "midenNoteId")
  BY DEF Sound, Normal, HasIds
<1>2. CASE x["direction"] = "epoch-send"
  BY <1>1, <1>2 DEF StateOrder, StateStatus, ResolvePhase, EpochSendPhase,
     PhaseOrder, PhaseStatus, Known, Settled, Status, None, Claiming, Epoch
<1>3. CASE x["direction"] = "epoch-receive"
  BY <1>1, <1>3 DEF StateOrder, StateStatus, ResolvePhase, EpochReceivePhase,
     PhaseOrder, PhaseStatus, Known, Settled, Status, None, Claiming, Epoch
<1>4. CASE x["direction"] = "xreserve-send"
  BY <1>1, <1>4 DEF StateOrder, StateStatus, ResolvePhase, XreserveSendPhase,
     PhaseOrder, PhaseStatus, Known, Settled, Status, None, Claiming, Epoch
<1>5. CASE x["direction"] \notin {"epoch-send", "epoch-receive",
                                  "xreserve-send", "xreserve-receive"}
  BY <1>1, <1>5 DEF StateOrder, ResolvePhase
<1> QED
  BY <1>2, <1>3, <1>4, <1>5

(* The order and the status of a Circle deposit with a known stage.        *)
LEMMA DepositOrder ==
  ASSUME NEW x, x["direction"] = "xreserve-receive", x["status"] \in Status,
         x["xreserveStatus"] \in XreserveStatus
  PROVE  LET ended == x["status"] \in Settled \/ x["xreserveStatus"] \in Ended
         IN  /\ ended => StateOrder(x) = 5 /\ StateStatus(x) \in Settled
             /\ ~ended =>
                  /\ StateOrder(x) =
                       IF x["xreserveStatus"] = "attested" THEN 4
                       ELSE IF x["xreserveStatus"] = "confirmed" THEN 3
                       ELSE IF x["xreserveForwarding"] = "yes" THEN 2 ELSE 1
                  /\ StateStatus(x) =
                       IF x["xreserveStatus"] = "attested"
                       THEN "message_observed" ELSE "source_finality"
<1>1. ResolvePhase(x) = XreserveReceivePhase(x)
  BY DEF ResolvePhase
<1>2. CASE x["status"] \in Settled \/ x["xreserveStatus"] \in Ended
  BY <1>1, <1>2 DEF StateOrder, StateStatus, XreserveReceivePhase, PhaseOrder,
     PhaseStatus, Settled, Ended, None, Claiming, Epoch
<1>3. CASE ~(x["status"] \in Settled \/ x["xreserveStatus"] \in Ended)
  BY <1>1, <1>3 DEF StateOrder, StateStatus, XreserveReceivePhase, PhaseOrder,
     PhaseStatus, Settled, Ended, None, Claiming, Epoch, XreserveStatus
<1> QED
  BY <1>2, <1>3

(* A merge reaches what its patch observes, unless the receipt is further. *)
LEMMA MergeOrder ==
  ASSUME NEW a, Sound(a), NEW p \in Activity, NEW now \in Time,
         p["direction"] \in {None, a["direction"]}
  PROVE  LET o == Observed(a, p)
             n == Normalize(o)
             b == Merge(a, p, now)
         IN  /\ Loses(a, n) => StateOrder(b) = StateOrder(a)
             /\ ~Loses(a, n) => StateOrder(b) = StateOrder(o)
             /\ StateOrder(o) <= StateOrder(b)
<1> DEFINE o == Observed(a, p)
           n == Normalize(o)
           m == IF Loses(a, n) THEN KeepPhase(a, n) ELSE n
           b == StampLegTimes(m, now)
<1>1. b = Merge(a, p, now)
  BY DEF Merge
<1>2. /\ a \in Activity /\ StateStatus(a) = a["status"] /\ Normal(a) /\ HasIds(a)
      /\ o \in Activity /\ o["direction"] = a["direction"] /\ o["status"] \in Status
      /\ \A f \in Field : Known(o, f) <=> Known(a, f) \/ Known(p, f)
  BY ObservedFacts DEF Sound, Normal
<1>3. /\ n \in Activity /\ StateStatus(n) = StateStatus(o)
      /\ StateOrder(n) = StateOrder(o)
      /\ \A f \in Field \ {"status"} : n[f] = o[f]
  BY <1>2, Normalized
<1>4. /\ n["direction"] = a["direction"]
      /\ \A f \in Evidence : Known(a, f) => Known(n, f)
  BY <1>2, <1>3, MoreFieldNames DEF Known, Evidence, Field
<1>5. Loses(a, n) => m \in Activity /\ StateOrder(m) = StateOrder(a)
  BY <1>2, <1>3, <1>4, KeepPhaseFacts
<1>6. ~Loses(a, n) => m \in Activity /\ StateOrder(m) = StateOrder(o)
  BY <1>3
<1> HIDE DEF m
<1>7. StateOrder(b) = StateOrder(m)
  BY <1>5, <1>6, StampFacts
<1>8. /\ StateOrder(a) \in 0..5 /\ StateOrder(n) \in 0..5
      /\ StateStatus(a) \in Settled => StateOrder(a) = 5
  BY <1>2, <1>3, StateTyped
<1>9. Loses(a, n) => StateOrder(n) <= StateOrder(a)
  BY <1>8 DEF Loses
<1> HIDE DEF b
<1> QED
  BY <1>1, <1>3, <1>5, <1>6, <1>7, <1>8, <1>9 DEF n

(* Unsaved changes that fit a durable row: its direction, a known stage.   *)
Fitting(s, c) ==
  /\ Sound(s) /\ Started(s)
  /\ c \in Activity /\ c["direction"] \in {None, s["direction"]}
  /\ s["direction"] = "xreserve-receive" =>
       c["xreserveStatus"] \in XreserveStatus \cup {None}

LEMMA ObservedFields ==
  ASSUME NEW s, NEW c, Fitting(s, c)
  PROVE  LET o == Observed(s, c)
         IN  /\ o \in Activity /\ o["direction"] = s["direction"]
             /\ o["status"] \in Status
             /\ o["status"] = IF Known(c, "status") THEN c["status"] ELSE s["status"]
             /\ o["xreserveStatus"] = IF Known(c, "xreserveStatus")
                                      THEN c["xreserveStatus"] ELSE s["xreserveStatus"]
             /\ o["xreserveForwarding"] = IF Known(c, "xreserveForwarding")
                  THEN c["xreserveForwarding"] ELSE s["xreserveForwarding"]
             /\ o["xreserveBurnStatus"] = IF Known(c, "xreserveBurnStatus")
                  THEN c["xreserveBurnStatus"] ELSE s["xreserveBurnStatus"]
             /\ \A f \in Evidence : Known(o, f) <=> Known(s, f) \/ Known(c, f)
             /\ s["direction"] = "xreserve-receive" =>
                  o["xreserveStatus"] \in XreserveStatus
<1>1. /\ Observed(s, c) \in Activity
      /\ Observed(s, c)["direction"] = s["direction"]
      /\ Observed(s, c)["status"] \in Status
      /\ \A f \in Field : Known(Observed(s, c), f) <=> Known(s, f) \/ Known(c, f)
  BY ObservedFacts DEF Fitting, Sound
<1>2. \A f \in Field : Observed(s, c)[f] = IF Known(c, f) THEN c[f] ELSE s[f]
  BY DEF Observed
<1>3. s["direction"] = "xreserve-receive" =>
        Observed(s, c)["xreserveStatus"] \in XreserveStatus
  BY <1>2, MoreFieldNames DEF Fitting, Started, Sound, Known
<1> QED
  BY <1>1, <1>2, <1>3, MoreFieldNames, FieldNames

(* Changes that carry a receipt's phase bring a row that far.              *)
LEMMA CarriedOrder ==
  ASSUME NEW s, NEW c, Fitting(s, c),
         NEW a, Sound(a), a["direction"] = s["direction"],
         EvidenceOf(a) \subseteq EvidenceOf(s) \cup EvidenceOf(c),
         Carries(s["direction"], c, StateOrder(a))
  PROVE  StateOrder(a) <= 1 \/ StateOrder(a) <= StateOrder(Observed(s, c))
<1> DEFINE o == Observed(s, c)
           k == StateOrder(a)
           d == s["direction"]
<1>1. k \in 0..5
  BY StateTyped DEF Sound
<1>2. /\ o \in Activity /\ o["direction"] = d /\ o["status"] \in Status
      /\ o["status"] = IF Known(c, "status") THEN c["status"] ELSE s["status"]
      /\ o["xreserveStatus"] = IF Known(c, "xreserveStatus")
                               THEN c["xreserveStatus"] ELSE s["xreserveStatus"]
      /\ o["xreserveForwarding"] = IF Known(c, "xreserveForwarding")
           THEN c["xreserveForwarding"] ELSE s["xreserveForwarding"]
      /\ o["xreserveBurnStatus"] = IF Known(c, "xreserveBurnStatus")
           THEN c["xreserveBurnStatus"] ELSE s["xreserveBurnStatus"]
      /\ \A f \in Evidence : Known(o, f) <=> Known(s, f) \/ Known(c, f)
      /\ d = "xreserve-receive" => o["xreserveStatus"] \in XreserveStatus
  BY ObservedFields
<1>3. /\ \A f \in Evidence : Known(a, f) => Known(o, f)
      /\ d = "epoch-send" => Known(o, "midenNoteId")
  BY <1>2 DEF EvidenceOf, Evidence, Fitting, Sound, HasIds
<1> HIDE DEF o, k
<1>4. CASE d = "xreserve-receive"
  <2>1. /\ o["status"] \in Settled \/ o["xreserveStatus"] \in Ended
             => StateOrder(o) = 5
        /\ ~(o["status"] \in Settled \/ o["xreserveStatus"] \in Ended) =>
             StateOrder(o) =
               IF o["xreserveStatus"] = "attested" THEN 4
               ELSE IF o["xreserveStatus"] = "confirmed" THEN 3
               ELSE IF o["xreserveForwarding"] = "yes" THEN 2 ELSE 1
    BY <1>2, <1>4, DepositOrder
  <2>2. \/ k <= 1
        \/ c["status"] \in Settled \/ c["xreserveStatus"] \in Ended
        \/ k <= 4 /\ c["xreserveStatus"] = "attested"
        \/ k <= 3 /\ c["xreserveStatus"] = "confirmed"
        \/ k <= 2 /\ c["xreserveForwarding"] = "yes"
    BY <1>4 DEF Carries, k
  <2> HIDE DEF d
  <2>3. CASE c["status"] \in Settled \/ c["xreserveStatus"] \in Ended
    <3>1. o["status"] \in Settled \/ o["xreserveStatus"] \in Ended
      BY <1>2, <2>3 DEF Known, Settled, Ended, None
    <3> QED
      BY <1>1, <2>1, <3>1 DEF k, o
  <2>4. CASE k <= 4 /\ c["xreserveStatus"] = "attested"
    <3>1. o["xreserveStatus"] = "attested"
      BY <1>2, <2>4 DEF Known, None
    <3> QED
      BY <1>1, <2>1, <2>4, <3>1 DEF k, o
  <2>5. CASE k <= 3 /\ c["xreserveStatus"] = "confirmed"
    <3>1. o["xreserveStatus"] = "confirmed"
      BY <1>2, <2>5 DEF Known, None
    <3> QED
      BY <1>1, <2>1, <2>5, <3>1 DEF k, o
  <2>6. CASE k <= 2 /\ c["xreserveForwarding"] = "yes"
    <3>1. o["xreserveForwarding"] = "yes"
      BY <1>2, <2>6 DEF Known, None
    <3> QED
      BY <1>1, <2>1, <2>6, <3>1 DEF k, o
  <2> QED
    BY <2>2, <2>3, <2>4, <2>5, <2>6 DEF k
<1>5. CASE d # "xreserve-receive"
  <2>1. /\ d = "xreserve-send" => k \in {0, 1, 5}
        /\ d = "epoch-send" /\ 2 <= k =>
             a["status"] \in Settled \/ Known(a, "epochIntentNonce")
        /\ k = PhaseOrder(d, a["status"])
    BY <1>5, OrderOfStatus DEF k
  <2>2. \/ k <= 1
        \/ Known(c, "status") /\ k <= PhaseOrder(d, c["status"])
        \/ d = "xreserve-send" /\ c["xreserveBurnStatus"] = "discarded"
    BY <1>5 DEF Carries, k, Known
  <2>3. CASE d = "xreserve-send" /\ c["xreserveBurnStatus"] = "discarded"
    <3>1. o["xreserveBurnStatus"] = "discarded"
      BY <1>2, <2>3 DEF Known, None
    <3>2. StateOrder(o) = 5
      BY <1>2, <2>3, <3>1
         DEF StateOrder, ResolvePhase, XreserveSendPhase, PhaseOrder, Claiming, Epoch
    <3> QED
      BY <1>1, <3>2 DEF k, o
  <2>4. CASE 2 <= k /\ Known(c, "status") /\ k <= PhaseOrder(d, c["status"])
    <3>1. o["status"] = c["status"] /\ k <= PhaseOrder(d, o["status"])
      BY <1>2, <2>4
    <3>2. CASE d = "epoch-send"
      <4>1. CASE o["status"] \in Settled \/ Known(o, "epochIntentNonce")
        <5>1. StateOrder(o) = PhaseOrder(d, o["status"])
          BY <1>2, <3>2, <4>1 DEF StateOrder, ResolvePhase, EpochSendPhase
        <5> QED
          BY <3>1, <5>1 DEF k, o
      <4>2. CASE ~(o["status"] \in Settled \/ Known(o, "epochIntentNonce"))
        <5>1. a["status"] \in Settled
          BY <1>3, <2>1, <2>4, <3>2, <4>2 DEF Evidence
        <5>2. k = 5
          BY <2>1, <3>2, <5>1 DEF PhaseOrder, Settled, Claiming, Epoch
        <5>3. PhaseOrder(d, o["status"]) <= 2
          BY <1>2, <3>2, <4>2 DEF PhaseOrder, Settled, Status, Claiming, Epoch
        <5>4. PhaseOrder(d, o["status"]) \in 0..5
          BY <1>2, Tables DEF PhaseName
        <5> QED
          BY <3>1, <5>2, <5>3, <5>4
      <4> QED
        BY <4>1, <4>2
    <3>3. CASE d = "xreserve-send"
      <4>1. k = 5
        BY <2>1, <2>4, <3>3
      <4>2. o["status"] \in Settled
        BY <1>2, <3>1, <3>3, <4>1
           DEF PhaseOrder, Settled, Status, Claiming, Epoch
      <4>3. StateOrder(o) = 5
        BY <1>2, <3>3, <4>2 DEF StateOrder, ResolvePhase, XreserveSendPhase,
           PhaseOrder, Claiming, Epoch, Settled
      <4> QED
        BY <4>1, <4>3 DEF k, o
    <3>4. CASE d = "epoch-receive"
      <4>1. StateOrder(o) = PhaseOrder(d, o["status"])
        BY <1>2, <3>4 DEF StateOrder, ResolvePhase, EpochReceivePhase, PhaseOrder,
           Claiming, Epoch
      <4> QED
        BY <3>1, <4>1 DEF k, o
    <3>5. CASE d \notin {"epoch-send", "epoch-receive", "xreserve-send"}
      <4>1. StateOrder(o) = PhaseOrder(d, o["status"])
        BY <1>2, <1>5, <3>5 DEF StateOrder, ResolvePhase
      <4> QED
        BY <3>1, <4>1 DEF k, o
    <3> QED
      BY <3>2, <3>3, <3>4, <3>5
  <2> QED
    BY <1>1, <2>2, <2>3, <2>4 DEF k
<1> QED
  BY <1>4, <1>5

(* What a row with the changes shows, the row or the changes carry.        *)
LEMMA ObservedCarried ==
  ASSUME NEW s, NEW c, Fitting(s, c)
  PROVE  \/ StateOrder(Observed(s, c)) <= StateOrder(s)
         \/ Carries(s["direction"], c, StateOrder(Observed(s, c)))
<1> DEFINE o == Observed(s, c)
           k == StateOrder(o)
           d == s["direction"]
<1>1. /\ o \in Activity /\ o["direction"] = d /\ o["status"] \in Status
      /\ o["status"] = IF Known(c, "status") THEN c["status"] ELSE s["status"]
      /\ o["xreserveStatus"] = IF Known(c, "xreserveStatus")
                               THEN c["xreserveStatus"] ELSE s["xreserveStatus"]
      /\ o["xreserveForwarding"] = IF Known(c, "xreserveForwarding")
           THEN c["xreserveForwarding"] ELSE s["xreserveForwarding"]
      /\ o["xreserveBurnStatus"] = IF Known(c, "xreserveBurnStatus")
           THEN c["xreserveBurnStatus"] ELSE s["xreserveBurnStatus"]
      /\ \A f \in Evidence : Known(o, f) <=> Known(s, f) \/ Known(c, f)
      /\ d = "xreserve-receive" => o["xreserveStatus"] \in XreserveStatus
  BY ObservedFields
<1>2. /\ s["status"] \in Status /\ StateOrder(s) \in 0..5
      /\ d = "epoch-send" => Known(o, "midenNoteId")
      /\ d = "xreserve-receive" => s["xreserveStatus"] \in XreserveStatus
  BY <1>1, StateTyped DEF Fitting, Sound, HasIds, Evidence, Started
<1>3. k \in 0..5
  BY <1>1, StateTyped
<1> HIDE DEF o
<1>4. CASE d = "xreserve-receive"
  <2>1. /\ o["status"] \in Settled \/ o["xreserveStatus"] \in Ended => k = 5
        /\ ~(o["status"] \in Settled \/ o["xreserveStatus"] \in Ended) =>
             k = IF o["xreserveStatus"] = "attested" THEN 4
                 ELSE IF o["xreserveStatus"] = "confirmed" THEN 3
                 ELSE IF o["xreserveForwarding"] = "yes" THEN 2 ELSE 1
    BY <1>1, <1>4, DepositOrder
  <2>2. /\ s["status"] \in Settled \/ s["xreserveStatus"] \in Ended
             => StateOrder(s) = 5
        /\ ~(s["status"] \in Settled \/ s["xreserveStatus"] \in Ended) =>
             StateOrder(s) =
               IF s["xreserveStatus"] = "attested" THEN 4
               ELSE IF s["xreserveStatus"] = "confirmed" THEN 3
               ELSE IF s["xreserveForwarding"] = "yes" THEN 2 ELSE 1
    BY <1>2, <1>4, DepositOrder
  <2> SUFFICES ASSUME StateOrder(s) < k
               PROVE  Carries(d, c, k)
    BY <1>2, <1>3 DEF o
  <2>3. CASE k = 5
    <3>1. o["status"] \in Settled \/ o["xreserveStatus"] \in Ended
      BY <2>1, <2>3
    <3>2. ~(s["status"] \in Settled \/ s["xreserveStatus"] \in Ended)
      BY <2>2, <2>3
    <3>3. c["status"] \in Settled \/ c["xreserveStatus"] \in Ended
      BY <1>1, <3>1, <3>2
    <3> QED
      BY <1>4, <3>3 DEF Carries
  <2>4. CASE k = 4
    <3>1. o["xreserveStatus"] = "attested" /\ s["xreserveStatus"] # "attested"
      BY <2>1, <2>2, <2>4
    <3> QED
      BY <1>1, <1>4, <2>4, <3>1 DEF Carries
  <2>5. CASE k = 3
    <3>1. o["xreserveStatus"] = "confirmed" /\ s["xreserveStatus"] # "confirmed"
      BY <2>1, <2>2, <2>5
    <3> QED
      BY <1>1, <1>4, <2>5, <3>1 DEF Carries
  <2>6. CASE k = 2
    <3>1. o["xreserveForwarding"] = "yes" /\ s["xreserveForwarding"] # "yes"
      BY <2>1, <2>2, <2>6
    <3> QED
      BY <1>1, <1>4, <2>6, <3>1 DEF Carries
  <2>7. CASE k <= 1
    BY <2>7 DEF Carries
  <2> QED
    BY <1>3, <2>3, <2>4, <2>5, <2>6, <2>7
<1>5. CASE d # "xreserve-receive"
  <2>1. StateOrder(s) = PhaseOrder(d, s["status"])
    BY <1>5, OrderOfStatus DEF Fitting
  <2>2. CASE Known(c, "status") /\ k = PhaseOrder(d, o["status"])
    <3>1. k <= PhaseOrder(d, c["status"])
      BY <1>1, <1>3, <2>2
    <3> QED
      BY <1>5, <2>2, <3>1 DEF Carries, Known, o
  <2>3. CASE ~Known(c, "status") /\ k = PhaseOrder(d, o["status"])
    BY <1>1, <1>2, <2>1, <2>3 DEF o
  <2>4. CASE k # PhaseOrder(d, o["status"])
    <3>1. CASE d = "epoch-send"
      <4>1. k <= 1
        BY <1>1, <1>2, <2>4, <3>1 DEF StateOrder, ResolvePhase, EpochSendPhase,
           PhaseOrder, Claiming, Epoch
      <4> QED
        BY <4>1 DEF Carries, o
    <3>2. CASE d = "epoch-receive"
      BY <1>1, <2>4, <3>2 DEF StateOrder, ResolvePhase, EpochReceivePhase,
         PhaseOrder, Claiming, Epoch
    <3>3. CASE d = "xreserve-send"
      <4>1. k <= 1 \/ o["xreserveBurnStatus"] = "discarded"
        BY <1>1, <2>4, <3>3 DEF StateOrder, ResolvePhase, XreserveSendPhase,
           PhaseOrder, Claiming, Epoch
      <4>2. s["xreserveBurnStatus"] = "discarded" => StateOrder(s) = 5
        BY <3>3 DEF StateOrder, ResolvePhase, XreserveSendPhase, PhaseOrder,
           Claiming, Epoch
      <4> QED
        BY <1>1, <1>3, <3>3, <4>1, <4>2 DEF Carries, o
    <3>4. CASE d \notin {"epoch-send", "epoch-receive", "xreserve-send"}
      BY <1>1, <1>5, <2>4, <3>4 DEF StateOrder, ResolvePhase
    <3> QED
      BY <3>1, <3>2, <3>3, <3>4
  <2> QED
    BY <2>2, <2>3, <2>4
<1> QED
  BY <1>4, <1>5

(* A merge leaves a started receipt started.                               *)
LEMMA MergeStarted ==
  ASSUME NEW s, NEW c, Fitting(s, c), NEW now \in Time
  PROVE  Started(Merge(s, c, now))
<1> DEFINE b == Merge(s, c, now)
           o == Observed(s, c)
           n == Normalize(o)
<1>1. /\ Sound(s) /\ Present(s)
      /\ c \in Activity /\ c["direction"] \in {None, s["direction"]}
  BY DEF Fitting, Sound
<1>2. /\ b \in Activity /\ b["direction"] = s["direction"]
      /\ StateOrder(s) <= StateOrder(b)
  BY <1>1, MergeFacts DEF Sound
<1>3. 1 <= StateOrder(b)
  BY <1>1, <1>2, StateTyped DEF Fitting, Started, Sound
<1>4. ASSUME s["direction"] = "xreserve-receive"
      PROVE  b["xreserveStatus"] \in XreserveStatus
  <2>1. /\ o["xreserveStatus"] \in XreserveStatus
        /\ s["xreserveStatus"] \in XreserveStatus
    BY <1>1, <1>4, ObservedFields DEF Fitting, Started
  <2>2. "xreserveStatus" \in PhaseFields(s["direction"]) \ {"status"}
    BY <1>4 DEF PhaseFields
  <2>3. /\ Loses(s, n) =>
             \A f \in PhaseFields(s["direction"]) \ {"status"} :
               f \in Field => b[f] = s[f]
        /\ ~Loses(s, n) =>
             \A f \in Field \ {"status", "destinationTxAt"} : b[f] = o[f]
    BY <1>1, MergeFields
  <2> QED
    BY <2>1, <2>2, <2>3, MoreFieldNames
<1> QED
  BY <1>2, <1>3, <1>4 DEF Started

(* What a tab shows after a sync, its changes still carry.                 *)
LEMMA ReplayKept ==
  ASSUME NEW own, NEW r \in Receipt, NEW now \in Time,
         stored[r] \in Activity, GoodRow(stored[r]), Started(stored[r]),
         GoodReceipt(own[r], stored[r]), Replays(own[r], stored[r])
  PROVE  LET x == Replayed(own, r, now)
         IN  /\ Started(x.activity)
             /\ Replays(x, stored[r])
             /\ ~own[r].saved =>
                  StateOrder(own[r].activity) <= StateOrder(x.activity)
<1> DEFINE s == stored[r]
           m == own[r]
           c == m.changes
           x == Replayed(own, r, now)
<1>0. ReadRow(s) = s
  BY ReadGoodRow
<1>1. m \in ReceiptRecord /\ m.activity \in Activity /\ c \in Activity
  BY DEF GoodReceipt, ReceiptRecord
<1>2. CASE m.saved
  <2>1. x = Saved(s) /\ x.activity = s /\ x.changes = Absent /\ x.saved
    BY <1>0, <1>2 DEF Replayed, Saved
  <2>2. x.changes["xreserveStatus"] = None
    BY <2>1, MoreFieldNames DEF Absent
  <2> HIDE DEF x
  <2> QED
    BY <1>2, <2>1, <2>2 DEF Replays, x
<1>3. CASE ~m.saved /\ ~Present(s)
  <2>1. x = m
    BY <1>1, <1>3 DEF Replayed, ReceiptRecord
  <2>2. StateOrder(m.activity) \in 0..5
    BY <1>1, StateTyped
  <2> HIDE DEF x
  <2> QED
    BY <2>1, <2>2 DEF Replays, x
<1>4. CASE ~m.saved /\ Present(s)
  <2>1. Sound(s) /\ Sound(m.activity)
    BY <1>4, AbsentFacts DEF GoodRow, GoodReceipt, Saved
  <2>2. m.activity["direction"] = s["direction"]
    BY <1>4, <2>1 DEF GoodReceipt, Agree, Sound
  <2>3. Fitting(s, c)
    BY <1>1, <2>1, <2>2 DEF Fitting, GoodReceipt, Replays
  <2> DEFINE b == Merge(s, c, now)
             o == Observed(s, c)
             n == Normalize(o)
  <2>4. x = [m EXCEPT !.activity = b]
    BY <1>0, <1>1, <1>4 DEF Replayed, ReceiptRecord
  <2>5. x.activity = b /\ x.changes = c /\ ~x.saved
    BY <1>1, <1>4, <2>4 DEF ReceiptRecord
  <2>6. Started(b)
    BY <2>3, MergeStarted
  <2>7. /\ Sound(b) /\ b["direction"] = s["direction"]
        /\ StateOrder(s) <= StateOrder(b)
    BY <2>3, MergeFacts DEF Fitting
  <2>8. /\ Loses(s, n) => StateOrder(b) = StateOrder(s)
        /\ ~Loses(s, n) => StateOrder(b) = StateOrder(o)
        /\ StateOrder(o) <= StateOrder(b)
    BY <2>3, MergeOrder DEF Fitting
  <2>9. \/ StateOrder(o) <= StateOrder(s)
        \/ Carries(s["direction"], c, StateOrder(o))
    BY <2>3, ObservedCarried
  <2>10. /\ StateOrder(s) \in 0..5 /\ StateOrder(b) \in 0..5
         /\ StateOrder(o) \in 0..5 /\ StateOrder(m.activity) \in 0..5
    BY <1>1, <2>1, <2>3, <2>7, ObservedFields, StateTyped DEF Sound
  <2>11. \/ StateOrder(b) <= StateOrder(s)
         \/ Carries(s["direction"], c, StateOrder(b))
    BY <2>8, <2>9, <2>10
  <2>12. StateOrder(m.activity) <= StateOrder(b)
    <3>1. CASE StateOrder(m.activity) <= StateOrder(s)
      BY <2>7, <2>10, <3>1
    <3>2. CASE Carries(s["direction"], c, StateOrder(m.activity))
      <4>1. EvidenceOf(m.activity) \subseteq EvidenceOf(s) \cup EvidenceOf(c)
        BY DEF GoodReceipt
      <4>2. \/ StateOrder(m.activity) <= 1
            \/ StateOrder(m.activity) <= StateOrder(o)
        BY <2>1, <2>2, <2>3, <3>2, <4>1, CarriedOrder
      <4>3. 1 <= StateOrder(b)
        BY <2>6, <2>7 DEF Started, Sound
      <4> QED
        BY <2>8, <2>10, <4>2, <4>3
    <3> QED
      BY <1>4, <2>2, <3>1, <3>2 DEF Replays, Reaches
  <2> HIDE DEF x, b
  <2>13. Replays(x, s)
    BY <1>4, <2>2, <2>5, <2>6, <2>7, <2>11 DEF Replays, Reaches
  <2> QED
    BY <2>5, <2>6, <2>12, <2>13 DEF x
<1> QED
  BY <1>2, <1>3, <1>4

(* Only the fields that carry the phase matter.                            *)
LEMMA CarriesKept ==
  ASSUME NEW d, NEW c, NEW e, NEW k \in 0..5, Carries(d, c, k),
         e["status"] = c["status"],
         d = "xreserve-send" => e["xreserveBurnStatus"] = c["xreserveBurnStatus"],
         d = "xreserve-receive" =>
           /\ e["xreserveStatus"] = c["xreserveStatus"]
           /\ e["xreserveForwarding"] = c["xreserveForwarding"]
  PROVE  Carries(d, e, k)
BY DEF Carries

(* The changes of a publish bring every row as far as what is published:   *)
(* a first record is all change, and a merge changes what moves the phase. *)
LEMMA OwnCarries ==
  ASSUME NEW b, Sound(b), Started(b), NEW c,
         c["status"] = b["status"], c["xreserveStatus"] = b["xreserveStatus"],
         c["xreserveForwarding"] = b["xreserveForwarding"]
  PROVE  Carries(b["direction"], c, StateOrder(b))
<1>1. /\ b \in Activity /\ b["status"] \in Status /\ b["status"] # None
      /\ StateStatus(b) = b["status"] /\ StateOrder(b) \in 0..5
  BY StateTyped DEF Sound, Normal, Status, None
<1>2. CASE b["direction"] = "xreserve-receive"
  <2>1. b["xreserveStatus"] \in XreserveStatus
    BY <1>2 DEF Started, Sound
  <2>2. LET ended == b["status"] \in Settled \/ b["xreserveStatus"] \in Ended
        IN  ~ended => StateOrder(b) =
               IF b["xreserveStatus"] = "attested" THEN 4
               ELSE IF b["xreserveStatus"] = "confirmed" THEN 3
               ELSE IF b["xreserveForwarding"] = "yes" THEN 2 ELSE 1
    BY <1>1, <1>2, <2>1, DepositOrder
  <2> QED
    BY <1>1, <1>2, <2>2 DEF Carries
<1>3. CASE b["direction"] # "xreserve-receive"
  <2>1. StateOrder(b) = PhaseOrder(b["direction"], b["status"])
    BY <1>3, OrderOfStatus
  <2> QED
    BY <1>1, <1>3, <2>1 DEF Carries
<1> QED
  BY <1>2, <1>3

LEMMA MergeCarries ==
  ASSUME NEW a, Sound(a), Started(a), NEW p, Fitting(a, p), NEW now \in Time,
         NEW k \in Activity, NEW s,
         \/ Present(s) /\ StateOrder(a) <= StateOrder(s)
         \/ Carries(a["direction"], k, StateOrder(a)),
         GoodRow(s), s \in Activity
  PROVE  LET b == Merge(a, p, now)
             c == Observed(k, Changed(a, b))
         IN  \/ Present(s) /\ StateOrder(b) <= StateOrder(s)
             \/ Carries(a["direction"], c, StateOrder(b))
<1> DEFINE b == Merge(a, p, now)
           c == Observed(k, Changed(a, b))
           n == Normalize(Observed(a, p))
           d == a["direction"]
<1>1. /\ a \in Activity /\ p \in Activity /\ p["direction"] \in {None, d}
      /\ a["status"] \in Status /\ StateStatus(a) = a["status"]
  BY DEF Sound, Normal, Fitting
<1>2. /\ Sound(b) /\ b["direction"] = d /\ StateOrder(a) <= StateOrder(b)
  BY <1>1, MergeFacts
<1>3. Started(b)
  BY MergeStarted
<1>4. /\ StateOrder(a) \in 0..5 /\ StateOrder(b) \in 0..5
      /\ StateOrder(s) \in 0..5
      /\ b["status"] \in Status /\ StateStatus(b) = b["status"]
  BY <1>1, <1>2, StateTyped DEF Sound, Normal
<1>5. \A f \in Field : c[f] = IF Known(b, f) /\ b[f] # a[f] THEN b[f] ELSE k[f]
  BY DEF Changed, Observed, Known
<1>6. /\ Loses(a, n) => StateOrder(b) = StateOrder(a)
      /\ Loses(a, n) =>
           /\ b["status"] = a["status"]
           /\ \A f \in PhaseFields(d) \ {"status"} : f \in Field => b[f] = a[f]
      /\ ~Loses(a, n) => a["status"] \notin Settled
  BY <1>1, MergeOrder, MergeFields
<1> HIDE DEF b, c, n
(* The phase has not moved, nor have the fields that carry it.             *)
<1>7. ASSUME StateOrder(b) = StateOrder(a), c["status"] = k["status"],
             d = "xreserve-send" =>
               c["xreserveBurnStatus"] = k["xreserveBurnStatus"],
             d = "xreserve-receive" =>
               /\ c["xreserveStatus"] = k["xreserveStatus"]
               /\ c["xreserveForwarding"] = k["xreserveForwarding"]
      PROVE  \/ Present(s) /\ StateOrder(b) <= StateOrder(s)
             \/ Carries(d, c, StateOrder(b))
  BY <1>4, <1>7, CarriesKept
<1>8. CASE Loses(a, n)
  <2>1. d = "xreserve-send" => "xreserveBurnStatus" \in PhaseFields(d) \ {"status"}
    BY DEF PhaseFields
  <2>2. d = "xreserve-receive" =>
          {"xreserveStatus", "xreserveForwarding"} \subseteq PhaseFields(d) \ {"status"}
    BY DEF PhaseFields
  <2> HIDE DEF d
  <2>3. /\ c["status"] = k["status"]
        /\ d = "xreserve-send" =>
             c["xreserveBurnStatus"] = k["xreserveBurnStatus"]
        /\ d = "xreserve-receive" =>
             /\ c["xreserveStatus"] = k["xreserveStatus"]
             /\ c["xreserveForwarding"] = k["xreserveForwarding"]
    BY <1>5, <1>6, <1>8, <2>1, <2>2, MoreFieldNames
  <2> QED
    BY <1>6, <1>7, <1>8, <2>3 DEF b, c, d
<1>9. CASE ~Loses(a, n) /\ d # "xreserve-receive"
  <2>1. /\ StateOrder(a) = PhaseOrder(d, a["status"])
        /\ StateOrder(b) = PhaseOrder(d, b["status"])
        /\ d = "xreserve-send" => StateOrder(a) \in {0, 1, 5}
    BY <1>2, <1>9, OrderOfStatus
  <2>2. CASE b["status"] # a["status"]
    <3>1. c["status"] = b["status"] /\ c["status"] # None
      BY <1>4, <1>5, <2>2, MoreFieldNames DEF Known, Status, None
    <3> QED
      BY <1>4, <1>9, <2>1, <3>1 DEF Carries, b, c
  <2>3. CASE b["status"] = a["status"]
    <3>1. StateOrder(b) = StateOrder(a)
      BY <2>1, <2>3
    <3>2. c["status"] = k["status"]
      BY <1>5, <2>3, MoreFieldNames
    <3>3. CASE d = "xreserve-send" /\ StateOrder(a) # 5
      BY <1>4, <2>1, <3>1, <3>3 DEF Carries, b, c
    <3>4. CASE d = "xreserve-send" /\ StateOrder(a) = 5
      <4>1. FALSE
        BY <1>1, <1>6, <1>9, <2>1, <3>4
           DEF PhaseOrder, Settled, Status, Claiming, Epoch
      <4> QED
        BY <4>1
    <3>5. CASE d # "xreserve-send"
      BY <1>7, <1>9, <3>1, <3>2, <3>5 DEF b, c
    <3> QED
      BY <3>3, <3>4, <3>5
  <2> QED
    BY <2>2, <2>3
<1>10. CASE ~Loses(a, n) /\ d = "xreserve-receive"
  <2>1. /\ a["xreserveStatus"] \in XreserveStatus
        /\ b["xreserveStatus"] \in XreserveStatus
    BY <1>2, <1>3, <1>10 DEF Started, Sound
  <2>2. LET ended == a["status"] \in Settled \/ a["xreserveStatus"] \in Ended
        IN  /\ ended => StateStatus(a) \in Settled
            /\ ~ended =>
                 /\ StateOrder(a) =
                      IF a["xreserveStatus"] = "attested" THEN 4
                      ELSE IF a["xreserveStatus"] = "confirmed" THEN 3
                      ELSE IF a["xreserveForwarding"] = "yes" THEN 2 ELSE 1
                 /\ StateStatus(a) = IF a["xreserveStatus"] = "attested"
                                     THEN "message_observed" ELSE "source_finality"
    BY <1>1, <1>10, <2>1, DepositOrder
  <2>3. LET ended == b["status"] \in Settled \/ b["xreserveStatus"] \in Ended
        IN  /\ ended => StateStatus(b) \in Settled
            /\ ~ended =>
                 /\ StateOrder(b) =
                      IF b["xreserveStatus"] = "attested" THEN 4
                      ELSE IF b["xreserveStatus"] = "confirmed" THEN 3
                      ELSE IF b["xreserveForwarding"] = "yes" THEN 2 ELSE 1
                 /\ StateStatus(b) = IF b["xreserveStatus"] = "attested"
                                     THEN "message_observed" ELSE "source_finality"
    BY <1>2, <1>4, <1>10, <2>1, DepositOrder
  <2>4. /\ a["status"] \notin Settled
        /\ a["xreserveStatus"] \notin Ended
        /\ StateOrder(a) = IF a["xreserveStatus"] = "attested" THEN 4
                           ELSE IF a["xreserveStatus"] = "confirmed" THEN 3
                           ELSE IF a["xreserveForwarding"] = "yes" THEN 2 ELSE 1
        /\ a["status"] = IF a["xreserveStatus"] = "attested"
                         THEN "message_observed" ELSE "source_finality"
    BY <1>1, <1>6, <1>10, <2>2
  <2>5. /\ c["status"] = IF Known(b, "status") /\ b["status"] # a["status"]
                         THEN b["status"] ELSE k["status"]
        /\ c["xreserveStatus"] =
             IF Known(b, "xreserveStatus") /\ b["xreserveStatus"] # a["xreserveStatus"]
             THEN b["xreserveStatus"] ELSE k["xreserveStatus"]
        /\ c["xreserveForwarding"] =
             IF Known(b, "xreserveForwarding")
                /\ b["xreserveForwarding"] # a["xreserveForwarding"]
             THEN b["xreserveForwarding"] ELSE k["xreserveForwarding"]
    BY <1>5, MoreFieldNames
  <2>6. CASE b["status"] \in Settled
    <3>1. c["status"] = b["status"]
      BY <2>4, <2>5, <2>6 DEF Known, Settled, None
    <3> QED
      BY <1>4, <1>10, <2>6, <3>1 DEF Carries, b, c
  <2>7. CASE b["status"] \notin Settled
    <3>1. /\ b["xreserveStatus"] \notin Ended
          /\ StateOrder(b) = IF b["xreserveStatus"] = "attested" THEN 4
                             ELSE IF b["xreserveStatus"] = "confirmed" THEN 3
                             ELSE IF b["xreserveForwarding"] = "yes" THEN 2 ELSE 1
          /\ b["status"] = IF b["xreserveStatus"] = "attested"
                           THEN "message_observed" ELSE "source_finality"
      BY <1>4, <2>3, <2>7
    <3>2. \/ Carries(d, k, StateOrder(a))
          \/ Present(s) /\ StateOrder(a) <= StateOrder(s)
      OBVIOUS
    <3>3. CASE b["xreserveStatus"] # a["xreserveStatus"]
      <4>1. c["xreserveStatus"] = b["xreserveStatus"]
        BY <2>1, <2>5, <3>3 DEF Known, XreserveStatus, None
      <4>2. CASE b["xreserveStatus"] \in {"attested", "confirmed"}
        BY <1>10, <3>1, <4>1, <4>2 DEF Carries, b, c
      <4>3. CASE b["xreserveStatus"] \notin {"attested", "confirmed"}
        <5>1. a["xreserveStatus"] \in {"attested", "confirmed"}
          BY <2>1, <2>4, <3>1, <3>3, <4>3 DEF XreserveStatus, Ended
        <5>2. FALSE
          BY <1>2, <2>4, <3>1, <4>3, <5>1
        <5> QED
          BY <5>2
      <4> QED
        BY <4>2, <4>3
    <3>4. CASE b["xreserveStatus"] = a["xreserveStatus"]
      <4>1. c["xreserveStatus"] = k["xreserveStatus"] /\ c["status"] = k["status"]
        BY <2>4, <2>5, <3>1, <3>4
      <4>2. CASE b["xreserveForwarding"] = a["xreserveForwarding"]
        <5>1. c["xreserveForwarding"] = k["xreserveForwarding"]
          BY <2>5, <4>2
        <5>2. StateOrder(b) = StateOrder(a)
          BY <2>4, <3>1, <3>4, <4>2
        <5> QED
          BY <1>7, <1>10, <4>1, <5>1, <5>2 DEF b, c
      <4>3. CASE b["xreserveForwarding"] # a["xreserveForwarding"]
        <5>1. CASE b["xreserveStatus"] \in {"attested", "confirmed"}
          <6>1. StateOrder(b) = StateOrder(a) /\ StateOrder(a) \in {3, 4}
            BY <2>4, <3>1, <3>4, <5>1
          <6>2. Carries(d, k, StateOrder(a)) => Carries(d, c, StateOrder(b))
            BY <1>10, <4>1, <6>1 DEF Carries
          <6> QED
            BY <6>1, <6>2 DEF b, c
        <5>2. CASE b["xreserveStatus"] \notin {"attested", "confirmed"}
                   /\ b["xreserveForwarding"] = "yes"
          <6>1. c["xreserveForwarding"] = "yes" /\ StateOrder(b) = 2
            BY <2>5, <3>1, <4>3, <5>2 DEF Known, None
          <6> QED
            BY <1>10, <6>1 DEF Carries, b, c
        <5>3. CASE b["xreserveStatus"] \notin {"attested", "confirmed"}
                   /\ b["xreserveForwarding"] # "yes"
          BY <3>1, <5>3 DEF Carries, b, c
        <5> QED
          BY <5>1, <5>2, <5>3
      <4> QED
        BY <4>2, <4>3
    <3> QED
      BY <3>3, <3>4
  <2> QED
    BY <2>6, <2>7
<1> QED
  BY <1>8, <1>9, <1>10

-----------------------------------------------------------------------------
RInv == IInv /\ AllReplay

(* What a publish leaves of the other receipts, and makes of its own.      *)
LEMMA PublishedFields ==
  ASSUME IInv, NEW t \in Tab, NEW r \in Receipt, NEW b
  PROVE  LET own == Published(t, r, b)
             m == memory[t][r]
         IN  /\ own[r] = Unsaved(b, Observed(m.changes, Changed(m.activity, b)))
             /\ \A q \in Receipt \ {r} : own[q] = memory[t][q]
BY DEF Published, IInv

LEMMA RecordReplays ==
  ASSUME RInv, NEW t \in Tab, NEW now \in Time, NEW r \in Receipt,
         NEW a \in Opening[r], Record(t, r, a, now)
  PROVE  \A q \in Receipt :
           Replays(Published(t, r, Normalize(a))[q], stored[q])
<1> DEFINE b == Normalize(a)
           m == memory[t][r]
           e == Changed(m.activity, b)
           c == Observed(m.changes, e)
           own == Published(t, r, b)
<1>1. /\ Sound(b) /\ b["status"] = StateStatus(a)
      /\ \A f \in Field \ {"status"} : b[f] = a[f]
  BY RecordedGood DEF RInv
<1>2. /\ a \in Activity /\ Present(a) /\ a["status"] \in Status \ {"signature"}
      /\ a["direction"] \in {"epoch-send", "xreserve-send"} =>
           Known(a, "midenNoteId")
      /\ a["direction"] = "xreserve-receive" => a["xreserveStatus"] \in XreserveStatus
  BY OpeningAssumption
<1>3. m = Saved(Absent)
  <2>1. GoodReceipt(m, stored[r]) /\ ~Present(m.activity)
    BY DEF RInv, IInv, Record
  <2> QED
    BY <2>1 DEF GoodReceipt, Sound
<1>4. c["status"] = b["status"] /\ c["xreserveStatus"] = b["xreserveStatus"]
      /\ c["xreserveForwarding"] = b["xreserveForwarding"]
  <2>1. m.activity = Absent /\ m.changes = Absent
    BY <1>3 DEF Saved
  <2>2. \A f \in Field : c[f] = b[f]
    BY <2>1 DEF Observed, Changed, Known, Absent
  <2> QED
    BY <2>2, MoreFieldNames
<1>5. /\ b["direction"] = a["direction"] /\ b["xreserveStatus"] = a["xreserveStatus"]
      /\ StateOrder(b) = StateOrder(a) /\ StateOrder(b) \in 0..5
  BY <1>1, <1>2, MoreFieldNames, Normalized, StateTyped DEF Sound
<1>6. 1 <= StateOrder(a)
  <2>1. CASE a["direction"] = "xreserve-receive"
    <3>1. StateOrder(a) \in {1, 2, 3, 4, 5}
      BY <1>2, <2>1, DepositOrder
    <3> QED
      BY <3>1
  <2>2. CASE a["direction"] = "epoch-send"
    <3>1. ResolvePhase(a) \in PhaseName \ {"signature", "awaiting-signature"}
      BY <1>2, <2>2 DEF ResolvePhase, EpochSendPhase, PhaseName, Status
    <3> QED
      BY <2>2, <3>1 DEF StateOrder, PhaseOrder, PhaseName, Status, Claiming, Epoch
  <2>3. CASE a["direction"] = "xreserve-send"
    <3>1. ResolvePhase(a) \in PhaseName \ {"signature", "awaiting-signature"}
      BY <1>2, <2>3 DEF ResolvePhase, XreserveSendPhase, PhaseName, Status
    <3> QED
      BY <2>3, <3>1 DEF StateOrder, PhaseOrder, PhaseName, Status, Claiming, Epoch
  <2>4. CASE a["direction"] = "epoch-receive"
    <3>1. ResolvePhase(a) \in PhaseName \ {"signature", "awaiting-signature"}
      BY <1>2, <2>4 DEF ResolvePhase, EpochReceivePhase, PhaseName, Status
    <3> QED
      BY <2>4, <3>1 DEF StateOrder, PhaseOrder, PhaseName, Status, Claiming, Epoch
  <2>5. CASE a["direction"] \notin {"xreserve-receive", "epoch-send",
                                    "xreserve-send", "epoch-receive"}
    <3>1. ResolvePhase(a) \in Status \ {"signature"}
      BY <1>2, <2>5 DEF ResolvePhase
    <3> QED
      BY <2>5, <3>1 DEF StateOrder, PhaseOrder, Status, Claiming, Epoch
  <2> QED
    BY <2>1, <2>2, <2>3, <2>4, <2>5
<1>7. Started(b)
  BY <1>2, <1>5, <1>6 DEF Started
<1> HIDE DEF b, c
<1>8. Carries(b["direction"], c, StateOrder(b))
  BY <1>1, <1>4, <1>7, OwnCarries
<1>9. b["direction"] = "xreserve-receive" => c["xreserveStatus"] \in XreserveStatus
  BY <1>2, <1>4, <1>5
<1>10. own[r] = Unsaved(b, c) /\ \A q \in Receipt \ {r} : own[q] = memory[t][q]
  BY PublishedFields DEF RInv, b, c
<1>11. own[r].activity = b /\ own[r].changes = c /\ ~own[r].saved
  BY <1>10 DEF Unsaved
<1>12. Replays(own[r], stored[r])
  BY <1>7, <1>8, <1>9, <1>11 DEF Replays, Reaches
<1> QED
  BY <1>10, <1>12 DEF RInv, AllReplay, b

LEMMA PatchReplays ==
  ASSUME RInv, NEW t \in Tab, NEW now \in Time, NEW r \in Receipt,
         Present(memory[t][r].activity),
         NEW p \in Patch[memory[t][r].activity["direction"]]
  PROVE  \A q \in Receipt :
           Replays(Published(t, r, Merge(memory[t][r].activity, p, now))[q],
                   stored[q])
<1> DEFINE m == memory[t][r]
           a == m.activity
           s == stored[r]
           b == Merge(a, p, now)
           e == Changed(a, b)
           c == Observed(m.changes, e)
           own == Published(t, r, b)
<1>1. /\ GoodReceipt(m, s) /\ s \in Activity /\ GoodRow(s)
      /\ m \in ReceiptRecord /\ Replays(m, s)
  BY DEF RInv, IInv, AllReplay
<1>2. /\ Sound(a) /\ Started(a) /\ a \in Activity /\ m.changes \in Activity
      /\ a["direction"] \in Direction
  BY <1>1, AbsentFacts DEF GoodReceipt, Saved, Replays, Sound, ReceiptRecord,
     Activity, Present
<1>3. /\ p \in Activity /\ p["direction"] = None
      /\ p["xreserveStatus"] \in XreserveStatus \cup {None}
  BY <1>2, PatchAssumption DEF Present
<1>4. Fitting(a, p)
  BY <1>2, <1>3 DEF Fitting
<1>5. /\ Sound(b) /\ b["direction"] = a["direction"]
  BY <1>2, <1>3, MergeFacts
<1>6. Started(b)
  BY <1>4, MergeStarted
<1>7. \/ Present(s) /\ StateOrder(a) <= StateOrder(s)
      \/ Carries(a["direction"], m.changes, StateOrder(a))
  BY <1>1 DEF GoodReceipt, Covers, Replays, Reaches
<1>8. \/ Present(s) /\ StateOrder(b) <= StateOrder(s)
      \/ Carries(a["direction"], c, StateOrder(b))
  BY <1>1, <1>2, <1>4, <1>7, MergeCarries
<1>9. a["direction"] = "xreserve-receive" =>
        c["xreserveStatus"] \in XreserveStatus \cup {None}
  <2>1. c["xreserveStatus"] \in {b["xreserveStatus"], m.changes["xreserveStatus"]}
    BY MoreFieldNames DEF Changed, Observed, Known
  <2> QED
    BY <1>1, <1>5, <1>6, <2>1 DEF Started, Sound, Replays
<1> HIDE DEF b, c
<1>10. own[r] = Unsaved(b, c) /\ \A q \in Receipt \ {r} : own[q] = memory[t][q]
  BY PublishedFields DEF RInv, b, c
<1>11. own[r].activity = b /\ own[r].changes = c /\ ~own[r].saved
  BY <1>10 DEF Unsaved
<1>12. Replays(own[r], s)
  BY <1>5, <1>6, <1>8, <1>9, <1>11 DEF Replays, Reaches
<1> QED
  BY <1>10, <1>12 DEF RInv, AllReplay, b

(* A row that advances stays as far as a tab's changes need it.            *)
LEMMA StaysReplayed ==
  ASSUME NEW m, NEW s \in Activity, NEW x \in Activity, Replays(m, s),
         m.activity \in Activity, Advances(s, x)
  PROVE  Replays(m, x)
<1>1. /\ StateOrder(s) \in 0..5 /\ StateOrder(x) \in 0..5
      /\ StateOrder(m.activity) \in 0..5
  BY StateTyped
<1> QED
  BY <1>1 DEF Replays, Reaches, Advances

LEMMA SavedReplays ==
  ASSUME NEW s, NEW x, Started(x)
  PROVE  Replays(Saved(x), s)
BY MoreFieldNames DEF Replays, Saved, Absent

LEMMA SyncReplays ==
  ASSUME RInv, NEW t \in Tab, NEW own, GoodOwn(t, own), NEW now \in Time,
         \A r \in Receipt : Replays(own[r], stored[r]),
         SyncFrom(t, own, now)
  PROVE  AllReplay'
<1> DEFINE x(r) == Replayed(own, r, now).activity
<1>1. \A r \in Receipt :
        /\ stored[r] \in Activity /\ GoodRow(stored[r]) /\ Started(stored[r])
        /\ GoodReceipt(own[r], stored[r]) /\ Replays(own[r], stored[r])
        /\ \A u \in Tab : /\ memory[u][r].activity \in Activity
                          /\ Replays(memory[u][r], stored[r])
  BY DEF RInv, IInv, AllReplay, GoodOwn, ReceiptRecord
<1>2. \A r \in Receipt : /\ Started(x(r))
                         /\ Replays(Replayed(own, r, now), stored[r])
  BY <1>1, ReplayKept
<1>3. \A r \in Receipt : /\ x(r) \in Activity
                         /\ Advances(stored[r], x(r))
                         /\ own[r].saved => x(r) = stored[r]
  BY <1>1, ReplayedFacts
<1>4. CASE ReadFails(t, own)
  <2>1. stored' = stored /\ memory' = [memory EXCEPT ![t] = own]
    BY <1>4 DEF ReadFails
  <2>2. memory'[t] = own /\ \A u \in Tab \ {t} : memory'[u] = memory[u]
    BY <2>1 DEF RInv, IInv
  <2>3. \A u \in Tab, r \in Receipt : Replays(memory'[u][r], stored'[r])
    BY <1>1, <2>1, <2>2
  <2> QED
    BY <1>1, <2>1, <2>3 DEF AllReplay
<1>5. CASE WriteFails(t, own, now)
  <2> DEFINE seen == [r \in Receipt |-> Replayed(own, r, now)]
  <2>1. stored' = stored /\ memory' = [memory EXCEPT ![t] = seen]
    BY <1>5 DEF WriteFails
  <2>2. memory'[t] = seen /\ \A u \in Tab \ {t} : memory'[u] = memory[u]
    BY <2>1 DEF RInv, IInv
  <2>3. \A u \in Tab, r \in Receipt : Replays(memory'[u][r], stored'[r])
    BY <1>1, <1>2, <2>1, <2>2
  <2> QED
    BY <1>1, <2>1, <2>3 DEF AllReplay
<1>6. CASE SyncSucceeds(t, own, now)
  <2> DEFINE seen == [r \in Receipt |-> Saved(x(r))]
  <2>1. memory' = [memory EXCEPT ![t] = seen]
    BY <1>6 DEF SyncSucceeds
  <2>2. memory'[t] = seen /\ \A u \in Tab \ {t} : memory'[u] = memory[u]
    BY <2>1 DEF RInv, IInv
  <2>3. \A r \in Receipt : stored'[r] = x(r)
    <3>1. CASE Pending(own)
      BY <1>6, <3>1 DEF SyncSucceeds
    <3>2. CASE ~Pending(own)
      BY <1>3, <1>6, <3>2 DEF SyncSucceeds, Pending
    <3> QED
      BY <3>1, <3>2
  <2>4. ASSUME NEW u \in Tab, NEW r \in Receipt
        PROVE  Replays(memory'[u][r], stored'[r])
    <3>1. CASE u = t
      <4>1. memory'[u][r] = Saved(x(r))
        BY <2>2, <3>1
      <4> QED
        BY <1>2, <4>1, SavedReplays
    <3>2. CASE u # t
      <4>1. Replays(memory[u][r], x(r))
        BY <1>1, <1>3, StaysReplayed
      <4> QED
        BY <2>2, <2>3, <3>2, <4>1
    <3> QED
      BY <3>1, <3>2
  <2>5. \A r \in Receipt : Started(stored'[r])
    BY <1>2, <2>3
  <2> QED
    BY <2>4, <2>5 DEF AllReplay
<1> QED
  BY <1>4, <1>5, <1>6 DEF SyncFrom

LEMMA AbsentStarted == Started(Absent)
BY AbsentFacts DEF Started

LEMMA InitReplays == StoreInit => RInv
<1> SUFFICES ASSUME StoreInit PROVE RInv
  OBVIOUS
<1>1. IInv
  BY InitGood
<1>2. \A r \in Receipt : Replays(Saved(Absent), stored[r])
  BY AbsentStarted, SavedReplays
<1> QED
  BY <1>1, <1>2, AbsentStarted DEF StoreInit, Empty, RInv, AllReplay

(* Every action keeps it: one step per action.                             *)
LEMMA NextReplays == RInv /\ [Next]_storeVars => RInv'
<1> SUFFICES ASSUME RInv, [Next]_storeVars PROVE AllReplay'
  BY NextGood DEF RInv
<1>1. ASSUME NEW t \in Tab, NEW now \in Time, NEW r \in Receipt,
             NEW a \in Opening[r], Record(t, r, a, now)
      PROVE  AllReplay'
  <2>1. GoodOwn(t, Published(t, r, Normalize(a)))
    BY <1>1, RecordedGood DEF RInv
  <2>2. \A q \in Receipt : Replays(Published(t, r, Normalize(a))[q], stored[q])
    BY <1>1, RecordReplays
  <2> QED
    BY <1>1, <2>1, <2>2, SyncReplays DEF Record, Update
<1>2. ASSUME NEW t \in Tab, NEW now \in Time, NEW r \in Receipt,
             Present(memory[t][r].activity),
             NEW p \in Patch[memory[t][r].activity["direction"]],
             Observe(t, r, p, now)
      PROVE  AllReplay'
  <2> DEFINE b == Merge(memory[t][r].activity, p, now)
  <2>1. memory[t][r].activity["direction"] \in Direction
    BY <1>2 DEF RInv, IInv, ReceiptRecord, Activity, Present
  <2>2. p \in Activity /\ p["direction"] = None
    BY <2>1, PatchAssumption DEF Present
  <2>3. GoodOwn(t, Published(t, r, b))
    BY <1>2, <2>2, PatchedGood DEF Observe, RInv
  <2>4. \A q \in Receipt : Replays(Published(t, r, b)[q], stored[q])
    BY <1>2, PatchReplays
  <2> QED
    BY <1>2, <2>3, <2>4, SyncReplays DEF Observe, ApplyPatch, Update
<1>3. ASSUME NEW t \in Tab, NEW now \in Time, Sync(t, now)
      PROVE  AllReplay'
  <2>1. GoodOwn(t, memory[t])
    BY DEF RInv, IInv, GoodOwn
  <2>2. \A r \in Receipt : Replays(memory[t][r], stored[r])
    BY DEF RInv, AllReplay
  <2> QED
    BY <1>3, <2>1, <2>2, SyncReplays DEF Sync
<1>4. ASSUME NEW t \in Tab, Reload(t)
      PROVE  AllReplay'
  <2>1. stored' = stored /\ memory' = [memory EXCEPT ![t] = Empty]
    BY <1>4 DEF Reload
  <2>2. memory'[t] = Empty /\ \A u \in Tab \ {t} : memory'[u] = memory[u]
    BY <2>1 DEF RInv, IInv
  <2>3. \A r \in Receipt : Replays(Empty[r], stored[r])
    BY AbsentStarted, SavedReplays DEF Empty
  <2> QED
    BY <2>1, <2>2, <2>3 DEF RInv, AllReplay
<1>5. CASE UNCHANGED storeVars
  BY <1>5 DEF storeVars, RInv, AllReplay
<1>6. CASE Next
  BY <1>1, <1>2, <1>3, <1>4, <1>6 DEF Next
<1> QED
  BY <1>5, <1>6

(* Whatever other tabs made durable since, replaying a tab's unsaved       *)
(* changes loses no evidence and no progress that the tab has shown.       *)
THEOREM UnsavedChangesSuffice == Spec => []UnsavedSurvivesReplay
<1>1. RInv => UnsavedSurvivesReplay
  <2> SUFFICES ASSUME RInv, NEW t \in Tab, NEW r \in Receipt, NEW now \in Time,
                      ~memory[t][r].saved
               PROVE  Covers(Replayed(memory[t], r, now).activity,
                             memory[t][r].activity)
    BY DEF UnsavedSurvivesReplay
  <2>1. /\ stored[r] \in Activity /\ GoodRow(stored[r]) /\ Started(stored[r])
        /\ GoodReceipt(memory[t][r], stored[r])
        /\ Replays(memory[t][r], stored[r])
    BY DEF RInv, IInv, AllReplay
  <2> QED
    BY <2>1, ReplayedFacts, ReplayKept DEF Covers
<1> QED
  BY <1>1, InitReplays, NextReplays, PTL DEF Spec
=============================================================================
