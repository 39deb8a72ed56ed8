----------------------- MODULE ActivityTrackingProofs -----------------------
(***************************************************************************)
(* For any tabs and transfers: whatever services answer late, whatever is  *)
(* lost, replayed or interrupted, no receipt shows an outcome the chains   *)
(* have not reached, and every outcome is shown whole.                     *)
(***************************************************************************)
EXTENDS ActivityTracking, ActivityStoreProofs

(* What a row, a patch or unsaved changes of direction d say is true of a  *)
(* transfer at this stage, and said with all the fields it takes.          *)
Fits(x, d, stage, healthy) ==
  /\ x["status"] = "complete" => stage = "delivered"
  /\ x["status"] = "failed" => stage \in Rejections
  /\ Known(x, "failureLeg") => x["status"] = "failed"
  /\ d \in {"agglayer-receive"} \cup Epoch /\ x["status"] = "failed"
       => Known(x, "failureLeg")
  /\ d = "xreserve-receive" =>
       /\ x["status"] = "complete" <=> x["xreserveStatus"] = "delivered"
       /\ x["status"] = "failed"   <=> x["xreserveStatus"] = "reverted"
       /\ x["xreserveStatus"] \notin {"cancelled", "replaced"}
       /\ ~Known(x, "destinationTxHash")
  /\ x["xreserveBurnStatus"] # "discarded"
  /\ healthy => x["epochRecoveryRequired"] # "yes"

FitsRow(a, stage, healthy) ==
  Present(a) =>
    /\ Fits(a, a["direction"], stage, healthy)
    /\ a["direction"] = "xreserve-receive" /\ a["status"] = "complete"
         => Stamped(a)

(* A receipt m of a tab, while the durable row is s.                       *)
FitsReceipt(m, s, stage, healthy) ==
  /\ FitsRow(m.activity, stage, healthy)
  /\ Fits(m.changes, m.activity["direction"], stage, healthy)
  /\ m.changes["status"] \in Settled => m.activity["status"] \in Settled
  /\ m.activity["direction"] = "xreserve-receive" /\ Stamped(m.activity)
       => Stamped(s) \/ Stamped(m.changes)

(* What a tab has shown of a receipt it goes on to show.                   *)
Grows(a, b) ==
  Present(a) =>
    /\ Present(b) /\ b["direction"] = a["direction"]
    /\ EvidenceOf(a) \subseteq EvidenceOf(b)
    /\ a["direction"] = "xreserve-receive" /\ Stamped(a) => Stamped(b)

(* With one page, a submission it is at.                                   *)
OnePage    == \A t, u \in Tab : t = u
Healthy(r) == OnePage /\ \E t \in Tab : Submitting(t, r)

FitAt(r, stage, healthy) ==
  /\ FitsRow(stored[r], stage, healthy)
  /\ \A t \in Tab : FitsReceipt(memory[t][r], stored[r], stage, healthy)
AllFit == \A r \in Receipt : FitAt(r, transfer[r], Healthy(r))

(* The stages follow the direction of the transfer, wherever it is held.   *)
Holds(r, d) ==
  /\ d # None
  /\ \/ stored[r]["direction"] = d
     \/ \E t \in Tab : memory[t][r].activity["direction"] = d
AllPlaced ==
  \A r \in Receipt, d \in Direction :
    Holds(r, d) =>
      /\ transfer[r] # None /\ submission[r] # Unsubmitted
      /\ transfer[r] = "claimable" => d = "agglayer-send"
      /\ transfer[r] = "undeliverable" => d \in Epoch

(* A poll asks about a receipt its tab still holds.                        *)
Watches(t, r) ==
  /\ Sound(poll[t].snapshot) /\ CanPoll(poll[t].snapshot)
  /\ FitsRow(poll[t].snapshot, transfer[r], FALSE)
  /\ Grows(poll[t].snapshot, memory[t][r].activity)
AllWatched ==
  \A t \in Tab, r \in Receipt : poll[t].receipt = r => Watches(t, r)

Stages ==
  /\ transfer \in [Receipt -> Stage \cup {None}]
  /\ submission \in [Receipt -> [tab: Tab \cup {None},
                       stage: {None, "running", "confirmed", "done", "lost"}]]
  /\ poll \in [Tab -> [receipt: Receipt \cup {None}, snapshot: Activity]]

TInv == IInv /\ Stages /\ AllFit /\ AllPlaced /\ AllWatched
-----------------------------------------------------------------------------
LEMMA AbsentFits ==
  /\ ~Stamped(Absent)
  /\ \A d, stage : \A healthy \in BOOLEAN : Fits(Absent, d, stage, healthy)
<1>1. \A f \in Field : Absent[f] = None
  BY DEF Absent
<1> QED
  BY <1>1, MoreFieldNames DEF Fits, Stamped, Known, None

(* A receipt whose fields agree on an outcome resolves to that outcome.    *)
LEMMA OutcomeOf ==
  ASSUME NEW o \in Activity, o["status"] \in Status,
         o["xreserveBurnStatus"] # "discarded",
         o["direction"] = "xreserve-receive" =>
           /\ o["status"] = "complete" <=> o["xreserveStatus"] = "delivered"
           /\ o["status"] = "failed"   <=> o["xreserveStatus"] = "reverted"
           /\ o["xreserveStatus"] \notin {"cancelled", "replaced"}
  PROVE  \A s \in Settled : StateStatus(o) = s <=> o["status"] = s
<1>1. CASE o["direction"] = "epoch-send"
  BY <1>1 DEF StateStatus, ResolvePhase, EpochSendPhase, PhaseStatus, Settled,
              Claiming, Epoch, Status
<1>2. CASE o["direction"] = "epoch-receive"
  BY <1>2 DEF StateStatus, ResolvePhase, EpochReceivePhase, PhaseStatus,
              Settled, Claiming, Epoch, Status
<1>3. CASE o["direction"] = "xreserve-send"
  BY <1>3 DEF StateStatus, ResolvePhase, XreserveSendPhase, PhaseStatus,
              Settled, Claiming, Epoch, Status
<1>4. CASE o["direction"] = "xreserve-receive"
  BY <1>4 DEF StateStatus, ResolvePhase, XreserveReceivePhase, PhaseStatus,
              Settled, Claiming, Epoch, Status
<1>5. CASE o["direction"] \notin {"epoch-send", "epoch-receive",
                                  "xreserve-send", "xreserve-receive"}
  BY <1>5 DEF StateStatus, ResolvePhase, PhaseStatus, Settled, Claiming,
              Epoch, Status
<1> QED
  BY <1>1, <1>2, <1>3, <1>4, <1>5

(* A fitting patch leaves a fitting receipt.                               *)
LEMMA MergeFits ==
  ASSUME NEW a, Sound(a), NEW p \in Activity, NEW now \in Time,
         NEW stage, NEW healthy \in BOOLEAN,
         p["direction"] \in {None, a["direction"]},
         FitsRow(a, stage, healthy), Fits(p, a["direction"], stage, healthy),
         a["direction"] = "xreserve-receive" /\ p["status"] = "complete"
           => Stamped(p) \/ Stamped(a)
  PROVE  /\ FitsRow(Merge(a, p, now), stage, healthy)
         /\ a["status"] \in Settled \/ p["status"] \in Settled
              => Merge(a, p, now)["status"] \in Settled
         /\ a["direction"] = "xreserve-receive" =>
              (Stamped(Merge(a, p, now)) <=> Stamped(a) \/ Stamped(p))
<1> DEFINE o == Observed(a, p)
           n == Normalize(o)
           b == Merge(a, p, now)
           d == a["direction"]
<1>1. /\ Loses(a, n) =>
           /\ b["status"] = a["status"]
           /\ \A f \in PhaseFields(d) \ {"status"} : f \in Field => b[f] = a[f]
      /\ ~Loses(a, n) =>
           /\ a["status"] \notin Settled
           /\ b["status"] = StateStatus(o)
           /\ \A f \in Field \ {"status", "destinationTxAt"} : b[f] = o[f]
      /\ \A f \in Field \ {"status", "destinationTxAt"} : b[f] \in {a[f], p[f]}
      /\ ~Known(b, "destinationTxHash") =>
           (Stamped(b) <=> Stamped(a) \/ Stamped(p))
  BY MergeFields
<1>2. Sound(b) /\ b["direction"] = d
      /\ (a["status"] \in Settled => b["status"] = a["status"])
  BY MergeFacts
<1>3. /\ o \in Activity /\ o["status"] \in Status /\ o["direction"] = d
      /\ \A f \in Field : o[f] = IF Known(p, f) THEN p[f] ELSE a[f]
      /\ a \in Activity /\ StateStatus(a) = a["status"] /\ a["status"] \in Status
      /\ Present(a)
  BY ObservedFacts DEF Sound, Normal, Observed
<1>4. Fits(a, d, stage, healthy)
      /\ (d = "xreserve-receive" /\ a["status"] = "complete" => Stamped(a))
  BY <1>3 DEF FitsRow
<1> HIDE DEF b, n, d
<1>5. /\ b["xreserveBurnStatus"] # "discarded"
      /\ healthy => b["epochRecoveryRequired"] # "yes"
      /\ d = "xreserve-receive" => ~Known(b, "destinationTxHash")
  BY <1>1, <1>4, MoreFieldNames DEF Fits, Known, d
<1>6. CASE Loses(a, n)
  <2>1. b["status"] = a["status"] /\ b["failureLeg"] = a["failureLeg"]
        /\ (d = "xreserve-receive" => b["xreserveStatus"] = a["xreserveStatus"])
    BY <1>1, <1>6, MoreFieldNames DEF PhaseFields
  <2>2. Fits(b, d, stage, healthy)
    BY <1>4, <1>5, <2>1 DEF Fits, Known
  <2>3. p["status"] \in Settled => a["status"] \in Settled
    <3> SUFFICES ASSUME p["status"] \in Settled, a["status"] \notin Settled
                 PROVE  FALSE
      OBVIOUS
    <3>1. o["status"] = p["status"]
      BY <1>3, MoreFieldNames DEF Known, Settled, None
    <3>2. StateStatus(o) \in Settled
      <4>1. CASE d = "xreserve-receive"
        BY <1>3, <3>1, <4>1 DEF d, StateStatus, ResolvePhase,
           XreserveReceivePhase, PhaseStatus, Settled, Claiming, Epoch, Status
      <4>2. CASE d = "xreserve-send"
        BY <1>3, <3>1, <4>2 DEF d, StateStatus, ResolvePhase,
           XreserveSendPhase, PhaseStatus, Settled, Claiming, Epoch, Status
      <4>3. CASE d \notin {"xreserve-receive", "xreserve-send"}
        BY <1>3, <3>1, <4>3 DEF d, StateStatus, ResolvePhase, EpochSendPhase,
           EpochReceivePhase, PhaseStatus, Settled, Claiming, Epoch, Status
      <4> QED
        BY <4>1, <4>2, <4>3
    <3>3. StateStatus(n) = StateStatus(o)
      BY <1>3, Normalized DEF n
    <3> QED
      BY <1>3, <1>6, <3>2, <3>3 DEF Loses
  <2> QED
    BY <1>1, <1>2, <1>3, <1>4, <1>5, <2>1, <2>2, <2>3 DEF FitsRow, b, d
<1>7. CASE ~Loses(a, n)
  <2>1. /\ a["status"] \notin Settled
        /\ b["status"] = StateStatus(o)
        /\ b["failureLeg"] = o["failureLeg"]
        /\ b["xreserveStatus"] = o["xreserveStatus"]
        /\ b["xreserveBurnStatus"] = o["xreserveBurnStatus"]
    BY <1>1, <1>7, MoreFieldNames
  <2>2. /\ a["failureLeg"] = None /\ o["failureLeg"] = p["failureLeg"]
        /\ \A s \in Settled : o["status"] = s <=> p["status"] = s
    BY <1>3, <1>4, <2>1, MoreFieldNames DEF Fits, Known, Settled, None
  <2>3. d = "xreserve-receive" =>
          /\ o["status"] = "complete" <=> o["xreserveStatus"] = "delivered"
          /\ o["status"] = "failed"   <=> o["xreserveStatus"] = "reverted"
          /\ o["xreserveStatus"] \notin {"cancelled", "replaced"}
    BY <1>3, <1>4, <2>1, <2>2, MoreFieldNames DEF Fits, Known, Settled, None, d
  <2>4. \A s \in Settled : b["status"] = s <=> p["status"] = s
    BY <1>3, <1>5, <2>1, <2>2, <2>3, OutcomeOf DEF d
  <2>5. Fits(b, d, stage, healthy)
    BY <1>5, <2>1, <2>2, <2>3, <2>4 DEF Fits, Known, Settled, d
  <2> QED
    BY <1>1, <1>2, <1>5, <2>1, <2>4, <2>5 DEF FitsRow, b, d, Settled
<1> QED
  BY <1>6, <1>7

(* A settled receipt keeps all that explains its outcome.                  *)
LEMMA SettledKeeps ==
  ASSUME NEW a, Sound(a), NEW p \in Activity, NEW now \in Time,
         p["direction"] \in {None, a["direction"]}, a["status"] \in Settled
  PROVE  LET b == Merge(a, p, now)
         IN  /\ b["status"] = a["status"] /\ b["failureLeg"] = a["failureLeg"]
             /\ a["direction"] = "xreserve-receive" =>
                  b["xreserveStatus"] = a["xreserveStatus"]
<1> DEFINE n == Normalize(Observed(a, p))
           b == Merge(a, p, now)
<1>1. Loses(a, n)
  BY DEF Loses, Sound, Normal
<1>2. /\ b["status"] = a["status"]
      /\ \A f \in PhaseFields(a["direction"]) \ {"status"} :
           f \in Field => b[f] = a[f]
  BY <1>1, MergeFields
<1>3. /\ "failureLeg" \in PhaseFields(a["direction"]) \ {"status"}
      /\ a["direction"] = "xreserve-receive" =>
           "xreserveStatus" \in PhaseFields(a["direction"]) \ {"status"}
  BY DEF PhaseFields
<1> HIDE DEF b
<1> QED
  BY <1>2, <1>3, MoreFieldNames DEF b

(* What changed between two fitting receipts fits.                         *)
LEMMA ChangedFits ==
  ASSUME NEW a, NEW b, NEW d, NEW stage, NEW healthy \in BOOLEAN,
         Fits(a, d, stage, healthy) \/ Fits(a, d, stage, FALSE),
         Fits(b, d, stage, healthy),
         a["status"] = "failed" => b["failureLeg"] = a["failureLeg"]
  PROVE  Fits(Changed(a, b), d, stage, healthy)
<1> DEFINE c == Changed(a, b)
<1>1. \A f \in Field : c[f] = IF b[f] # None /\ b[f] # a[f] THEN b[f] ELSE None
  BY DEF Changed, Known
<1>2. /\ c["status"] =
           IF b["status"] # None /\ b["status"] # a["status"] THEN b["status"] ELSE None
      /\ c["failureLeg"] =
           IF b["failureLeg"] # None /\ b["failureLeg"] # a["failureLeg"]
           THEN b["failureLeg"] ELSE None
      /\ c["xreserveStatus"] =
           IF b["xreserveStatus"] # None /\ b["xreserveStatus"] # a["xreserveStatus"]
           THEN b["xreserveStatus"] ELSE None
      /\ c["xreserveBurnStatus"] \in {b["xreserveBurnStatus"], None}
      /\ c["epochRecoveryRequired"] \in {b["epochRecoveryRequired"], None}
      /\ c["destinationTxHash"] \in {b["destinationTxHash"], None}
  BY <1>1, MoreFieldNames
<1>3. Fits(a, d, stage, FALSE)
  BY DEF Fits
<1> HIDE DEF c
<1>4. /\ c["status"] = "complete" => stage = "delivered"
      /\ c["status"] = "failed" => stage \in Rejections
      /\ c["xreserveBurnStatus"] # "discarded"
      /\ healthy => c["epochRecoveryRequired"] # "yes"
      /\ d = "xreserve-receive" => /\ c["xreserveStatus"] \notin {"cancelled", "replaced"}
                                   /\ ~Known(c, "destinationTxHash")
  BY <1>2 DEF Fits, Known, None
<1>5. /\ Known(c, "failureLeg") => c["status"] = "failed"
      /\ d \in {"agglayer-receive"} \cup Epoch /\ c["status"] = "failed"
            => Known(c, "failureLeg")
  BY <1>2, <1>3 DEF Fits, Known, None
<1>6. d = "xreserve-receive" =>
        /\ c["status"] = "complete" <=> c["xreserveStatus"] = "delivered"
        /\ c["status"] = "failed"   <=> c["xreserveStatus"] = "reverted"
  BY <1>2, <1>3 DEF Fits, None
<1> QED
  BY <1>4, <1>5, <1>6 DEF Fits, c

(* So do two fitting sets of changes together, unless the later ones       *)
(* touch an outcome.                                                       *)
LEMMA ObservedFits ==
  ASSUME NEW c, NEW e, NEW d, NEW stage, NEW healthy \in BOOLEAN,
         Fits(c, d, stage, healthy), Fits(e, d, stage, healthy),
         c["status"] \in Settled =>
           /\ e["status"] = None /\ e["failureLeg"] = None
           /\ d = "xreserve-receive" => e["xreserveStatus"] = None
  PROVE  Fits(Observed(c, e), d, stage, healthy)
<1> DEFINE o == Observed(c, e)
<1>1. \A f \in Field : o[f] = IF e[f] # None THEN e[f] ELSE c[f]
  BY DEF Observed, Known
<1>2. /\ o["status"] = IF e["status"] # None THEN e["status"] ELSE c["status"]
      /\ o["failureLeg"] =
           IF e["failureLeg"] # None THEN e["failureLeg"] ELSE c["failureLeg"]
      /\ o["xreserveStatus"] =
           IF e["xreserveStatus"] # None THEN e["xreserveStatus"] ELSE c["xreserveStatus"]
      /\ o["xreserveBurnStatus"] \in {e["xreserveBurnStatus"], c["xreserveBurnStatus"]}
      /\ o["epochRecoveryRequired"] \in
           {e["epochRecoveryRequired"], c["epochRecoveryRequired"]}
      /\ Known(o, "destinationTxHash") <=>
           Known(e, "destinationTxHash") \/ Known(c, "destinationTxHash")
  BY <1>1, MoreFieldNames DEF Known
<1> HIDE DEF o
<1>3. /\ o["status"] = "complete" => stage = "delivered"
      /\ o["status"] = "failed" => stage \in Rejections
      /\ o["xreserveBurnStatus"] # "discarded"
      /\ healthy => o["epochRecoveryRequired"] # "yes"
      /\ d = "xreserve-receive" => /\ o["xreserveStatus"] \notin {"cancelled", "replaced"}
                                   /\ ~Known(o, "destinationTxHash")
  BY <1>2 DEF Fits, None
<1>4. /\ Known(o, "failureLeg") => o["status"] = "failed"
      /\ d \in {"agglayer-receive"} \cup Epoch /\ o["status"] = "failed"
            => Known(o, "failureLeg")
  BY <1>2 DEF Fits, Known, None, Settled
<1>5. d = "xreserve-receive" =>
        /\ o["status"] = "complete" <=> o["xreserveStatus"] = "delivered"
        /\ o["status"] = "failed"   <=> o["xreserveStatus"] = "reverted"
  BY <1>2 DEF Fits, None, Settled
<1> QED
  BY <1>3, <1>4, <1>5 DEF Fits, o

(* Publishing a fitting receipt that keeps what its tab has shown.         *)
LEMMA PublishedFits ==
  ASSUME IInv, NEW t \in Tab, NEW r \in Receipt, NEW b, NEW stage, NEW healthy \in BOOLEAN,
         Sound(b), FitsRow(b, stage, healthy),
         FitsReceipt(memory[t][r], stored[r], stage, healthy),
         memory[t][r].activity["direction"] \in {None, b["direction"]},
         EvidenceOf(memory[t][r].activity) \subseteq EvidenceOf(b),
         Stamped(memory[t][r].activity) /\ b["direction"] = "xreserve-receive"
           => Stamped(b),
         memory[t][r].activity["status"] \in Settled =>
           /\ b["status"] = memory[t][r].activity["status"]
           /\ b["failureLeg"] = memory[t][r].activity["failureLeg"]
           /\ b["direction"] = "xreserve-receive" =>
                b["xreserveStatus"] = memory[t][r].activity["xreserveStatus"]
  PROVE  LET own == Published(t, r, b)
         IN  /\ FitsReceipt(own[r], stored[r], stage, healthy)
             /\ \A q \in Receipt :
                  /\ q # r => own[q] = memory[t][q]
                  /\ Grows(memory[t][q].activity, own[q].activity)
<1> DEFINE m == memory[t][r]
           e == Changed(m.activity, b)
           c == Observed(m.changes, e)
           own == Published(t, r, b)
           d == b["direction"]
<1>1. /\ own[r] = Unsaved(b, c)
      /\ \A q \in Receipt \ {r} : own[q] = memory[t][q]
  BY DEF Published, IInv
<1>2. own[r].activity = b /\ own[r].changes = c
  BY <1>1 DEF Unsaved
<1>3. GoodReceipt(m, stored[r]) /\ b \in Activity /\ Present(b)
  BY DEF IInv, Sound
<1>4. m = Saved(Absent) \/ Sound(m.activity)
  BY <1>3 DEF GoodReceipt
<1>5. Fits(m.activity, d, stage, healthy) /\ Fits(m.changes, d, stage, healthy)
  <2>1. CASE m = Saved(Absent)
    BY <2>1, AbsentFits DEF Saved
  <2>2. CASE Sound(m.activity)
    BY <2>2 DEF FitsReceipt, FitsRow, Sound, Present
  <2> QED
    BY <1>4, <2>1, <2>2
<1>6. Fits(b, d, stage, healthy)
  BY <1>3 DEF FitsRow
<1>7. Fits(e, d, stage, healthy)
  BY <1>5, <1>6, ChangedFits DEF Settled
<1>8. \A f \in Field :
        /\ e[f] = IF b[f] # None /\ b[f] # m.activity[f] THEN b[f] ELSE None
        /\ c[f] = IF e[f] # None THEN e[f] ELSE m.changes[f]
  BY DEF Changed, Observed, Known
<1>9. m.changes["status"] \in Settled =>
           /\ e["status"] = None /\ e["failureLeg"] = None
           /\ d = "xreserve-receive" => e["xreserveStatus"] = None
  <2> HIDE DEF e, c
  <2> QED
    BY <1>8, MoreFieldNames DEF FitsReceipt
<1>10. Fits(c, d, stage, healthy)
  BY <1>5, <1>7, <1>9, ObservedFits
<1> HIDE DEF e, c
<1>11. c["status"] \in Settled => b["status"] \in Settled
  BY <1>8, MoreFieldNames DEF FitsReceipt
<1>12. d = "xreserve-receive" /\ Stamped(b) => Stamped(stored[r]) \/ Stamped(c)
  <2> SUFFICES ASSUME d = "xreserve-receive", Stamped(b), ~Stamped(c)
               PROVE  Stamped(stored[r])
    OBVIOUS
  <2>1. b["destinationTxAt"] = m.activity["destinationTxAt"] /\ ~Stamped(m.changes)
    BY <1>8, MoreFieldNames DEF Stamped, Known
  <2>2. Stamped(m.activity)
    BY <2>1 DEF Stamped, Known
  <2>3. m.activity["direction"] = d
    <3>1. m # Saved(Absent)
      BY <2>2, AbsentFits DEF Saved
    <3> QED
      BY <1>4, <3>1 DEF Sound, Present
  <2> QED
    BY <2>1, <2>2, <2>3 DEF FitsReceipt
<1>13. FitsReceipt(own[r], stored[r], stage, healthy)
  BY <1>2, <1>10, <1>11, <1>12 DEF FitsReceipt
<1>14. Grows(m.activity, b)
  BY <1>3 DEF Grows, Present
<1> HIDE DEF own
<1>15. \A a : Grows(a, a)
  BY DEF Grows
<1>16. \A q \in Receipt : /\ q # r => own[q] = memory[t][q]
                          /\ Grows(memory[t][q].activity, own[q].activity)
  BY <1>1, <1>2, <1>14, <1>15
<1> QED
  BY <1>13, <1>16 DEF own

-----------------------------------------------------------------------------
(* A replay onto a fitting row, as a retry finds it.                       *)
LEMMA ReplayedFits ==
  ASSUME NEW own, NEW r \in Receipt, NEW now \in Time,
         NEW stage, NEW healthy \in BOOLEAN,
         stored[r] \in Activity, GoodRow(stored[r]),
         GoodReceipt(own[r], stored[r]), FitsRow(stored[r], stage, healthy),
         FitsReceipt(own[r], stored[r], stage, healthy)
  PROVE  LET s == stored[r]
             y == Replayed(own, r, now)
         IN  /\ FitsRow(y.activity, stage, healthy)
             /\ FitsReceipt(y, s, stage, healthy)
             /\ s["direction"] = "xreserve-receive" /\ Stamped(s)
                  => Stamped(y.activity)
             /\ Grows(own[r].activity, y.activity)
<1> DEFINE s == stored[r]
           m == own[r]
           y == Replayed(own, r, now)
<1>1. /\ m.saved => y = Saved(s)
      /\ ~m.saved =>
           /\ Present(y.activity)
           /\ y.activity["direction"] = m.activity["direction"]
           /\ EvidenceOf(m.activity) \subseteq EvidenceOf(y.activity)
           /\ y = [m EXCEPT !.activity = y.activity]
  BY ReplayedFacts DEF Saved
<1>2. m \in ReceiptRecord /\ m.changes \in Activity /\ ReadRow(s) = s
  BY ReadGoodRow DEF GoodReceipt, ReceiptRecord
<1>3. CASE m.saved
  <2>1. y.activity = s /\ y.changes = Absent /\ m.changes = Absent
    BY <1>1, <1>3 DEF Saved, GoodReceipt
  <2>2. FitsReceipt(y, s, stage, healthy)
    BY <2>1, AbsentFits, AbsentFacts DEF FitsReceipt, Settled, None
  <2>3. Grows(m.activity, s)
    BY <1>3, <2>1, AbsentFits DEF GoodReceipt, FitsReceipt, Grows, Covers, Agree
  <2> QED
    BY <2>1, <2>2, <2>3
<1>4. CASE ~m.saved /\ ~Present(s)
  <2>1. y = m
    BY <1>2, <1>4 DEF Replayed, ReceiptRecord
  <2>2. s["direction"] # "xreserve-receive"
    BY <1>4 DEF Present, None
  <2> QED
    BY <2>1, <2>2 DEF FitsReceipt, Grows
<1>5. CASE ~m.saved /\ Present(s)
  <2>1. /\ Sound(s) /\ m.activity["direction"] = s["direction"]
        /\ Present(m.activity)
        /\ m.changes["direction"] \in {None, s["direction"]}
    BY <1>1, <1>5, AbsentFacts DEF GoodRow, GoodReceipt, Agree, Present
  <2>2. y.activity = Merge(s, m.changes, now)
    BY <1>2, <1>5 DEF Replayed, ReceiptRecord
  <2>3. Fits(m.changes, s["direction"], stage, healthy)
    BY <2>1 DEF FitsReceipt
  <2>4. s["direction"] = "xreserve-receive" /\ m.changes["status"] = "complete"
          => Stamped(m.changes) \/ Stamped(s)
    <3> SUFFICES ASSUME s["direction"] = "xreserve-receive",
                        m.changes["status"] = "complete"
                 PROVE  Stamped(m.changes) \/ Stamped(s)
      OBVIOUS
    <3>1. stage = "delivered" /\ m.activity["status"] \in Settled
      BY <2>3 DEF Fits, FitsReceipt, Settled
    <3>2. m.activity["status"] = "complete" /\ Stamped(m.activity)
      BY <2>1, <3>1 DEF FitsReceipt, FitsRow, Fits, Settled, Rejections
    <3> QED
      BY <2>1, <3>2 DEF FitsReceipt
  <2>5. /\ FitsRow(y.activity, stage, healthy)
        /\ m.changes["status"] \in Settled => y.activity["status"] \in Settled
        /\ s["direction"] = "xreserve-receive" =>
             (Stamped(y.activity) <=> Stamped(s) \/ Stamped(m.changes))
    BY <1>2, <2>1, <2>2, <2>3, <2>4, MergeFits
  <2>6. y.changes = m.changes
    BY <1>1, <1>2, <1>5 DEF ReceiptRecord
  <2>7. FitsReceipt(y, s, stage, healthy)
    BY <1>1, <1>5, <2>1, <2>3, <2>5, <2>6 DEF FitsReceipt
  <2>8. Grows(m.activity, y.activity)
    BY <1>1, <1>5, <2>1, <2>5 DEF Grows, FitsReceipt
  <2> QED
    BY <2>5, <2>7, <2>8
<1> QED
  BY <1>3, <1>4, <1>5

(* A sync from fitting receipts leaves fitting receipts and rows, and      *)
(* takes nothing from what its tab shows.                                  *)
LEMMA SyncFits ==
  ASSUME IInv, NEW t \in Tab, NEW own, GoodOwn(t, own), NEW now \in Time,
         SyncFrom(t, own, now), NEW r \in Receipt,
         NEW stage, NEW healthy \in BOOLEAN, FitsRow(stored[r], stage, healthy),
         FitsReceipt(own[r], stored[r], stage, healthy),
         \A u \in Tab \ {t} : FitsReceipt(memory[u][r], stored[r], stage, healthy)
  PROVE  /\ FitsRow(stored'[r], stage, healthy)
         /\ \A u \in Tab : FitsReceipt(memory'[u][r], stored'[r], stage, healthy)
         /\ Grows(own[r].activity, memory'[t][r].activity)
<1> DEFINE s == stored[r]
           y(q) == Replayed(own, q, now)
<1>1. /\ s \in Activity /\ GoodRow(s) /\ GoodReceipt(own[r], s)
      /\ \A u \in Tab : GoodReceipt(memory[u][r], s)
  BY DEF IInv, GoodOwn
<1>2. /\ FitsRow(y(r).activity, stage, healthy)
      /\ FitsReceipt(y(r), s, stage, healthy)
      /\ s["direction"] = "xreserve-receive" /\ Stamped(s)
           => Stamped(y(r).activity)
      /\ Grows(own[r].activity, y(r).activity)
  BY <1>1, ReplayedFits
<1>3. memory \in [Tab -> [Receipt -> ReceiptRecord]] /\ stored \in [Receipt -> Activity]
  BY DEF IInv
<1> HIDE DEF y
<1>4. CASE ReadFails(t, own)
  <2>1. /\ stored'[r] = s /\ memory'[t] = own
        /\ \A u \in Tab \ {t} : memory'[u] = memory[u]
    BY <1>3, <1>4 DEF ReadFails
  <2>2. Grows(own[r].activity, own[r].activity)
    BY DEF Grows
  <2> QED
    BY <2>1, <2>2
<1>5. CASE WriteFails(t, own, now)
  <2>1. /\ stored'[r] = s /\ memory'[t] = [q \in Receipt |-> y(q)]
        /\ \A u \in Tab \ {t} : memory'[u] = memory[u]
    BY <1>3, <1>5 DEF WriteFails, y
  <2> QED
    BY <1>2, <2>1
<1>6. CASE SyncSucceeds(t, own, now)
  <2> DEFINE x == y(r).activity
  <2>1. /\ memory'[t][r] = Saved(x)
        /\ \A u \in Tab \ {t} : memory'[u] = memory[u]
        /\ stored'[r] = IF Pending(own) THEN x ELSE s
    BY <1>3, <1>6 DEF SyncSucceeds, y
  <2>2. stored'[r] = x
    <3>1. CASE Pending(own)
      BY <2>1, <3>1
    <3>2. CASE ~Pending(own)
      <4>1. own[r].saved
        BY <3>2 DEF Pending
      <4>2. x = s
        BY <1>1, <4>1, ReadGoodRow DEF y, Replayed, Saved
      <4> QED
        BY <2>1, <3>2, <4>2
    <3> QED
      BY <3>1, <3>2
  <2>3. FitsReceipt(Saved(x), x, stage, healthy) /\ Saved(x).activity = x
    BY <1>2, AbsentFits, AbsentFacts DEF FitsReceipt, Saved, Settled, None
  <2>4. ASSUME NEW u \in Tab \ {t}
        PROVE  FitsReceipt(memory'[u][r], x, stage, healthy)
    <3>1. FitsReceipt(memory[u][r], s, stage, healthy)
      OBVIOUS
    <3>2. /\ memory[u][r].activity["direction"] = "xreserve-receive" /\ Stamped(s)
             => Stamped(x)
      <4> SUFFICES ASSUME memory[u][r].activity["direction"] = "xreserve-receive",
                          Stamped(s)
                   PROVE  Stamped(x)
        OBVIOUS
      <4>1. Present(s)
        BY <1>1, AbsentFits DEF GoodRow, Sound
      <4>2. s["direction"] = "xreserve-receive"
        BY <1>1, <4>1 DEF GoodReceipt, Agree, Present, None
      <4> QED
        BY <1>2, <4>2
    <3> HIDE DEF x, s
    <3>3. FitsReceipt(memory[u][r], x, stage, healthy)
      BY <3>1, <3>2 DEF FitsReceipt
    <3> QED
      BY <2>1, <3>3
  <2> QED
    BY <1>2, <2>1, <2>2, <2>3, <2>4
<1> QED
  BY <1>4, <1>5, <1>6 DEF SyncFrom

-----------------------------------------------------------------------------
(* What a step of tab t's store keeps of its own rows and leaves alone.    *)
Keeps(t) ==
  /\ \A q \in Receipt : Grows(memory[t][q].activity, memory'[t][q].activity)
  /\ \A u \in Tab \ {t} : memory'[u] = memory[u]

LEMMA GrowsOn ==
  ASSUME NEW a, NEW b, NEW c, Grows(a, b), Grows(b, c)
  PROVE  Grows(a, c)
BY DEF Grows, EvidenceOf

LEMMA SyncKeeps ==
  ASSUME IInv, NEW t \in Tab, NEW own, GoodOwn(t, own), NEW now \in Time,
         SyncFrom(t, own, now)
  PROVE  /\ \A u \in Tab \ {t} : memory'[u] = memory[u]
         /\ \A q \in Receipt, d \in Direction :
              Holds(q, d)' => Holds(q, d) \/ own[q].activity["direction"] = d
<1> DEFINE y(q) == Replayed(own, q, now)
<1>1. memory \in [Tab -> [Receipt -> ReceiptRecord]] /\ stored \in [Receipt -> Activity]
  BY DEF IInv
<1>2. ASSUME NEW q \in Receipt
      PROVE  y(q).activity["direction"] \in {stored[q]["direction"], own[q].activity["direction"]}
  <2>1. stored[q] \in Activity /\ GoodRow(stored[q]) /\ GoodReceipt(own[q], stored[q])
    BY DEF IInv, GoodOwn
  <2> QED
    BY <2>1, ReplayedFacts
<1>3. ASSUME ReadFails(t, own) \/ WriteFails(t, own, now) \/ SyncSucceeds(t, own, now)
      PROVE  /\ \A u \in Tab \ {t} : memory'[u] = memory[u]
             /\ \A q \in Receipt :
                  /\ memory'[t][q].activity \in {own[q].activity, y(q).activity}
                  /\ stored'[q] \in {stored[q], y(q).activity}
  <2> HIDE DEF y
  <2>1. CASE ReadFails(t, own)
    BY <1>1, <2>1 DEF ReadFails
  <2>2. CASE WriteFails(t, own, now)
    BY <1>1, <2>2 DEF WriteFails, y
  <2>3. CASE SyncSucceeds(t, own, now)
    BY <1>1, <2>3 DEF SyncSucceeds, Saved, y
  <2> QED
    BY <1>3, <2>1, <2>2, <2>3
<1> HIDE DEF y
<1>4. ASSUME NEW q \in Receipt, NEW d \in Direction, Holds(q, d)'
      PROVE  Holds(q, d) \/ own[q].activity["direction"] = d
  <2>1. /\ \A u \in Tab \ {t} : memory'[u] = memory[u]
        /\ memory'[t][q].activity \in {own[q].activity, y(q).activity}
        /\ stored'[q] \in {stored[q], y(q).activity}
    BY <1>3 DEF SyncFrom
  <2>2. \/ stored'[q]["direction"] = d
        \/ \E u \in Tab : memory'[u][q].activity["direction"] = d
    BY <1>4 DEF Holds
  <2>3. d # None
    BY DEF Direction, None
  <2> QED
    BY <1>2, <2>1, <2>2, <2>3 DEF Holds
<1> QED
  BY <1>3, <1>4 DEF SyncFrom

(* Observations and retries.                                               *)
LEMMA SyncWorld ==
  ASSUME IInv, AllFit, NEW t \in Tab, NEW now \in Time, Sync(t, now)
  PROVE  /\ IInv' /\ Keeps(t)
         /\ \A q \in Receipt : \A stage : \A healthy \in BOOLEAN :
              FitAt(q, stage, healthy) => FitAt(q, stage, healthy)'
         /\ \A q \in Receipt, d \in Direction : Holds(q, d)' => Holds(q, d)
<1>1. GoodOwn(t, memory[t]) /\ SyncFrom(t, memory[t], now)
  BY DEF IInv, GoodOwn, Sync
<1>2. IInv'
  BY <1>1, SyncStep
<1>3. ASSUME NEW q \in Receipt, NEW stage, NEW healthy \in BOOLEAN,
             FitAt(q, stage, healthy)
      PROVE  FitAt(q, stage, healthy)' 
  BY <1>1, <1>3, SyncFits DEF FitAt
<1>4. ASSUME NEW q \in Receipt
      PROVE  Grows(memory[t][q].activity, memory'[t][q].activity)
  <2>1. FitAt(q, transfer[q], Healthy(q)) /\ Healthy(q) \in BOOLEAN
    BY DEF AllFit, Healthy
  <2> QED
    BY <1>1, <2>1, SyncFits DEF FitAt
<1>5. /\ \A u \in Tab \ {t} : memory'[u] = memory[u]
      /\ \A q \in Receipt, d \in Direction :
           Holds(q, d)' => Holds(q, d) \/ memory[t][q].activity["direction"] = d
  BY <1>1, SyncKeeps
<1>6. \A q \in Receipt, d \in Direction : Holds(q, d)' => Holds(q, d)
  <2>1. \A d \in Direction : d # None
    BY DEF Direction, None
  <2> QED
    BY <1>5, <2>1 DEF Holds
<1> QED
  BY <1>2, <1>3, <1>4, <1>5, <1>6 DEF Keeps

LEMMA PatchWorld ==
  ASSUME IInv, AllFit, NEW t \in Tab, NEW now \in Time, NEW r \in Receipt,
         NEW p \in Activity, p["direction"] = None,
         Attributable(Merge(memory[t][r].activity, p, now)),
         NEW stage, NEW healthy \in BOOLEAN, FitAt(r, stage, healthy),
         Fits(p, memory[t][r].activity["direction"], stage, healthy),
         memory[t][r].activity["direction"] = "xreserve-receive"
           /\ p["status"] = "complete"
           => Stamped(p) \/ Stamped(memory[t][r].activity),
         ApplyPatch(t, r, p, now)
  PROVE  /\ IInv' /\ Keeps(t) /\ FitAt(r, stage, healthy)'
         /\ \A q \in Receipt \ {r} : \A st : \A h \in BOOLEAN :
              FitAt(q, st, h) => FitAt(q, st, h)'
         /\ \A q \in Receipt, d \in Direction : Holds(q, d)' => Holds(q, d)
<1> DEFINE a == memory[t][r].activity
           b == Merge(a, p, now)
           own == Published(t, r, b)
<1>1. Present(a) /\ SyncFrom(t, own, now)
  BY DEF ApplyPatch, Update
<1>2. GoodOwn(t, own)
  BY <1>1, PatchedGood
<1>3. IInv'
  BY <1>1, <1>2, SyncStep
<1>4. Sound(a)
  BY <1>1, AbsentFacts DEF IInv, GoodReceipt, Saved
<1>5. /\ Sound(b) /\ b["direction"] = a["direction"]
      /\ EvidenceOf(a) \subseteq EvidenceOf(b)
  BY <1>4, MergeFacts DEF EvidenceOf
<1>6. /\ FitsRow(a, stage, healthy)
      /\ FitsReceipt(memory[t][r], stored[r], stage, healthy)
  BY DEF FitAt, FitsReceipt
<1>7. /\ FitsRow(b, stage, healthy)
      /\ a["direction"] = "xreserve-receive" =>
           (Stamped(b) <=> Stamped(a) \/ Stamped(p))
  BY <1>4, <1>6, MergeFits
<1>8. a["status"] \in Settled =>
        /\ b["status"] = a["status"] /\ b["failureLeg"] = a["failureLeg"]
        /\ a["direction"] = "xreserve-receive" =>
             b["xreserveStatus"] = a["xreserveStatus"]
  BY <1>4, SettledKeeps
<1> HIDE DEF b
<1>9. /\ FitsReceipt(own[r], stored[r], stage, healthy)
      /\ \A q \in Receipt : /\ q # r => own[q] = memory[t][q]
                            /\ Grows(memory[t][q].activity, own[q].activity)
  BY <1>5, <1>6, <1>7, <1>8, PublishedFits
<1> HIDE DEF own
<1>10. FitAt(r, stage, healthy)'
       /\ Grows(own[r].activity, memory'[t][r].activity)
  BY <1>1, <1>2, <1>9, SyncFits DEF FitAt
<1>11. ASSUME NEW q \in Receipt \ {r}, NEW st, NEW h \in BOOLEAN, FitAt(q, st, h)
       PROVE  /\ FitAt(q, st, h)'
              /\ Grows(own[q].activity, memory'[t][q].activity)
  BY <1>1, <1>2, <1>9, <1>11, SyncFits DEF FitAt
<1>12. ASSUME NEW q \in Receipt
       PROVE  Grows(memory[t][q].activity, memory'[t][q].activity)
  <2>1. FitAt(q, transfer[q], Healthy(q)) /\ Healthy(q) \in BOOLEAN
    BY DEF AllFit, Healthy
  <2>2. Grows(own[q].activity, memory'[t][q].activity)
    BY <1>10, <1>11, <2>1
  <2> QED
    BY <1>9, <2>2, GrowsOn
<1>13. /\ \A u \in Tab \ {t} : memory'[u] = memory[u]
       /\ \A q \in Receipt, d \in Direction :
            Holds(q, d)' => Holds(q, d) \/ own[q].activity["direction"] = d
  BY <1>1, <1>2, SyncKeeps
<1>14. \A q \in Receipt, d \in Direction : Holds(q, d)' => Holds(q, d)
  <2>1. own[r].activity = b /\ \A d \in Direction : d # None
    BY DEF own, Published, Unsaved, IInv, Direction, None
  <2> QED
    BY <1>5, <1>9, <1>13, <2>1 DEF Holds
<1> QED
  BY <1>3, <1>10, <1>11, <1>12, <1>13, <1>14 DEF Keeps

LEMMA RecordWorld ==
  ASSUME IInv, AllFit, NEW t \in Tab, NEW now \in Time, NEW r \in Receipt,
         NEW a \in Opening[r], Record(t, r, a, now),
         NEW stage, NEW healthy \in BOOLEAN
  PROVE  /\ IInv' /\ Keeps(t) /\ FitAt(r, stage, healthy)'
         /\ \A q \in Receipt \ {r} : \A st : \A h \in BOOLEAN :
              FitAt(q, st, h) => FitAt(q, st, h)'
         /\ \A q \in Receipt, d \in Direction :
              Holds(q, d)' => Holds(q, d) \/ (q = r /\ d = a["direction"])
<1> DEFINE b == Normalize(a)
           own == Published(t, r, b)
<1>1. /\ ~Present(stored[r]) /\ \A u \in Tab : ~Present(memory[u][r].activity)
      /\ SyncFrom(t, own, now)
  BY DEF Record, Update
<1>2. /\ Sound(b) /\ GoodOwn(t, own)
      /\ \A f \in Field \ {"status"} : b[f] = a[f]
      /\ b["status"] = StateStatus(a)
  BY RecordedGood
<1>3. IInv'
  BY <1>1, <1>2, SyncStep
<1>4. /\ a \in Activity /\ a["status"] \in Status \ Settled
      /\ ~Known(a, "failureLeg") /\ ~Known(a, "destinationTxHash")
      /\ a["epochRecoveryRequired"] # "yes"
      /\ a["xreserveStatus"] \in {None, "submitted"}
      /\ a["xreserveBurnStatus"] # "discarded"
  BY OpeningAssumption, FirstRecordAssumption
<1>5. b["status"] \notin Settled
  BY <1>2, <1>4, OutcomeOf DEF Settled, Status, None
<1>6. FitsRow(b, stage, healthy)
  <2>1. /\ ~Known(b, "failureLeg") /\ ~Known(b, "destinationTxHash")
        /\ b["epochRecoveryRequired"] # "yes"
        /\ b["xreserveStatus"] \in {None, "submitted"}
        /\ b["xreserveBurnStatus"] # "discarded"
    BY <1>2, <1>4, MoreFieldNames DEF Known
  <2> QED
    BY <1>5, <2>1 DEF FitsRow, Fits, Settled, None
<1>7. ASSUME NEW u \in Tab
      PROVE  memory[u][r] = Saved(Absent)
  BY <1>1 DEF IInv, GoodReceipt, Sound
<1>8. stored[r] = Absent
  BY <1>1 DEF IInv, GoodRow, Sound
<1>9. \A u \in Tab : FitsReceipt(memory[u][r], stored[r], stage, healthy)
  BY <1>7, AbsentFits, AbsentFacts DEF FitsReceipt, FitsRow, Saved, Settled, None
<1>10. FitsRow(stored[r], stage, healthy)
  BY <1>8, AbsentFacts DEF FitsRow
<1>11. memory[t][r].activity = Absent
  BY <1>7 DEF Saved
<1> HIDE DEF b
<1>12. /\ FitsReceipt(own[r], stored[r], stage, healthy)
       /\ \A q \in Receipt : /\ q # r => own[q] = memory[t][q]
                             /\ Grows(memory[t][q].activity, own[q].activity)
  BY <1>2, <1>6, <1>9, <1>11, AbsentFacts, AbsentFits, PublishedFits
     DEF Settled, None
<1> HIDE DEF own
<1>13. FitAt(r, stage, healthy)'
       /\ Grows(own[r].activity, memory'[t][r].activity)
  BY <1>1, <1>2, <1>9, <1>10, <1>12, SyncFits DEF FitAt
<1>14. ASSUME NEW q \in Receipt \ {r}, NEW st, NEW h \in BOOLEAN, FitAt(q, st, h)
       PROVE  /\ FitAt(q, st, h)'
              /\ Grows(own[q].activity, memory'[t][q].activity)
  BY <1>1, <1>2, <1>12, <1>14, SyncFits DEF FitAt
<1>15. ASSUME NEW q \in Receipt
       PROVE  Grows(memory[t][q].activity, memory'[t][q].activity)
  <2>1. FitAt(q, transfer[q], Healthy(q)) /\ Healthy(q) \in BOOLEAN
    BY DEF AllFit, Healthy
  <2>2. Grows(own[q].activity, memory'[t][q].activity)
    BY <1>13, <1>14, <2>1
  <2> QED
    BY <1>12, <2>2, GrowsOn
<1>16. /\ \A u \in Tab \ {t} : memory'[u] = memory[u]
       /\ \A q \in Receipt, d \in Direction :
            Holds(q, d)' => Holds(q, d) \/ own[q].activity["direction"] = d
  BY <1>1, <1>2, SyncKeeps
<1>17. \A q \in Receipt, d \in Direction :
         Holds(q, d)' => Holds(q, d) \/ (q = r /\ d = a["direction"])
  <2>1. /\ own[r].activity = b /\ b["direction"] = a["direction"]
        /\ \A d \in Direction : d # None
    BY <1>2, MoreFieldNames DEF own, Published, Unsaved, IInv, Direction, None
  <2> QED
    BY <1>12, <1>16, <2>1 DEF Holds
<1> QED
  BY <1>3, <1>13, <1>14, <1>15, <1>16, <1>17 DEF Keeps

-----------------------------------------------------------------------------
(* Services lag but do not foretell: a final stage is reported only once   *)
(* it is reached, and no stage but those of the direction's course.        *)
LEMMA PassedFacts ==
  ASSUME NEW d, NEW stage \in Stage,
         stage = "claimable" => d = "agglayer-send",
         NEW seen \in Passed(d, stage)
  PROVE  /\ seen \in Stage
         /\ seen \in Final => seen = stage
         /\ seen = "claimable" => d = "agglayer-send"
<1> DEFINE before == CASE stage = None            -> {}
                       [] stage = "rejected"      -> {"accepted"}
                       [] stage = "undeliverable" -> {"accepted", "mined", "observed"}
                       [] OTHER -> {InFlight[i] : i \in
                                      {j \in 1..5 : \E k \in 1..5 :
                                         InFlight[k] = stage /\ j < k}}
<1>1. before \subseteq {"accepted", "mined", "observed", "claimable"}
  <2> SUFFICES ASSUME NEW x \in before
               PROVE  x \in {"accepted", "mined", "observed", "claimable"}
    OBVIOUS
  <2>1. CASE stage \in {"rejected", "undeliverable"}
    BY <2>1 DEF None
  <2>2. CASE stage \notin {"rejected", "undeliverable"}
    <3>1. stage # None
      BY DEF Stage, None
    <3>2. x \in {InFlight[i] : i \in {j \in 1..5 : \E k \in 1..5 :
                                        InFlight[k] = stage /\ j < k}}
      BY <2>2, <3>1
    <3>3. PICK i \in 1..5 : x = InFlight[i] /\ \E k \in 1..5 : i < k
      BY <3>2
    <3>4. i \in {1, 2, 3, 4}
      BY <3>3
    <3> QED
      BY <3>3, <3>4 DEF InFlight
  <2> QED
    BY <2>1, <2>2
<1>2. seen = stage \/ (seen \in before /\ (seen = "claimable" => d = "agglayer-send"))
  BY DEF Passed
<1> HIDE DEF before
<1> QED
  BY <1>1, <1>2 DEF Stage, Final, Rejections

(* What services answer is a patch, true of the transfer and whole.        *)
Told(x, d, stage, healthy) ==
  /\ x \in Activity /\ x["direction"] = None
  /\ Fits(x, d, stage, healthy)

LEMMA AbsentTold ==
  ASSUME NEW d, NEW stage, NEW healthy \in BOOLEAN
  PROVE  Told(Absent, d, stage, healthy)
BY AbsentFits, AbsentFacts DEF Told

LEMMA AgglayerReceiveTold ==
  ASSUME NEW stage, NEW seen \in Stage \ {"claimable", "undeliverable"},
         NEW healthy \in BOOLEAN,
         seen \in Final => seen = stage,
         NEW x \in AgglayerReceiveAnswers(seen)
  PROVE  Told(x, "agglayer-receive", stage, healthy)
<1>1. \/ x = Absent
      \/ x = Reports([status |-> "failed", failureLeg |-> "source"]) /\ seen = "rejected"
      \/ x = Reports([status |-> "source_finality"])
      \/ x = Reports([status |-> "message_observed"])
      \/ x = Reports([status |-> "complete"]) /\ seen = "delivered"
      \/ /\ x = Reports([status |-> "complete", destinationTxHash |-> "known"])
         /\ seen = "delivered"
  BY DEF AgglayerReceiveAnswers, Stage, SourceFailed, AtSource
<1>2. x \in Activity /\ x["direction"] = None
  BY <1>1, AbsentFacts, MoreFieldNames DEF Reports, Activity, Value, Status, Direction, None
<1>3. Fits(x, "agglayer-receive", stage, healthy)
  BY <1>1, AbsentFits, MoreFieldNames DEF Reports, Fits, Known, None, Final, Rejections, Epoch
<1> QED
  BY <1>2, <1>3 DEF Told

LEMMA IntentTold ==
  ASSUME NEW d \in Epoch, NEW stage, NEW seen \in Stage \ {"claimable"},
         NEW healthy \in BOOLEAN,
         seen \in Final => seen = stage,
         NEW x \in IntentAnswers(seen)
  PROVE  Told(x, d, stage, healthy)
<1>1. \/ x = Reports([status |-> "message_observed"])
      \/ x = Reports([status |-> "message_observed", destinationTxHash |-> "known"])
      \/ /\ x = Reports([status |-> "complete", destinationTxHash |-> "known"])
         /\ seen = "delivered"
      \/ /\ x = Reports([status |-> "failed", failureLeg |-> "destination"])
         /\ seen = "undeliverable"
      \/ x = Reports([status |-> "source_finality"])
  BY DEF IntentAnswers, Stage, AtSource
<1>2. x \in Activity /\ x["direction"] = None
  BY <1>1, MoreFieldNames DEF Reports, Activity, Value, Status, Direction, None
<1>3. Fits(x, d, stage, healthy)
  BY <1>1, MoreFieldNames DEF Reports, Fits, Known, None, Final, Rejections, Epoch
<1> QED
  BY <1>2, <1>3 DEF Told

LEMMA EpochReceiveTold ==
  ASSUME NEW stage, NEW seen \in Stage \ {"claimable"}, NEW a,
         NEW healthy \in BOOLEAN,
         seen \in Final => seen = stage,
         NEW x \in EpochReceiveAnswers(a, seen)
  PROVE  Told(x, "epoch-receive", stage, healthy)
<1>1. \/ x \in IntentAnswers(seen)
      \/ x = Absent
      \/ x = Reports([status |-> "failed", failureLeg |-> "source"]) /\ seen = "rejected"
      \/ x = Reports([epochDepositConfirmed |-> "yes"])
  BY DEF EpochReceiveAnswers, SourceFailed
<1>2. CASE x \in IntentAnswers(seen)
  BY <1>2, IntentTold DEF Epoch
<1>3. CASE x \notin IntentAnswers(seen)
  <2>1. x \in Activity /\ x["direction"] = None
    BY <1>1, <1>3, AbsentFacts, MoreFieldNames
       DEF Reports, Activity, Value, Status, Direction, None
  <2>2. Fits(x, "epoch-receive", stage, healthy)
    BY <1>1, <1>3, AbsentFits, MoreFieldNames
       DEF Reports, Fits, Known, None, Final, Rejections, Epoch
  <2> QED
    BY <2>1, <2>2 DEF Told
<1> QED
  BY <1>2, <1>3

LEMMA EpochSendTold ==
  ASSUME NEW t, NEW r, NEW stage, NEW seen \in Stage \ {"claimable"}, NEW a,
         NEW healthy \in BOOLEAN, healthy => Submitting(t, r),
         seen \in Final => seen = stage,
         NEW x \in EpochSendAnswers(t, r, a, seen)
  PROVE  Told(x, "epoch-send", stage, healthy)
<1>1. \/ x \in IntentAnswers(seen)
      \/ x = Absent
      \/ /\ ~healthy
         /\ \/ x = Reports([epochRecoveryRequired |-> "yes", epochMidenBlock |-> None])
            \/ x = Reports([epochRecoveryRequired |-> "yes", epochMidenBlock |-> "known"])
  BY DEF EpochSendAnswers
<1>2. CASE x \in IntentAnswers(seen)
  BY <1>2, IntentTold DEF Epoch
<1>3. CASE x \notin IntentAnswers(seen)
  <2>1. x \in Activity /\ x["direction"] = None
    BY <1>1, <1>3, AbsentFacts, MoreFieldNames
       DEF Reports, Activity, Value, Status, Direction, None
  <2>2. Fits(x, "epoch-send", stage, healthy)
    BY <1>1, <1>3, AbsentFits, MoreFieldNames
       DEF Reports, Fits, Known, None, Final, Rejections, Epoch
  <2> QED
    BY <2>1, <2>2 DEF Told
<1> QED
  BY <1>2, <1>3

(* A withdrawal through Agglayer is matched by its exit hashes: whatever   *)
(* is said beyond its source comes with them.                              *)
LEMMA AgglayerSendTold ==
  ASSUME NEW stage, NEW seen \in Stage \ {"undeliverable"}, NEW a,
         NEW healthy \in BOOLEAN,
         seen \in Final => seen = stage,
         NEW x \in AgglayerSendAnswers(a, seen)
  PROVE  /\ Told(x, "agglayer-send", stage, healthy)
         /\ x = Absent \/ Known(x, "agglayerExitHashes")
<1> DEFINE found(fields) == [Reports(fields) EXCEPT !["agglayerExitHashes"] = "known"]
<1>1. \/ x = Absent
      \/ x = found([status |-> "message_observed"])
      \/ x = found([status |-> "claim_available"])
      \/ /\ x = found([status |-> "complete", destinationTxHash |-> "known"])
         /\ seen = "delivered"
      \/ x = found(<<>>)
  BY DEF AgglayerSendAnswers
<1>2. DOMAIN <<>> = {}
  OBVIOUS
<1>3. found(<<>>) = [f \in Field |-> IF f = "agglayerExitHashes" THEN "known" ELSE None]
  BY <1>2, MoreFieldNames DEF Reports
<1>4. x \in Activity /\ x["direction"] = None
  <2>1. CASE x = Absent
    BY <2>1, AbsentFacts
  <2>2. CASE x # Absent
    <3>1. /\ x = [f \in Field |-> x[f]] /\ x["direction"] = None
          /\ \A f \in Field : x[f] \in {None, "known", "message_observed",
                                       "claim_available", "complete"}
      <4>1. CASE x = found([status |-> "message_observed"])
        BY <4>1, MoreFieldNames DEF Reports
      <4>2. CASE x = found([status |-> "claim_available"])
        BY <4>2, MoreFieldNames DEF Reports
      <4>3. CASE x = found([status |-> "complete", destinationTxHash |-> "known"])
        BY <4>3, MoreFieldNames DEF Reports
      <4>4. CASE x = found(<<>>)
        BY <1>3, <4>4, MoreFieldNames
      <4> QED
        BY <1>1, <2>2, <4>1, <4>2, <4>3, <4>4
    <3>2. x["status"] \in Status \cup {None}
      BY <1>1, <1>3, <2>2, MoreFieldNames DEF Reports, Status
    <3>3. {None, "known", "message_observed", "claim_available", "complete"}
            \subseteq Value
      BY DEF Value, Status
    <3>4. x \in [Field -> Value]
      BY <3>1, <3>3
    <3> HIDE DEF found
    <3> QED
      BY <3>1, <3>2, <3>4 DEF Activity
  <2> QED
    BY <2>1, <2>2
<1>5. Fits(x, "agglayer-send", stage, healthy)
  <2>1. /\ x["failureLeg"] = None /\ x["xreserveBurnStatus"] = None
        /\ x["epochRecoveryRequired"] = None /\ x["status"] # "failed"
        /\ x["status"] = "complete" => seen = "delivered"
    <3>1. CASE x = Absent
      BY <3>1, MoreFieldNames DEF Absent, None
    <3>2. CASE x = found([status |-> "message_observed"])
      BY <3>2, MoreFieldNames DEF Reports, None
    <3>3. CASE x = found([status |-> "claim_available"])
      BY <3>3, MoreFieldNames DEF Reports, None
    <3>4. CASE x = found([status |-> "complete", destinationTxHash |-> "known"])
               /\ seen = "delivered"
      BY <3>4, MoreFieldNames DEF Reports, None
    <3>5. CASE x = found(<<>>)
      BY <1>3, <3>5, MoreFieldNames DEF None
    <3> QED
      BY <1>1, <3>1, <3>2, <3>3, <3>4, <3>5
  <2> QED
    BY <2>1 DEF Fits, Known, None, Final, Rejections, Epoch
<1>6. x = Absent \/ Known(x, "agglayerExitHashes")
  BY <1>1, <1>3, MoreFieldNames DEF Reports, Known, None
<1> QED
  BY <1>4, <1>5, <1>6 DEF Told

(* Circle's progress never claims an outcome.                              *)
LEMMA ProgressTold ==
  ASSUME NEW a, NEW stage, NEW healthy \in BOOLEAN,
         NEW observed \in {"submitted", "confirmed", "attested"},
         NEW fields, fields \in {<<>>, [xreserveForwarding |-> "yes"],
                                 [xreserveForwarding |-> "no"]},
         NEW x, x = XreserveProgress(a, observed, fields)
  PROVE  /\ Told(x, "xreserve-receive", stage, healthy)
         /\ x["status"] # "complete"
<1> DEFINE index(s) == CHOOSE i \in 0..3 :
                         \/ i # 0 /\ XreserveStages[i] = s
                         \/ i = 0 /\ \A k \in 1..3 : XreserveStages[k] # s
           later == IF index(a["xreserveStatus"]) > index(observed)
                    THEN a["xreserveStatus"] ELSE observed
<1>1. x = [Reports(fields) EXCEPT
            !["xreserveStatus"] = later,
            !["status"] = IF later = "attested" THEN "message_observed"
                          ELSE "source_finality"]
  BY DEF XreserveProgress
<1>2. ASSUME NEW s
      PROVE  index(s) \in 0..3 /\ (index(s) # 0 => XreserveStages[index(s)] = s)
  <2> DEFINE Is(i) == \/ i # 0 /\ XreserveStages[i] = s
                      \/ i = 0 /\ \A k \in 1..3 : XreserveStages[k] # s
  <2>1. \E i \in 0..3 : Is(i)
    <3>1. CASE \A k \in 1..3 : XreserveStages[k] # s
      <4>1. Is(0)
        BY <3>1
      <4> QED
        BY <4>1
    <3>2. CASE \E k \in 1..3 : XreserveStages[k] = s
      <4>1. PICK k \in 1..3 : XreserveStages[k] = s
        BY <3>2
      <4>2. Is(k) /\ k \in 0..3
        BY <4>1
      <4> QED
        BY <4>2
    <3> QED
      BY <3>1, <3>2
  <2>2. index(s) = CHOOSE i \in 0..3 : Is(i)
    OBVIOUS
  <2>3. index(s) \in 0..3 /\ Is(index(s))
    <3> HIDE DEF Is, index
    <3> QED
      BY <2>1, <2>2
  <2> HIDE DEF index
  <2> QED
    BY <2>3
<1>3. later \in {"submitted", "confirmed", "attested"}
  <2> HIDE DEF index
  <2>1. /\ index(a["xreserveStatus"]) \in 0..3 /\ index(observed) \in 0..3
        /\ index(a["xreserveStatus"]) # 0 =>
             XreserveStages[index(a["xreserveStatus"])] = a["xreserveStatus"]
    BY <1>2
  <2> QED
    BY <2>1 DEF XreserveStages
<1> HIDE DEF later
<1>4. DOMAIN <<>> = {}
  OBVIOUS
<1>5. /\ Reports(fields) \in [Field -> {None, "yes", "no"}]
      /\ \A f \in Field \ {"xreserveForwarding"} : Reports(fields)[f] = None
  BY <1>4 DEF Reports
<1>6. "xreserveForwarding" \in Field
  BY DEF Field
<1>7. /\ x["status"] \in {"message_observed", "source_finality"}
      /\ x["xreserveStatus"] = later
      /\ \A f \in Field \ {"xreserveForwarding", "xreserveStatus", "status"} : x[f] = None
      /\ x \in [Field -> Value]
  BY <1>1, <1>3, <1>5, MoreFieldNames DEF Value, Status, XreserveStatus
<1>8. /\ x["direction"] = None /\ x["failureLeg"] = None
      /\ x["destinationTxHash"] = None /\ x["xreserveBurnStatus"] = None
      /\ x["epochRecoveryRequired"] = None
  BY <1>7, MoreFieldNames
<1>9. Fits(x, "xreserve-receive", stage, healthy)
  BY <1>3, <1>7, <1>8 DEF Fits, Known, None, Epoch
<1> QED
  BY <1>7, <1>8, <1>9 DEF Told, Activity, Status

LEMMA XreserveReceiveTold ==
  ASSUME NEW a, a \in Activity, NEW now \in Time, NEW stage,
         NEW seen \in Stage \ {"claimable", "undeliverable"},
         NEW healthy \in BOOLEAN,
         seen \in Final => seen = stage,
         NEW x \in XreserveReceiveAnswers(a, seen, now)
  PROVE  /\ Told(x, "xreserve-receive", stage, healthy)
         /\ x["status"] = "complete" => Stamped(x)
<1> DEFINE at == IF Known(a, "destinationTxAt") THEN a["destinationTxAt"] ELSE now
<1>1. \/ \E observed \in {"submitted", "confirmed", "attested"} :
           \E fields \in {<<>>, [xreserveForwarding |-> "yes"],
                          [xreserveForwarding |-> "no"]} :
             x = XreserveProgress(a, observed, fields)
      \/ /\ x = Reports([status |-> "failed", xreserveStatus |-> "reverted"])
         /\ seen = "rejected"
      \/ /\ x = Reports([xreserveStatus |-> "delivered", status |-> "complete",
                         destinationTxAt |-> at])
         /\ seen = "delivered"
  BY DEF XreserveReceiveAnswers, Stage
<1>2. CASE \E observed \in {"submitted", "confirmed", "attested"} :
             \E fields \in {<<>>, [xreserveForwarding |-> "yes"],
                            [xreserveForwarding |-> "no"]} :
               x = XreserveProgress(a, observed, fields)
  BY <1>2, ProgressTold
<1>3. CASE x = Reports([status |-> "failed", xreserveStatus |-> "reverted"])
           /\ seen = "rejected"
  <2>1. x \in Activity /\ x["direction"] = None
    BY <1>3, MoreFieldNames
       DEF Reports, Activity, Value, Status, XreserveStatus, Direction, None
  <2>2. Fits(x, "xreserve-receive", stage, healthy) /\ x["status"] # "complete"
    BY <1>3, MoreFieldNames
       DEF Reports, Fits, Known, None, Final, Rejections, Epoch
  <2> QED
    BY <2>1, <2>2 DEF Told
<1>4. CASE x = Reports([xreserveStatus |-> "delivered", status |-> "complete",
                        destinationTxAt |-> at]) /\ seen = "delivered"
  <2>1. at \in Value /\ at # None
    BY TimeAssumption, MoreFieldNames DEF Known, Activity, Value
  <2> HIDE DEF at
  <2>2. x \in Activity /\ x["direction"] = None
    BY <1>4, <2>1, MoreFieldNames
       DEF Reports, Activity, Value, Status, XreserveStatus, Direction, None
  <2>3. Fits(x, "xreserve-receive", stage, healthy)
    BY <1>4, <2>1, MoreFieldNames
       DEF Reports, Fits, Known, None, Final, Rejections, Epoch
  <2>4. Stamped(x)
    BY <1>4, <2>1, MoreFieldNames DEF Reports, Stamped, Known
  <2> QED
    BY <2>2, <2>3, <2>4 DEF Told
<1> QED
  BY <1>1, <1>2, <1>3, <1>4

(* What a poll merges: what an answer tells that its snapshot did not.     *)
LEMMA AnswerFits ==
  ASSUME NEW t, NEW r, NEW a, Sound(a), CanPoll(a), NEW now \in Time,
         NEW stage \in Stage, NEW healthy \in BOOLEAN,
         FitsRow(a, stage, FALSE), healthy => Submitting(t, r),
         stage = "claimable" => a["direction"] = "agglayer-send",
         stage = "undeliverable" => a["direction"] \in Epoch,
         NEW seen \in Passed(a["direction"], stage),
         NEW x \in Answers(t, r, a, seen, now)
  PROVE  LET p == Changed(a, x)
         IN  /\ p \in Activity /\ p["direction"] = None
             /\ Fits(p, a["direction"], stage, healthy)
             /\ a["direction"] = "xreserve-receive" /\ p["status"] = "complete"
                  => Stamped(p) \/ Stamped(a)
             /\ a["direction"] = "agglayer-send" =>
                  \/ p["status"] = None /\ ~Known(p, "destinationTxHash") /\ ~Stamped(p)
                  \/ Known(p, "agglayerExitHashes") \/ Known(a, "agglayerExitHashes")
<1> DEFINE p == Changed(a, x)
           d == a["direction"]
<1>1. /\ seen \in Stage /\ (seen \in Final => seen = stage)
      /\ seen = "claimable" => d = "agglayer-send"
      /\ seen = "undeliverable" => d \in Epoch
  BY PassedFacts DEF Final, Rejections
<1>2. d \in Direction /\ a \in Activity /\ d # "xreserve-send"
  BY DEF Sound, Activity, Present, CanPoll
<1>3. a["status"] # "failed"
  BY <1>2 DEF CanPoll, Settled, Epoch, Direction
<1>4. /\ Told(x, d, stage, healthy)
      /\ d = "xreserve-receive" /\ x["status"] = "complete" => Stamped(x)
      /\ d = "agglayer-send" => x = Absent \/ Known(x, "agglayerExitHashes")
  <2>1. CASE d = "agglayer-receive"
    BY <1>1, <2>1, AgglayerReceiveTold DEF Answers, Epoch
  <2>2. CASE d = "agglayer-send"
    BY <1>1, <2>2, AgglayerSendTold DEF Answers, Epoch
  <2>3. CASE d = "epoch-send"
    BY <1>1, <2>3, EpochSendTold DEF Answers
  <2>4. CASE d = "epoch-receive"
    BY <1>1, <2>4, EpochReceiveTold DEF Answers
  <2>5. CASE d = "xreserve-receive"
    BY <1>1, <1>2, <2>5, XreserveReceiveTold DEF Answers, Epoch
  <2> QED
    BY <1>2, <2>1, <2>2, <2>3, <2>4, <2>5 DEF Direction
<1>5. \A f \in Field : p[f] = IF x[f] # None /\ x[f] # a[f] THEN x[f] ELSE None
  BY DEF Changed, Known
<1>6. p \in Activity /\ p["direction"] = None
  <2>1. p = [f \in Field |-> p[f]]
    BY DEF Changed
  <2>2. \A f \in Field : p[f] \in Value
    BY <1>4, <1>5 DEF Told, Activity, Value
  <2>3. p["direction"] = None /\ p["status"] \in Status \cup {None}
    BY <1>4, <1>5, MoreFieldNames DEF Told, Activity
  <2> HIDE DEF p
  <2> QED
    BY <2>1, <2>2, <2>3 DEF Activity
<1>7. Fits(p, d, stage, healthy)
  BY <1>3, <1>4, ChangedFits DEF Told, FitsRow, Sound
<1> HIDE DEF p
<1>8. d = "xreserve-receive" /\ p["status"] = "complete" => Stamped(p) \/ Stamped(a)
  BY <1>4, <1>5, MoreFieldNames DEF Stamped, Known, None
<1>9. d = "agglayer-send" =>
        \/ p["status"] = None /\ ~Known(p, "destinationTxHash") /\ ~Stamped(p)
        \/ Known(p, "agglayerExitHashes") \/ Known(a, "agglayerExitHashes")
  <2>1. CASE x = Absent
    <3>1. \A f \in Field : p[f] = None
      BY <1>5, <2>1 DEF Absent
    <3> QED
      BY <3>1, MoreFieldNames DEF Stamped, Known
  <2>2. CASE Known(x, "agglayerExitHashes")
    BY <1>5, <2>2, MoreFieldNames DEF Known
  <2> QED
    BY <1>4, <2>1, <2>2
<1> QED
  BY <1>6, <1>7, <1>8, <1>9 DEF p

-----------------------------------------------------------------------------
(* As the chains go on, what was said stays true.                          *)
LEMMA StageOn ==
  ASSUME NEW d, NEW old, NEW new, new = old \/ old \notin Final,
         NEW h \in BOOLEAN, NEW k \in BOOLEAN, k => h
  PROVE  /\ \A x : Fits(x, d, old, h) => Fits(x, d, new, k)
         /\ \A a : FitsRow(a, old, h) => FitsRow(a, new, k)
         /\ \A r \in Receipt : FitAt(r, old, h) => FitAt(r, new, k)
<1>1. ASSUME NEW x, NEW e, Fits(x, e, old, h)
      PROVE  Fits(x, e, new, k)
  BY <1>1 DEF Fits, Final
<1>2. ASSUME NEW a, FitsRow(a, old, h)
      PROVE  FitsRow(a, new, k)
  BY <1>1, <1>2 DEF FitsRow
<1>3. ASSUME NEW r \in Receipt, FitAt(r, old, h)
      PROVE  FitAt(r, new, k)
  BY <1>1, <1>2, <1>3 DEF FitAt, FitsReceipt
<1> QED
  BY <1>1, <1>2, <1>3

(* A poll that is still under way watches on.                              *)
LEMMA WatchedOn ==
  ASSUME AllWatched,
         \A u \in Tab :
           \/ poll'[u] = Idle
           \/ /\ poll'[u] = poll[u]
              /\ \A q \in Receipt :
                   Grows(memory[u][q].activity, memory'[u][q].activity),
         \A q \in Receipt :
           \/ transfer'[q] = transfer[q] \/ transfer[q] \notin Final
           \/ \A u \in Tab : poll[u].receipt # q
  PROVE  AllWatched'
<1> SUFFICES ASSUME NEW u \in Tab, NEW q \in Receipt, poll'[u].receipt = q
             PROVE  Watches(u, q)'
  BY DEF AllWatched
<1>1. poll'[u] # Idle
  BY NoneAssumption DEF Idle
<1>2. poll'[u] = poll[u] /\ Grows(memory[u][q].activity, memory'[u][q].activity)
  BY <1>1
<1>3. Watches(u, q)
  BY <1>2 DEF AllWatched
<1>4. FitsRow(poll[u].snapshot, transfer'[q], FALSE)
  BY <1>2, <1>3, StageOn DEF Watches
<1>5. Grows(poll[u].snapshot, memory'[u][q].activity)
  BY <1>2, <1>3, GrowsOn DEF Watches
<1> QED
  BY <1>2, <1>3, <1>4, <1>5 DEF Watches

(* A step of one page's store that no chain takes part in.                 *)
LEMMA PageStep ==
  ASSUME TInv, NEW t \in Tab, IInv', Stages', Keeps(t), transfer' = transfer,
         \A u \in Tab : poll'[u] \in {poll[u], Idle},
         \A q \in Receipt : FitAt(q, transfer[q], Healthy(q))',
         \A q \in Receipt, d \in Direction : Holds(q, d)' => Holds(q, d),
         \A q \in Receipt :
           submission[q] # Unsubmitted => submission'[q] # Unsubmitted
  PROVE  TInv'
<1>1. AllFit'
  BY DEF AllFit
<1>2. AllPlaced'
  BY DEF TInv, AllPlaced
<1>3. \A u \in Tab, q \in Receipt :
        Grows(memory[u][q].activity, memory'[u][q].activity)
  <2>1. \A a : Grows(a, a)
    BY DEF Grows
  <2> QED
    BY <2>1 DEF Keeps
<1>4. AllWatched'
  BY <1>3, WatchedOn DEF TInv
<1> QED
  BY <1>1, <1>2, <1>4 DEF TInv

LEMMA ChainHolds ==
  ASSUME TInv, NEW r \in Receipt, ChainStep(r)
  PROVE  TInv'
<1>1. PICK stage \in Course(OpenedAs(r), transfer[r]) :
        /\ transfer' = [transfer EXCEPT ![r] = stage]
        /\ UNCHANGED <<stored, memory, submission, poll>>
  BY DEF ChainStep
<1>2. /\ transfer[r] \notin Final /\ transfer[r] # None /\ stage \in Stage
      /\ stage = "claimable" => OpenedAs(r) = "agglayer-send"
      /\ stage = "undeliverable" => OpenedAs(r) \in Epoch
  BY DEF Course, Final, Rejections, None, Stage
<1>3. /\ transfer'[r] = stage
      /\ \A q \in Receipt \ {r} : transfer'[q] = transfer[q]
      /\ transfer' \in [Receipt -> Stage \cup {None}]
  BY <1>1, <1>2 DEF TInv, Stages
<1>4. Stages' /\ IInv'
  BY <1>1, <1>3 DEF TInv, Stages, IInv
<1>5. \A q \in Receipt : transfer'[q] = transfer[q] \/ transfer[q] \notin Final
  BY <1>2, <1>3
<1>6. AllFit'
  <2> SUFFICES ASSUME NEW q \in Receipt
               PROVE  FitAt(q, transfer[q], Healthy(q))'
    BY DEF AllFit
  <2>1. (Healthy(q)' => Healthy(q)) /\ Healthy(q) \in BOOLEAN
    BY <1>1 DEF Healthy, Submitting
  <2>2. Healthy(q)' \in BOOLEAN
    BY DEF Healthy
  <2>3. FitAt(q, transfer[q], Healthy(q))
    BY DEF TInv, AllFit
  <2>4. FitAt(q, transfer'[q], Healthy(q)')
    BY <1>5, <2>1, <2>2, <2>3, StageOn
  <2> QED
    BY <1>1, <2>4 DEF FitAt
<1>7. ASSUME NEW d \in Direction, Holds(r, d)
      PROVE  OpenedAs(r) = d
  <2>1. d # None
    BY DEF Direction, None
  <2>2. CASE Present(stored[r])
    <3>1. stored[r]["direction"] = d
      BY <1>7, <2>1, <2>2 DEF Holds, TInv, IInv, GoodReceipt, Agree, Present
    <3> QED
      BY <2>2, <3>1 DEF OpenedAs
  <2>3. CASE ~Present(stored[r])
    <3> DEFINE holders == {u \in Tab : Present(memory[u][r].activity)}
    <3>1. PICK u \in Tab : memory[u][r].activity["direction"] = d
      BY <1>7, <2>1, <2>3 DEF Holds, Present
    <3>2. u \in holders
      BY <2>1, <3>1 DEF Present
    <3>3. (CHOOSE v \in holders : TRUE) \in holders
      BY <3>2
    <3>4. DirectionOf(CHOOSE v \in holders : TRUE, r) = d
      BY <3>1, <3>2, <3>3 DEF DirectionOf, TInv, IInv, Agree
    <3>5. holders # {}
      BY <3>2
    <3> QED
      BY <2>3, <3>4, <3>5 DEF OpenedAs
  <2> QED
    BY <2>2, <2>3
<1>8. AllPlaced'
  <2> SUFFICES ASSUME NEW q \in Receipt, NEW d \in Direction, Holds(q, d)'
               PROVE  /\ transfer'[q] # None /\ submission'[q] # Unsubmitted
                      /\ transfer'[q] = "claimable" => d = "agglayer-send"
                      /\ transfer'[q] = "undeliverable" => d \in Epoch
    BY DEF AllPlaced
  <2>1. Holds(q, d) /\ submission'[q] = submission[q]
    BY <1>1 DEF Holds
  <2>2. stage # None
    BY <1>2 DEF Stage, None
  <2> QED
    BY <1>2, <1>3, <1>7, <2>1, <2>2 DEF TInv, AllPlaced
<1>9. AllWatched'
  <2>1. \A u \in Tab, q \in Receipt :
          Grows(memory[u][q].activity, memory'[u][q].activity)
    BY <1>1 DEF Grows
  <2> QED
    BY <1>1, <1>5, <2>1, WatchedOn DEF TInv
<1> QED
  BY <1>4, <1>6, <1>8, <1>9 DEF TInv

LEMMA PollHolds ==
  ASSUME TInv, NEW t \in Tab, AbortPoll(t) \/ \E r \in Receipt : StartPoll(t, r)
  PROVE  TInv'
<1>1. UNCHANGED <<stored, memory, transfer, submission>>
  BY DEF AbortPoll, StartPoll
<1>2. IInv' /\ AllFit' /\ AllPlaced'
  BY <1>1 DEF TInv, IInv, AllFit, FitAt, AllPlaced, Holds, Healthy, Submitting
<1>3. CASE AbortPoll(t)
  <2>1. poll' = [poll EXCEPT ![t] = Idle]
    BY <1>3 DEF AbortPoll
  <2>2. Stages' /\ \A u \in Tab : poll'[u] \in {poll[u], Idle}
    BY <1>1, <2>1, AbsentFacts DEF TInv, Stages, Idle
  <2>3. AllWatched'
    BY <1>1, <2>2, WatchedOn DEF TInv, Grows
  <2> QED
    BY <1>2, <2>2, <2>3 DEF TInv
<1>4. ASSUME NEW r \in Receipt, StartPoll(t, r)
      PROVE  TInv'
  <2> DEFINE a == memory[t][r].activity
  <2>1. /\ CanPoll(a)
        /\ poll' = [poll EXCEPT ![t] = [receipt |-> r, snapshot |-> a]]
    BY <1>4 DEF StartPoll
  <2>2. Sound(a)
    <3>1. a # Absent
      BY <2>1, AbsentFacts DEF CanPoll, None, Epoch
    <3> QED
      BY <3>1 DEF TInv, IInv, GoodReceipt, Saved
  <2>3. /\ poll'[t] = [receipt |-> r, snapshot |-> a]
        /\ \A u \in Tab \ {t} : poll'[u] = poll[u]
        /\ Stages'
    BY <1>1, <2>1, <2>2 DEF TInv, Stages, Sound
  <2>4. FitsRow(a, transfer[r], FALSE)
    <3>1. FitsRow(a, transfer[r], Healthy(r)) /\ Healthy(r) \in BOOLEAN
      BY DEF TInv, AllFit, FitAt, FitsReceipt, Healthy
    <3> QED
      BY <3>1 DEF FitsRow, Fits
  <2>5. Watches(t, r)'
    <3>1. poll'[t].snapshot = a /\ memory'[t][r].activity = a
          /\ transfer'[r] = transfer[r]
      BY <1>1, <2>3
    <3>2. Grows(a, a)
      BY DEF Grows
    <3> QED
      BY <2>1, <2>2, <2>4, <3>1, <3>2 DEF Watches
  <2>6. ASSUME NEW u \in Tab, NEW q \in Receipt, poll'[u].receipt = q
        PROVE  Watches(u, q)'
    <3>1. CASE u = t
      BY <2>3, <2>5, <2>6, <3>1
    <3>2. CASE u # t
      <4>1. poll'[u] = poll[u] /\ Watches(u, q)
        BY <2>3, <2>6, <3>2 DEF TInv, AllWatched
      <4> QED
        BY <1>1, <4>1 DEF Watches
    <3> QED
      BY <3>1, <3>2
  <2>7. AllWatched'
    BY <2>6 DEF AllWatched
  <2> QED
    BY <1>2, <2>3, <2>7 DEF TInv
<1> QED
  BY <1>3, <1>4

-----------------------------------------------------------------------------
(* A transfer whose stage stays, and whose page is no healthier.           *)
LEMMA FitOn ==
  ASSUME TInv, NEW q \in Receipt, transfer'[q] = transfer[q],
         Healthy(q)' => Healthy(q),
         \A st : \A h \in BOOLEAN : FitAt(q, st, h) => FitAt(q, st, h)'
  PROVE  FitAt(q, transfer[q], Healthy(q))'
<1>1. Healthy(q) \in BOOLEAN /\ Healthy(q)' \in BOOLEAN
  BY DEF Healthy
<1>2. FitAt(q, transfer[q], Healthy(q))
  BY DEF TInv, AllFit
<1>3. FitAt(q, transfer[q], Healthy(q)')
  BY <1>1, <1>2, StageOn
<1>4. ASSUME NEW st, NEW h \in BOOLEAN, FitAt(q, st, h)
      PROVE  /\ FitsRow(stored'[q], st, h)
             /\ \A u \in Tab : FitsReceipt(memory'[u][q], stored'[q], st, h)
  BY <1>4 DEF FitAt
<1>5. /\ FitsRow(stored'[q], transfer'[q], Healthy(q)')
      /\ \A u \in Tab :
           FitsReceipt(memory'[u][q], stored'[q], transfer'[q], Healthy(q)')
  BY <1>1, <1>3, <1>4
<1> QED
  BY <1>5 DEF FitAt

(* A patch of a withdrawal through Agglayer that claims nothing of the     *)
(* other chain, or comes with its exit hashes, keeps it attributable.      *)
LEMMA PatchAttributable ==
  ASSUME NEW a, Sound(a), Attributable(a), NEW p \in Activity, NEW now \in Time,
         p["direction"] = None,
         a["direction"] = "agglayer-send" =>
           \/ p["status"] = None /\ ~Known(p, "destinationTxHash") /\ ~Stamped(p)
           \/ Known(p, "agglayerExitHashes") \/ Known(a, "agglayerExitHashes")
  PROVE  Attributable(Merge(a, p, now))
<1> DEFINE b == Merge(a, p, now)
<1> SUFFICES ASSUME b["direction"] = "agglayer-send", ~Known(b, "agglayerExitHashes")
             PROVE  /\ b["status"] \in {"signature", "source_finality", "failed"}
                    /\ ~Known(b, "destinationTxHash")
                    /\ ~Known(b, "destinationTxAt")
  BY DEF Attributable
<1>1. /\ b["direction"] = a["direction"] /\ Sound(b)
      /\ \A f \in Evidence : Known(b, f) <=> Known(a, f) \/ Known(p, f)
      /\ a["direction"] = "agglayer-send" => b["status"] \in {a["status"], p["status"]}
      /\ Known(b, "destinationTxAt") =>
           \/ Known(a, "destinationTxAt") \/ Known(p, "destinationTxAt")
           \/ Known(b, "destinationTxHash")
  BY MergeFacts
<1> HIDE DEF b
<1>2. "agglayerExitHashes" \in Evidence /\ "destinationTxHash" \in Evidence
  BY DEF Evidence
<1>3. b["status"] # None
  BY <1>1 DEF Sound, Status, None
<1> QED
  BY <1>1, <1>2, <1>3 DEF Attributable, Stamped

LEMMA SyncHolds ==
  ASSUME TInv, NEW t \in Tab, NEW now \in Time, SyncPage(t, now)
  PROVE  TInv'
<1>1. Sync(t, now) /\ UNCHANGED <<transfer, submission, poll>>
  BY DEF SyncPage
<1>2. /\ IInv' /\ Keeps(t)
      /\ \A q \in Receipt : \A stage : \A healthy \in BOOLEAN :
           FitAt(q, stage, healthy) => FitAt(q, stage, healthy)'
      /\ \A q \in Receipt, d \in Direction : Holds(q, d)' => Holds(q, d)
  BY <1>1, SyncWorld DEF TInv
<1>3. Stages'
  BY <1>1 DEF TInv, Stages
<1>4. ASSUME NEW q \in Receipt
      PROVE  FitAt(q, transfer[q], Healthy(q))'
  <2>1. transfer'[q] = transfer[q] /\ (Healthy(q)' => Healthy(q))
    BY <1>1 DEF Healthy, Submitting
  <2> QED
    BY <1>2, <2>1, FitOn
<1> QED
  BY <1>1, <1>2, <1>3, <1>4, PageStep

LEMMA ReloadHolds ==
  ASSUME TInv, NEW t \in Tab, ReloadPage(t)
  PROVE  TInv'
<1>1. /\ Reload(t) /\ stored' = stored /\ memory' = [memory EXCEPT ![t] = Empty]
      /\ submission' = [r \in Receipt |->
           IF Submitting(t, r) THEN [submission[r] EXCEPT !.stage = "lost"]
           ELSE submission[r]]
      /\ poll' = [poll EXCEPT ![t] = Idle] /\ transfer' = transfer
  BY DEF ReloadPage, Reload
<1>2. IInv'
  BY <1>1, ReloadGood DEF TInv
<1>3. /\ memory'[t] = Empty /\ \A u \in Tab \ {t} : memory'[u] = memory[u]
      /\ poll'[t] = Idle /\ \A u \in Tab \ {t} : poll'[u] = poll[u]
  BY <1>1 DEF TInv, IInv, Stages
<1>4. Stages'
  <2>1. poll' \in [Tab -> [receipt: Receipt \cup {None}, snapshot: Activity]]
    BY <1>1, AbsentFacts DEF TInv, Stages, Idle
  <2>2. \A r \in Receipt : [submission[r] EXCEPT !.stage = "lost"] \in
          [tab: Tab \cup {None},
           stage: {None, "running", "confirmed", "done", "lost"}]
    BY DEF TInv, Stages
  <2>3. submission' \in [Receipt -> [tab: Tab \cup {None},
                           stage: {None, "running", "confirmed", "done", "lost"}]]
    BY <1>1, <2>2 DEF TInv, Stages
  <2> QED
    BY <1>1, <2>1, <2>3 DEF TInv, Stages
<1>5. ASSUME NEW q \in Receipt
      PROVE  /\ Healthy(q)' => Healthy(q)
             /\ submission[q] # Unsubmitted => submission'[q] # Unsubmitted
  <2>1. CASE Submitting(t, q)
    <3>1. submission'[q].stage = "lost"
      BY <1>1, <2>1 DEF TInv, Stages
    <3> QED
      BY <3>1 DEF Healthy, Submitting, Unsubmitted, None
  <2>2. CASE ~Submitting(t, q)
    BY <1>1, <2>2 DEF Healthy, Submitting
  <2> QED
    BY <2>1, <2>2
<1>6. \A q \in Receipt : Empty[q] = Saved(Absent)
  BY DEF Empty
<1>7. AllFit'
  <2> SUFFICES ASSUME NEW q \in Receipt
               PROVE  FitAt(q, transfer[q], Healthy(q))'
    BY DEF AllFit
  <2>1. ASSUME NEW st, NEW h \in BOOLEAN, FitAt(q, st, h)
        PROVE  FitAt(q, st, h)'
    <3>1. FitsReceipt(Saved(Absent), stored[q], st, h)
      BY AbsentFits, AbsentFacts DEF FitsReceipt, FitsRow, Saved, Settled, None
    <3> QED
      BY <1>1, <1>3, <1>6, <2>1, <3>1 DEF FitAt
  <2> QED
    BY <1>1, <1>5, <2>1, FitOn
<1>8. \A q \in Receipt, d \in Direction : Holds(q, d)' => Holds(q, d)
  BY <1>1, <1>3, <1>6, AbsentFacts DEF Holds, Saved
<1>9. AllPlaced'
  BY <1>1, <1>5, <1>8 DEF TInv, AllPlaced
<1>10. AllWatched'
  <2>1. \A a : Grows(a, a)
    BY DEF Grows
  <2> QED
    BY <1>1, <1>3, <2>1, WatchedOn DEF TInv
<1> QED
  BY <1>2, <1>4, <1>7, <1>9, <1>10 DEF TInv

LEMMA SubmitHolds ==
  ASSUME TInv, NEW t \in Tab, NEW r \in Receipt, NEW a \in Opening[r],
         NEW now \in Time, Submit(t, r, a, now)
  PROVE  TInv'
<1> DEFINE stage2 == IF Continues(a["direction"]) THEN "running" ELSE "done"
<1>1. /\ Record(t, r, a, now) /\ transfer' = [transfer EXCEPT ![r] = "accepted"]
      /\ submission' = [submission EXCEPT ![r] = [tab |-> t, stage |-> stage2]]
      /\ poll' = poll
  BY DEF Submit
<1>2. stage2 \in {"running", "done"}
  OBVIOUS
<1> HIDE DEF stage2
<1>3. /\ transfer'[r] = "accepted"
      /\ \A q \in Receipt \ {r} : transfer'[q] = transfer[q]
      /\ submission'[r] = [tab |-> t, stage |-> stage2]
      /\ \A q \in Receipt \ {r} : submission'[q] = submission[q]
      /\ Stages'
  BY <1>1, <1>2 DEF TInv, Stages, Stage
<1>4. /\ IInv' /\ Keeps(t)
      /\ \A q \in Receipt \ {r} : \A st : \A h \in BOOLEAN :
           FitAt(q, st, h) => FitAt(q, st, h)'
      /\ \A q \in Receipt, d \in Direction :
           Holds(q, d)' => Holds(q, d) \/ (q = r /\ d = a["direction"])
  BY <1>1, RecordWorld DEF TInv
<1>5. \A h \in BOOLEAN : FitAt(r, "accepted", h)'
  BY <1>1, RecordWorld DEF TInv
<1>6. ASSUME NEW q \in Receipt
      PROVE  FitAt(q, transfer[q], Healthy(q))'
  <2>1. CASE q = r
    <3>1. Healthy(r)' \in BOOLEAN
      BY DEF Healthy
    <3>2. /\ FitsRow(stored'[r], "accepted", Healthy(r)')
          /\ \A u \in Tab :
               FitsReceipt(memory'[u][r], stored'[r], "accepted", Healthy(r)')
      BY <1>5, <3>1 DEF FitAt
    <3> QED
      BY <1>3, <2>1, <3>2 DEF FitAt
  <2>2. CASE q # r
    <3>1. transfer'[q] = transfer[q] /\ (Healthy(q)' => Healthy(q))
      BY <1>3, <2>2 DEF Healthy, Submitting
    <3> QED
      BY <1>4, <2>2, <3>1, FitOn
  <2> QED
    BY <2>1, <2>2
<1>7. AllPlaced'
  <2> SUFFICES ASSUME NEW q \in Receipt, NEW d \in Direction, Holds(q, d)'
               PROVE  /\ transfer'[q] # None /\ submission'[q] # Unsubmitted
                      /\ transfer'[q] = "claimable" => d = "agglayer-send"
                      /\ transfer'[q] = "undeliverable" => d \in Epoch
    BY DEF AllPlaced
  <2>1. CASE q = r
    BY <1>2, <1>3, <2>1 DEF Unsubmitted, None
  <2>2. CASE q # r
    BY <1>3, <1>4, <2>2 DEF TInv, AllPlaced
  <2> QED
    BY <2>1, <2>2
<1>8. AllWatched'
  <2>1. ASSUME NEW u \in Tab
        PROVE  poll[u].receipt # r
    <3>1. ~Present(memory[u][r].activity)
      BY <1>1 DEF Record
    <3>2. ~Watches(u, r)
      BY <3>1 DEF Watches, Grows, Sound
    <3> QED
      BY <3>2 DEF TInv, AllWatched
  <2>2. \A u \in Tab, q \in Receipt :
          Grows(memory[u][q].activity, memory'[u][q].activity)
    <3>1. \A b : Grows(b, b)
      BY DEF Grows
    <3> QED
      BY <1>4, <3>1 DEF Keeps
  <2>3. \A q \in Receipt :
          \/ transfer'[q] = transfer[q] \/ transfer[q] \notin Final
          \/ \A u \in Tab : poll[u].receipt # q
    BY <1>3, <2>1
  <2> QED
    BY <1>1, <2>2, <2>3, WatchedOn DEF TInv
<1>9. AllFit'
  BY <1>6 DEF AllFit
<1> QED
  BY <1>3, <1>4, <1>7, <1>8, <1>9 DEF TInv

(* What the submitting page itself reports: no outcome and no delivery.    *)
Quiet(p) ==
  /\ p \in Activity /\ p["direction"] = None
  /\ p["status"] \in {None, "source_finality", "message_observed"}
  /\ ~Known(p, "failureLeg") /\ ~Known(p, "xreserveStatus")
  /\ ~Known(p, "xreserveBurnStatus")
  /\ ~Known(p, "destinationTxHash") /\ ~Stamped(p)

LEMMA ReportedHolds ==
  ASSUME TInv, NEW t \in Tab, NEW r \in Receipt, NEW now \in Time,
         Submitting(t, r), NEW p, Quiet(p),
         DirectionOf(t, r) = "agglayer-send" => p["status"] = None,
         NEW stage2 \in {"running", "confirmed", "done", "lost"},
         p["epochRecoveryRequired"] = "yes" => stage2 \in {"done", "lost"},
         Reported(t, r, p, stage2, now)
  PROVE  TInv'
<1> DEFINE m == memory[t][r].activity
<1>1. /\ ApplyPatch(t, r, p, now) /\ Present(m)
      /\ submission' = [submission EXCEPT ![r].stage = stage2]
      /\ transfer' = transfer /\ poll' = poll
  BY DEF Reported, ApplyPatch
<1>2. Sound(m) /\ Attributable(m)
  BY <1>1, AbsentFacts DEF TInv, IInv, GoodReceipt, Saved
<1>3. /\ submission'[r] = [submission[r] EXCEPT !.stage = stage2]
      /\ submission'[r].stage = stage2
      /\ \A q \in Receipt \ {r} : submission'[q] = submission[q]
      /\ Stages'
  <2>1. [submission[r] EXCEPT !.stage = stage2] \in
          [tab: Tab \cup {None},
           stage: {None, "running", "confirmed", "done", "lost"}]
    BY DEF TInv, Stages
  <2>2. submission'[r] = [submission[r] EXCEPT !.stage = stage2]
    BY <1>1 DEF TInv, Stages
  <2>3. submission'[r].stage = stage2
    BY <2>2 DEF TInv, Stages
  <2>4. submission' \in [Receipt -> [tab: Tab \cup {None},
                           stage: {None, "running", "confirmed", "done", "lost"}]]
    BY <1>1, <2>1 DEF TInv, Stages
  <2> QED
    BY <1>1, <2>2, <2>3, <2>4 DEF TInv, Stages
<1>4. Attributable(Merge(m, p, now))
  BY <1>2, PatchAttributable DEF Quiet, DirectionOf
<1>5. /\ Healthy(r)' => Healthy(r) /\ stage2 \in {"running", "confirmed"}
      /\ \A q \in Receipt \ {r} : Healthy(q)' => Healthy(q)
      /\ Healthy(r) \in BOOLEAN /\ Healthy(r)' \in BOOLEAN
  BY <1>3 DEF Healthy, Submitting
<1>6. ASSUME NEW d, NEW st
      PROVE  Fits(p, d, st, Healthy(r)')
  BY <1>5 DEF Quiet, Fits, Known, None
<1>7. FitAt(r, transfer[r], Healthy(r)')
  <2>1. FitAt(r, transfer[r], Healthy(r))
    BY DEF TInv, AllFit
  <2> QED
    BY <1>5, <2>1, StageOn
<1>8. ASSUME NEW st, NEW h \in BOOLEAN, FitAt(r, st, h), Fits(p, m["direction"], st, h)
      PROVE  FitAt(r, st, h)'
  <2>1. p["status"] # "complete"
    BY DEF Quiet, None
  <2> QED
    BY <1>1, <1>4, <1>8, <2>1, PatchWorld DEF Quiet, TInv
<1>9. /\ IInv' /\ Keeps(t)
      /\ \A q \in Receipt \ {r} : \A st : \A h \in BOOLEAN :
           FitAt(q, st, h) => FitAt(q, st, h)'
      /\ \A q \in Receipt, d \in Direction : Holds(q, d)' => Holds(q, d)
  <2>1. p["status"] # "complete"
    BY DEF Quiet, None
  <2>2. FitAt(r, transfer[r], Healthy(r)') /\ Fits(p, m["direction"], transfer[r], Healthy(r)')
    BY <1>6, <1>7
  <2>3. ASSUME NEW st, NEW h \in BOOLEAN, FitAt(r, st, h), Fits(p, m["direction"], st, h)
        PROVE  /\ IInv' /\ Keeps(t)
               /\ \A q \in Receipt \ {r} : \A s2 : \A k \in BOOLEAN :
                    FitAt(q, s2, k) => FitAt(q, s2, k)'
               /\ \A q \in Receipt, d \in Direction : Holds(q, d)' => Holds(q, d)
    BY <1>1, <1>4, <2>1, <2>3, PatchWorld DEF Quiet, TInv
  <2> QED
    BY <1>5, <2>2, <2>3
<1>10. ASSUME NEW q \in Receipt
       PROVE  FitAt(q, transfer[q], Healthy(q))'
  <2>1. CASE q = r
    <3>1. ASSUME NEW st, NEW h \in BOOLEAN, FitAt(r, st, h), Fits(p, m["direction"], st, h)
          PROVE  /\ FitsRow(stored'[r], st, h)
                 /\ \A u \in Tab : FitsReceipt(memory'[u][r], stored'[r], st, h)
      BY <1>8, <3>1 DEF FitAt
    <3>2. /\ FitsRow(stored'[r], transfer[r], Healthy(r)')
          /\ \A u \in Tab :
               FitsReceipt(memory'[u][r], stored'[r], transfer[r], Healthy(r)')
      BY <1>5, <1>6, <1>7, <3>1
    <3> QED
      BY <1>1, <2>1, <3>2 DEF FitAt
  <2>2. CASE q # r
    BY <1>1, <1>5, <1>9, <2>2, FitOn
  <2> QED
    BY <2>1, <2>2
<1>11. ASSUME NEW q \in Receipt, submission[q] # Unsubmitted
       PROVE  submission'[q] # Unsubmitted
  BY <1>3, <1>11 DEF Unsubmitted, None
<1> QED
  BY <1>1, <1>3, <1>9, <1>10, <1>11, PageStep

LEMMA PageHolds ==
  ASSUME TInv, NEW t \in Tab, NEW r \in Receipt, NEW now \in Time,
         \/ Confirm(t, r, now) \/ Rebroadcast(t, r, now)
         \/ Allocate(t, r, now) \/ Interrupt(t, r, now)
  PROVE  TInv'
<1> DEFINE P1 == Reports([sourceTxHash |-> "known"])
           P2 == Reports([status |-> "source_finality", sourceTxHash |-> "known"])
           P3 == Reports([status |-> "message_observed", sourceTxHash |-> "known",
                          epochIntentNonce |-> "known",
                          epochRecoveryRequired |-> "no"])
           P4 == Reports([epochRecoveryRequired |-> "yes"])
<1>0. Submitting(t, r)
  BY DEF Confirm, Rebroadcast, Allocate, Interrupt
<1>1. Quiet(P1) /\ P1["status"] = None /\ P1["epochRecoveryRequired"] # "yes"
  BY MoreFieldNames
     DEF Quiet, Reports, Activity, Value, Status, Known, Stamped, None
<1>2. Quiet(P2) /\ P2["epochRecoveryRequired"] # "yes"
  BY MoreFieldNames
     DEF Quiet, Reports, Activity, Value, Status, Known, Stamped, None
<1>3. Quiet(P3) /\ P3["epochRecoveryRequired"] # "yes"
  BY MoreFieldNames
     DEF Quiet, Reports, Activity, Value, Status, Known, Stamped, None
<1>4. Quiet(P4)
  BY MoreFieldNames
     DEF Quiet, Reports, Activity, Value, Status, Known, Stamped, None
<1>5. Quiet(Absent) /\ Absent["epochRecoveryRequired"] # "yes"
  BY AbsentFacts, AbsentFits, MoreFieldNames DEF Quiet, Known, Absent, None
<1>6. \/ DirectionOf(t, r) \in {"agglayer-send", "xreserve-send"}
           /\ Reported(t, r, P1, "done", now)
      \/ DirectionOf(t, r) = "epoch-send" /\ Reported(t, r, P2, "confirmed", now)
      \/ DirectionOf(t, r) = "epoch-receive" /\ Reported(t, r, P2, "running", now)
      \/ DirectionOf(t, r) \in Epoch /\ Reported(t, r, P3, "done", now)
      \/ DirectionOf(t, r) = "epoch-send" /\ Reported(t, r, P4, "lost", now)
      \/ DirectionOf(t, r) = "epoch-receive" /\ Reported(t, r, Absent, "lost", now)
      \/ /\ submission' = [submission EXCEPT ![r].stage = "lost"]
         /\ UNCHANGED <<stored, memory, transfer, poll>>
  BY DEF Confirm, Rebroadcast, Allocate, Interrupt
<1> HIDE DEF P1, P2, P3, P4
<1>7. CASE DirectionOf(t, r) \in {"agglayer-send", "xreserve-send"}
           /\ Reported(t, r, P1, "done", now)
  BY <1>0, <1>1, <1>7, ReportedHolds
<1>8. CASE DirectionOf(t, r) = "epoch-send" /\ Reported(t, r, P2, "confirmed", now)
  BY <1>0, <1>2, <1>8, ReportedHolds
<1>9. CASE DirectionOf(t, r) = "epoch-receive" /\ Reported(t, r, P2, "running", now)
  BY <1>0, <1>2, <1>9, ReportedHolds
<1>10. CASE DirectionOf(t, r) \in Epoch /\ Reported(t, r, P3, "done", now)
  BY <1>0, <1>3, <1>10, ReportedHolds DEF Epoch
<1>11. CASE DirectionOf(t, r) = "epoch-send" /\ Reported(t, r, P4, "lost", now)
  BY <1>0, <1>4, <1>11, ReportedHolds
<1>12. CASE DirectionOf(t, r) = "epoch-receive" /\ Reported(t, r, Absent, "lost", now)
  BY <1>0, <1>5, <1>12, ReportedHolds
<1>13. CASE /\ submission' = [submission EXCEPT ![r].stage = "lost"]
            /\ UNCHANGED <<stored, memory, transfer, poll>>
  <2>1. /\ submission'[r].stage = "lost"
        /\ \A q \in Receipt \ {r} : submission'[q] = submission[q]
        /\ Stages'
    <3>1. [submission[r] EXCEPT !.stage = "lost"] \in
            [tab: Tab \cup {None},
             stage: {None, "running", "confirmed", "done", "lost"}]
      BY DEF TInv, Stages
    <3>2. submission'[r].stage = "lost"
      BY <1>13 DEF TInv, Stages
    <3>3. submission' \in [Receipt -> [tab: Tab \cup {None},
                             stage: {None, "running", "confirmed", "done", "lost"}]]
      BY <1>13, <3>1 DEF TInv, Stages
    <3> QED
      BY <1>13, <3>2, <3>3 DEF TInv, Stages
  <2>2. IInv' /\ Keeps(t)
    <3>1. \A a : Grows(a, a)
      BY DEF Grows
    <3> QED
      BY <1>13, <3>1 DEF TInv, IInv, Keeps
  <2>3. ASSUME NEW q \in Receipt
        PROVE  FitAt(q, transfer[q], Healthy(q))'
    <3>1. Healthy(q)' => Healthy(q)
      BY <2>1 DEF Healthy, Submitting
    <3>2. \A st : \A h \in BOOLEAN : FitAt(q, st, h) => FitAt(q, st, h)'
      BY <1>13 DEF FitAt
    <3> QED
      BY <1>13, <3>1, <3>2, FitOn
  <2>4. \A q \in Receipt, d \in Direction : Holds(q, d)' => Holds(q, d)
    BY <1>13 DEF Holds
  <2>5. ASSUME NEW q \in Receipt, submission[q] # Unsubmitted
        PROVE  submission'[q] # Unsubmitted
    BY <2>1, <2>5 DEF Unsubmitted, None
  <2> QED
    BY <1>13, <2>1, <2>2, <2>3, <2>4, <2>5, PageStep
<1> QED
  BY <1>6, <1>7, <1>8, <1>9, <1>10, <1>11, <1>12, <1>13

(* An answer comes to a snapshot that what the tab holds by then covers,   *)
(* and reports a stage that the transfer has passed.                       *)
LEMMA AnswerHolds ==
  ASSUME TInv, NEW t \in Tab, NEW r \in Receipt, NEW now \in Time,
         NEW seen \in Passed(poll[t].snapshot["direction"], transfer[r]),
         ApplyAnswer(t, r, seen, now)
  PROVE  TInv'
<1> DEFINE a == poll[t].snapshot
           d == a["direction"]
           m == memory[t][r].activity
<1>1. PICK x \in Answers(t, r, a, seen, now) : ApplyPatch(t, r, Changed(a, x), now)
  BY DEF ApplyAnswer
<1>2. /\ poll[t].receipt = r /\ poll' = [poll EXCEPT ![t] = Idle]
      /\ UNCHANGED <<transfer, submission>>
  BY DEF ApplyAnswer
<1> DEFINE p == Changed(a, x)
<1>3. Watches(t, r)
  BY <1>2 DEF TInv, AllWatched
<1>4. /\ Sound(a) /\ CanPoll(a) /\ FitsRow(a, transfer[r], FALSE)
      /\ d \in Direction /\ m["direction"] = d /\ Present(m)
      /\ EvidenceOf(a) \subseteq EvidenceOf(m)
      /\ d = "xreserve-receive" /\ Stamped(a) => Stamped(m)
  BY <1>3 DEF Watches, Grows, Sound, Activity, Present
<1>5. Sound(m) /\ Attributable(m)
  BY <1>4, AbsentFacts DEF TInv, IInv, GoodReceipt, Saved
<1>6. /\ transfer[r] \in Stage
      /\ transfer[r] = "claimable" => d = "agglayer-send"
      /\ transfer[r] = "undeliverable" => d \in Epoch
  <2>1. Holds(r, d)
    BY <1>4 DEF Holds, Present
  <2> QED
    BY <1>4, <2>1 DEF TInv, AllPlaced, Stages
<1>7. Healthy(r) \in BOOLEAN /\ (Healthy(r) => Submitting(t, r))
  BY DEF Healthy, OnePage
<1>8. /\ p \in Activity /\ p["direction"] = None
      /\ Fits(p, d, transfer[r], Healthy(r))
      /\ d = "xreserve-receive" /\ p["status"] = "complete"
           => Stamped(p) \/ Stamped(a)
      /\ d = "agglayer-send" =>
           \/ p["status"] = None /\ ~Known(p, "destinationTxHash") /\ ~Stamped(p)
           \/ Known(p, "agglayerExitHashes") \/ Known(a, "agglayerExitHashes")
  <2> DEFINE stage == transfer[r]
             healthy == Healthy(r)
  <2>1. /\ stage \in Stage /\ healthy \in BOOLEAN
        /\ FitsRow(a, stage, FALSE) /\ (healthy => Submitting(t, r))
        /\ stage = "claimable" => a["direction"] = "agglayer-send"
        /\ stage = "undeliverable" => a["direction"] \in Epoch
        /\ Sound(a) /\ CanPoll(a)
        /\ seen \in Passed(a["direction"], stage)
        /\ x \in Answers(t, r, a, seen, now)
    BY <1>1, <1>4, <1>6, <1>7
  <2>2. now \in Time
    OBVIOUS
  <2>3. /\ p = Changed(a, x) /\ d = a["direction"]
        /\ stage = transfer[r] /\ healthy = Healthy(r)
    OBVIOUS
  <2> HIDE DEF stage, healthy, a, p, d, m
  <2>4. /\ Changed(a, x) \in Activity /\ Changed(a, x)["direction"] = None
        /\ Fits(Changed(a, x), a["direction"], stage, healthy)
        /\ a["direction"] = "xreserve-receive" /\ Changed(a, x)["status"] = "complete"
             => Stamped(Changed(a, x)) \/ Stamped(a)
        /\ a["direction"] = "agglayer-send" =>
             \/ /\ Changed(a, x)["status"] = None
                /\ ~Known(Changed(a, x), "destinationTxHash")
                /\ ~Stamped(Changed(a, x))
             \/ Known(Changed(a, x), "agglayerExitHashes")
             \/ Known(a, "agglayerExitHashes")
    BY <2>1, <2>2, AnswerFits
  <2> QED
    BY <2>3, <2>4
<1>9. ApplyPatch(t, r, p, now)
  BY <1>1
<1> HIDE DEF p
<1>10. Attributable(Merge(m, p, now))
  <2>1. Known(a, "agglayerExitHashes") => Known(m, "agglayerExitHashes")
    BY <1>4 DEF EvidenceOf, Evidence
  <2> QED
    BY <1>4, <1>5, <1>8, <2>1, PatchAttributable
<1>11. FitAt(r, transfer[r], Healthy(r))
  BY DEF TInv, AllFit
<1>12. ASSUME NEW st, NEW h \in BOOLEAN, FitAt(r, st, h), Fits(p, d, st, h)
       PROVE  /\ IInv' /\ Keeps(t) /\ FitAt(r, st, h)'
              /\ \A q \in Receipt \ {r} : \A s2 : \A k \in BOOLEAN :
                   FitAt(q, s2, k) => FitAt(q, s2, k)'
              /\ \A q \in Receipt, e \in Direction : Holds(q, e)' => Holds(q, e)
  <2>1. m["direction"] = "xreserve-receive" /\ p["status"] = "complete"
          => Stamped(p) \/ Stamped(m)
    BY <1>4, <1>8
  <2> QED
    BY <1>4, <1>8, <1>9, <1>10, <1>12, <2>1, PatchWorld DEF TInv
<1>13. /\ IInv' /\ Keeps(t)
       /\ \A q \in Receipt \ {r} : \A s2 : \A k \in BOOLEAN :
            FitAt(q, s2, k) => FitAt(q, s2, k)'
       /\ \A q \in Receipt, e \in Direction : Holds(q, e)' => Holds(q, e)
  BY <1>7, <1>8, <1>11, <1>12
<1>14. Stages' /\ \A u \in Tab : poll'[u] \in {poll[u], Idle}
  BY <1>2, AbsentFacts DEF TInv, Stages, Idle
<1>15. ASSUME NEW q \in Receipt
       PROVE  FitAt(q, transfer[q], Healthy(q))'
  <2>1. CASE q = r
    <3>1. ASSUME NEW st, NEW h \in BOOLEAN, FitAt(r, st, h), Fits(p, d, st, h)
          PROVE  /\ FitsRow(stored'[r], st, h)
                 /\ \A u \in Tab : FitsReceipt(memory'[u][r], stored'[r], st, h)
      BY <1>12, <3>1 DEF FitAt
    <3>2. /\ FitsRow(stored'[r], transfer[r], Healthy(r))
          /\ \A u \in Tab :
               FitsReceipt(memory'[u][r], stored'[r], transfer[r], Healthy(r))
      BY <1>7, <1>8, <1>11, <3>1
    <3>3. transfer' = transfer /\ Healthy(r)' = Healthy(r)
      BY <1>2 DEF Healthy, Submitting
    <3> QED
      BY <2>1, <3>2, <3>3 DEF FitAt
  <2>2. CASE q # r
    <3>1. transfer'[q] = transfer[q] /\ (Healthy(q)' => Healthy(q))
      BY <1>2 DEF Healthy, Submitting
    <3> QED
      BY <1>13, <2>2, <3>1, FitOn
  <2> QED
    BY <2>1, <2>2
<1> QED
  BY <1>2, <1>13, <1>14, <1>15, PageStep

LEMMA TrackingInit == Init => TInv
<1> SUFFICES ASSUME Init
             PROVE  TInv
  OBVIOUS
<1>1. IInv
  BY InitGood DEF Init
<1>2. Stages
  BY AbsentFacts DEF Init, Stages, Unsubmitted, Idle
<1>3. \A r \in Receipt : stored[r] = Absent /\ \A t \in Tab : memory[t][r] = Saved(Absent)
  BY DEF Init, StoreInit, Empty
<1>4. AllFit
  <2> SUFFICES ASSUME NEW r \in Receipt
               PROVE  FitAt(r, transfer[r], Healthy(r))
    BY DEF AllFit
  <2>1. Healthy(r) \in BOOLEAN
    BY DEF Healthy
  <2>2. FitsReceipt(Saved(Absent), Absent, transfer[r], Healthy(r))
    BY <2>1, AbsentFits, AbsentFacts DEF FitsReceipt, FitsRow, Saved, Settled, None
  <2> QED
    BY <1>3, <2>2, AbsentFacts DEF FitAt, FitsRow
<1>5. AllPlaced
  BY <1>3, AbsentFacts DEF AllPlaced, Holds, Saved
<1>6. AllWatched
  BY NoneAssumption DEF Init, AllWatched, Idle
<1> QED
  BY <1>1, <1>2, <1>4, <1>5, <1>6 DEF TInv

LEMMA TrackingStep ==
  ASSUME TInv, [TrackingNext]_vars
  PROVE  TInv'
<1>1. CASE UNCHANGED vars
  <2>1. IInv' /\ Stages' /\ AllPlaced' /\ AllWatched'
    BY <1>1 DEF vars, TInv, IInv, Stages, AllPlaced, Holds, AllWatched, Watches
  <2>2. AllFit'
    BY <1>1 DEF vars, TInv, AllFit, FitAt, Healthy, Submitting
  <2> QED
    BY <2>1, <2>2 DEF TInv
<1>2. CASE \E r \in Receipt : ChainStep(r)
  BY <1>2, ChainHolds
<1>3. ASSUME NEW t \in Tab, ReloadPage(t) \/ AbortPoll(t)
      PROVE  TInv'
  BY <1>3, ReloadHolds, PollHolds
<1>4. CASE \E t \in Tab, now \in Time : SyncPage(t, now)
  BY <1>4, SyncHolds
<1>5. CASE \E t \in Tab, r \in Receipt : StartPoll(t, r)
  BY <1>5, PollHolds
<1>6. ASSUME NEW t \in Tab, NEW r \in Receipt, NEW now \in Time,
             NEW a \in Opening[r], Submit(t, r, a, now)
      PROVE  TInv'
  BY <1>6, SubmitHolds
<1>7. ASSUME NEW t \in Tab, NEW r \in Receipt, NEW now \in Time,
             \/ Confirm(t, r, now) \/ Rebroadcast(t, r, now)
             \/ Allocate(t, r, now) \/ Interrupt(t, r, now)
      PROVE  TInv'
  BY <1>7, PageHolds
<1>8. ASSUME NEW t \in Tab, NEW r \in Receipt, NEW now \in Time,
             NEW seen \in Passed(poll[t].snapshot["direction"], transfer[r]),
             ApplyAnswer(t, r, seen, now)
      PROVE  TInv'
  BY <1>8, AnswerHolds
<1> QED
  BY <1>1, <1>2, <1>3, <1>4, <1>5, <1>6, <1>7, <1>8 DEF TrackingNext

LEMMA TrackingInvariance == TrackingSpec => []TInv
<1>1. TInv /\ [TrackingNext]_vars => TInv'
  BY TrackingStep
<1> QED
  BY TrackingInit, <1>1, PTL DEF TrackingSpec

-----------------------------------------------------------------------------
(* Receipts, stages, submissions and polls keep their types, whatever the  *)
(* services answer and whichever pages run.                                *)
THEOREM TrackingTyping == TrackingSpec => []TrackingTypeOK
<1>1. TInv => TrackingTypeOK
  BY DEF TInv, IInv, Stages, TrackingTypeOK, TypeOK
<1> QED
  BY <1>1, TrackingInvariance, PTL

(* No tab and no durable row ever shows an outcome the chains have not     *)
(* reached: canPoll, the monitors' answers and applyActivityPatch together.*)
THEOREM OutcomesAreTrue == TrackingSpec => []OutcomeIsTrue
<1>1. ASSUME TInv, NEW r \in Receipt, NEW a \in Rows(r)
      PROVE  /\ a["status"] = "complete" => transfer[r] = "delivered"
             /\ a["status"] = "failed" => transfer[r] \in Rejections
  <2>1. FitsRow(a, transfer[r], Healthy(r))
    BY <1>1 DEF TInv, AllFit, FitAt, FitsReceipt, Rows
  <2>2. a["status"] \in Settled => Present(a)
    BY <1>1, AbsentFacts
       DEF Rows, TInv, IInv, GoodRow, GoodReceipt, Sound, Saved, Settled, None
  <2> QED
    BY <2>1, <2>2 DEF FitsRow, Fits, Settled
<1>2. TInv => OutcomeIsTrue
  BY <1>1 DEF OutcomeIsTrue
<1> QED
  BY <1>2, TrackingInvariance, PTL

(* The fields that explain an outcome always agree with the status, in     *)
(* every tab and in storage (phaseFields and the patches of the monitors). *)
THEOREM OutcomesAreWhole == TrackingSpec => []OutcomeIsWhole
<1>1. ASSUME TInv, NEW r \in Receipt, NEW a \in Rows(r)
      PROVE  /\ Known(a, "failureLeg") => a["status"] = "failed"
             /\ a["direction"] = "xreserve-receive" =>
                  /\ (a["status"] = "complete") <=> (a["xreserveStatus"] = "delivered")
                  /\ (a["status"] = "failed")   <=> (a["xreserveStatus"] = "reverted")
                  /\ a["status"] = "complete" => Known(a, "destinationTxAt")
             /\ a["direction"] \in {"agglayer-receive"} \cup Epoch =>
                  (a["status"] = "failed" => Known(a, "failureLeg"))
  <2>1. FitsRow(a, transfer[r], Healthy(r))
    BY <1>1 DEF TInv, AllFit, FitAt, FitsReceipt, Rows
  <2>2. CASE Present(a)
    BY <2>1, <2>2 DEF FitsRow, Fits, Stamped
  <2>3. CASE ~Present(a)
    <3>1. a = Absent
      BY <1>1, <2>3, AbsentFacts
         DEF Rows, TInv, IInv, GoodRow, GoodReceipt, Sound, Saved
    <3>2. ~Known(a, "failureLeg") /\ a["direction"] = None
      BY <3>1, MoreFieldNames DEF Absent, Known
    <3> QED
      BY <3>2 DEF None, Epoch
  <2> QED
    BY <2>2, <2>3
<1>2. TInv => OutcomeIsWhole
  BY <1>1 DEF OutcomeIsWhole
<1> QED
  BY <1>2, TrackingInvariance, PTL

(* A portal open in one page never labels its own healthy withdrawal as    *)
(* interrupted; with a second page it can (the finding of README.md).      *)
THEOREM HealthyLeftAlone ==
  ASSUME OnePage
  PROVE  TrackingSpec => []HealthyNotInterrupted
<1>1. ASSUME TInv, NEW r \in Receipt, \E t \in Tab : Submitting(t, r),
             NEW a \in Rows(r)
      PROVE  a["epochRecoveryRequired"] # "yes"
  <2>1. Healthy(r) = TRUE
    BY <1>1 DEF Healthy
  <2>2. FitsRow(a, transfer[r], TRUE)
    BY <1>1, <2>1 DEF TInv, AllFit, FitAt, FitsReceipt, Rows
  <2>3. CASE Present(a)
    BY <2>2, <2>3 DEF FitsRow, Fits
  <2>4. CASE ~Present(a)
    <3>1. a = Absent
      BY <1>1, <2>4, AbsentFacts
         DEF Rows, TInv, IInv, GoodRow, GoodReceipt, Sound, Saved
    <3> QED
      BY <3>1, MoreFieldNames DEF Absent, None
  <2> QED
    BY <2>3, <2>4
<1>2. TInv => HealthyNotInterrupted
  BY <1>1 DEF HealthyNotInterrupted
<1> QED
  BY <1>2, TrackingInvariance, PTL
=============================================================================
