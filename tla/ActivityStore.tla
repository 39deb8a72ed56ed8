--------------------------- MODULE ActivityStore ---------------------------
(***************************************************************************)
(* The receipt store: every open tab holds its own ActivityStore over the  *)
(* one localStorage entry of the origin (src/src/bridge/activity.ts,       *)
(* src/src/app/lib/bridge-persistence.ts).                                 *)
(*                                                                         *)
(* A tab's store works synchronously: update publishes the receipt and     *)
(* syncs before it returns, and sync reads and writes the entry in one     *)
(* turn, so each call is one action.  Reads and writes of the entry may    *)
(* fail at any time (quota, privacy mode, corrupted JSON).  Read-then-     *)
(* write of the entry is taken to be atomic between tabs.                  *)
(***************************************************************************)
EXTENDS ActivityMerge

CONSTANTS
  Tab,       \* open pages of the portal
  Receipt,   \* receipt ids
  Opening,   \* Opening[r]: what a submission may record first under id r
  Patch      \* Patch[d]: what submissions and monitors of direction d report

VARIABLES
  stored,    \* stored[r]: the durable row of receipt r, Absent if none
  memory     \* memory[t][r]: tab t's receipt r

storeVars == <<stored, memory>>

(***************************************************************************)
(* ActivityReceipt: an activity and its unsavedChanges.  An empty set of   *)
(* changes still counts as unsaved, so saved is a field of its own.        *)
(***************************************************************************)
Unsaved(activity, changes) ==
  [activity |-> activity, changes |-> changes, saved |-> FALSE]
Saved(activity) ==
  [activity |-> activity, changes |-> Absent, saved |-> TRUE]

ReceiptRecord == [activity: Activity, changes: Activity, saved: BOOLEAN]

Empty == [r \in Receipt |-> Saved(Absent)]

StoreInit ==
  /\ stored = [r \in Receipt |-> Absent]
  /\ memory = [t \in Tab |-> Empty]

(***************************************************************************)
(* What the Agglayer monitor guarantees of its observations: a withdrawal  *)
(* is matched to a deposit only through its own exit hashes, so nothing    *)
(* beyond source finality is claimed for a receipt without them.           *)
(***************************************************************************)
Attributable(a) ==
  a["direction"] = "agglayer-send" /\ ~Known(a, "agglayerExitHashes") =>
    /\ a["status"] \in {"signature", "source_finality", "failed"}
    /\ ~Known(a, "destinationTxHash")
    /\ ~Known(a, "destinationTxAt")

(* Every flow records a transfer once it holds the identifiers of its      *)
(* wallet's answer, Circle's with its first stage, and claims nothing of   *)
(* the other chain yet.                                                    *)
ASSUME OpeningAssumption ==
  \A r \in Receipt : \A a \in Opening[r] :
    /\ a \in Activity
    /\ Present(a)
    /\ a["status"] \in Status \ {"signature"}
    /\ a["direction"] \in {"epoch-send", "xreserve-send"} =>
         Known(a, "midenNoteId")
    /\ a["direction"] = "xreserve-receive" => a["xreserveStatus"] \in XreserveStatus
    /\ Attributable(a)

(* An observation never changes the direction of a transfer, and Circle's  *)
(* stage is one of the type's.                                             *)
ASSUME PatchAssumption ==
  \A d \in Direction : \A p \in Patch[d] :
    /\ p \in Activity /\ ~Present(p)
    /\ p["xreserveStatus"] \in XreserveStatus \cup {None}

ASSUME TimeAssumption == None \notin Time

-----------------------------------------------------------------------------
(* sync of a tab whose snapshot is `own`: unsaved receipts are replayed    *)
(* onto the durable row, the others are replaced by it.                    *)
Replayed(own, r, now) ==
  IF own[r].saved THEN Saved(ReadRow(stored[r]))
  ELSE [own[r] EXCEPT !.activity =
         IF Present(stored[r])
         THEN Merge(ReadRow(stored[r]), own[r].changes, now)
         ELSE @]

Pending(own) == \E r \in Receipt : ~own[r].saved

ReadFails(t, own) ==
  /\ memory' = [memory EXCEPT ![t] = own]
  /\ UNCHANGED stored

(* Mutant: the receipts are marked saved before the write.                 *)
WriteFailsAfterMarking(t, own, now) ==
  /\ Pending(own)
  /\ memory' = [memory EXCEPT ![t] =
                 [r \in Receipt |-> Saved(Replayed(own, r, now).activity)]]
  /\ UNCHANGED stored

WriteFails(t, own, now) ==
  /\ Pending(own)
  /\ memory' = [memory EXCEPT ![t] =
                 [r \in Receipt |-> Replayed(own, r, now)]]
  /\ UNCHANGED stored

SyncSucceeds(t, own, now) ==
  LET next == [r \in Receipt |-> Replayed(own, r, now).activity] IN
  /\ memory' = [memory EXCEPT ![t] = [r \in Receipt |-> Saved(next[r])]]
  /\ stored' = IF Pending(own) THEN next ELSE stored

SyncFrom(t, own, now) ==
  \/ ReadFails(t, own)
  \/ WriteFails(t, own, now)
  \/ SyncSucceeds(t, own, now)

(* update: the fields that really change join the unsaved changes, the     *)
(* receipt is published, and the store syncs.                              *)
Changed(current, activity) ==
  [f \in Field |->
    IF Known(activity, f) /\ activity[f] # current[f] THEN activity[f]
    ELSE None]

(* Mutant: only the latest changes of an unsaved receipt are retried.      *)
PublishedLatest(t, r, activity) ==
  LET current == memory[t][r]
  IN  [memory[t] EXCEPT ![r] =
        Unsaved(activity, Changed(current.activity, activity))]

Published(t, r, activity) ==
  LET current == memory[t][r]
      changes == Changed(current.activity, activity)
  IN  [memory[t] EXCEPT ![r] =
        Unsaved(activity, Observed(current.changes, changes))]

Update(t, r, activity, now) == SyncFrom(t, Published(t, r, activity), now)

-----------------------------------------------------------------------------
(* record: the first receipt of a submission, under an id never used.      *)
Record(t, r, activity, now) ==
  /\ ~Present(stored[r])
  /\ \A u \in Tab : ~Present(memory[u][r].activity)
  /\ Update(t, r, Normalize(activity), now)

(* patch: merged into the tab's newest receipt; nothing without one.       *)
ApplyPatch(t, r, patch, now) ==
  /\ Present(memory[t][r].activity)
  /\ Update(t, r, Merge(memory[t][r].activity, patch, now), now)

(* The initial sync, a storage event, or a focus event.                    *)
Sync(t, now) == SyncFrom(t, memory[t], now)

(* A reload, crash or close: the tab's unsaved changes are gone.           *)
Reload(t) ==
  /\ memory' = [memory EXCEPT ![t] = Empty]
  /\ UNCHANGED stored

Observe(t, r, patch, now) ==
  /\ Attributable(Merge(memory[t][r].activity, patch, now))
  /\ ApplyPatch(t, r, patch, now)

Next ==
  \E t \in Tab, now \in Time :
    \/ \E r \in Receipt : \E a \in Opening[r] : Record(t, r, a, now)
    \/ \E r \in Receipt :
         /\ Present(memory[t][r].activity)
         /\ \E p \in Patch[memory[t][r].activity["direction"]] :
              Observe(t, r, p, now)
    \/ Sync(t, now)
    \/ Reload(t)

Spec == StoreInit /\ [][Next]_storeVars

-----------------------------------------------------------------------------
(* Every row, durable or shown, is a receipt with known field values.      *)
TypeOK ==
  /\ stored \in [Receipt -> Activity]
  /\ memory \in [Tab -> [Receipt -> ReceiptRecord]]

(* b shows at least what a shows: a's evidence and a's progress.           *)
EvidenceOf(a) == {f \in Evidence : Known(a, f)}
Covers(b, a) ==
  /\ Present(b)
  /\ EvidenceOf(a) \subseteq EvidenceOf(b)
  /\ StateOrder(a) <= StateOrder(b)

(* A receipt a tab presents as saved is durable with all it shows: no      *)
(* failed write, reload or other tab's write can have undercut the claim   *)
(* (receiptSaved in use-activity-tracking.ts).                             *)
SavedIsDurable ==
  \A t \in Tab, r \in Receipt :
    Present(memory[t][r].activity) /\ memory[t][r].saved =>
      Covers(stored[r], memory[t][r].activity)

(* The changes a tab keeps for a retry are enough: replaying them onto     *)
(* whatever the other tabs have made durable since loses no evidence and   *)
(* no progress that the tab has shown.                                     *)
UnsavedSurvivesReplay ==
  \A t \in Tab, r \in Receipt, now \in Time :
    ~memory[t][r].saved =>
      Covers(Replayed(memory[t], r, now).activity, memory[t][r].activity)

(* Reading a durable row changes nothing: every durable row is in the      *)
(* normal form of its table and no withdrawal is reopened by a read.       *)
ReadIsLossless == \A r \in Receipt : ReadRow(stored[r]) = stored[r]

(* The durable rows are a ledger in which a receipt is never lost, never   *)
(* goes back, and has one outcome (module ReceiptLedger).                  *)
Entry(a) ==
  [status   |-> a["status"],
   order    |-> IF Present(a) THEN StateOrder(a) ELSE 0,
   evidence |-> EvidenceOf(a)]

Ledger == INSTANCE ReceiptLedger WITH
  ledger <- [r \in Receipt |-> Entry(stored[r])]

LedgerRefined == Ledger!Spec

(* "Stamp each leg's transaction time the first time its hash appears, and *)
(* never again" (core/rules.ts:110-115): a durable delivery time, once     *)
(* stamped, is never overwritten.                                          *)
DestinationStampedOnce ==
  [][\A r \in Receipt :
       Known(stored[r], "destinationTxAt") =>
         stored'[r]["destinationTxAt"] = stored[r]["destinationTxAt"]]_storeVars
=============================================================================
