--------------------------- MODULE ReceiptLedger ---------------------------
(***************************************************************************)
(* What the portal promises of its history, without tabs, storage faults   *)
(* or merging: a ledger of transfers.  A transfer once entered stays; its  *)
(* progress and its evidence only grow; its outcome is decided once.       *)
(***************************************************************************)
EXTENDS Naturals

CONSTANTS
  Receipt,   \* transfers
  Evidence,  \* identifiers a transfer can gather
  Status,    \* what the history says of a transfer
  Settled,   \* the outcomes among them
  None       \* the status of a transfer not yet entered

VARIABLE ledger

Progress == [status: Status \cup {None}, order: 0..5,
             evidence: SUBSET Evidence]

Unopened == [status |-> None, order |-> 0, evidence |-> {}]

Init == ledger = [r \in Receipt |-> Unopened]

Open(r) ==
  /\ ledger[r] = Unopened
  /\ ledger'[r].status # None

Advance(r) ==
  /\ ledger[r].status # None
  /\ ledger'[r].status # None
  /\ ledger[r].order <= ledger'[r].order
  /\ ledger[r].evidence \subseteq ledger'[r].evidence
  /\ ledger[r].status \in Settled => ledger'[r].status = ledger[r].status

(* One write of the history may move several transfers.                    *)
Next ==
  /\ ledger' \in [Receipt -> Progress]
  /\ \A r \in Receipt : Open(r) \/ Advance(r) \/ ledger'[r] = ledger[r]

Spec == Init /\ [][Next]_ledger
=============================================================================
