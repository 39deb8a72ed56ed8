------------------------------ MODULE StatusPoll ------------------------------
(***************************************************************************)
(* One poll of a transfer's status, with its reads one at a time           *)
(* (src/src/bridge/providers/xreserve/status.ts and agglayer/flows.ts):    *)
(* the chains and the services move on between two reads, nodes and        *)
(* services lag or fail, and the page may abandon the poll.                *)
(***************************************************************************)
EXTENDS FiniteSets, EvmRpc

CONSTANT None

VARIABLES
  provider,   \* the transfer's: cctp, arc, agglayer-in or agglayer-out
  tx,         \* what became of its source transaction
  forwarded,  \* Circle has executed its forwarding on Arc
  attested,   \* Circle has signed its deposit
  delivered,  \* its note is on Miden
  rows,       \* Agglayer's list of the address's deposits
  saved,      \* the receipt
  poll,       \* the poll under way: its read and what it knows so far
  lookup      \* the page-wise lookup of a deposit, the last one kept

chains == <<provider, tx, forwarded, attested, delivered, rows>>
vars   == <<chains, saved, poll, rpc, lookup>>

Circle   == {"cctp", "arc"}
Agglayer == {"agglayer-in", "agglayer-out"}

Failed    == {"reverted", "repriced-reverted", "cancelled", "replaced"}
Succeeded == {"mined", "repriced"}

NoPoll == [at |-> "idle", hash |-> "original", again |-> FALSE, hint |-> None,
           deposit |-> None, seen |-> None, exits |-> FALSE]

ChainReads == {"receipt", "block", "arc-receipt", "arc-block", "recover"}

(* Ask for the next thing, over a chain's providers or of one service.     *)
Ask(p, read) ==
  /\ poll' = [p EXCEPT !.at = read]
  /\ rpc' \in (IF read \in ChainReads THEN Calls ELSE {NoCall})

EndPoll == poll' = NoPoll /\ rpc' = NoCall

(* The poll's answer, with the hash it was found to follow.                *)
Report(fields) ==
  /\ saved' = [fields EXCEPT !.hash = poll.hash]
  /\ EndPoll

(* An error ends a poll; a replacement found before it is kept.            *)
Threw == Report(saved)

Abandon ==
  /\ poll.at # "idle"
  /\ EndPoll
  /\ UNCHANGED <<chains, saved, lookup>>
=============================================================================
