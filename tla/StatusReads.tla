----------------------------- MODULE StatusReads -----------------------------
(***************************************************************************)
(* The polls of all deposits whose status takes several reads, in the      *)
(* world they read.                                                        *)
(***************************************************************************)
EXTENDS CircleStatus, DepositLookup

CONSTANT MaxRows   \* bound on the rows of the deposit list

Init ==
  /\ provider \in Circle \cup Agglayer
  /\ tx = "pending"
  /\ forwarded = FALSE /\ attested = FALSE /\ delivered = FALSE
  /\ rows = [newer |-> 0, listed |-> FALSE, older |-> 0]
  /\ saved = [hash |-> "original", status |-> "source_finality",
              stage |-> "submitted", exits |-> FALSE, found |-> FALSE]
  /\ poll = NoPoll
  /\ rpc = NoCall
  /\ lookup = NoLookup

----------------------------------------------------------------------------
(* The chains and the services.                                            *)
SourceSettles ==
  /\ tx = "pending"
  /\ tx' \in (IF provider \in Circle THEN Failed \cup Succeeded ELSE {"mined"})
  /\ UNCHANGED <<provider, forwarded, attested, delivered, rows>>

Deposited == tx \in Succeeded /\ provider \in Circle
CircleForwards ==
  /\ Deposited /\ provider = "cctp" /\ ~forwarded
  /\ forwarded' = TRUE
  /\ UNCHANGED <<provider, tx, attested, delivered, rows>>

CircleAttests ==
  /\ Deposited /\ (provider = "cctp" => forwarded) /\ ~attested
  /\ attested' = TRUE
  /\ UNCHANGED <<provider, tx, forwarded, delivered, rows>>

NoteCreated ==
  /\ attested /\ ~delivered
  /\ delivered' = TRUE
  /\ UNCHANGED <<provider, tx, forwarded, attested, rows>>

(* The transfer's deposit is listed in front of the older ones, and others *)
(* in front of it.                                                         *)
DepositListed ==
  /\ provider \in Agglayer
  /\ Total < MaxRows
  /\ \/ ~rows.listed /\ tx = "mined" /\ rows' = [rows EXCEPT !.listed = TRUE]
     \/ ~rows.listed /\ rows' = [rows EXCEPT !.older = @ + 1]
     \/ rows.listed /\ rows' = [rows EXCEPT !.newer = @ + 1]
  /\ UNCHANGED <<provider, tx, forwarded, attested, delivered>>

World ==
  /\ \/ SourceSettles
     \/ CircleForwards
     \/ CircleAttests
     \/ NoteCreated
     \/ DepositListed
  /\ UNCHANGED <<saved, poll, rpc, lookup>>

NextProvider == Skip /\ UNCHANGED <<chains, saved, poll, lookup>>

Next ==
  \/ World
  \/ NextProvider
  \/ Abandon
  \/ CircleStep
  \/ LookupStep

Spec == Init /\ [][Next]_vars

----------------------------------------------------------------------------
(* A receipt says of the transfer what has happened to it: a failure only  *)
(* of its source transaction, an attestation of its own deposit, a         *)
(* delivery of its own note, exits of its own transaction - whichever of   *)
(* the reads lagged, failed or answered about another deposit              *)
(* (status.ts:18, cctp-status.ts:39, arc-status-server.ts:84).             *)
TrueReports ==
  /\ saved.status = "failed" => tx \in Failed
  /\ saved.status = "complete" => delivered
  /\ saved.stage = "attested" => attested
  /\ saved.hash = "repriced" => tx \in {"repriced", "repriced-reverted"}
  /\ saved.exits => tx = "mined"
  /\ saved.found => rows.listed
=============================================================================
