----------------------------- MODULE CircleStatus -----------------------------
(***************************************************************************)
(* The status of a deposit through Circle, from an EVM chain over Arc      *)
(* (CCTP) or from Arc (src/src/bridge/providers/xreserve/cctp-status.ts,   *)
(* arc-status-server.ts and status.ts): source receipt, Circle's           *)
(* forwarding, its execution on Arc, Circle's attestation, Miden's note.   *)
(* Circle's answers are suggestions; what is on the chains decides whether *)
(* they are about this deposit.                                            *)
(***************************************************************************)
EXTENDS StatusPoll

(* Deposits: this one, another of the same amount, wallets and recipient,  *)
(* and one that differs in them.                                           *)
Deposit == {"own", "twin", "different"}
SameTerms(d, e) == (d = "different") = (e = "different")

(* What the server reports: whether the source transaction is known to     *)
(* have made the deposit, and the attested intent.                         *)
Seen(status, mined, intent) ==
  [status |-> status, mined |-> mined, intent |-> intent]
Unmined   == Seen("submitted", FALSE, None)
Reverted  == Seen("reverted", FALSE, None)
Pending   == Seen("submitted", TRUE, None)
Confirmed == Seen("confirmed", TRUE, None)

----------------------------------------------------------------------------
(* The browser: a stage never goes back, and attestation is not delivery.  *)
Stage == [submitted |-> 1, confirmed |-> 2, attested |-> 3]
Progress(seen) ==
  LET stage == IF Stage[seen.status] > Stage[saved.stage] THEN seen.status
               ELSE saved.stage
  IN  [saved EXCEPT !.stage = stage,
        !.status = IF stage = "attested" THEN "message_observed"
                   ELSE "source_finality"]

Observed(seen) ==
  CASE seen.status = "reverted" -> Report([saved EXCEPT !.status = "failed"])
    [] seen.status # "reverted" /\ seen.intent = None -> Report(Progress(seen))
    [] OTHER -> IF SameTerms(seen.intent, "own")
                THEN /\ Ask([poll EXCEPT !.seen = seen], "delivery")
                     /\ UNCHANGED saved
                ELSE Threw

(* A transaction not yet seen in a block may have been replaced.           *)
SearchesReplacement(seen) == seen = Unmined /\ ~poll.again
Reply(seen) ==
  IF SearchesReplacement(seen)
  THEN Ask([poll EXCEPT !.seen = seen], "recover") /\ UNCHANGED saved
  ELSE Observed(seen)

StartPoll ==
  /\ poll.at = "idle"
  /\ provider \in Circle
  /\ saved.status \notin {"complete", "failed"}
  /\ Ask([NoPoll EXCEPT !.hash = saved.hash], "receipt")
  /\ UNCHANGED <<chains, saved, lookup>>

(* SourceRecovery: only a replacement that happened.  A cancelled or a     *)
(* replaced transfer has failed; a repriced one is asked for again.        *)
RecoverSource ==
  /\ poll.at = "recover"
  /\ \/ Observed(poll.seen)
     \/ tx \in {"cancelled", "replaced"}
        /\ Report([saved EXCEPT !.status = "failed"])
     \/ /\ tx \in {"repriced", "repriced-reverted"}
        /\ poll.hash = "original"
        /\ Ask([poll EXCEPT !.hash = "repriced", !.again = TRUE], "receipt")
        /\ UNCHANGED saved
  /\ UNCHANGED <<chains, lookup>>

(* The deposit's note, by the identifier its intent determines, and the    *)
(* block a node has for it.                                                *)
Created(intent) == IF intent = "own" THEN {delivered} ELSE BOOLEAN
NoteBlocks(intent) == {FALSE} \cup Created(intent)

CheckDelivery ==
  /\ poll.at = "delivery"
  /\ \E found \in NoteBlocks(poll.seen.intent) :
       Report(IF found THEN [Progress(poll.seen) EXCEPT !.status = "complete"]
              ELSE Progress(poll.seen))
  /\ UNCHANGED <<chains, lookup>>

----------------------------------------------------------------------------
(* The server.  A node may not know a mined transaction yet.               *)
OutcomeOf(hash) ==
  CASE hash = "original" /\ tx = "mined"             -> "success"
    [] hash = "original" /\ tx = "reverted"          -> "reverted"
    [] hash = "repriced" /\ tx = "repriced"          -> "success"
    [] hash = "repriced" /\ tx = "repriced-reverted" -> "reverted"
    [] OTHER                                         -> "missing"

(* The portal's transaction makes one deposit.                             *)
ReadSourceBurn == "own"

FindSourceReceipt ==
  /\ poll.at = "receipt"
  /\ \E outcome \in {"missing", OutcomeOf(poll.hash)} :
       CASE outcome = "missing"  -> Reply(Unmined)
         [] outcome = "reverted" -> Reply(Reverted)
         [] outcome = "success"  ->
              /\ Ask([poll EXCEPT !.deposit = ReadSourceBurn], "block")
              /\ UNCHANGED saved
  /\ UNCHANGED <<chains, lookup>>

ReadSourceBlock ==
  /\ poll.at = "block"
  /\ Ask(poll, IF provider = "cctp" THEN "messages" ELSE "attestations")
  /\ UNCHANGED <<chains, saved, lookup>>

(* A transaction on Arc: the burn it executes and the deposits it makes,   *)
(* this one only once Circle has forwarded it.                             *)
ArcTransaction ==
  {t \in [success: BOOLEAN, burn: {"own", "other"}, deposits: SUBSET Deposit] :
     t.success => /\ (t.burn = "own") = ("own" \in t.deposits)
                  /\ t.burn = "own" => forwarded}

(* Circle's messages for the source transaction, each with the transaction *)
(* it suggests.  They may be unreadable, of other burns, or without one.   *)
Messages == [burn: {"own", "other", "unreadable"},
             forwarding: ArcTransaction \cup {None}]
MatchAttestedMessage(m) == m.burn = "own"
Forwardings(messages) ==
  {m.forwarding : m \in {n \in messages :
                           MatchAttestedMessage(n) /\ n.forwarding # None}}

FindForwarding ==
  /\ poll.at = "messages"
  /\ \/ Reply(Pending)
     \/ \E t \in Forwardings(Messages) :
          Ask([poll EXCEPT !.hint = t], "arc-receipt") /\ UNCHANGED saved
  /\ UNCHANGED <<chains, lookup>>

(* Mutant: the nonce of the executed burn is not compared.                 *)
ExecutesSomeBurn(t) == t.success

(* The suggested transaction must have executed this very burn, and have   *)
(* made one deposit.                                                       *)
AssertForwardedExecution(t) == t.success /\ t.burn = "own"
OneDeposit(t) == \E d \in Deposit : t.deposits = {d}

ReadForwardedDeposit ==
  /\ poll.at = "arc-receipt"
  /\ \/ Reply(Pending)
     \/ /\ AssertForwardedExecution(poll.hint) /\ OneDeposit(poll.hint)
        /\ \E d \in poll.hint.deposits :
             Ask([poll EXCEPT !.hint = None, !.deposit = d], "arc-block")
        /\ UNCHANGED saved
     \/ ~(AssertForwardedExecution(poll.hint) /\ OneDeposit(poll.hint)) /\ Threw
  /\ UNCHANGED <<chains, lookup>>

ReadArcBlock ==
  /\ poll.at = "arc-block"
  /\ Ask(poll, "attestations")
  /\ UNCHANGED <<chains, saved, lookup>>

(* Circle's attestations for the transaction of `deposit`: unsigned ones   *)
(* and those for other chains are passed over, and so is what is not that  *)
(* deposit.                                                                *)
Payloads(deposit) ==
  {"unreadable"} \cup {d \in Deposit : ~SameTerms(d, deposit)}
    \cup (IF deposit = "own" /\ ~attested THEN {} ELSE {deposit})
Attestations(deposit) ==
  [remote: {"miden", "other"}, signed: BOOLEAN, payload: Payloads(deposit)]

ReadMatchingIntent(a, deposit) ==
  a.payload # "unreadable" /\ SameTerms(a.payload, deposit)
FindDepositAttestation(attestations, deposit) ==
  {a.payload : a \in {b \in attestations :
     b.remote = "miden" /\ b.signed /\ ReadMatchingIntent(b, deposit)}}

(* A forwarded deposit must be on the terms of the burn.                   *)
AssertForwardedDeposit(deposit) == provider = "cctp" => SameTerms(deposit, "own")
Verified(seen) ==
  IF AssertForwardedDeposit(poll.deposit) THEN Reply(seen) ELSE Threw

GetDepositAttestation ==
  /\ poll.at = "attestations"
  /\ \/ Verified(Confirmed)
     \/ \E intent \in FindDepositAttestation(Attestations(poll.deposit),
                                             poll.deposit) :
          Verified(Seen("attested", TRUE, intent))
  /\ UNCHANGED <<chains, lookup>>

----------------------------------------------------------------------------
(* A read that fails.  What is already known of the deposit is reported;   *)
(* before that the poll ends without news.                                 *)
KnowsItsBurn == {"block", "messages", "arc-receipt", "arc-block"}
ReadFails ==
  /\ poll.at # "idle" /\ provider \in Circle
  /\ rpc = NoCall \/ LastProvider
  /\ CASE poll.at = "delivery"     -> Report(Progress(poll.seen))
       [] poll.at = "recover"      -> Observed(poll.seen)
       [] poll.at = "attestations" -> Verified(Confirmed)
       [] provider = "cctp" /\ poll.at \in KnowsItsBurn -> Reply(Pending)
       [] OTHER                    -> Threw
  /\ UNCHANGED <<chains, lookup>>

CircleStep ==
  \/ StartPoll
  \/ RecoverSource
  \/ CheckDelivery
  \/ FindSourceReceipt
  \/ ReadSourceBlock
  \/ FindForwarding
  \/ ReadForwardedDeposit
  \/ ReadArcBlock
  \/ GetDepositAttestation
  \/ ReadFails
=============================================================================
