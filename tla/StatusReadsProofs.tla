-------------------------- MODULE StatusReadsProofs --------------------------
(***************************************************************************)
(* For any time limits that fit into one another and any page size: every  *)
(* provider's turn comes within the browser's time, a lookup misses no     *)
(* deposit that was listed when it began, and what a poll reports is true  *)
(* of the transfer.                                                        *)
(***************************************************************************)
EXTENDS StatusReads, TLAPS

(* What a step of the polls does to the call under way.                    *)
LEMMA PollSteps ==
  ASSUME [Next]_vars
  PROVE  \/ Skip
         \/ rpc' = rpc
         \/ rpc' = NoCall
         \/ rpc' \in Calls
<1>1. ASSUME NEW p, NEW read, Ask(p, read) PROVE rpc' \in Calls \/ rpc' = NoCall
  BY <1>1 DEF Ask
<1>2. ASSUME NEW seen, Observed(seen) PROVE rpc' \in Calls \/ rpc' = NoCall
  BY <1>1, <1>2 DEF Observed, Report, EndPoll, Threw
<1>3. ASSUME NEW seen, Reply(seen) PROVE rpc' \in Calls \/ rpc' = NoCall
  BY <1>1, <1>2, <1>3 DEF Reply
<1>4. CASE World \/ NextProvider \/ UNCHANGED vars
  BY <1>4 DEF World, NextProvider, vars
<1>5. CASE Abandon
  BY <1>5 DEF Abandon, EndPoll
<1>6. CASE CircleStep
  <2>1. CASE StartPoll \/ RecoverSource \/ CheckDelivery
    BY <1>1, <1>2, <2>1
       DEF StartPoll, RecoverSource, CheckDelivery, Report, EndPoll
  <2>2. CASE FindSourceReceipt
    <3>1. PICK outcome \in {"missing", OutcomeOf(poll.hash)} :
            CASE outcome = "missing"  -> Reply(Unmined)
              [] outcome = "reverted" -> Reply(Reverted)
              [] outcome = "success"  ->
                   /\ Ask([poll EXCEPT !.deposit = ReadSourceBurn], "block")
                   /\ UNCHANGED saved
      BY <2>2 DEF FindSourceReceipt
    <3>2. outcome \in {"missing", "reverted", "success"}
      BY DEF OutcomeOf
    <3> QED
      BY <1>1, <1>3, <3>1, <3>2
  <2>3. CASE ReadSourceBlock \/ FindForwarding \/ ReadForwardedDeposit \/ ReadArcBlock
    BY <1>1, <1>3, <2>3
       DEF ReadSourceBlock, FindForwarding, ReadForwardedDeposit, ReadArcBlock,
           Threw, Report, EndPoll
  <2>4. CASE GetDepositAttestation
    BY <1>3, <2>4 DEF GetDepositAttestation, Verified, Threw, Report, EndPoll
  <2>5. CASE ReadFails
    BY <1>2, <1>3, <2>5 DEF ReadFails, Verified, Threw, Report, EndPoll
  <2> QED
    BY <1>6, <2>1, <2>2, <2>3, <2>4, <2>5 DEF CircleStep
<1>7. CASE LookupStep
  BY <1>1, <1>7 DEF LookupStep, StartLookup, LocateTransaction, VerifyHeader,
                    ReadPage, LookupFails, Threw, Report, EndPoll
<1> QED
  BY <1>4, <1>5, <1>6, <1>7 DEF Next

-----------------------------------------------------------------------------
(* The providers left have their time within the budget.                   *)
LEMMA TurnsFitBudget ==
  ASSUME NEW n \in Nat \ {0}
  PROVE  Timeout(n) \in Nat /\ n * Timeout(n) <= Budget
<1>1. Budget \in Nat /\ RequestLimit \in Nat
  BY RpcAssumption
<1> DEFINE q == Budget \div n
<1>2. q \in Nat /\ n * q <= Budget
  BY <1>1
<1>3. CASE q < RequestLimit
  BY <1>2, <1>3 DEF Timeout
<1>4. CASE ~(q < RequestLimit)
  <2>1. Timeout(n) = RequestLimit /\ RequestLimit <= q
    BY <1>1, <1>2, <1>4 DEF Timeout
  <2> HIDE DEF q
  <2>2. n * RequestLimit <= n * q
    BY <1>1, <1>2, <2>1
  <2> QED
    BY <1>1, <1>2, <2>1, <2>2
<1> QED
  BY <1>3, <1>4

InTurn ==
  rpc # NoCall =>
    /\ rpc \in [configured: Nat \ {0}, left: Nat \ {0}, elapsed: Nat]
    /\ rpc.elapsed + rpc.left * Timeout(rpc.configured) <= Budget

LEMMA InTurnKept == InTurn /\ [Next]_vars => InTurn'
<1> SUFFICES ASSUME InTurn, [Next]_vars PROVE InTurn'
  OBVIOUS
<1>1. CASE rpc' \in Calls
  <2>1. PICK n \in 1..MaxProviders :
          rpc' = [configured |-> n, left |-> n, elapsed |-> 0]
    BY <1>1 DEF Calls
  <2>2. n \in Nat \ {0}
    BY RpcAssumption
  <2> QED
    BY <2>1, <2>2, TurnsFitBudget DEF InTurn
<1>2. CASE Skip
  <2> DEFINE T == Timeout(rpc.configured)
  <2>1. rpc # NoCall
    BY <1>2 DEF Skip, NoCall
  <2>2. /\ rpc \in [configured: Nat \ {0}, left: Nat \ {0}, elapsed: Nat]
        /\ rpc.elapsed + rpc.left * T <= Budget
    BY <2>1 DEF InTurn
  <2>3. T \in Nat /\ Budget \in Nat
    BY <2>2, TurnsFitBudget, RpcAssumption
  <2>4. PICK waited \in {0, T} :
          rpc' = [rpc EXCEPT !.left = @ - 1, !.elapsed = @ + waited]
    BY <1>2 DEF Skip
  <2>5. /\ rpc.left > 1
        /\ rpc'.configured = rpc.configured
        /\ rpc'.left = rpc.left - 1 /\ rpc'.elapsed = rpc.elapsed + waited
        /\ rpc' = [configured |-> rpc'.configured, left |-> rpc'.left,
                   elapsed |-> rpc'.elapsed]
    BY <1>2, <2>2, <2>4 DEF Skip
  <2>6. rpc' \in [configured: Nat \ {0}, left: Nat \ {0}, elapsed: Nat]
    BY <2>2, <2>3, <2>4, <2>5
  <2>7. rpc'.elapsed + rpc'.left * T <= Budget
    <3>1. (rpc.left - 1) * T = rpc.left * T - T
      BY <2>2, <2>3
    <3>2. waited <= T /\ waited \in Nat
      BY <2>3
    <3>3. rpc.left * T \in Nat /\ rpc.elapsed \in Nat
      BY <2>2, <2>3
    <3> HIDE DEF T
    <3> QED
      BY <2>2, <2>3, <2>5, <3>1, <3>2, <3>3
  <2> QED
    BY <2>5, <2>6, <2>7 DEF InTurn
<1>3. CASE rpc' \in {rpc, NoCall}
  BY <1>3 DEF InTurn
<1> QED
  BY <1>1, <1>2, <1>3, PollSteps

(* The browser waits for the last provider's answer.                       *)
THEOREM LastTurnInTime == Spec => []InTimeForBrowser
<1>1. Init => InTurn
  BY DEF Init, InTurn
<1>2. InTurn => InTimeForBrowser
  <2> SUFFICES ASSUME InTurn, rpc # NoCall
               PROVE  rpc.elapsed + Timeout(rpc.configured) <= BrowserLimit
    BY DEF InTimeForBrowser
  <2> DEFINE T == Timeout(rpc.configured)
             k == rpc.left
  <2>1. /\ T \in Nat /\ k \in Nat \ {0} /\ rpc.elapsed \in Nat
        /\ rpc.elapsed + k * T <= Budget
        /\ Budget \in Nat /\ BrowserLimit \in Nat /\ Budget <= BrowserLimit
    BY TurnsFitBudget, RpcAssumption DEF InTurn
  <2> HIDE DEF T, k
  <2>2. T <= k * T /\ k * T \in Nat
    BY <2>1
  <2> QED
    BY <2>1, <2>2 DEF T
<1> QED
  BY <1>1, <1>2, InTurnKept, PTL DEF Spec

-----------------------------------------------------------------------------
(* What the polls hold.                                                    *)
Read == {"idle", "receipt", "block", "messages", "arc-receipt", "arc-block",
         "attestations", "recover", "delivery", "locate", "header", "page"}
Hint == {None, "own", "wrong"} \cup
        [success: BOOLEAN, burn: {"own", "other"}, deposits: SUBSET Deposit]
Observation == [status: {"submitted", "confirmed", "attested", "reverted"},
                mined: BOOLEAN, intent: Deposit \cup {None}]
Poll == [at: Read, hash: {"original", "repriced"}, again: BOOLEAN, hint: Hint,
         deposit: Deposit \cup {None}, seen: Observation \cup {None},
         exits: BOOLEAN]
Saved == [hash: {"original", "repriced"},
          status: {"source_finality", "message_observed", "failed", "complete"},
          stage: {"submitted", "confirmed", "attested"},
          exits: BOOLEAN, found: BOOLEAN]

(* A receipt, an observation and a poll in progress that are true of the   *)
(* transfer.                                                               *)
Told(receipt) ==
  /\ receipt.status = "failed" => tx \in Failed
  /\ receipt.status = "complete" => delivered
  /\ receipt.stage = "attested" => attested
  /\ receipt.hash = "repriced" => tx \in {"repriced", "repriced-reverted"}
  /\ receipt.exits => tx = "mined"
  /\ receipt.found => rows.listed
TrueSeen(seen) ==
  /\ seen.status = "reverted" => tx \in Failed
  /\ seen.status = "attested" => attested
  /\ seen.intent # None => seen.intent = "own"
Knows(p) ==
  /\ p.hash = "repriced" => tx \in {"repriced", "repriced-reverted"}
  /\ p.at \in {"block", "messages", "arc-receipt", "arc-block", "attestations"} =>
       p.deposit = "own"
  /\ p.at = "arc-receipt" => p.hint \in ArcTransaction
  /\ p.at = "delivery" =>
       /\ p.seen \in Observation /\ TrueSeen(p.seen)
       /\ p.seen.status # "reverted" /\ p.seen.intent = "own"
  /\ p.at = "recover" => p.seen = Unmined
  /\ p.at = "header" /\ p.hint = "own" => tx = "mined"
  /\ p.exits => tx = "mined"

Rows == [newer: Nat, listed: BOOLEAN, older: Nat]
Known == /\ saved \in Saved /\ poll \in Poll /\ rows \in Rows
         /\ Told(saved) /\ Knows(poll)

LEMMA RowsGrow ==
  ASSUME rows \in Rows, World
  PROVE  /\ rows' \in Rows
         /\ rows.newer <= rows'.newer /\ (rows.listed => rows'.listed)
<1>1. rows.newer \in Nat
  BY DEF Rows
<1>2. CASE rows' = rows
  BY <1>1, <1>2
<1>3. CASE rows' = [rows EXCEPT !.listed = TRUE]
  <2>1. /\ rows' = [newer |-> rows.newer, listed |-> TRUE, older |-> rows.older]
        /\ rows.older \in Nat
    BY <1>3 DEF Rows
  <2> QED
    BY <1>1, <2>1 DEF Rows
<1>4. CASE rows' = [rows EXCEPT !.older = @ + 1]
  BY <1>4 DEF Rows
<1>5. CASE rows' = [rows EXCEPT !.newer = @ + 1]
  BY <1>5 DEF Rows
<1> QED
  BY <1>2, <1>3, <1>4, <1>5
     DEF World, SourceSettles, CircleForwards, CircleAttests, NoteCreated,
         DepositListed

(* What has happened to the transfer does not unhappen.                    *)
LEMMA WorldKeepsKnown == ASSUME Known, World PROVE Known'
<1>1. saved' = saved /\ poll' = poll
  BY DEF World
<1>2. /\ tx # "pending" => tx' = tx
      /\ forwarded => forwarded'
      /\ attested => attested'
      /\ delivered => delivered'
  BY DEF World, SourceSettles, CircleForwards, CircleAttests, NoteCreated,
         DepositListed
<1>3. saved.found => rows'.listed
  BY RowsGrow DEF Known, Told
<1>4. Told(saved)'
  BY <1>1, <1>2, <1>3 DEF Known, Told, Failed
<1>5. poll.at = "delivery" => TrueSeen(poll.seen)'
  BY <1>1, <1>2 DEF Known, Knows, TrueSeen, Failed
<1>6. poll.hint \in ArcTransaction => poll.hint \in ArcTransaction'
  BY <1>2 DEF ArcTransaction
<1>7. Knows(poll)'
  BY <1>1, <1>2, <1>5, <1>6 DEF Known, Knows
<1> QED
  BY <1>1, <1>4, <1>7, RowsGrow DEF Known

LEMMA ReportKnows ==
  ASSUME Known, UNCHANGED chains, NEW fields \in Saved, Told(fields), Report(fields)
  PROVE  Known' /\ poll'.at # "page"
<1>1. /\ saved' = [fields EXCEPT !.hash = poll.hash] /\ poll' = NoPoll
      /\ UNCHANGED <<tx, forwarded, attested, delivered, rows>>
  BY DEF Report, EndPoll, chains
<1>2. /\ saved' \in Saved
      /\ saved'.hash = poll.hash /\ saved'.status = fields.status
      /\ saved'.stage = fields.stage /\ saved'.exits = fields.exits
      /\ saved'.found = fields.found
  BY <1>1 DEF Saved, Known, Poll
<1>3. Told(saved)'
  BY <1>1, <1>2 DEF Known, Knows, Told
<1>4. poll' \in Poll /\ Knows(poll)' /\ poll'.at # "page"
  BY <1>1 DEF NoPoll, Poll, Read, Hint, Knows
<1> QED
  BY <1>1, <1>2, <1>3, <1>4 DEF Known

LEMMA AskKnows ==
  ASSUME Known, UNCHANGED <<chains, saved>>, NEW p \in Poll, NEW read \in Read,
         Ask(p, read), Knows([p EXCEPT !.at = read])
  PROVE  Known' /\ poll'.at = read
<1>1. /\ poll' = [p EXCEPT !.at = read] /\ saved' = saved
      /\ UNCHANGED <<tx, forwarded, attested, delivered, rows>>
  BY DEF Ask, chains
<1>2. poll' \in Poll /\ poll'.at = read
  BY <1>1 DEF Poll
<1>3. Told(saved)'
  BY <1>1 DEF Known, Told
<1>4. Knows(poll)'
  BY <1>1 DEF Knows, TrueSeen, ArcTransaction
<1> QED
  BY <1>1, <1>2, <1>3, <1>4 DEF Known

LEMMA ThrewKnows ==
  ASSUME Known, UNCHANGED chains, Threw PROVE Known' /\ poll'.at # "page"
BY ReportKnows DEF Known, Threw

LEMMA ProgressTells ==
  ASSUME Known, NEW seen \in Observation, TrueSeen(seen), seen.status # "reverted"
  PROVE  /\ Progress(seen) \in Saved /\ Told(Progress(seen))
         /\ Progress(seen).status \in {"message_observed", "source_finality"}
<1> DEFINE stage == IF Stage[seen.status] > Stage[saved.stage] THEN seen.status
                    ELSE saved.stage
           status == IF stage = "attested" THEN "message_observed"
                     ELSE "source_finality"
<1>1. Progress(seen) = [saved EXCEPT !.stage = stage, !.status = status]
  BY DEF Progress
<1>2. /\ stage \in {"submitted", "confirmed", "attested"}
      /\ stage = "attested" => attested
      /\ status \in {"message_observed", "source_finality"}
  BY DEF Known, Told, TrueSeen, Saved, Observation
<1> HIDE DEF stage, status
<1>3. /\ Progress(seen) \in Saved
      /\ Progress(seen).stage = stage /\ Progress(seen).status = status
      /\ Progress(seen).hash = saved.hash /\ Progress(seen).exits = saved.exits
      /\ Progress(seen).found = saved.found
  BY <1>1, <1>2 DEF Known, Saved
<1> QED
  BY <1>2, <1>3 DEF Known, Told

LEMMA FailedTells ==
  ASSUME Known, tx \in Failed
  PROVE  LET fields == [saved EXCEPT !.status = "failed"]
         IN  fields \in Saved /\ Told(fields)
BY DEF Known, Saved, Told

LEMMA ObservedKnows ==
  ASSUME Known, UNCHANGED chains,
         NEW seen \in Observation, TrueSeen(seen), Observed(seen)
  PROVE  Known' /\ poll'.at # "page"
<1>1. CASE seen.status = "reverted"
  <2>1. Report([saved EXCEPT !.status = "failed"])
    BY <1>1 DEF Observed
  <2> QED
    BY <1>1, <2>1, FailedTells, ReportKnows DEF TrueSeen
<1>2. CASE seen.status # "reverted" /\ seen.intent = None
  <2>1. Report(Progress(seen))
    BY <1>2 DEF Observed
  <2> QED
    BY <1>2, <2>1, ProgressTells, ReportKnows
<1>3. CASE seen.status # "reverted" /\ seen.intent # None
  <2>1. CASE Threw
    BY <2>1, ThrewKnows
  <2>2. CASE Ask([poll EXCEPT !.seen = seen], "delivery") /\ UNCHANGED saved
    <3> DEFINE p == [poll EXCEPT !.seen = seen]
    <3>1. /\ p \in Poll /\ p.hash = poll.hash /\ p.exits = poll.exits /\ p.seen = seen
      BY DEF Known, Poll
    <3>2. "delivery" \in Read
      BY DEF Read
    <3> HIDE DEF p
    <3>3. Knows([p EXCEPT !.at = "delivery"])
      BY <1>3, <3>1 DEF Known, Knows, Poll, TrueSeen
    <3> QED
      BY <2>2, <3>1, <3>2, <3>3, AskKnows DEF p
  <2> QED
    BY <1>3, <2>1, <2>2 DEF Observed
<1> QED
  BY <1>1, <1>2, <1>3

LEMMA ReplyKnows ==
  ASSUME Known, UNCHANGED chains,
         NEW seen \in Observation, TrueSeen(seen), Reply(seen)
  PROVE  Known' /\ poll'.at # "page"
<1>1. CASE SearchesReplacement(seen)
  <2> DEFINE p == [poll EXCEPT !.seen = seen]
  <2>1. Ask(p, "recover") /\ UNCHANGED saved /\ seen = Unmined
    BY <1>1 DEF Reply, SearchesReplacement
  <2>2. p \in Poll /\ p.hash = poll.hash /\ p.exits = poll.exits /\ p.seen = seen
    BY DEF Known, Poll
  <2>3. "recover" \in Read
    BY DEF Read
  <2> HIDE DEF p
  <2>4. Knows([p EXCEPT !.at = "recover"])
    BY <2>1, <2>2 DEF Known, Knows, Poll
  <2> QED
    BY <2>1, <2>2, <2>3, <2>4, AskKnows
<1>2. CASE ~SearchesReplacement(seen)
  BY <1>2, ObservedKnows DEF Reply
<1> QED
  BY <1>1, <1>2

-----------------------------------------------------------------------------
(* A deposit listed when the lookup began is at its offset or beyond.      *)
Ahead ==
  /\ lookup \in [offset: Nat, pages: Nat, listed: BOOLEAN,
                 result: {"none", "reading", "found", "missing", "failed"}]
  /\ lookup.listed => rows.listed
  /\ poll.at = "page" /\ lookup.listed => lookup.offset <= rows.newer
  /\ FindsTheDeposit

LEMMA WorldKeepsAhead == ASSUME rows \in Rows, Ahead, World PROVE Ahead'
<1>1. poll' = poll /\ lookup' = lookup
  BY DEF World
<1>2. /\ rows.newer \in Nat /\ rows'.newer \in Nat
      /\ rows.newer <= rows'.newer /\ (rows.listed => rows'.listed)
  BY RowsGrow DEF Rows
<1>3. poll.at = "page" /\ lookup.listed => lookup.offset <= rows'.newer
  BY <1>2 DEF Ahead
<1> QED
  BY <1>1, <1>2, <1>3 DEF Ahead, FindsTheDeposit

(* A step that asks for something else or ends the poll.                   *)
LEMMA ElsewhereKeepsAhead ==
  ASSUME Ahead, UNCHANGED <<rows, lookup>>, poll'.at # "page" \/ poll' = poll
  PROVE  Ahead'
BY DEF Ahead, FindsTheDeposit

LEMMA PageLength ==
  ASSUME rows \in Rows, NEW offset \in Nat, NEW page \in Pages(offset)
  PROVE  page.length \in Nat
<1> DEFINE rest == IF offset < Total THEN Total - offset ELSE 0
           most == Least(PageSize, rest)
<1>1. Total \in Nat /\ PageSize \in Nat
  BY PageAssumption DEF Rows, Total
<1>2. rest \in Nat
  BY <1>1
<1>3. most \in Nat /\ Least(1, rest) \in Nat
  BY <1>1, <1>2 DEF Least
<1>4. page.length \in Least(1, rest)..most \/ page.length = most
  BY DEF Pages
<1> HIDE DEF most
<1> QED
  BY <1>3, <1>4

(* The last page is the one behind which the list ends.                    *)
LEMMA LastPage ==
  ASSUME rows \in Rows, Ahead, lookup.listed, lookup.offset <= rows.newer,
         NEW page \in Pages(lookup.offset), ~Contains(page, lookup.offset)
  PROVE  /\ page.length \in Nat
         /\ NextOffset(lookup.offset, page) <= rows.newer
         /\ ~IsLastPage(page, NextOffset(lookup.offset, page))
<1> DEFINE offset == lookup.offset
           rest   == Total - offset
           most   == Least(PageSize, rest)
<1>1. /\ rows.newer \in Nat /\ rows.older \in Nat /\ rows.listed
      /\ offset \in Nat /\ PageSize \in Nat \ {0}
  BY PageAssumption DEF Ahead, Rows
<1>2. Total \in Nat /\ rows.newer < Total /\ rest \in Nat /\ 1 <= rest
  BY <1>1 DEF Total
<1>3. most \in Nat /\ 1 <= most /\ (most = PageSize \/ most = rest) /\ Least(1, rest) = 1
  BY <1>1, <1>2 DEF Least
<1> HIDE DEF most
<1>4. \/ page \in [length: 1..most, total: {Total}]
      \/ page \in [length: {most}, total: {None}]
  <2>1. offset < Total
    BY <1>1, <1>2
  <2>2. Pages(offset) = [length: Least(1, rest)..most, total: {Total}]
                          \cup [length: {most}, total: {None}]
    BY <2>1 DEF Pages, most
  <2> QED
    BY <1>3, <2>2
<1>5. page.length \in 1..most
  BY <1>3, <1>4
<1>6. offset + page.length <= rows.newer
  BY <1>1, <1>3, <1>5 DEF Contains
<1>7. page.total # None => page.total = Total
  BY <1>4
<1>8. page.total = None => page.length = most
  BY <1>2, <1>4, PageAssumption
<1>9. page.total = None => page.length >= PageSize
  <2>1. SUFFICES ASSUME page.total = None, most = rest PROVE FALSE
    BY <1>1, <1>3, <1>8
  <2> QED
    BY <1>1, <1>2, <1>6, <1>8, <2>1
<1> QED
  BY <1>1, <1>2, <1>3, <1>5, <1>6, <1>7, <1>9 DEF IsLastPage, NextOffset

-----------------------------------------------------------------------------
LEMMA UnminedTells == /\ Unmined \in Observation /\ TrueSeen(Unmined)
                      /\ Pending \in Observation /\ TrueSeen(Pending)
                      /\ Confirmed \in Observation /\ TrueSeen(Confirmed)
BY DEF Unmined, Pending, Confirmed, Seen, Observation, TrueSeen

(* An attestation of this deposit is this deposit's, and signed.           *)
LEMMA AttestedIntent ==
  ASSUME NEW intent \in FindDepositAttestation(Attestations("own"), "own")
  PROVE  intent = "own" /\ attested
<1>1. PICK a \in Attestations("own") : ReadMatchingIntent(a, "own") /\ intent = a.payload
  BY DEF FindDepositAttestation
<1>2. /\ intent \in Payloads("own")
      /\ intent # "unreadable" /\ SameTerms(intent, "own")
  BY <1>1 DEF Attestations, ReadMatchingIntent
<1> QED
  BY <1>2 DEF Payloads

(* Every step of a deposit's poll through Circle.                          *)
LEMMA CircleKeepsKnown ==
  ASSUME Known, CircleStep
  PROVE  Known' /\ UNCHANGED <<rows, lookup>> /\ poll'.at # "page"
<1>1. UNCHANGED chains /\ UNCHANGED <<rows, lookup>>
  BY DEF CircleStep, StartPoll, RecoverSource, CheckDelivery, FindSourceReceipt,
         ReadSourceBlock, FindForwarding, ReadForwardedDeposit, ReadArcBlock,
         GetDepositAttestation, ReadFails, chains
<1>2. saved \in Saved /\ poll \in Poll /\ Told(saved) /\ Knows(poll)
  BY DEF Known
<1>3. CASE StartPoll
  <2> DEFINE p == [NoPoll EXCEPT !.hash = saved.hash]
  <2>1. p \in Poll /\ "receipt" \in Read
    BY <1>2 DEF NoPoll, Poll, Read, Hint, Saved
  <2>2. Knows([p EXCEPT !.at = "receipt"])
    BY <1>2 DEF NoPoll, Knows, Told
  <2>3. Ask(p, "receipt") /\ UNCHANGED saved
    BY <1>3 DEF StartPoll
  <2> QED
    BY <1>1, <2>1, <2>2, <2>3, AskKnows
<1>4. CASE RecoverSource
  <2>1. CASE Observed(poll.seen)
    BY <1>1, <1>2, <1>4, <2>1, ObservedKnows, UnminedTells DEF RecoverSource, Knows
  <2>2. CASE tx \in {"cancelled", "replaced"} /\ Report([saved EXCEPT !.status = "failed"])
    BY <1>1, <2>2, FailedTells, ReportKnows DEF Failed
  <2>3. CASE /\ tx \in {"repriced", "repriced-reverted"}
             /\ Ask([poll EXCEPT !.hash = "repriced", !.again = TRUE], "receipt")
             /\ UNCHANGED saved
    <3> DEFINE p == [poll EXCEPT !.hash = "repriced", !.again = TRUE]
    <3>1. p \in Poll /\ "receipt" \in Read /\ p.exits = poll.exits
      BY <1>2 DEF Poll, Read
    <3>2. Knows([p EXCEPT !.at = "receipt"])
      BY <1>2, <2>3, <3>1 DEF Poll, Knows
    <3> QED
      BY <1>1, <2>3, <3>1, <3>2, AskKnows
  <2> QED
    BY <1>4, <2>1, <2>2, <2>3 DEF RecoverSource
<1>5. CASE CheckDelivery
  <2>1. /\ poll.seen \in Observation /\ TrueSeen(poll.seen)
        /\ poll.seen.status # "reverted" /\ poll.seen.intent = "own"
    BY <1>2, <1>5 DEF CheckDelivery, Knows
  <2>2. PICK found \in {FALSE} \cup {delivered} :
          Report(IF found THEN [Progress(poll.seen) EXCEPT !.status = "complete"]
                 ELSE Progress(poll.seen))
    BY <1>5, <2>1 DEF CheckDelivery, NoteBlocks, Created
  <2>3. Progress(poll.seen) \in Saved /\ Told(Progress(poll.seen))
    BY <2>1, ProgressTells
  <2>4. CASE found
    <3> DEFINE fields == [Progress(poll.seen) EXCEPT !.status = "complete"]
    <3>1. fields \in Saved /\ Told(fields)
      BY <2>2, <2>3, <2>4 DEF Saved, Told
    <3> QED
      BY <1>1, <2>2, <2>4, <3>1, ReportKnows
  <2>5. CASE ~found
    BY <1>1, <2>2, <2>3, <2>5, ReportKnows
  <2> QED
    BY <2>4, <2>5
<1>6. CASE FindSourceReceipt
  <2>1. PICK outcome \in {"missing", OutcomeOf(poll.hash)} :
          CASE outcome = "missing"  -> Reply(Unmined)
            [] outcome = "reverted" -> Reply(Reverted)
            [] outcome = "success"  ->
                 /\ Ask([poll EXCEPT !.deposit = ReadSourceBurn], "block")
                 /\ UNCHANGED saved
    BY <1>6 DEF FindSourceReceipt
  <2>2. CASE outcome = "missing"
    BY <1>1, <2>1, <2>2, ReplyKnows, UnminedTells
  <2>3. CASE outcome = "reverted"
    <3>1. tx \in Failed
      BY <2>1, <2>3 DEF OutcomeOf, Failed
    <3>2. Reverted \in Observation /\ TrueSeen(Reverted)
      BY <3>1 DEF Reverted, Seen, Observation, TrueSeen
    <3> QED
      BY <1>1, <2>1, <2>3, <3>2, ReplyKnows
  <2>4. CASE outcome = "success"
    <3> DEFINE p == [poll EXCEPT !.deposit = "own"]
    <3>1. p \in Poll /\ "block" \in Read /\ p.deposit = "own"
      BY <1>2 DEF Poll, Read, Deposit
    <3>2. Knows([p EXCEPT !.at = "block"])
      BY <1>2, <3>1 DEF Poll, Knows
    <3>3. Ask(p, "block") /\ UNCHANGED saved
      BY <2>1, <2>4 DEF ReadSourceBurn
    <3> QED
      BY <1>1, <3>1, <3>2, <3>3, AskKnows
  <2>5. outcome \in {"missing", "reverted", "success"}
    BY DEF OutcomeOf
  <2> QED
    BY <2>2, <2>3, <2>4, <2>5
<1>7. CASE ReadSourceBlock
  <2>1. PICK read \in {"messages", "attestations"} : Ask(poll, read) /\ UNCHANGED saved
    BY <1>7 DEF ReadSourceBlock
  <2>2. read \in Read /\ Knows([poll EXCEPT !.at = read])
    BY <1>2, <1>7 DEF ReadSourceBlock, Knows, Poll, Read
  <2> QED
    BY <1>1, <1>2, <2>1, <2>2, AskKnows
<1>8. CASE FindForwarding
  <2>1. CASE Reply(Pending)
    BY <1>1, <2>1, ReplyKnows, UnminedTells
  <2>2. CASE ~Reply(Pending)
    <3>1. PICK t \in Forwardings(Messages) :
            Ask([poll EXCEPT !.hint = t], "arc-receipt") /\ UNCHANGED saved
      BY <1>8, <2>2 DEF FindForwarding
    <3>2. t \in ArcTransaction
      BY DEF Forwardings, Messages
    <3> DEFINE p == [poll EXCEPT !.hint = t]
    <3>3. p \in Poll /\ p.hint = t /\ "arc-receipt" \in Read
      BY <1>2, <3>2 DEF Poll, Read, Hint, ArcTransaction
    <3>4. Knows([p EXCEPT !.at = "arc-receipt"])
      BY <1>2, <1>8, <3>2 DEF FindForwarding, Poll, Knows
    <3> QED
      BY <1>1, <3>1, <3>3, <3>4, AskKnows
  <2> QED
    BY <2>1, <2>2
<1>9. CASE ReadForwardedDeposit
  <2>1. poll.hint \in ArcTransaction
    BY <1>2, <1>9 DEF ReadForwardedDeposit, Knows
  <2>2. CASE Reply(Pending)
    BY <1>1, <2>2, ReplyKnows, UnminedTells
  <2>3. CASE Threw
    BY <1>1, <2>3, ThrewKnows
  <2>4. CASE ~Reply(Pending) /\ ~Threw
    <3>1. AssertForwardedExecution(poll.hint) /\ OneDeposit(poll.hint)
      BY <1>9, <2>4 DEF ReadForwardedDeposit
    <3>2. PICK d \in poll.hint.deposits :
            Ask([poll EXCEPT !.hint = None, !.deposit = d], "arc-block")
      BY <1>9, <2>4 DEF ReadForwardedDeposit
    <3>3. d = "own" /\ UNCHANGED saved
      BY <1>9, <2>1, <2>4, <3>1, <3>2
         DEF ReadForwardedDeposit, ArcTransaction, AssertForwardedExecution, OneDeposit
    <3> DEFINE p == [poll EXCEPT !.hint = None, !.deposit = d]
    <3>4. p \in Poll /\ "arc-block" \in Read
      BY <1>2, <3>3 DEF Poll, Read, Hint, Deposit
    <3>5. Knows([p EXCEPT !.at = "arc-block"])
      BY <1>2, <3>3 DEF Poll, Knows
    <3> QED
      BY <1>1, <3>2, <3>3, <3>4, <3>5, AskKnows
  <2> QED
    BY <2>2, <2>3, <2>4
<1>10. CASE ReadArcBlock
  <2>1. "attestations" \in Read /\ Knows([poll EXCEPT !.at = "attestations"])
    BY <1>2, <1>10 DEF ReadArcBlock, Knows, Poll, Read
  <2> QED
    BY <1>1, <1>2, <1>10, <2>1, AskKnows DEF ReadArcBlock
<1>11. CASE GetDepositAttestation
  <2>1. poll.deposit = "own"
    BY <1>2, <1>11 DEF GetDepositAttestation, Knows
  <2>2. CASE Threw
    BY <1>1, <2>2, ThrewKnows
  <2>3. CASE Reply(Confirmed)
    BY <1>1, <2>3, ReplyKnows, UnminedTells
  <2>4. CASE ~Threw /\ ~Reply(Confirmed)
    <3>1. PICK intent \in FindDepositAttestation(Attestations("own"), "own") :
            Reply(Seen("attested", TRUE, intent))
      BY <1>11, <2>1, <2>4 DEF GetDepositAttestation, Verified
    <3>2. intent = "own" /\ attested
      BY AttestedIntent
    <3> DEFINE seen == Seen("attested", TRUE, intent)
    <3>3. seen \in Observation /\ TrueSeen(seen)
      BY <3>2 DEF Seen, Observation, TrueSeen, Deposit
    <3> QED
      BY <1>1, <3>1, <3>3, ReplyKnows
  <2> QED
    BY <2>2, <2>3, <2>4
<1>12. CASE ReadFails
  <2>1. CASE poll.at = "delivery"
    <3>1. Report(Progress(poll.seen))
      BY <1>12, <2>1 DEF ReadFails, KnowsItsBurn
    <3> QED
      BY <1>1, <1>2, <2>1, <3>1, ProgressTells, ReportKnows DEF Knows
  <2>2. CASE poll.at = "recover"
    <3>1. Observed(poll.seen)
      BY <1>12, <2>2 DEF ReadFails, KnowsItsBurn
    <3> QED
      BY <1>1, <1>2, <2>2, <3>1, ObservedKnows, UnminedTells DEF Knows
  <2>3. CASE poll.at \notin {"delivery", "recover"}
    <3>1. Reply(Confirmed) \/ Reply(Pending) \/ Threw
      BY <1>12, <2>3 DEF ReadFails, Verified
    <3> QED
      BY <1>1, <3>1, ReplyKnows, UnminedTells, ThrewKnows
  <2> QED
    BY <2>1, <2>2, <2>3
<1> QED
  BY <1>1, <1>3, <1>4, <1>5, <1>6, <1>7, <1>8, <1>9, <1>10, <1>11, <1>12
     DEF CircleStep
-----------------------------------------------------------------------------
(* Every step of a lookup.                                                 *)
LEMMA LookupKeeps ==
  ASSUME Known, Ahead, LookupStep PROVE Known' /\ Ahead'
<1>1. UNCHANGED chains /\ rows' = rows
  BY DEF LookupStep, StartLookup, LocateTransaction, VerifyHeader, ReadPage,
         LookupFails, chains
<1>2. saved \in Saved /\ poll \in Poll /\ rows \in Rows /\ Told(saved) /\ Knows(poll)
  BY DEF Known
<1>3. ASSUME BeginLookup PROVE Ahead'
  <2>1. lookup' = [offset |-> 0, pages |-> 0, listed |-> rows.listed,
                   result |-> "reading"]
    BY <1>3 DEF BeginLookup, NoLookup
  <2> QED
    BY <1>1, <1>2, <2>1 DEF Ahead, Rows, FindsTheDeposit
<1>4. CASE StartLookup
  <2> DEFINE p == [NoPoll EXCEPT !.hash = saved.hash]
  <2>1. p \in Poll /\ {"locate", "page"} \subseteq Read
    BY <1>2 DEF NoPoll, Poll, Read, Hint, Saved
  <2>2. Knows([p EXCEPT !.at = "locate"]) /\ Knows([p EXCEPT !.at = "page"])
    BY <1>2 DEF NoPoll, Knows, Told
  <2>3. CASE Ask(p, "locate") /\ UNCHANGED lookup
    BY <1>1, <1>4, <2>1, <2>2, <2>3, AskKnows, ElsewhereKeepsAhead DEF StartLookup
  <2>4. CASE Ask(p, "page") /\ BeginLookup
    BY <1>1, <1>3, <1>4, <2>1, <2>2, <2>4, AskKnows DEF StartLookup
  <2> QED
    BY <1>4, <2>3, <2>4 DEF StartLookup
<1>5. CASE LocateTransaction
  <2>1. UNCHANGED lookup
    BY <1>5 DEF LocateTransaction
  <2>2. CASE Report(saved)
    BY <1>1, <1>2, <2>1, <2>2, ReportKnows, ElsewhereKeepsAhead
  <2>3. CASE ~Report(saved)
    <3>1. PICK block \in {"wrong"} \cup (IF tx = "mined" THEN {"own"} ELSE {}) :
            Ask([poll EXCEPT !.hint = block], "header") /\ UNCHANGED saved
      BY <1>5, <2>3 DEF LocateTransaction
    <3>2. block \in {"wrong", "own"} /\ (block = "own" => tx = "mined")
      OBVIOUS
    <3> DEFINE p == [poll EXCEPT !.hint = block]
    <3>3. p \in Poll /\ p.hint = block /\ "header" \in Read
      BY <1>2, <3>2 DEF Poll, Read, Hint
    <3>4. Knows([p EXCEPT !.at = "header"])
      BY <1>2, <3>2 DEF Poll, Knows
    <3> QED
      BY <1>1, <2>1, <3>1, <3>3, <3>4, AskKnows, ElsewhereKeepsAhead
  <2> QED
    BY <2>2, <2>3
<1>6. CASE VerifyHeader
  <2>1. CASE poll.hint = "own"
    <3> DEFINE p == [poll EXCEPT !.exits = TRUE]
    <3>1. p \in Poll /\ "page" \in Read
      BY <1>2 DEF Poll, Read
    <3>2. Knows([p EXCEPT !.at = "page"])
      BY <1>2, <1>6, <2>1 DEF VerifyHeader, Poll, Knows
    <3> QED
      BY <1>1, <1>3, <1>6, <2>1, <3>1, <3>2, AskKnows DEF VerifyHeader
  <2>2. CASE poll.hint # "own"
    BY <1>1, <1>2, <1>6, <2>2, ReportKnows, ElsewhereKeepsAhead DEF VerifyHeader
  <2> QED
    BY <2>1, <2>2
<1>7. CASE ReadPage
  <2> DEFINE offset(page) == NextOffset(lookup.offset, page)
             exits == saved.exits \/ poll.exits
  <2>1. PICK page \in Pages(lookup.offset) :
          CASE Contains(page, lookup.offset) ->
                 /\ Conclude("found")
                 /\ Report([saved EXCEPT !.found = TRUE, !.exits = exits])
            [] ~Contains(page, lookup.offset) /\ IsLastPage(page, offset(page)) ->
                 /\ Conclude("missing")
                 /\ Report([saved EXCEPT !.exits = exits])
            [] OTHER ->
                 /\ lookup' = [lookup EXCEPT !.offset = offset(page), !.pages = @ + 1]
                 /\ UNCHANGED <<saved, poll, rpc>>
    BY <1>7 DEF ReadPage
  <2>2. exits \in BOOLEAN /\ (exits => tx = "mined")
    BY <1>2 DEF Saved, Poll, Told, Knows
  <2>3. CASE Contains(page, lookup.offset)
    <3> DEFINE fields == [saved EXCEPT !.found = TRUE, !.exits = exits]
    <3>1. fields \in Saved /\ Told(fields)
      BY <1>2, <2>2, <2>3 DEF Saved, Told, Contains
    <3>2. Known' /\ poll'.at # "page"
      BY <1>1, <2>1, <2>3, <3>1, ReportKnows
    <3>3. Ahead'
      BY <1>1, <2>1, <2>3, <3>2 DEF Ahead, Conclude, FindsTheDeposit
    <3> QED
      BY <3>2, <3>3
  <2>4. CASE ~Contains(page, lookup.offset) /\ IsLastPage(page, offset(page))
    <3> DEFINE fields == [saved EXCEPT !.exits = exits]
    <3>1. fields \in Saved /\ Told(fields)
      BY <1>2, <2>2 DEF Saved, Told
    <3>2. Known' /\ poll'.at # "page"
      BY <1>1, <2>1, <2>4, <3>1, ReportKnows
    <3>3. ~lookup.listed
      BY <1>2, <1>7, <2>4, LastPage DEF ReadPage, Ahead
    <3>4. Ahead'
      BY <1>1, <2>1, <2>4, <3>2, <3>3 DEF Ahead, Conclude, FindsTheDeposit
    <3> QED
      BY <3>2, <3>4
  <2>5. CASE ~Contains(page, lookup.offset) /\ ~IsLastPage(page, offset(page))
    <3>1. /\ lookup' = [lookup EXCEPT !.offset = offset(page), !.pages = @ + 1]
          /\ UNCHANGED <<saved, poll, rpc>>
      BY <2>1, <2>5
    <3>2. Known'
      BY <1>1, <3>1 DEF Known, Told, Knows, chains, TrueSeen, ArcTransaction
    <3>3. lookup.listed => offset(page) <= rows.newer
      BY <1>2, <1>7, <2>5, LastPage DEF ReadPage, Ahead
    <3>4. offset(page) \in Nat
      BY <1>2, PageLength DEF Ahead, NextOffset
    <3>5. lookup' = [offset |-> offset(page), pages |-> lookup.pages + 1,
                     listed |-> lookup.listed, result |-> lookup.result]
      BY <3>1 DEF Ahead
    <3>6. lookup.pages + 1 \in Nat
      BY DEF Ahead
    <3> HIDE DEF offset
    <3>7. lookup' \in [offset: Nat, pages: Nat, listed: BOOLEAN,
                       result: {"none", "reading", "found", "missing", "failed"}]
      BY <3>4, <3>5, <3>6 DEF Ahead
    <3>8. Ahead'
      BY <1>1, <3>3, <3>5, <3>7 DEF Ahead, FindsTheDeposit
    <3> QED
      BY <3>2, <3>8
  <2> QED
    BY <2>3, <2>4, <2>5
<1>8. CASE LookupFails
  <2>1. Known' /\ poll'.at # "page"
    BY <1>1, <1>8, ThrewKnows DEF LookupFails
  <2>2. lookup' = lookup \/ lookup' = [lookup EXCEPT !.result = "failed"]
    BY <1>8 DEF LookupFails, Conclude
  <2> QED
    BY <1>1, <2>1, <2>2 DEF Ahead, FindsTheDeposit
<1> QED
  BY <1>4, <1>5, <1>6, <1>7, <1>8 DEF LookupStep

LEMMA AllKept == Known /\ Ahead /\ [Next]_vars => Known' /\ Ahead'
<1> SUFFICES ASSUME Known, Ahead, [Next]_vars PROVE Known' /\ Ahead'
  OBVIOUS
<1>1. CASE World
  BY <1>1, WorldKeepsKnown, WorldKeepsAhead DEF Known
<1>2. CASE CircleStep
  BY <1>2, CircleKeepsKnown, ElsewhereKeepsAhead
<1>3. CASE LookupStep
  BY <1>3, LookupKeeps
<1>4. CASE Abandon
  <2>1. /\ poll' = NoPoll /\ UNCHANGED <<saved, lookup, rows, tx, forwarded, attested, delivered>>
    BY <1>4 DEF Abandon, EndPoll, chains
  <2>2. poll' \in Poll /\ Knows(poll)' /\ poll'.at # "page"
    BY <2>1 DEF NoPoll, Poll, Read, Hint, Knows
  <2> QED
    BY <2>1, <2>2, ElsewhereKeepsAhead DEF Known, Told
<1>5. CASE NextProvider \/ UNCHANGED vars
  <2>1. UNCHANGED <<saved, poll, lookup, rows, tx, forwarded, attested, delivered>>
    BY <1>5 DEF NextProvider, vars, chains
  <2> QED
    BY <2>1, ElsewhereKeepsAhead DEF Known, Told, Knows, TrueSeen, ArcTransaction
<1> QED
  BY <1>1, <1>2, <1>3, <1>4, <1>5 DEF Next

LEMMA AllStart == Init => Known /\ Ahead
BY DEF Init, Known, Ahead, Saved, Poll, NoPoll, Read, Hint, Rows, Told, Knows,
       NoLookup, FindsTheDeposit

(* A receipt says of the transfer only what has happened to it.            *)
THEOREM ReportsAreTrue == Spec => []TrueReports
<1>1. Known => TrueReports
  BY DEF Known, Told, TrueReports
<1> QED
  BY <1>1, AllStart, AllKept, PTL DEF Spec

(* No lookup passes over a deposit that was in the list when it began.     *)
THEOREM ListedDepositsAreFound == Spec => []FindsTheDeposit
<1>1. Ahead => FindsTheDeposit
  BY DEF Ahead
<1> QED
  BY <1>1, AllStart, AllKept, PTL DEF Spec
=============================================================================
