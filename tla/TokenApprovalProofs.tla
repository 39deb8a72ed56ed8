-------------------------- MODULE TokenApprovalProofs --------------------------
(***************************************************************************)
(* For any number of pages, transactions and amounts: what a page and the  *)
(* storage know of an approval is true of the account's transactions.  For *)
(* one page: it never asks for a second signature while an approval is     *)
(* outstanding, and neither a deposit nor a larger approval overtakes one. *)
(***************************************************************************)
EXTENDS MCTokenApproval, TLAPS

Step == {"saved", "reset", "approve"}

(* The records that are true of the account: of one of its transactions,   *)
(* with the amount it was signed for, and replaced only if mined.          *)
Records ==
  {p \in PendingApproval :
     /\ p.nonce <= Len(sent)
     /\ p.nonce = 0 => p = Nothing
     /\ p.nonce > 0 => sent[p.nonce].amount = p.amount
     /\ p.reason # "none" => p.nonce <= mined}

CacheOf(R) == [memory: R, unsaved: BOOLEAN]
PageOf(R)  == [pc: Pc, want: Amount, step: Step, pending: R]

ChainOK ==
  /\ sent \in Seq(Transaction) /\ Len(sent) <= MaxSent
  /\ mined \in 0..Len(sent) /\ allowance \in Amount

(* The steps of an attempt that are about a transaction.                   *)
OfOne == {"recover", "satisfied", "answered", "capture", "wait"}

TypeInv ==
  /\ ChainOK
  /\ disk \in Records
  /\ cache \in [Tab -> CacheOf(Records)]
  /\ page \in [Tab -> PageOf(Records)]
  /\ \A t \in Tab : /\ page[t].pc \in OfOne => page[t].pending.nonce > 0
                    /\ page[t].pc # "idle" => page[t].want > 0
  /\ lost \subseteq 1..Len(sent) /\ retired \subseteq 1..Len(sent)
  /\ flow \in {"agglayer", "usdc"}

-----------------------------------------------------------------------------
(* An approval that may still be mined, and a deposit that may.            *)
Live(n)     == InFlight(n) /\ Approval(n)
Awaiting(d) == InFlight(d) /\ sent[d].call = "deposit"

(* The transactions of the account stay what they were signed for.         *)
Ages ==
  /\ ChainOK' /\ Len(sent') = Len(sent) /\ mined <= mined'
  /\ \A n \in 1..Len(sent) : /\ sent'[n].amount = sent[n].amount
                             /\ Live(n)' => Live(n)
                             /\ Awaiting(n)' => Awaiting(n)
  /\ \/ allowance' <= allowance
     \/ \E n \in 1..Len(sent) : Live(n) /\ ~Live(n)'

LEMMA SentIsTransaction ==
  ASSUME ChainOK, NEW n \in 1..Len(sent)
  PROVE  sent[n] \in Transaction
BY DEF ChainOK

LEMMA NetworkAges ==
  ASSUME ChainOK, Network
  PROVE  Ages /\ UNCHANGED <<disk, cache, page, lost, retired>>
<1>1. ASSUME NEW ok \in BOOLEAN, Mine(ok)
      PROVE  Ages /\ UNCHANGED <<disk, cache, page, lost, retired>>
  <2> DEFINE n == mined + 1
  <2>1. /\ n \in 1..Len(sent) /\ InFlight(n)
        /\ mined' = n /\ sent' = [sent EXCEPT ![n].ok = ok]
        /\ sent[n].call = "deposit" => (ok <=> allowance >= sent[n].amount)
    BY <1>1 DEF Mine, InFlight, ChainOK
  <2>2. sent[n] \in Transaction /\ allowance \in Amount
    BY <2>1, SentIsTransaction DEF ChainOK
  <2>3. PICK tx : tx = [sent[n] EXCEPT !.ok = ok]
    OBVIOUS
  <2>4. tx \in Transaction /\ tx.amount = sent[n].amount /\ tx.call = sent[n].call
    BY <2>2, <2>3 DEF Transaction
  <2>5. sent' = [sent EXCEPT ![n] = tx]
    BY <2>1, <2>3
  <2>6. /\ sent' \in Seq(Transaction) /\ Len(sent') = Len(sent)
        /\ \A m \in 1..Len(sent) : /\ sent'[m].amount = sent[m].amount
                                   /\ sent'[m].call = sent[m].call
    BY <2>1, <2>4, <2>5 DEF ChainOK
  <2>7. \/ /\ ok /\ sent[n].call = "approve" /\ allowance' = sent[n].amount
        \/ /\ ok /\ sent[n].call = "deposit"
           /\ allowance' = allowance - sent[n].amount
        \/ allowance' = allowance
    BY <1>1 DEF Mine
  <2>8. allowance' \in Amount /\ (allowance' <= allowance \/ sent[n].call = "approve")
    <3>1. sent[n].amount \in 0..MaxAmount /\ MaxAmount \in Nat
      BY <2>2, BoundAssumption DEF Transaction, Amount
    <3> QED
      BY <2>1, <2>2, <2>7, <3>1 DEF Amount
  <2>9. ChainOK'
    BY <2>1, <2>6, <2>8 DEF ChainOK
  <2>10. \A m \in 1..Len(sent) : /\ Live(m)' => Live(m)
                                 /\ Awaiting(m)' => Awaiting(m)
                                 /\ m = n => ~Live(m)'
    BY <2>1, <2>6 DEF Live, Awaiting, InFlight, Approval, ChainOK
  <2>11. sent[n].call = "approve" => Live(n)
    BY <2>1 DEF Live, Approval
  <2> HIDE DEF n
  <2> QED
    BY <1>1, <2>1, <2>6, <2>8, <2>9, <2>10, <2>11 DEF Ages, Mine, ChainOK
<1>2. ASSUME NEW n \in 1..Len(sent), NEW call \in {"approve", "cancelled"},
             Replace(n, call)
      PROVE  Ages /\ UNCHANGED <<disk, cache, page, lost, retired>>
  <2>1. /\ Live(n) /\ sent' = [sent EXCEPT ![n].call = call, ![n].version = 1]
        /\ UNCHANGED <<mined, allowance>>
    BY <1>2 DEF Replace, Live
  <2>2. sent[n] \in Transaction
    BY SentIsTransaction
  <2>3. PICK tx : tx = [sent[n] EXCEPT !.call = call, !.version = 1]
    OBVIOUS
  <2>4. tx \in Transaction /\ tx.amount = sent[n].amount /\ tx.call = call
    <3>1. call \in {"approve", "deposit", "cancelled"} /\ 1 \in 0..1
      OBVIOUS
    <3> QED
      BY <2>2, <2>3, <3>1 DEF Transaction
  <2>5. sent' = [sent EXCEPT ![n] = tx]
    BY <2>1, <2>3
  <2>6. /\ sent' \in Seq(Transaction) /\ Len(sent') = Len(sent)
        /\ \A m \in 1..Len(sent) : /\ sent'[m].amount = sent[m].amount
                                   /\ m # n => sent'[m].call = sent[m].call
                                   /\ m = n => sent'[m].call = call
    BY <2>4, <2>5 DEF ChainOK
  <2>7. ChainOK'
    BY <2>1, <2>6 DEF ChainOK
  <2>8. \A m \in 1..Len(sent) : /\ Live(m)' => Live(m)
                                /\ Awaiting(m)' => Awaiting(m)
    BY <2>1, <2>6 DEF Live, Awaiting, InFlight, Approval, ChainOK
  <2> QED
    BY <1>2, <2>1, <2>6, <2>7, <2>8 DEF Ages, Replace, ChainOK, Amount
<1> QED
  BY <1>1, <1>2 DEF Network

(* A page's own transaction comes last.                                    *)
LEMMA BroadcastAppends ==
  ASSUME ChainOK, NEW call \in {"approve", "deposit"}, NEW amount \in Amount,
         Broadcast(call, amount)
  PROVE  /\ ChainOK' /\ Len(sent') = Len(sent) + 1
         /\ UNCHANGED <<mined, allowance>>
         /\ sent'[Len(sent) + 1].call = call
         /\ sent'[Len(sent) + 1].amount = amount
         /\ Len(sent) + 1 \in 1..MaxSent
         /\ \A n \in 1..Len(sent) : /\ sent'[n] = sent[n]
                                    /\ Live(n)' <=> Live(n)
                                    /\ Awaiting(n)' <=> Awaiting(n)
<1>1. PICK tx : tx = [call |-> call, amount |-> amount, version |-> 0, ok |-> FALSE]
  OBVIOUS
<1>2. tx \in Transaction /\ tx.call = call /\ tx.amount = amount
  BY <1>1 DEF Transaction
<1>3. /\ sent' = Append(sent, tx) /\ Len(sent) < MaxSent
      /\ UNCHANGED <<mined, allowance>>
  BY <1>1 DEF Broadcast
<1>4. /\ sent' \in Seq(Transaction) /\ Len(sent') = Len(sent) + 1
      /\ sent'[Len(sent) + 1] = tx
      /\ \A n \in 1..Len(sent) : sent'[n] = sent[n]
  BY <1>2, <1>3 DEF ChainOK
<1>5. MaxSent \in Nat /\ Len(sent) \in Nat
  BY BoundAssumption DEF ChainOK
<1>6. ChainOK' /\ Len(sent) + 1 \in 1..MaxSent
  BY <1>3, <1>4, <1>5 DEF ChainOK
<1>7. \A n \in 1..Len(sent) : /\ Live(n)' <=> Live(n)
                              /\ Awaiting(n)' <=> Awaiting(n)
  BY <1>3, <1>4, <1>5 DEF Live, Awaiting, InFlight, Approval, ChainOK
<1> QED
  BY <1>2, <1>3, <1>4, <1>6, <1>7

(* What is known of the account stays true.                                *)
LEMMA RecordsLast ==
  ASSUME ChainOK, \/ Ages
                  \/ UNCHANGED chain
                  \/ \E call \in {"approve", "deposit"}, amount \in Amount :
                       Broadcast(call, amount)
  PROVE  Records \subseteq Records' /\ ChainOK' /\ Len(sent) <= Len(sent')
<1>1. /\ ChainOK' /\ Len(sent) <= Len(sent') /\ mined <= mined'
      /\ \A n \in 1..Len(sent) : sent'[n].amount = sent[n].amount
  <2>1. CASE Ages
    BY <2>1 DEF Ages, ChainOK
  <2>2. CASE UNCHANGED chain
    BY <2>2 DEF chain, ChainOK
  <2>3. CASE \E call \in {"approve", "deposit"}, amount \in Amount :
               Broadcast(call, amount)
    BY <2>3, BroadcastAppends DEF ChainOK
  <2> QED
    BY <2>1, <2>2, <2>3
<1>2. ASSUME NEW p \in Records PROVE p \in Records'
  <2>1. p \in PendingApproval /\ p.nonce \in Nat
    BY BoundAssumption DEF Records, PendingApproval
  <2> QED
    BY <1>1, <2>1 DEF Records, ChainOK
<1> QED
  BY <1>1, <1>2

-----------------------------------------------------------------------------
(* What the parts of a step do to the page and to the storage.             *)
Moved(t, pc, step, pending) ==
  page' = [page EXCEPT ![t] = [pc |-> pc, want |-> page[t].want, step |-> step,
                               pending |-> pending]]

LEMMA PageMoves ==
  ASSUME NEW R, page \in [Tab -> PageOf(R)], NEW t \in Tab,
         NEW x \in Pc, NEW s \in Step, NEW p \in R
  PROVE  /\ Goto(t, x) => Moved(t, x, page[t].step, page[t].pending)
         /\ page' = [page EXCEPT ![t].pc = x, ![t].pending = p] =>
              Moved(t, x, page[t].step, p)
         /\ page' = [page EXCEPT ![t].pc = x, ![t].step = s, ![t].pending = p] =>
              Moved(t, x, s, p)
<1>1. PICK q \in PageOf(R) : q = page[t]
  OBVIOUS
<1>2. ASSUME NEW k \in PageOf(R)
      PROVE  k = [pc |-> k.pc, want |-> k.want, step |-> k.step,
                  pending |-> k.pending]
  BY DEF PageOf
<1>3. Goto(t, x) => Moved(t, x, page[t].step, page[t].pending)
  <2>1. PICK k : k = [q EXCEPT !.pc = x]
    OBVIOUS
  <2>2. k \in PageOf(R) /\ k.pc = x /\ k.want = q.want /\ k.step = q.step
        /\ k.pending = q.pending
    BY <2>1 DEF PageOf
  <2>3. k = [pc |-> x, want |-> q.want, step |-> q.step, pending |-> q.pending]
    BY <1>2, <2>2
  <2>4. Goto(t, x) => page' = [page EXCEPT ![t] = k]
    BY <1>1, <2>1 DEF Goto
  <2> QED
    BY <1>1, <2>3, <2>4 DEF Moved
<1>4. page' = [page EXCEPT ![t].pc = x, ![t].pending = p] =>
        Moved(t, x, page[t].step, p)
  <2>1. PICK k : k = [q EXCEPT !.pc = x, !.pending = p]
    OBVIOUS
  <2>2. k \in PageOf(R) /\ k.pc = x /\ k.want = q.want /\ k.step = q.step
        /\ k.pending = p
    BY <2>1 DEF PageOf
  <2>3. k = [pc |-> x, want |-> q.want, step |-> q.step, pending |-> p]
    BY <1>2, <2>2
  <2>4. [page EXCEPT ![t].pc = x, ![t].pending = p] = [page EXCEPT ![t] = k]
    BY <1>1, <2>1
  <2> QED
    BY <1>1, <2>3, <2>4 DEF Moved
<1>5. page' = [page EXCEPT ![t].pc = x, ![t].step = s, ![t].pending = p] =>
        Moved(t, x, s, p)
  <2>1. PICK k : k = [q EXCEPT !.pc = x, !.step = s, !.pending = p]
    OBVIOUS
  <2>2. k \in PageOf(R) /\ k.pc = x /\ k.want = q.want /\ k.step = s
        /\ k.pending = p
    BY <2>1 DEF PageOf
  <2>3. k = [pc |-> x, want |-> q.want, step |-> s, pending |-> p]
    BY <1>2, <2>2
  <2>4. [page EXCEPT ![t].pc = x, ![t].step = s, ![t].pending = p] =
          [page EXCEPT ![t] = k]
    BY <1>1, <2>1
  <2> QED
    BY <1>1, <2>3, <2>4 DEF Moved
<1> QED
  BY <1>3, <1>4, <1>5

LEMMA MovedThere ==
  ASSUME NEW R, page \in [Tab -> PageOf(R)], NEW t \in Tab,
         NEW x \in Pc, NEW s \in Step, NEW p \in R, Moved(t, x, s, p)
  PROVE  /\ page' \in [Tab -> PageOf(R)]
         /\ page'[t].pc = x /\ page'[t].step = s /\ page'[t].pending = p
         /\ page'[t].want = page[t].want
         /\ \A u \in Tab : u # t => page'[u] = page[u]
BY DEF Moved, PageOf

LEMMA ThrownAway ==
  ASSUME NEW R, page \in [Tab -> PageOf(R)], NEW t \in Tab, Nothing \in R, Throws(t)
  PROVE  /\ page' \in [Tab -> PageOf(R)]
         /\ page'[t].pc = "idle" /\ page'[t].pending = Nothing
         /\ \A u \in Tab : u # t => page'[u] = page[u]
BY BoundAssumption DEF Throws, Idle, PageOf, Pc, Step, Amount

LEMMA PutPuts ==
  ASSUME NEW R, disk \in R, cache \in [Tab -> CacheOf(R)], NEW t \in Tab,
         NEW p \in R, Put(t, p)
  PROVE  /\ disk' \in R /\ cache' \in [Tab -> CacheOf(R)] /\ View(t)' = p
         /\ cache'[t].unsaved \/ cache'[t].memory = disk'
<1>1. PICK b \in BOOLEAN : /\ cache' = [cache EXCEPT ![t] = [memory |-> p, unsaved |-> b]]
                          /\ disk' = IF b THEN disk ELSE p
  BY DEF Put
<1>2. /\ cache' \in [Tab -> CacheOf(R)]
      /\ cache'[t].memory = p /\ cache'[t].unsaved = b
  BY <1>1 DEF CacheOf
<1> QED
  BY <1>1, <1>2 DEF View

LEMMA PutClears ==
  ASSUME NEW R, disk \in R, cache \in [Tab -> CacheOf(R)], NEW t \in Tab,
         NEW p \in R, Nothing \in R, PutThenClear(t, p)
  PROVE  /\ disk' \in R /\ cache' \in [Tab -> CacheOf(R)] /\ View(t)' = Nothing
         /\ cache'[t].unsaved \/ cache'[t].memory = disk'
<1>1. CASE Put(t, Nothing)
  BY <1>1, PutPuts
<1>2. CASE disk' = p
           /\ cache' = [cache EXCEPT ![t] = [memory |-> Nothing, unsaved |-> TRUE]]
  BY <1>2 DEF View, CacheOf
<1> QED
  BY <1>1, <1>2 DEF PutThenClear

LEMMA NothingIsKnown == ChainOK => Nothing \in Records
BY BoundAssumption DEF ChainOK, Records, Nothing, PendingApproval, Amount, Reason

(* What recoverSourceTransaction and the receipt may make of a record is a *)
(* record again, of the same transaction.                                  *)
LEMMA IdentifiedIsRecord ==
  ASSUME ChainOK, NEW p \in Records, p.nonce > 0, NEW b \in BOOLEAN
  PROVE  /\ [p EXCEPT !.identity = b] \in Records
         /\ [p EXCEPT !.identity = b].nonce = p.nonce
         /\ [p EXCEPT !.identity = b].reason = p.reason
         /\ [p EXCEPT !.identity = b].amount = p.amount
<1>1. PICK k : k = [p EXCEPT !.identity = b]
  OBVIOUS
<1>2. /\ p \in PendingApproval /\ p.nonce <= Len(sent)
      /\ p.nonce > 0 => sent[p.nonce].amount = p.amount
      /\ p.reason # "none" => p.nonce <= mined
  BY DEF Records
<1>3. /\ k \in PendingApproval /\ k.nonce = p.nonce /\ k.version = p.version
      /\ k.amount = p.amount /\ k.identity = b /\ k.reason = p.reason
  BY <1>1, <1>2 DEF PendingApproval
<1>4. k \in Records
  BY <1>2, <1>3 DEF Records
<1> QED
  BY <1>1, <1>3, <1>4

LEMMA ReplacedIsRecord ==
  ASSUME ChainOK, NEW p \in Records, p.nonce > 0, MinedReplaced(p)
  PROVE  /\ AsReplaced(p) \in Records /\ AsReplaced(p).nonce = p.nonce
         /\ AsReplaced(p).amount = p.amount
<1>1. PICK k : k = AsReplaced(p)
  OBVIOUS
<1>2. /\ p \in PendingApproval /\ p.nonce <= Len(sent)
      /\ p.nonce > 0 => sent[p.nonce].amount = p.amount
      /\ p.nonce <= mined
  BY DEF Records, MinedReplaced
<1>3. p.nonce \in 1..Len(sent)
  BY <1>2, BoundAssumption DEF PendingApproval, ChainOK
<1>4. sent[p.nonce].version \in 0..1 /\ ReasonFor(p.nonce) \in Reason
  BY <1>3, SentIsTransaction DEF Transaction, ReasonFor, Reason
<1>5. PICK v \in 0..1, r \in Reason : v = sent[p.nonce].version /\ r = ReasonFor(p.nonce)
  BY <1>4
<1>6. k = [p EXCEPT !.version = v, !.identity = TRUE, !.reason = r]
  BY <1>1, <1>5 DEF AsReplaced
<1>7. /\ k \in PendingApproval /\ k.nonce = p.nonce /\ k.amount = p.amount
  BY <1>2, <1>6 DEF PendingApproval
<1> QED
  BY <1>1, <1>2, <1>3, <1>7 DEF Records

LEMMA ResolvedIsRecord ==
  ASSUME ChainOK, NEW saved \in Records, saved.nonce > 0,
         NEW p \in Resolutions(saved)
  PROVE  p \in Records /\ p.nonce = saved.nonce /\ p.amount = saved.amount
<1>1. \/ p = saved
      \/ p = [saved EXCEPT !.identity = TRUE]
      \/ MinedReplaced(saved) /\ p = AsReplaced(saved)
  BY DEF Resolutions
<1> QED
  BY <1>1, IdentifiedIsRecord, ReplacedIsRecord

LEMMA SignedIsRecord ==
  ASSUME ChainOK', NEW n \in 1..Len(sent'), n <= MaxSent, NEW amount \in Amount,
         sent'[n].amount = amount
  PROVE  [Nothing EXCEPT !.nonce = n, !.amount = amount] \in Records'
<1>1. PICK z \in PendingApproval : z = Nothing /\ z.reason = "none"
  <2>1. 0 \in 0..MaxSent /\ 0 \in Amount /\ 0 \in 0..1 /\ "none" \in Reason
    BY BoundAssumption DEF Amount, Reason
  <2>2. Nothing \in PendingApproval /\ Nothing.reason = "none"
    BY <2>1 DEF Nothing, PendingApproval
  <2> QED
    BY <2>2
<1>2. PICK k : k = [z EXCEPT !.nonce = n, !.amount = amount]
  OBVIOUS
<1>3. n \in 0..MaxSent /\ n > 0 /\ n <= Len(sent')
  BY BoundAssumption DEF ChainOK
<1>4. /\ k \in PendingApproval /\ k.nonce = n /\ k.amount = amount
      /\ k.reason = "none"
  BY <1>1, <1>2, <1>3 DEF PendingApproval
<1>5. sent'[k.nonce].amount = k.amount /\ k.nonce <= Len(sent') /\ k.nonce # 0
  BY <1>3, <1>4
<1>6. k \in Records'
  BY <1>4, <1>5 DEF Records
<1> QED
  BY <1>1, <1>2, <1>6

-----------------------------------------------------------------------------
LEMMA LosesOwn ==
  ASSUME ChainOK, lost \subseteq 1..Len(sent), NEW S, Loses(S)
  PROVE  lost' \subseteq 1..Len(sent)
<1>1. (mined + 1)..Len(sent) \subseteq 1..Len(sent)
  BY DEF ChainOK
<1> QED
  BY <1>1 DEF Loses

LEMMA StepTyped ==
  ASSUME TypeInv, NEW t \in Tab, UNCHANGED <<chain, flow>>,
         disk' \in Records, cache' \in [Tab -> CacheOf(Records)],
         page' \in [Tab -> PageOf(Records)],
         \A u \in Tab : u # t => page'[u] = page[u],
         page'[t].pc \in OfOne => page'[t].pending.nonce > 0,
         page'[t].pc # "idle" => page'[t].want > 0,
         lost' \subseteq 1..Len(sent), retired' \subseteq 1..Len(sent)
  PROVE  TypeInv'
<1>1. Records' = Records /\ ChainOK'
  BY DEF TypeInv, Records, ChainOK, chain
<1>2. sent' = sent
  BY DEF chain
<1> QED
  BY <1>1, <1>2 DEF TypeInv

LEMMA TypedGrows ==
  ASSUME TypeInv, UNCHANGED flow,
         Records \subseteq Records', ChainOK', Len(sent) <= Len(sent'),
         disk' \in Records', cache' \in [Tab -> CacheOf(Records')],
         page' \in [Tab -> PageOf(Records')],
         \A u \in Tab : /\ page'[u].pc \in OfOne => page'[u].pending.nonce > 0
                        /\ page'[u].pc # "idle" => page'[u].want > 0,
         UNCHANGED <<lost, retired>>
  PROVE  TypeInv'
BY DEF TypeInv, ChainOK

LEMMA Widened ==
  ASSUME NEW R, NEW S, R \subseteq S
  PROVE  /\ [Tab -> CacheOf(R)] \subseteq [Tab -> CacheOf(S)]
         /\ [Tab -> PageOf(R)] \subseteq [Tab -> PageOf(S)]
BY DEF CacheOf, PageOf

LEMMA CommonTyped ==
  ASSUME TypeInv, UNCHANGED flow, NEW t \in Tab, Common(t)
  PROVE  TypeInv'
<1> USE NothingIsKnown
<1>1. /\ ChainOK /\ disk \in Records /\ cache \in [Tab -> CacheOf(Records)]
      /\ page \in [Tab -> PageOf(Records)] /\ page[t] \in PageOf(Records)
      /\ page[t].pending \in Records /\ page[t].step \in Step
      /\ page[t].pc \in OfOne => page[t].pending.nonce > 0
      /\ page[t].pc # "idle" => page[t].want > 0
      /\ lost \subseteq 1..Len(sent) /\ retired \subseteq 1..Len(sent)
      /\ Nothing \in Records
  BY DEF TypeInv, PageOf
<1>2. ASSUME NEW want \in Amount, NEW saved \in Loaded(t), StartFrom(t, want, saved)
      PROVE  TypeInv'
  <2>1. saved \in Records
    BY <1>1, <1>2 DEF Loaded, CacheOf
  <2>2. UNCHANGED chain /\ retired' = retired /\ lost' \subseteq 1..Len(sent)
    BY <1>1, <1>2, LosesOwn DEF StartFrom
  <2>3. CASE saved.reason = "cancelled"
    <3>1. Put(t, Nothing) /\ Throws(t)
      BY <1>2, <2>3 DEF StartFrom
    <3> QED
      BY <1>1, <2>2, <3>1, PutPuts, ThrownAway, StepTyped DEF OfOne
  <2>4. CASE saved.reason # "cancelled"
    <3>1. PICK q : q = [pc |-> IF saved = Nothing THEN "allowance" ELSE "recover",
                        want |-> want, step |-> "saved", pending |-> saved]
      OBVIOUS
    <3>2. q \in PageOf(Records) /\ q.want = want /\ want > 0 /\ q.pending = saved
          /\ q.pc = IF saved = Nothing THEN "allowance" ELSE "recover"
      BY <1>2, <2>1, <3>1 DEF PageOf, Pc, Step, StartFrom
    <3>3. page' = [page EXCEPT ![t] = q]
      BY <1>2, <2>4, <3>1 DEF StartFrom
    <3>4. /\ page' \in [Tab -> PageOf(Records)] /\ page'[t] = q
          /\ \A u \in Tab : u # t => page'[u] = page[u]
      BY <1>1, <3>2, <3>3
    <3>5. disk' = disk /\ cache' = [cache EXCEPT ![t].memory = saved]
      BY <1>2, <2>4 DEF StartFrom, Remember
    <3>6. cache' \in [Tab -> CacheOf(Records)]
      BY <1>1, <2>1, <3>5 DEF CacheOf
    <3>7. q.pc \in OfOne => saved.nonce > 0
      BY <2>1, <3>2, BoundAssumption DEF OfOne, Records, PendingApproval
    <3> QED
      BY <1>1, <2>2, <3>2, <3>4, <3>5, <3>6, <3>7, StepTyped
  <2> QED
    BY <2>3, <2>4
<1>3. CASE SaveHash(t)
  <2>1. /\ Put(t, page[t].pending) /\ Goto(t, "capture") /\ At(t, "answered")
        /\ UNCHANGED <<chain, lost, retired>>
    BY <1>3 DEF SaveHash
  <2>2. Moved(t, "capture", page[t].step, page[t].pending)
    BY <1>1, <2>1, PageMoves DEF Pc, PageOf
  <2>3. /\ page' \in [Tab -> PageOf(Records)]
        /\ page'[t].pending = page[t].pending /\ page'[t].want = page[t].want
        /\ \A u \in Tab : u # t => page'[u] = page[u]
    BY <1>1, <2>2, MovedThere DEF Pc
  <2>4. disk' \in Records /\ cache' \in [Tab -> CacheOf(Records)]
    BY <1>1, <2>1, PutPuts
  <2> QED
    BY <1>1, <2>1, <2>3, <2>4, StepTyped DEF OfOne, At
<1>4. CASE Capture(t)
  <2>1. PICK known, p :
          /\ known \in BOOLEAN /\ p = [page[t].pending EXCEPT !.identity = known]
          /\ Put(t, p)
          /\ page' = [page EXCEPT ![t].pc = "wait", ![t].pending = p]
    BY <1>4 DEF Capture
  <2>2. At(t, "capture") /\ UNCHANGED <<chain, lost, retired>>
    BY <1>4 DEF Capture
  <2>3. p \in Records /\ p.nonce = page[t].pending.nonce
    BY <1>1, <2>1, <2>2, IdentifiedIsRecord DEF OfOne, At
  <2>4. Moved(t, "wait", page[t].step, p)
    BY <1>1, <2>1, <2>3, PageMoves DEF Pc, PageOf
  <2>5. /\ page' \in [Tab -> PageOf(Records)]
        /\ page'[t].pending = p /\ page'[t].want = page[t].want
        /\ \A u \in Tab : u # t => page'[u] = page[u]
    BY <1>1, <2>3, <2>4, MovedThere DEF Pc
  <2>6. disk' \in Records /\ cache' \in [Tab -> CacheOf(Records)]
    BY <1>1, <2>1, <2>3, PutPuts
  <2> QED
    BY <1>1, <2>2, <2>3, <2>5, <2>6, StepTyped DEF OfOne, At
<1>5. CASE Confirmed(t) \/ Replaced(t)
  <2>1. /\ At(t, "wait") /\ UNCHANGED <<chain, lost, retired>>
        /\ \/ Put(t, Nothing)
           \/ /\ MinedReplaced(page[t].pending)
              /\ PutThenClear(t, AsReplaced(page[t].pending))
        /\ Goto(t, "verify") \/ Throws(t)
    BY <1>5 DEF Confirmed, Replaced, Receipt
  <2>2. disk' \in Records /\ cache' \in [Tab -> CacheOf(Records)]
    BY <1>1, <2>1, PutPuts, PutClears, ReplacedIsRecord DEF OfOne, At
  <2>3. CASE Throws(t)
    BY <1>1, <2>1, <2>2, <2>3, ThrownAway, StepTyped DEF OfOne
  <2>4. CASE Goto(t, "verify")
    <3>1. Moved(t, "verify", page[t].step, page[t].pending)
      BY <1>1, <2>4, PageMoves DEF Pc, PageOf
    <3>2. /\ page' \in [Tab -> PageOf(Records)]
          /\ page'[t].pc = "verify" /\ page'[t].want = page[t].want
          /\ \A u \in Tab : u # t => page'[u] = page[u]
      BY <1>1, <3>1, MovedThere DEF Pc
    <3> QED
      BY <1>1, <2>1, <2>2, <3>2, StepTyped DEF OfOne, At
  <2> QED
    BY <2>1, <2>3, <2>4
<1>6. CASE TimeOut(t)
  <2>1. /\ At(t, "wait") /\ UNCHANGED <<chain, lost, retired>> /\ Throws(t)
        /\ \/ UNCHANGED <<disk, cache>>
           \/ /\ MinedReplaced(page[t].pending)
              /\ Put(t, AsReplaced(page[t].pending))
    BY <1>6 DEF TimeOut
  <2>2. disk' \in Records /\ cache' \in [Tab -> CacheOf(Records)]
    BY <1>1, <2>1, PutPuts, ReplacedIsRecord DEF OfOne, At
  <2> QED
    BY <1>1, <2>1, <2>2, ThrownAway, StepTyped DEF OfOne
<1>7. CASE Simulate(t)
  <2>1. /\ At(t, "deposit") /\ UNCHANGED <<chain, disk, cache, lost, retired>>
        /\ Goto(t, "confirm-deposit")
    BY <1>7 DEF Simulate
  <2>2. Moved(t, "confirm-deposit", page[t].step, page[t].pending)
    BY <1>1, <2>1, PageMoves DEF Pc, PageOf
  <2>3. /\ page' \in [Tab -> PageOf(Records)]
        /\ page'[t].pc = "confirm-deposit" /\ page'[t].want = page[t].want
        /\ \A u \in Tab : u # t => page'[u] = page[u]
    BY <1>1, <2>2, MovedThere DEF Pc
  <2> QED
    BY <1>1, <2>1, <2>3, StepTyped DEF OfOne, At
<1>8. CASE Deposit(t)
  <2>1. /\ page[t].want \in Amount /\ Broadcast("deposit", page[t].want)
        /\ Throws(t) /\ UNCHANGED <<disk, cache, lost, retired>>
    BY <1>1, <1>8 DEF Deposit, PageOf
  <2>2. Records \subseteq Records' /\ ChainOK' /\ Len(sent) <= Len(sent')
    BY <1>1, <2>1, RecordsLast
  <2>3. page' \in [Tab -> PageOf(Records)] /\ page'[t].pc = "idle"
        /\ \A u \in Tab : u # t => page'[u] = page[u]
    BY <1>1, <2>1, ThrownAway
  <2>4. /\ disk' \in Records' /\ cache' \in [Tab -> CacheOf(Records')]
        /\ page' \in [Tab -> PageOf(Records')]
    BY <1>1, <2>1, <2>2, <2>3, Widened
  <2>5. \A u \in Tab : /\ page'[u].pc \in OfOne => page'[u].pending.nonce > 0
                       /\ page'[u].pc # "idle" => page'[u].want > 0
    BY <2>3 DEF TypeInv, OfOne
  <2> QED
    BY <2>1, <2>2, <2>4, <2>5, TypedGrows
<1>9. CASE Fail(t)
  BY <1>1, <1>9, ThrownAway, StepTyped DEF Fail, OfOne
<1>10. CASE Reload(t)
  <2>1. /\ UNCHANGED <<chain, disk, retired>> /\ Throws(t)
        /\ cache' = [cache EXCEPT ![t] = [memory |-> Nothing, unsaved |-> FALSE]]
        /\ lost' \subseteq 1..Len(sent)
    BY <1>1, <1>10, LosesOwn DEF Reload, Throws
  <2>2. cache' \in [Tab -> CacheOf(Records)]
    BY <1>1, <2>1 DEF CacheOf
  <2> QED
    BY <1>1, <2>1, <2>2, ThrownAway, StepTyped DEF OfOne
<1> QED
  BY <1>2, <1>3, <1>4, <1>5, <1>6, <1>7, <1>8, <1>9, <1>10 DEF Common, Start

-----------------------------------------------------------------------------
(* The steps of the two flows, in the terms of TokenApproval.  First those *)
(* that only the Agglayer flow has: a pending approval of enough is        *)
(* retired by a sufficient allowance, or waited for;                       *)
AgglayerSatisfied(t) ==
  /\ At(t, "satisfied")
  /\ \/ /\ page[t].pending.amount > 0 /\ page[t].pending.amount >= page[t].want
        /\ Retire(t)
        /\ page' = [page EXCEPT ![t].pc = "allowance", ![t].pending = Nothing]
     \/ Goto(t, "wait") /\ UNCHANGED <<chain, disk, cache, lost, retired>>

(* the next thing to sign, if the allowance is short;                      *)
AgglayerCheck(t) ==
  /\ At(t, "allowance")
  /\ page' = [page EXCEPT
       ![t].pc = IF allowance >= page[t].want THEN "deposit" ELSE "sign",
       ![t].step = IF allowance > 0 THEN "reset" ELSE "approve",
       ![t].pending = Nothing]
  /\ UNCHANGED <<chain, disk, cache, lost, retired>>

(* and a reset is only followed by the approval if the allowance is zero.  *)
AgglayerVerify(t) ==
  /\ At(t, "verify")
  /\ UNCHANGED <<chain, disk, cache, lost, retired>>
  /\ \/ Throws(t)
     \/ \E x \in {"allowance", "sign", "deposit"}, s \in Step :
          /\ page' = [page EXCEPT ![t].pc = x, ![t].step = s,
                                  ![t].pending = Nothing]
          /\ x = "sign" => /\ page[t].step = "reset" /\ s = "approve"
                           /\ page[t].pending.amount = 0 => allowance = 0

AgglayerStep(t) ==
  \/ Recover(t, "satisfied") \/ AgglayerSatisfied(t) \/ AgglayerCheck(t)
  \/ Sign(t, IF page[t].step = "reset" THEN 0 ELSE page[t].want)
  \/ AgglayerVerify(t)

UsdcCheck(t) ==
  /\ At(t, "allowance")
  /\ \/ /\ Retire(t)
        /\ page' = [page EXCEPT ![t].pc = "deposit", ![t].pending = Nothing]
     \/ /\ \/ Goto(t, "sign") /\ page[t].pending = Nothing
           \/ Goto(t, "wait") /\ page[t].pending # Nothing
        /\ UNCHANGED <<chain, disk, cache, lost, retired>>

UsdcVerify(t) ==
  /\ At(t, "verify")
  /\ \/ page' = [page EXCEPT ![t].pc = "deposit", ![t].pending = Nothing]
     \/ Throws(t)
  /\ UNCHANGED <<chain, disk, cache, lost, retired>>

UsdcStep(t) ==
  \/ Recover(t, "allowance") \/ UsdcCheck(t) \/ Sign(t, page[t].want)
  \/ UsdcVerify(t)

(* What both flows and their instances of TokenApproval share is the same. *)
LEMMA AgglayerShares ==
  ASSUME TypeInv, Agglayer!Next
  PROVE  Network \/ \E t \in Tab : Common(t) \/ AgglayerStep(t)
<1> USE DEF Agglayer!chain, chain, Agglayer!Amount, Amount, Agglayer!Nothing,
            Nothing, Agglayer!Idle, Idle, Agglayer!InFlight, InFlight,
            Agglayer!Approval, Approval, Agglayer!Broadcast, Broadcast,
            Agglayer!ReasonFor, ReasonFor, Agglayer!MinedAsSaved,
            MinedAsSaved, Agglayer!MinedReplaced, MinedReplaced,
            Agglayer!AsReplaced, AsReplaced, Agglayer!Put, Put,
            Agglayer!PutThenClear, PutThenClear, Agglayer!Loaded, Loaded,
            Agglayer!Remember, Remember, Agglayer!View, View, Agglayer!At, At,
            Agglayer!Goto, Goto, Agglayer!Throws, Throws, Agglayer!Loses,
            Loses, Agglayer!Receipt, Receipt, Agglayer!Retire, Retire
<1>1. Agglayer!Network <=> Network
  BY DEF Agglayer!Network, Network, Agglayer!Mine, Mine, Agglayer!Replace, Replace,
         Agglayer!Cardinality, Cardinality
<1>2. ASSUME NEW t \in Tab, Agglayer!Common(t)
      PROVE  Common(t)
  <2>1. \A want : Agglayer!Start(t, want) <=> Start(t, want)
    BY DEF Agglayer!Start, Start, Agglayer!StartFrom, StartFrom
  <2>2. Agglayer!SaveHash(t) <=> SaveHash(t)
    BY DEF Agglayer!SaveHash, SaveHash
  <2>3. Agglayer!Capture(t) <=> Capture(t)
    BY DEF Agglayer!Capture, Capture
  <2>4. Agglayer!Confirmed(t) <=> Confirmed(t)
    BY DEF Agglayer!Confirmed, Confirmed
  <2>5. Agglayer!Replaced(t) <=> Replaced(t)
    BY DEF Agglayer!Replaced, Replaced
  <2>6. Agglayer!TimeOut(t) <=> TimeOut(t)
    BY DEF Agglayer!TimeOut, TimeOut
  <2>7. Agglayer!Simulate(t) <=> Simulate(t)
    BY DEF Agglayer!Simulate, Simulate
  <2>8. Agglayer!Deposit(t) <=> Deposit(t)
    BY DEF Agglayer!Deposit, Deposit
  <2>9. Agglayer!Fail(t) <=> Fail(t)
    BY DEF Agglayer!Fail, Fail
  <2>10. Agglayer!Reload(t) <=> Reload(t)
    BY DEF Agglayer!Reload, Reload
  <2> QED
    BY <1>2, <2>1, <2>2, <2>3, <2>4, <2>5, <2>6, <2>7, <2>8, <2>9, <2>10
       DEF Agglayer!Common, Common
<1>3. ASSUME NEW t \in Tab
      PROVE  Agglayer!Recover(t, "satisfied") <=> Recover(t, "satisfied")
  BY DEF Agglayer!Recover, Recover, Agglayer!RecoverAs, RecoverAs, Agglayer!Resolutions,
         Resolutions
<1>4. ASSUME NEW t \in Tab, Agglayer!Satisfied(t)
      PROVE  AgglayerSatisfied(t)
  BY <1>4 DEF Agglayer!Satisfied, Agglayer!MayRetire, AgglayerSatisfied
<1>5. ASSUME NEW t \in Tab, Agglayer!CheckAllowance(t)
      PROVE  AgglayerCheck(t)
  BY <1>5 DEF Agglayer!CheckAllowance, AgglayerCheck
<1>6. ASSUME NEW t \in Tab, Agglayer!Sign(t, Agglayer!Asks(t))
      PROVE  Sign(t, IF page[t].step = "reset" THEN 0 ELSE page[t].want)
  BY <1>6 DEF Agglayer!Sign, Sign, Agglayer!Asks
<1>7. ASSUME NEW t \in Tab, Agglayer!Verify(t)
      PROVE  AgglayerVerify(t)
  <2>1. page[t].step \in Step
    BY DEF TypeInv, PageOf
  <2>2. PICK x, s : /\ x = CASE page[t].step = "saved"   -> "allowance"
                            [] page[t].step = "reset"   -> "sign"
                            [] page[t].step = "approve" -> "deposit"
                    /\ s = IF page[t].step = "reset" THEN "approve" ELSE page[t].step
    OBVIOUS
  <2>3. /\ x \in {"allowance", "sign", "deposit"} /\ s \in Step
        /\ x = "sign" => page[t].step = "reset" /\ s = "approve"
    BY <2>1, <2>2 DEF Step
  <2>4. \/ Throws(t)
        \/ /\ page' = [page EXCEPT ![t].pc = x, ![t].step = s,
                                   ![t].pending = Nothing]
           /\ page[t].pending.amount = 0 => allowance = 0
    BY <1>7, <2>2 DEF Agglayer!Verify
  <2>5. At(t, "verify") /\ UNCHANGED <<chain, disk, cache, lost, retired>>
    BY <1>7 DEF Agglayer!Verify
  <2> QED
    BY <2>3, <2>4, <2>5 DEF AgglayerVerify
<1> QED
  BY <1>1, <1>2, <1>3, <1>4, <1>5, <1>6, <1>7
     DEF Agglayer!Next, AgglayerStep

LEMMA UsdcShares ==
  ASSUME Usdc!Next
  PROVE  Network \/ \E t \in Tab : Common(t) \/ UsdcStep(t)
<1> USE DEF Usdc!chain, chain, Usdc!Amount, Amount, Usdc!Nothing, Nothing,
            Usdc!Idle, Idle, Usdc!InFlight, InFlight, Usdc!Approval, Approval,
            Usdc!Broadcast, Broadcast, Usdc!ReasonFor, ReasonFor,
            Usdc!MinedAsSaved, MinedAsSaved, Usdc!MinedReplaced,
            MinedReplaced, Usdc!AsReplaced, AsReplaced, Usdc!Put, Put,
            Usdc!PutThenClear, PutThenClear, Usdc!Loaded, Loaded,
            Usdc!Remember, Remember, Usdc!View, View, Usdc!At, At, Usdc!Goto,
            Goto, Usdc!Throws, Throws, Usdc!Loses, Loses, Usdc!Receipt,
            Receipt, Usdc!Retire, Retire
<1>1. Usdc!Network <=> Network
  BY DEF Usdc!Network, Network, Usdc!Mine, Mine, Usdc!Replace, Replace,
         Usdc!Cardinality, Cardinality
<1>2. ASSUME NEW t \in Tab, Usdc!Common(t)
      PROVE  Common(t)
  <2>1. \A want : Usdc!Start(t, want) <=> Start(t, want)
    BY DEF Usdc!Start, Start, Usdc!StartFrom, StartFrom
  <2>2. Usdc!SaveHash(t) <=> SaveHash(t)
    BY DEF Usdc!SaveHash, SaveHash
  <2>3. Usdc!Capture(t) <=> Capture(t)
    BY DEF Usdc!Capture, Capture
  <2>4. Usdc!Confirmed(t) <=> Confirmed(t)
    BY DEF Usdc!Confirmed, Confirmed
  <2>5. Usdc!Replaced(t) <=> Replaced(t)
    BY DEF Usdc!Replaced, Replaced
  <2>6. Usdc!TimeOut(t) <=> TimeOut(t)
    BY DEF Usdc!TimeOut, TimeOut
  <2>7. Usdc!Simulate(t) <=> Simulate(t)
    BY DEF Usdc!Simulate, Simulate
  <2>8. Usdc!Deposit(t) <=> Deposit(t)
    BY DEF Usdc!Deposit, Deposit
  <2>9. Usdc!Fail(t) <=> Fail(t)
    BY DEF Usdc!Fail, Fail
  <2>10. Usdc!Reload(t) <=> Reload(t)
    BY DEF Usdc!Reload, Reload
  <2> QED
    BY <1>2, <2>1, <2>2, <2>3, <2>4, <2>5, <2>6, <2>7, <2>8, <2>9, <2>10
       DEF Usdc!Common, Common
<1>3. ASSUME NEW t \in Tab
      PROVE  Usdc!Recover(t, "allowance") <=> Recover(t, "allowance")
  BY DEF Usdc!Recover, Recover, Usdc!RecoverAs, RecoverAs, Usdc!Resolutions,
         Resolutions
<1>4. ASSUME NEW t \in Tab, Usdc!CheckAllowance(t)
      PROVE  UsdcCheck(t)
  BY <1>4 DEF Usdc!CheckAllowance, UsdcCheck
<1>5. ASSUME NEW t \in Tab, Usdc!Sign(t, page[t].want)
      PROVE  Sign(t, page[t].want)
  BY <1>5 DEF Usdc!Sign, Sign
<1>6. ASSUME NEW t \in Tab, Usdc!Verify(t)
      PROVE  UsdcVerify(t)
  BY <1>6 DEF Usdc!Verify, UsdcVerify
<1> QED
  BY <1>1, <1>2, <1>3, <1>4, <1>5, <1>6
     DEF Usdc!Next, UsdcStep

-----------------------------------------------------------------------------
LEMMA PageTyped ==
  ASSUME TypeInv, NEW t \in Tab
  PROVE  /\ ChainOK /\ disk \in Records /\ cache \in [Tab -> CacheOf(Records)]
         /\ page \in [Tab -> PageOf(Records)]
         /\ page[t].pc \in Pc /\ page[t].want \in Amount /\ page[t].step \in Step
         /\ page[t].pending \in Records
         /\ page[t].pc \in OfOne => page[t].pending.nonce > 0
         /\ page[t].pc # "idle" => page[t].want > 0
         /\ lost \subseteq 1..Len(sent) /\ retired \subseteq 1..Len(sent)
         /\ Nothing \in Records
BY NothingIsKnown DEF TypeInv, PageOf

(* A page that goes on keeps the amount it wants.                          *)
LEMMA MoveTyped ==
  ASSUME TypeInv, NEW t \in Tab, UNCHANGED <<chain, flow, lost>>,
         page[t].pc # "idle",
         NEW x \in Pc, NEW s \in Step, NEW p \in Records, Moved(t, x, s, p),
         x \in OfOne => p.nonce > 0,
         disk' \in Records, cache' \in [Tab -> CacheOf(Records)],
         retired' \subseteq 1..Len(sent)
  PROVE  TypeInv'
<1>1. /\ page' \in [Tab -> PageOf(Records)]
      /\ page'[t].pc = x /\ page'[t].pending = p /\ page'[t].want = page[t].want
      /\ \A u \in Tab : u # t => page'[u] = page[u]
  BY PageTyped, MovedThere
<1> QED
  BY <1>1, PageTyped, StepTyped

LEMMA RetireTyped ==
  ASSUME TypeInv, NEW t \in Tab, Retire(t)
  PROVE  /\ UNCHANGED <<chain, lost>>
         /\ disk' \in Records /\ cache' \in [Tab -> CacheOf(Records)]
         /\ retired' \subseteq 1..Len(sent)
<1>1. Put(t, Nothing) /\ UNCHANGED <<chain, lost>>
  BY DEF Retire
<1>2. (mined + 1)..Len(sent) \subseteq 1..Len(sent)
  BY DEF TypeInv, ChainOK
<1> QED
  BY <1>1, <1>2, PageTyped, PutPuts DEF Retire

LEMMA RecoverTyped ==
  ASSUME TypeInv, UNCHANGED flow, NEW t \in Tab,
         NEW x \in {"satisfied", "allowance"}, Recover(t, x)
  PROVE  TypeInv'
<1>1. PICK p \in Resolutions(page[t].pending) : RecoverAs(t, x, p)
  BY DEF Recover
<1>2. p \in Records /\ p.nonce = page[t].pending.nonce /\ p.nonce > 0
      /\ page[t].pc = "recover"
  BY PageTyped, ResolvedIsRecord DEF Recover, At, OfOne
<1>3. UNCHANGED <<chain, lost, retired>>
  BY <1>1 DEF RecoverAs
<1>4. CASE PutThenClear(t, p) /\ Throws(t)
  BY <1>2, <1>3, <1>4, PageTyped, PutClears, ThrownAway, StepTyped DEF OfOne
<1>5. CASE /\ Put(t, p)
           /\ page' = [page EXCEPT ![t].pc = x, ![t].pending = p]
  <2>1. Moved(t, x, page[t].step, p)
    BY <1>2, <1>5, PageTyped, PageMoves DEF Pc
  <2>2. x \in Pc
    BY DEF Pc
  <2> QED
    BY <1>2, <1>3, <1>5, <2>1, <2>2, PageTyped, PutPuts, MoveTyped
<1> QED
  BY <1>1, <1>4, <1>5 DEF RecoverAs

LEMMA SignTyped ==
  ASSUME TypeInv, UNCHANGED flow, NEW t \in Tab, NEW amount \in Amount,
         Sign(t, amount)
  PROVE  TypeInv'
<1>1. /\ page[t].pc = "sign" /\ Broadcast("approve", amount)
      /\ UNCHANGED <<disk, cache, lost, retired>>
  BY DEF Sign, At
<1>2. /\ Records \subseteq Records' /\ ChainOK' /\ Len(sent) <= Len(sent')
      /\ Len(sent) + 1 \in 1..Len(sent') /\ Len(sent) + 1 <= MaxSent
      /\ sent'[Len(sent) + 1].amount = amount
  <2>1. ChainOK /\ Len(sent) \in Nat /\ MaxSent \in Nat
    BY BoundAssumption DEF TypeInv, ChainOK
  <2> QED
    BY <1>1, <2>1, RecordsLast, BroadcastAppends
<1>3. PICK p : p = [Nothing EXCEPT !.nonce = Len(sent) + 1, !.amount = amount]
  OBVIOUS
<1>4. p \in Records'
  BY <1>2, <1>3, SignedIsRecord
<1>5. p.nonce > 0
  BY <1>3 DEF Nothing, TypeInv, ChainOK
<1>6. /\ page \in [Tab -> PageOf(Records')] /\ disk' \in Records'
      /\ cache' \in [Tab -> CacheOf(Records')]
  BY <1>1, <1>2, PageTyped, Widened
<1>7. page' = [page EXCEPT ![t].pc = "answered", ![t].pending = p]
  BY <1>3 DEF Sign
<1>8. "answered" \in Pc /\ page[t].step \in Step /\ page[t].want > 0
  BY <1>1, PageTyped DEF Pc
<1>9. Moved(t, "answered", page[t].step, p)
  BY <1>4, <1>6, <1>7, <1>8, PageMoves
<1>10. /\ page' \in [Tab -> PageOf(Records')]
       /\ page'[t].pending = p /\ page'[t].want = page[t].want
       /\ \A u \in Tab : u # t => page'[u] = page[u]
  BY <1>4, <1>6, <1>8, <1>9, MovedThere
<1>11. \A u \in Tab : /\ page'[u].pc \in OfOne => page'[u].pending.nonce > 0
                      /\ page'[u].pc # "idle" => page'[u].want > 0
  BY <1>5, <1>8, <1>10 DEF TypeInv
<1> QED
  BY <1>1, <1>2, <1>6, <1>10, <1>11, TypedGrows

LEMMA AgglayerTyped ==
  ASSUME TypeInv, UNCHANGED flow, NEW t \in Tab, AgglayerStep(t)
  PROVE  TypeInv'
<1>1. CASE AgglayerSatisfied(t)
  <2>1. page[t].pc = "satisfied"
    BY <1>1 DEF AgglayerSatisfied, At
  <2>2. CASE Goto(t, "wait") /\ UNCHANGED <<chain, disk, cache, lost, retired>>
    <3>1. Moved(t, "wait", page[t].step, page[t].pending) /\ "wait" \in Pc
      BY <2>2, PageTyped, PageMoves DEF Pc
    <3> QED
      BY <2>1, <2>2, <3>1, PageTyped, MoveTyped DEF OfOne
  <2>3. CASE /\ Retire(t)
             /\ page' = [page EXCEPT ![t].pc = "allowance", ![t].pending = Nothing]
    <3>1. Moved(t, "allowance", page[t].step, Nothing) /\ "allowance" \in Pc
      BY <2>3, PageTyped, PageMoves DEF Pc
    <3> QED
      BY <2>1, <2>3, <3>1, PageTyped, RetireTyped, MoveTyped DEF OfOne
  <2> QED
    BY <1>1, <2>2, <2>3 DEF AgglayerSatisfied
<1>2. CASE AgglayerCheck(t)
  <2>1. PICK x \in {"deposit", "sign"}, s \in Step :
          page' = [page EXCEPT ![t].pc = x, ![t].step = s, ![t].pending = Nothing]
    BY <1>2 DEF AgglayerCheck, Step
  <2>2. page[t].pc = "allowance" /\ UNCHANGED <<chain, disk, cache, lost, retired>>
    BY <1>2 DEF AgglayerCheck, At
  <2>3. Moved(t, x, s, Nothing) /\ x \in Pc
    BY <2>1, PageTyped, PageMoves DEF Pc
  <2> QED
    BY <2>2, <2>3, PageTyped, MoveTyped DEF OfOne
<1>3. CASE AgglayerVerify(t)
  <2>1. page[t].pc = "verify" /\ UNCHANGED <<chain, disk, cache, lost, retired>>
    BY <1>3 DEF AgglayerVerify, At
  <2>2. CASE Throws(t)
    BY <2>1, <2>2, PageTyped, ThrownAway, StepTyped DEF OfOne
  <2>3. ASSUME NEW x \in {"allowance", "sign", "deposit"}, NEW s \in Step,
               page' = [page EXCEPT ![t].pc = x, ![t].step = s,
                                    ![t].pending = Nothing]
        PROVE  TypeInv'
    <3>1. Moved(t, x, s, Nothing) /\ x \in Pc
      BY <2>3, PageTyped, PageMoves DEF Pc
    <3> QED
      BY <2>1, <3>1, PageTyped, MoveTyped DEF OfOne
  <2> QED
    BY <1>3, <2>2, <2>3 DEF AgglayerVerify
<1>4. CASE Sign(t, IF page[t].step = "reset" THEN 0 ELSE page[t].want)
  <2>1. 0 \in Amount
    BY BoundAssumption DEF Amount
  <2> QED
    BY <1>4, <2>1, PageTyped, SignTyped
<1> QED
  BY <1>1, <1>2, <1>3, <1>4, RecoverTyped DEF AgglayerStep

LEMMA UsdcTyped ==
  ASSUME TypeInv, UNCHANGED flow, NEW t \in Tab, UsdcStep(t)
  PROVE  TypeInv'
<1>1. CASE UsdcCheck(t)
  <2>1. page[t].pc = "allowance"
    BY <1>1 DEF UsdcCheck, At
  <2>2. CASE /\ Retire(t)
             /\ page' = [page EXCEPT ![t].pc = "deposit", ![t].pending = Nothing]
    <3>1. Moved(t, "deposit", page[t].step, Nothing) /\ "deposit" \in Pc
      BY <2>2, PageTyped, PageMoves DEF Pc
    <3> QED
      BY <2>1, <2>2, <3>1, PageTyped, RetireTyped, MoveTyped DEF OfOne
  <2>3. ASSUME NEW x \in {"sign", "wait"}, Goto(t, x),
               x = "wait" => page[t].pending # Nothing,
               UNCHANGED <<chain, disk, cache, lost, retired>>
        PROVE  TypeInv'
    <3>1. Moved(t, x, page[t].step, page[t].pending) /\ x \in Pc
      BY <2>3, PageTyped, PageMoves DEF Pc
    <3>2. page[t].pending # Nothing => page[t].pending.nonce > 0
      BY PageTyped, BoundAssumption DEF Records, PendingApproval
    <3> QED
      BY <2>1, <2>3, <3>1, <3>2, PageTyped, MoveTyped DEF OfOne
  <2> QED
    BY <1>1, <2>2, <2>3 DEF UsdcCheck
<1>2. CASE UsdcVerify(t)
  <2>1. page[t].pc = "verify" /\ UNCHANGED <<chain, disk, cache, lost, retired>>
    BY <1>2 DEF UsdcVerify, At
  <2>2. CASE Throws(t)
    BY <2>1, <2>2, PageTyped, ThrownAway, StepTyped DEF OfOne
  <2>3. CASE page' = [page EXCEPT ![t].pc = "deposit", ![t].pending = Nothing]
    <3>1. Moved(t, "deposit", page[t].step, Nothing) /\ "deposit" \in Pc
      BY <2>3, PageTyped, PageMoves DEF Pc
    <3> QED
      BY <2>1, <3>1, PageTyped, MoveTyped DEF OfOne
  <2> QED
    BY <1>2, <2>2, <2>3 DEF UsdcVerify
<1> QED
  BY <1>1, <1>2, PageTyped, RecoverTyped, SignTyped DEF UsdcStep

LEMMA NetworkTyped ==
  ASSUME TypeInv, UNCHANGED flow, Network
  PROVE  TypeInv'
<1>1. Ages /\ UNCHANGED <<disk, cache, page, lost, retired>>
  BY NetworkAges DEF TypeInv
<1>2. Records \subseteq Records' /\ ChainOK' /\ Len(sent) <= Len(sent')
  BY <1>1, RecordsLast DEF TypeInv
<1>3. /\ disk' \in Records' /\ cache' \in [Tab -> CacheOf(Records')]
      /\ page' \in [Tab -> PageOf(Records')]
  BY <1>1, <1>2, Widened DEF TypeInv
<1> QED
  BY <1>1, <1>2, <1>3, TypedGrows DEF TypeInv

LEMMA InitTyped == MCInit => TypeInv
<1> SUFFICES ASSUME MCInit PROVE TypeInv
  OBVIOUS
<1>1. ChainOK
  <2>1. sent \in Seq(Transaction) /\ Len(sent) = 0
    BY DEF MCInit, Init
  <2> QED
    BY <2>1, BoundAssumption DEF MCInit, Init, ChainOK
<1>2. Nothing \in Records /\ "idle" \in Pc /\ 0 \in Amount /\ "saved" \in Step
  BY <1>1, NothingIsKnown, BoundAssumption DEF Pc, Amount, Step
<1>3. /\ disk \in Records /\ cache \in [Tab -> CacheOf(Records)]
      /\ page \in [Tab -> PageOf(Records)]
      /\ \A t \in Tab : page[t].pc = "idle"
  BY <1>2 DEF MCInit, Init, Idle, CacheOf, PageOf
<1> QED
  BY <1>1, <1>3 DEF MCInit, Init, TypeInv, OfOne

LEMMA NextTyped == TypeInv /\ [MCNext]_<<vars, flow>> => TypeInv'
<1> SUFFICES ASSUME TypeInv, [MCNext]_<<vars, flow>> PROVE TypeInv'
  OBVIOUS
<1>1. CASE UNCHANGED <<vars, flow>>
  BY <1>1 DEF vars, TypeInv, ChainOK, Records
<1>2. CASE MCNext
  <2>1. UNCHANGED flow
    BY <1>2 DEF MCNext
  <2>2. CASE Agglayer!Next
    BY <2>1, <2>2, AgglayerShares, NetworkTyped, CommonTyped, AgglayerTyped
  <2>3. CASE Usdc!Next
    BY <2>1, <2>3, UsdcShares, NetworkTyped, CommonTyped, UsdcTyped
  <2> QED
    BY <1>2, <2>2, <2>3 DEF MCNext
<1> QED
  BY <1>1, <1>2

(* What either flow saves, remembers and works on is at all times a record *)
(* of one of the account's transactions.                                   *)
THEOREM ApprovalTyping == MCSpec => []TypeOK
<1>1. TypeInv => TypeOK
  <2> SUFFICES ASSUME TypeInv PROVE TypeOK
    OBVIOUS
  <2>1. Records \subseteq PendingApproval
    BY DEF Records
  <2>2. /\ cache \in [Tab -> CacheOf(PendingApproval)]
        /\ page \in [Tab -> PageOf(PendingApproval)]
    BY <2>1, Widened DEF TypeInv
  <2>3. page \in [Tab -> Page]
    BY <2>2 DEF Page, PageOf, Step
  <2> QED
    BY <2>1, <2>2, <2>3 DEF TypeInv, TypeOK, ChainOK, CacheOf
<1> QED
  BY <1>1, InitTyped, NextTyped, PTL DEF MCSpec

-----------------------------------------------------------------------------
(* One page.  What it knows of the approvals that may still be mined:      *)
(* storage or memory holds the only one outstanding, or the page does that *)
(* has just signed it, and before it signs or deposits there is none.      *)
OnePage == \E t : Tab = {t}

Waits(t) ==
  \/ page[t].pc \in {"recover", "satisfied", "capture", "wait"}
  \/ flow = "usdc" /\ At(t, "allowance") /\ page[t].pending # Nothing
Settles(t) ==
  \/ page[t].pc \in {"sign", "verify", "deposit", "confirm-deposit"}
  \/ At(t, "allowance") /\ ~Waits(t)
Known(t) == IF At(t, "answered") THEN page[t].pending.nonce ELSE View(t).nonce

Knows(t) ==
  /\ cache[t].unsaved \/ cache[t].memory \in {Nothing, disk}
  /\ Outstanding \subseteq {Known(t)}
  /\ Waits(t) => View(t) = page[t].pending
  /\ Settles(t) => Outstanding = {}

(* In the Agglayer flow, the reset comes before the approval.              *)
InStep(t) ==
  flow = "agglayer" =>
    /\ page[t].pc \in {"recover", "satisfied"} => page[t].step = "saved"
    /\ page[t].pc = "sign" => page[t].step # "saved"
    /\ page[t].pc \in {"answered", "capture", "wait", "verify"}
       /\ page[t].step = "reset" => page[t].pending.amount = 0
    /\ lost = {} /\ page[t].pc = "sign" /\ page[t].step = "approve" => allowance = 0

(* Unless one was lost, no live approval was retired in the Agglayer flow, *)
(* one of an amount will find a zero allowance, and in either flow no      *)
(* deposit is behind a live approval, unless the Usdc flow retired one.    *)
FromZero ==
  flow = "agglayer" /\ lost = {} =>
    /\ \A n \in retired : ~Live(n)
    /\ \A n \in 1..Len(sent) : Live(n) /\ sent[n].amount > 0 => allowance = 0
NoneBefore ==
  lost = {} /\ (flow = "usdc" => retired = {}) =>
    \A d, n \in 1..Len(sent) : Awaiting(d) /\ Live(n) => d < n

Informed == /\ \A t \in Tab : Knows(t) /\ InStep(t)
            /\ FromZero /\ NoneBefore

LEMMA OutstandingAre ==
  Outstanding = {n \in 1..Len(sent) : Live(n) /\ n \notin lost \cup retired}
BY DEF Outstanding, Live

LEMMA OneOutstanding ==
  ASSUME OnePage, Informed, NEW m \in Outstanding, NEW n \in Outstanding
  PROVE  m = n
<1>1. PICK t \in Tab : TRUE
  BY DEF OnePage
<1> QED
  BY <1>1 DEF Informed, Knows

LEMMA OutstandingShrinks ==
  ASSUME ChainOK, Ages \/ UNCHANGED chain,
         lost \subseteq lost', retired \subseteq retired'
  PROVE  Outstanding' \subseteq Outstanding
<1>1. \A n \in 1..Len(sent) : Live(n)' => Live(n)
  BY DEF Ages, Live, InFlight, Approval, chain
<1>2. Len(sent') = Len(sent)
  BY DEF Ages, chain
<1> QED
  BY <1>1, <1>2 DEF Outstanding, Live

LEMMA MinedIsSettled ==
  ASSUME ChainOK, NEW n \in Nat, n = 0 \/ n <= mined
  PROVE  n \notin Outstanding
BY DEF Outstanding, InFlight, ChainOK

LEMMA NonceTyped ==
  ASSUME NEW p \in Records
  PROVE  p.nonce \in Nat /\ (p.reason # "none" => p.nonce <= mined)
         /\ (p.nonce = 0 <=> p = Nothing)
BY BoundAssumption DEF Records, PendingApproval, Nothing

(* Nothing changes for the account.                                        *)
LEMMA AccountKept ==
  ASSUME Informed, UNCHANGED <<chain, flow, retired>>, lost \subseteq lost'
  PROVE  FromZero' /\ NoneBefore'
<1>1. UNCHANGED <<sent, mined, allowance>>
  BY DEF chain
<1>2. \A n : (Live(n)' <=> Live(n)) /\ (Awaiting(n)' <=> Awaiting(n))
  BY <1>1 DEF Live, Awaiting, InFlight, Approval
<1> QED
  BY <1>1, <1>2 DEF Informed, FromZero, NoneBefore

(* A page that stops leaves what it knows to the storage or its memory.    *)
LEMMA StopsInformed ==
  ASSUME OnePage, NEW t \in Tab, page'[t].pc = "idle", FromZero', NoneBefore',
         cache'[t].unsaved \/ cache'[t].memory \in {Nothing, disk'},
         Outstanding' \subseteq {View(t)'.nonce}
  PROVE  Informed'
<1>1. Knows(t)' /\ InStep(t)'
  BY DEF Knows, InStep, Waits, Settles, Known, At
<1> QED
  BY <1>1 DEF OnePage, Informed

(* A page that goes on to its next wait, or has nothing to wait for.       *)
LEMMA GoesOnInformed ==
  ASSUME OnePage, NEW t \in Tab, FromZero', NoneBefore',
         page'[t].pc \notin {"idle", "answered"},
         cache'[t].unsaved \/ cache'[t].memory \in {Nothing, disk'},
         Outstanding' \subseteq {View(t)'.nonce},
         Waits(t)' => View(t)' = page'[t].pending,
         Settles(t)' => Outstanding' = {},
         InStep(t)'
  PROVE  Informed'
<1>1. Knows(t)'
  BY DEF Knows, Known, At
<1> QED
  BY <1>1 DEF OnePage, Informed

(* The deposit of an attempt is broadcast when nothing is outstanding.     *)
LEMMA DepositInformed ==
  ASSUME TypeInv, Informed, UNCHANGED flow, OnePage, NEW t \in Tab, Deposit(t)
  PROVE  Informed'
<1>1. /\ page[t].want \in Amount /\ Broadcast("deposit", page[t].want)
      /\ At(t, "confirm-deposit") /\ Throws(t)
      /\ UNCHANGED <<disk, cache, lost, retired>>
  BY PageTyped DEF Deposit
<1>2. PICK want \in Amount : want = page[t].want
  BY <1>1
<1>3. ChainOK /\ Broadcast("deposit", want) /\ Knows(t) /\ Len(sent) \in Nat
  BY <1>1, <1>2 DEF Informed, TypeInv, ChainOK
<1>4. PICK m : m = Len(sent) + 1
  OBVIOUS
<1>5. /\ ChainOK' /\ Len(sent') = m /\ allowance' = allowance
      /\ sent'[m].call = "deposit"
      /\ \A n \in 1..Len(sent) : /\ sent'[n] = sent[n]
                                 /\ Live(n)' <=> Live(n)
                                 /\ Awaiting(n)' <=> Awaiting(n)
  BY <1>3, <1>4, BroadcastAppends
<1>6. /\ ~Live(m)' /\ \A n \in 1..Len(sent') : n # m => n \in 1..Len(sent)
  BY <1>3, <1>4, <1>5 DEF Live, Approval
<1>7. Outstanding = {} /\ Outstanding' = {}
  <2>1. Outstanding = {}
    BY <1>1, <1>3 DEF Knows, Settles, At
  <2>2. \A n \in 1..Len(sent') : Live(n)' => n \in 1..Len(sent) /\ Live(n)
    BY <1>5, <1>6
  <2> QED
    BY <1>1, <2>1, <2>2 DEF Outstanding, Live
<1>8. FromZero'
  <2>1. \A n \in 1..Len(sent') : Live(n)' =>
          n \in 1..Len(sent) /\ Live(n) /\ sent'[n] = sent[n]
    BY <1>5, <1>6
  <2>2. \A n \in retired : Live(n)' <=> Live(n)
    BY <1>5, PageTyped
  <2> QED
    BY <1>1, <1>5, <2>1, <2>2 DEF Informed, FromZero
<1>9. NoneBefore'
  <2> SUFFICES ASSUME lost' = {}, flow' = "usdc" => retired' = {},
                      NEW d \in 1..Len(sent'), NEW n \in 1..Len(sent'),
                      Awaiting(d)', Live(n)'
               PROVE  FALSE
    BY DEF NoneBefore
  <2>1. n \in 1..Len(sent) /\ Live(n)
    BY <1>5, <1>6
  <2>2. n \notin Outstanding /\ n \notin lost
    BY <1>1, <1>7
  <2>3. n \in retired
    BY <2>1, <2>2, OutstandingAre
  <2> QED
    BY <1>1, <2>1, <2>3 DEF Informed, FromZero, TypeInv
<1>10. /\ page'[t].pc = "idle"
       /\ cache'[t].unsaved \/ cache'[t].memory \in {Nothing, disk'}
  BY <1>1, <1>3, PageTyped, ThrownAway DEF Knows
<1> QED
  BY <1>7, <1>8, <1>9, <1>10, StopsInformed

-----------------------------------------------------------------------------
LEMMA StartInformed ==
  ASSUME TypeInv, Informed, UNCHANGED flow, OnePage, NEW t \in Tab,
         NEW want \in Amount, NEW saved \in Loaded(t), StartFrom(t, want, saved)
  PROVE  Informed'
<1>1. Knows(t) /\ At(t, "idle") /\ UNCHANGED <<chain, flow, retired>>
  BY DEF Informed, StartFrom
<1>2. lost' = lost \cup (({View(t).nonce} \ {saved.nonce})
                         \cap (mined + 1)..Len(sent))
  BY DEF StartFrom, Loses
<1>3. FromZero' /\ NoneBefore'
  BY <1>1, <1>2, AccountKept
<1>4. Outstanding' \subseteq {saved.nonce}
  <2>1. Outstanding' \subseteq Outstanding
    BY <1>1, <1>2, OutstandingShrinks DEF TypeInv
  <2>2. Outstanding \subseteq {View(t).nonce}
    BY <1>1 DEF Knows, Known, At
  <2>3. Outstanding' \cap lost' = {} /\ Outstanding \subseteq (mined + 1)..Len(sent)
    BY DEF Outstanding, InFlight
  <2> QED
    BY <1>2, <2>1, <2>2, <2>3
<1>5. saved \in Records
  BY DEF Loaded, TypeInv, CacheOf
<1>6. CASE saved.reason = "cancelled"
  <2>1. saved.nonce \notin Outstanding /\ Outstanding' \subseteq Outstanding
    BY <1>1, <1>2, <1>5, <1>6, NonceTyped, MinedIsSettled, OutstandingShrinks
       DEF TypeInv
  <2>2. Put(t, Nothing) /\ Throws(t)
    BY <1>6 DEF StartFrom
  <2>3. /\ page'[t].pc = "idle"
        /\ cache'[t].unsaved \/ cache'[t].memory = disk'
    BY <2>2, PageTyped, PutPuts, ThrownAway
  <2> QED
    BY <1>3, <1>4, <2>1, <2>3, StopsInformed
<1>7. CASE saved.reason # "cancelled"
  <2>1. PICK q : q = [pc |-> IF saved = Nothing THEN "allowance" ELSE "recover",
                      want |-> want, step |-> "saved", pending |-> saved]
    OBVIOUS
  <2>2. page' = [page EXCEPT ![t] = q]
    BY <1>7, <2>1 DEF StartFrom
  <2>3. page'[t] = q
    BY <2>2, PageTyped
  <2>4. /\ page'[t].pending = saved /\ page'[t].step = "saved"
        /\ page'[t].pc = IF saved = Nothing THEN "allowance" ELSE "recover"
    BY <2>1, <2>3
  <2>5. disk' = disk /\ cache' = [cache EXCEPT ![t].memory = saved]
    BY <1>7 DEF StartFrom, Remember
  <2>6. cache'[t].memory = saved /\ cache'[t].unsaved = cache[t].unsaved
    BY <2>5, PageTyped DEF CacheOf
  <2>7. /\ cache'[t].unsaved \/ cache'[t].memory \in {Nothing, disk'}
        /\ saved # Nothing => View(t)' = saved
    BY <1>1, <2>5, <2>6 DEF Knows, Loaded, View
  <2>8. saved = Nothing => Outstanding' = {}
    <3>1. 0 \notin Outstanding'
      BY DEF Outstanding
    <3> QED
      BY <1>4, <3>1 DEF Nothing
  <2>9. Outstanding' \subseteq {View(t)'.nonce}
    BY <1>4, <2>7, <2>8
  <2>10. Waits(t)' => View(t)' = page'[t].pending
    BY <2>4, <2>7 DEF Waits, At
  <2>11. Settles(t)' => Outstanding' = {}
    BY <2>4, <2>8 DEF Settles, At
  <2>12. InStep(t)'
    BY <2>4 DEF InStep
  <2> QED
    BY <1>3, <2>4, <2>7, <2>9, <2>10, <2>11, <2>12, GoesOnInformed
<1> QED
  BY <1>6, <1>7

LEMMA CommonInformed ==
  ASSUME TypeInv, Informed, UNCHANGED flow, OnePage, NEW t \in Tab, Common(t)
  PROVE  Informed'
<1>1. /\ Knows(t) /\ InStep(t)
      /\ page[t].pending \in Records /\ page[t].pending.nonce \in Nat
      /\ ChainOK
  BY PageTyped, NonceTyped DEF Informed
<1>2. ASSUME UNCHANGED <<chain, lost, retired>>
      PROVE  FromZero' /\ NoneBefore' /\ Outstanding' \subseteq Outstanding
  BY <1>1, <1>2, AccountKept, OutstandingShrinks
<1>3. ASSUME NEW x \in {"capture", "wait", "verify", "confirm-deposit"},
             NEW p \in Records,
             \/ Goto(t, x) /\ p = page[t].pending
             \/ page' = [page EXCEPT ![t].pc = x, ![t].pending = p]
      PROVE  page'[t].pc = x /\ page'[t].step = page[t].step /\ page'[t].pending = p
  <2>1. x \in Pc
    BY DEF Pc
  <2>2. Moved(t, x, page[t].step, p)
    BY <1>3, <2>1, PageTyped, PageMoves
  <2> QED
    BY <2>1, <2>2, PageTyped, MovedThere
<1>4. CASE SaveHash(t)
  <2>1. /\ At(t, "answered") /\ Put(t, page[t].pending) /\ Goto(t, "capture")
        /\ UNCHANGED <<chain, lost, retired>>
    BY <1>4 DEF SaveHash
  <2>2. /\ page'[t].pc = "capture" /\ page'[t].step = page[t].step
        /\ page'[t].pending = page[t].pending
    BY <1>1, <1>3, <2>1
  <2>3. /\ View(t)' = page[t].pending
        /\ cache'[t].unsaved \/ cache'[t].memory = disk'
    BY <2>1, PageTyped, PutPuts
  <2>4. Outstanding \subseteq {page[t].pending.nonce}
    BY <1>1, <2>1 DEF Knows, Known
  <2>5. InStep(t)' /\ ~Settles(t)'
    BY <1>1, <2>1, <2>2 DEF InStep, Settles, At
  <2> QED
    BY <1>2, <2>1, <2>2, <2>3, <2>4, <2>5, GoesOnInformed
<1>5. CASE Capture(t)
  <2>1. PICK known, p :
          /\ known \in BOOLEAN /\ p = [page[t].pending EXCEPT !.identity = known]
          /\ Put(t, p)
          /\ page' = [page EXCEPT ![t].pc = "wait", ![t].pending = p]
    BY <1>5 DEF Capture
  <2>2. At(t, "capture") /\ UNCHANGED <<chain, lost, retired>>
    BY <1>5 DEF Capture
  <2>3. p \in Records /\ p.nonce = page[t].pending.nonce
        /\ p.amount = page[t].pending.amount
    BY <1>1, <2>1, <2>2, PageTyped, IdentifiedIsRecord DEF OfOne, At
  <2>4. /\ page'[t].pc = "wait" /\ page'[t].step = page[t].step
        /\ page'[t].pending = p
    BY <1>3, <2>1, <2>3
  <2>5. View(t)' = p /\ (cache'[t].unsaved \/ cache'[t].memory = disk')
    BY <2>1, <2>3, PageTyped, PutPuts
  <2>6. Outstanding \subseteq {p.nonce}
    BY <1>1, <2>2, <2>3 DEF Knows, Known, Waits, At
  <2>7. InStep(t)' /\ ~Settles(t)'
    BY <1>1, <2>2, <2>3, <2>4 DEF InStep, Settles, At
  <2> QED
    BY <1>2, <2>2, <2>4, <2>5, <2>6, <2>7, GoesOnInformed
<1>6. CASE Confirmed(t) \/ Replaced(t)
  <2>1. /\ At(t, "wait") /\ UNCHANGED <<chain, lost, retired>>
        /\ page[t].pending.nonce <= mined
        /\ \/ Put(t, Nothing)
           \/ /\ MinedReplaced(page[t].pending)
              /\ PutThenClear(t, AsReplaced(page[t].pending))
        /\ Goto(t, "verify") \/ Throws(t)
    BY <1>6 DEF Confirmed, Replaced, Receipt, MinedAsSaved, MinedReplaced
  <2>2. Outstanding' = {}
    <3>1. Outstanding \subseteq {page[t].pending.nonce}
      BY <1>1, <2>1 DEF Knows, Known, Waits, At
    <3>2. page[t].pending.nonce \notin Outstanding
      BY <1>1, <2>1, MinedIsSettled
    <3> QED
      BY <1>2, <2>1, <3>1, <3>2
  <2>3. cache'[t].unsaved \/ cache'[t].memory = disk'
    BY <2>1, PageTyped, PutPuts, PutClears, ReplacedIsRecord DEF OfOne, At
  <2>4. CASE Throws(t)
    BY <1>2, <2>1, <2>2, <2>3, <2>4, PageTyped, ThrownAway, StopsInformed
  <2>5. CASE Goto(t, "verify")
    <3>1. /\ page'[t].pc = "verify" /\ page'[t].step = page[t].step
          /\ page'[t].pending = page[t].pending
      BY <1>1, <1>3, <2>5
    <3>2. InStep(t)' /\ ~Waits(t)'
      BY <1>1, <2>1, <3>1 DEF InStep, Waits, At
    <3> QED
      BY <1>2, <2>1, <2>2, <2>3, <3>1, <3>2, GoesOnInformed
  <2> QED
    BY <2>1, <2>4, <2>5
<1>7. CASE TimeOut(t)
  <2>1. /\ At(t, "wait") /\ UNCHANGED <<chain, lost, retired>> /\ Throws(t)
        /\ \/ UNCHANGED <<disk, cache>>
           \/ /\ MinedReplaced(page[t].pending)
              /\ Put(t, AsReplaced(page[t].pending))
    BY <1>7 DEF TimeOut
  <2>2. /\ Outstanding \subseteq {page[t].pending.nonce}
        /\ View(t) = page[t].pending
    BY <1>1, <2>1 DEF Knows, Known, Waits, At
  <2>3. /\ View(t)'.nonce = page[t].pending.nonce
        /\ cache'[t].unsaved \/ cache'[t].memory \in {Nothing, disk'}
    <3>1. CASE UNCHANGED <<disk, cache>>
      BY <1>1, <2>2, <3>1 DEF Knows, View
    <3>2. CASE /\ MinedReplaced(page[t].pending)
               /\ Put(t, AsReplaced(page[t].pending))
      BY <2>1, <3>2, PageTyped, PutPuts, ReplacedIsRecord DEF OfOne, At
    <3> QED
      BY <2>1, <3>1, <3>2
  <2>4. page'[t].pc = "idle"
    BY <2>1, PageTyped, ThrownAway
  <2> QED
    BY <1>2, <2>1, <2>2, <2>3, <2>4, StopsInformed
<1>8. CASE Simulate(t)
  <2>1. /\ At(t, "deposit") /\ UNCHANGED <<chain, disk, cache, lost, retired>>
        /\ Goto(t, "confirm-deposit")
    BY <1>8 DEF Simulate
  <2>2. page'[t].pc = "confirm-deposit"
    BY <1>1, <1>3, <2>1
  <2>3. Outstanding = {}
    BY <1>1, <2>1 DEF Knows, Settles, At
  <2>4. InStep(t)' /\ ~Waits(t)'
    BY <2>2 DEF InStep, Waits, At
  <2>5. cache'[t].unsaved \/ cache'[t].memory \in {Nothing, disk'}
    BY <1>1, <2>1 DEF Knows
  <2> QED
    BY <1>2, <2>1, <2>2, <2>3, <2>4, <2>5, GoesOnInformed
<1>9. CASE Deposit(t)
  BY <1>9, DepositInformed
<1>10. CASE Fail(t)
  <2>1. /\ ~At(t, "answered") /\ UNCHANGED <<chain, disk, cache, lost, retired>>
        /\ Throws(t)
    BY <1>10 DEF Fail, At
  <2>2. page'[t].pc = "idle"
    BY <2>1, PageTyped, ThrownAway
  <2>3. /\ View(t)' = View(t) /\ Outstanding \subseteq {View(t).nonce}
        /\ cache'[t].unsaved \/ cache'[t].memory \in {Nothing, disk'}
    BY <1>1, <2>1 DEF Knows, Known, View
  <2> QED
    BY <1>2, <2>1, <2>2, <2>3, StopsInformed
<1>11. CASE Reload(t)
  <2>1. /\ UNCHANGED <<chain, disk, retired>> /\ Throws(t)
        /\ cache' = [cache EXCEPT ![t] = [memory |-> Nothing, unsaved |-> FALSE]]
        /\ lost' = lost \cup (({page[t].pending.nonce, cache[t].memory.nonce}
                                \ {disk.nonce}) \cap (mined + 1)..Len(sent))
    BY <1>11 DEF Reload, Throws, Loses
  <2>2. page'[t].pc = "idle"
    BY <2>1, PageTyped, ThrownAway
  <2>3. /\ cache'[t].memory = Nothing /\ View(t)' = disk
    BY <2>1, PageTyped DEF View
  <2>4. Outstanding' \subseteq {disk.nonce}
    <3>1. Outstanding' \subseteq Outstanding
      BY <1>1, <2>1, OutstandingShrinks
    <3>2. Known(t) \in {page[t].pending.nonce, cache[t].memory.nonce, disk.nonce}
      BY DEF Known, View
    <3>3. Outstanding' \cap lost' = {} /\ Outstanding \subseteq (mined + 1)..Len(sent)
      BY DEF Outstanding, InFlight
    <3>4. Outstanding \subseteq {Known(t)}
      BY <1>1 DEF Knows
    <3> QED
      BY <2>1, <3>1, <3>2, <3>3, <3>4
  <2>5. FromZero' /\ NoneBefore'
    BY <2>1, AccountKept
  <2> QED
    BY <2>2, <2>3, <2>4, <2>5, StopsInformed
<1> QED
  BY <1>4, <1>5, <1>6, <1>7, <1>8, <1>9, <1>10, <1>11, StartInformed
     DEF Common, Start

-----------------------------------------------------------------------------
(* The page goes on, with the storage as it is.                            *)
LEMMA PassesInformed ==
  ASSUME TypeInv, Informed, UNCHANGED flow, OnePage, NEW t \in Tab,
         ~At(t, "answered"), UNCHANGED <<chain, disk, cache, lost, retired>>,
         page'[t].pc \notin {"idle", "answered"},
         Waits(t)' => View(t) = page'[t].pending,
         Settles(t)' => Outstanding = {},
         InStep(t)'
  PROVE  Informed'
<1>1. FromZero' /\ NoneBefore' /\ Outstanding' \subseteq Outstanding
  BY AccountKept, OutstandingShrinks DEF TypeInv
<1>2. /\ View(t)' = View(t) /\ Outstanding \subseteq {View(t).nonce}
      /\ cache'[t].unsaved \/ cache'[t].memory \in {Nothing, disk'}
  BY DEF Informed, Knows, Known, View
<1> QED
  BY <1>1, <1>2, GoesOnInformed

LEMMA ThrowsInformed ==
  ASSUME TypeInv, Informed, UNCHANGED flow, OnePage, NEW t \in Tab,
         ~At(t, "answered"), UNCHANGED <<chain, disk, cache, lost, retired>>,
         Throws(t)
  PROVE  Informed'
<1>1. FromZero' /\ NoneBefore' /\ Outstanding' \subseteq Outstanding
  BY AccountKept, OutstandingShrinks DEF TypeInv
<1>2. /\ View(t)' = View(t) /\ Outstanding \subseteq {View(t).nonce}
      /\ cache'[t].unsaved \/ cache'[t].memory \in {Nothing, disk'}
  BY DEF Informed, Knows, Known, View
<1>3. page'[t].pc = "idle"
  BY PageTyped, ThrownAway
<1> QED
  BY <1>1, <1>2, <1>3, StopsInformed

LEMMA RecoverInformedKept ==
  ASSUME TypeInv, Informed, UNCHANGED flow, OnePage, NEW t \in Tab,
         NEW x, Recover(t, x),
         x = IF flow = "agglayer" THEN "satisfied" ELSE "allowance"
  PROVE  Informed'
<1>1. PICK p \in Resolutions(page[t].pending) : RecoverAs(t, x, p)
  BY DEF Recover
<1>2. /\ p \in Records /\ p.nonce = page[t].pending.nonce /\ p.nonce > 0
      /\ At(t, "recover") /\ page[t].pc = "recover" /\ x \in Pc
  BY PageTyped, ResolvedIsRecord DEF Recover, At, OfOne, Pc
<1>3. UNCHANGED <<chain, lost, retired>> /\ Knows(t) /\ InStep(t) /\ ChainOK
  BY <1>1, PageTyped DEF RecoverAs, Informed
<1>4. FromZero' /\ NoneBefore' /\ Outstanding' \subseteq Outstanding
  BY <1>3, AccountKept, OutstandingShrinks
<1>5. Outstanding \subseteq {p.nonce}
  BY <1>2, <1>3 DEF Knows, Known, Waits, At
<1>6. CASE p.reason = "cancelled"
  <2>1. PutThenClear(t, p) /\ Throws(t)
    BY <1>1, <1>6 DEF RecoverAs
  <2>2. /\ page'[t].pc = "idle"
        /\ cache'[t].unsaved \/ cache'[t].memory = disk'
    BY <1>2, <2>1, PageTyped, PutClears, ThrownAway
  <2>3. Outstanding = {}
    BY <1>2, <1>3, <1>5, <1>6, NonceTyped, MinedIsSettled
  <2> QED
    BY <1>4, <2>2, <2>3, StopsInformed
<1>7. CASE p.reason # "cancelled"
  <2>1. /\ Put(t, p)
        /\ page' = [page EXCEPT ![t].pc = x, ![t].pending = p]
    BY <1>1, <1>7 DEF RecoverAs
  <2>2. Moved(t, x, page[t].step, p)
    BY <1>2, <2>1, PageTyped, PageMoves
  <2>3. page'[t].pc = x /\ page'[t].step = page[t].step /\ page'[t].pending = p
    BY <1>2, <2>2, PageTyped, MovedThere
  <2>4. View(t)' = p /\ (cache'[t].unsaved \/ cache'[t].memory = disk')
    BY <1>2, <2>1, PageTyped, PutPuts
  <2>5. InStep(t)'
    BY <1>2, <1>3, <2>3 DEF InStep
  <2>6. ~Settles(t)'
    <3>1. p # Nothing
      BY <1>2, NonceTyped
    <3>2. flow \in {"agglayer", "usdc"}
      BY DEF TypeInv
    <3> QED
      BY <2>3, <3>1, <3>2 DEF Settles, Waits, At
  <2> QED
    BY <1>4, <1>5, <2>3, <2>4, <2>5, <2>6, GoesOnInformed
<1> QED
  BY <1>6, <1>7

LEMMA SignInformed ==
  ASSUME TypeInv, Informed, UNCHANGED flow, OnePage, NEW t \in Tab,
         NEW amount \in Amount, Sign(t, amount),
         flow = "agglayer" /\ page[t].step = "reset" => amount = 0
  PROVE  Informed'
<1>1. /\ At(t, "sign") /\ Broadcast("approve", amount)
      /\ UNCHANGED <<disk, cache, lost, retired>>
  BY DEF Sign
<1>2. ChainOK /\ Knows(t) /\ InStep(t) /\ Len(sent) \in Nat
  BY DEF Informed, TypeInv, ChainOK
<1>3. PICK m : m = Len(sent) + 1
  OBVIOUS
<1>4. /\ ChainOK' /\ Len(sent') = m /\ allowance' = allowance
      /\ sent'[m].call = "approve" /\ sent'[m].amount = amount
      /\ \A n \in 1..Len(sent) : /\ sent'[n] = sent[n]
                                 /\ Live(n)' <=> Live(n)
                                 /\ Awaiting(n)' <=> Awaiting(n)
  BY <1>1, <1>2, <1>3, BroadcastAppends
<1>5. /\ ~Awaiting(m)' /\ \A n \in 1..Len(sent') : n # m => n \in 1..Len(sent)
  BY <1>2, <1>3, <1>4 DEF Awaiting
<1>6. PICK p : p = [Nothing EXCEPT !.nonce = m, !.amount = amount]
  OBVIOUS
<1>7. p.nonce = m /\ p.amount = amount
  BY <1>6 DEF Nothing
<1>8. page' = [page EXCEPT ![t].pc = "answered", ![t].pending = p]
  BY <1>3, <1>6 DEF Sign
<1>9. /\ page'[t].pc = "answered" /\ page'[t].pending = p
      /\ page'[t].step = page[t].step
  BY <1>8, PageTyped DEF PageOf
<1>10. Outstanding = {} /\ Outstanding' \subseteq {m}
  <2>1. Outstanding = {}
    BY <1>1, <1>2 DEF Knows, Settles, At
  <2> QED
    BY <1>1, <1>4, <1>5, <2>1 DEF Outstanding, Live
<1>11. Knows(t)'
  <2>1. Known(t)' = m /\ ~Waits(t)' /\ ~Settles(t)'
    BY <1>7, <1>9 DEF Known, Waits, Settles, At
  <2> QED
    BY <1>1, <1>2, <1>10, <2>1 DEF Knows
<1>12. InStep(t)'
  BY <1>7, <1>9 DEF InStep
<1>13. FromZero'
  <2> SUFFICES ASSUME flow' = "agglayer", lost' = {}
               PROVE  /\ \A n \in retired : ~Live(n)'
                      /\ \A n \in 1..Len(sent') :
                           Live(n)' /\ sent'[n].amount > 0 => allowance' = 0
    BY <1>1 DEF FromZero
  <2>1. \A n \in retired : ~Live(n)'
    BY <1>1, <1>4, PageTyped DEF Informed, FromZero
  <2>2. ASSUME amount > 0 PROVE allowance = 0
    BY <1>1, <1>2, <2>2, PageTyped DEF InStep, At, Step
  <2>3. ASSUME NEW n \in 1..Len(sent'), Live(n)', sent'[n].amount > 0
        PROVE  allowance' = 0
    <3>1. CASE n = m
      BY <1>4, <2>2, <2>3, <3>1
    <3>2. CASE n # m
      BY <1>1, <1>4, <1>5, <2>3, <3>2 DEF Informed, FromZero
    <3> QED
      BY <3>1, <3>2
  <2> QED
    BY <2>1, <2>3
<1>14. NoneBefore'
  <2> SUFFICES ASSUME lost' = {}, flow' = "usdc" => retired' = {},
                      NEW d \in 1..Len(sent'), NEW n \in 1..Len(sent'),
                      Awaiting(d)', Live(n)'
               PROVE  d < n
    BY DEF NoneBefore
  <2>1. d \in 1..Len(sent) /\ Awaiting(d)
    BY <1>4, <1>5
  <2>2. CASE n = m
    BY <1>2, <1>3, <2>1, <2>2
  <2>3. CASE n # m
    BY <1>1, <1>4, <1>5, <2>1, <2>3 DEF Informed, NoneBefore
  <2> QED
    BY <2>2, <2>3
<1> QED
  BY <1>11, <1>12, <1>13, <1>14 DEF Informed, OnePage

(* A sufficient allowance retires what the page waits for, and nothing is  *)
(* outstanding any more.                                                   *)
LEMMA RetireSettles ==
  ASSUME TypeInv, Informed, UNCHANGED flow, OnePage, NEW t \in Tab, Retire(t),
         Waits(t) \/ Settles(t), ~At(t, "answered"),
         flow = "agglayer" => page[t].pending.amount > 0
  PROVE  /\ Outstanding' = {} /\ FromZero' /\ NoneBefore'
         /\ cache'[t].unsaved \/ cache'[t].memory \in {Nothing, disk'}
<1> DEFINE n == page[t].pending.nonce
<1>1. /\ UNCHANGED <<chain, lost>> /\ Put(t, Nothing)
      /\ retired' = retired \cup ({n} \cap (mined + 1)..Len(sent))
      /\ allowance >= page[t].want
  BY DEF Retire
<1>2. /\ ChainOK /\ Knows(t) /\ n \in Nat /\ page[t].pending \in Records
      /\ page[t].pc # "idle" /\ page[t].want > 0 /\ page[t].want \in Nat
      /\ allowance \in Nat
  BY PageTyped, NonceTyped, BoundAssumption
     DEF Informed, ChainOK, Amount, Waits, Settles, At
<1>3. Outstanding' = {}
  <2>1. Outstanding' \subseteq Outstanding
    BY <1>1, <1>2, OutstandingShrinks
  <2>2. Outstanding \subseteq {n}
    BY <1>2 DEF Knows, Known
  <2>3. Outstanding' \cap retired' = {} /\ Outstanding \subseteq (mined + 1)..Len(sent)
    BY DEF Outstanding, InFlight
  <2> QED
    BY <1>1, <2>1, <2>2, <2>3
<1>4. \A m : (Live(m)' <=> Live(m)) /\ (Awaiting(m)' <=> Awaiting(m))
  BY <1>1 DEF Live, Awaiting, InFlight, Approval, chain
<1>5. UNCHANGED <<sent, mined, allowance>>
  BY <1>1 DEF chain
<1>6. FromZero'
  <2> SUFFICES ASSUME flow = "agglayer", lost = {}
               PROVE  /\ \A m \in retired' : ~Live(m)
                      /\ \A m \in 1..Len(sent) :
                           Live(m) /\ sent[m].amount > 0 => allowance = 0
    BY <1>1, <1>4, <1>5 DEF FromZero
  <2>1. /\ \A m \in retired : ~Live(m)
        /\ \A m \in 1..Len(sent) :
             Live(m) /\ sent[m].amount > 0 => allowance = 0
    BY DEF Informed, FromZero
  <2>2. n \in 1..Len(sent) => sent[n].amount > 0
    BY <1>2 DEF Records
  <2>3. n \in (mined + 1)..Len(sent) => ~Live(n)
    BY <1>1, <1>2, <2>1, <2>2 DEF ChainOK
  <2> QED
    BY <1>1, <2>1, <2>3
<1>7. NoneBefore'
  BY <1>1, <1>4, <1>5 DEF Informed, NoneBefore
<1>8. cache'[t].unsaved \/ cache'[t].memory = disk'
  BY <1>1, PageTyped, PutPuts
<1> QED
  BY <1>3, <1>6, <1>7, <1>8

LEMMA AgglayerInformed ==
  ASSUME TypeInv, Informed, UNCHANGED flow, OnePage, NEW t \in Tab,
         flow = "agglayer", AgglayerStep(t)
  PROVE  Informed'
<1>1. Knows(t) /\ InStep(t)
  BY DEF Informed
<1>2. CASE AgglayerSatisfied(t)
  <2>1. At(t, "satisfied") /\ page[t].pc = "satisfied" /\ Waits(t)
    BY <1>2 DEF AgglayerSatisfied, At, Waits
  <2>2. CASE Goto(t, "wait") /\ UNCHANGED <<chain, disk, cache, lost, retired>>
    <3>1. "wait" \in Pc
      BY DEF Pc
    <3>2. Moved(t, "wait", page[t].step, page[t].pending)
      BY <2>2, <3>1, PageTyped, PageMoves
    <3>3. /\ page'[t].pc = "wait" /\ page'[t].step = page[t].step
          /\ page'[t].pending = page[t].pending
      BY <3>1, <3>2, PageTyped, MovedThere
    <3>4. View(t) = page[t].pending
      BY <1>1, <2>1 DEF Knows
    <3>5. InStep(t)' /\ ~Settles(t)'
      BY <1>1, <2>1, <3>3 DEF InStep, Settles, At
    <3> QED
      BY <2>1, <2>2, <3>3, <3>4, <3>5, PassesInformed DEF At
  <2>3. CASE /\ page[t].pending.amount > 0 /\ Retire(t)
             /\ page' = [page EXCEPT ![t].pc = "allowance", ![t].pending = Nothing]
    <3>1. "allowance" \in Pc
      BY DEF Pc
    <3>2. Moved(t, "allowance", page[t].step, Nothing)
      BY <2>3, <3>1, PageTyped, PageMoves
    <3>3. page'[t].pc = "allowance"
      BY <3>1, <3>2, PageTyped, MovedThere
    <3>4. InStep(t)' /\ ~Waits(t)'
      BY <3>3 DEF InStep, Waits, At
    <3>5. /\ Outstanding' = {} /\ FromZero' /\ NoneBefore'
          /\ cache'[t].unsaved \/ cache'[t].memory \in {Nothing, disk'}
      BY <2>1, <2>3, RetireSettles DEF At
    <3> QED
      BY <3>3, <3>4, <3>5, GoesOnInformed
  <2> QED
    BY <1>2, <2>2, <2>3 DEF AgglayerSatisfied
<1>3. CASE AgglayerCheck(t)
  <2>1. PICK x \in {"deposit", "sign"}, s \in {"reset", "approve"} :
          /\ page' = [page EXCEPT ![t].pc = x, ![t].step = s, ![t].pending = Nothing]
          /\ s = "approve" => ~(allowance > 0)
    BY <1>3 DEF AgglayerCheck
  <2>2. /\ At(t, "allowance") /\ UNCHANGED <<chain, disk, cache, lost, retired>>
    BY <1>3 DEF AgglayerCheck
  <2>3. x \in Pc /\ s \in Step
    BY DEF Pc, Step
  <2>4. Moved(t, x, s, Nothing)
    BY <2>1, <2>3, PageTyped, PageMoves
  <2>5. page'[t].pc = x /\ page'[t].step = s
    BY <2>3, <2>4, PageTyped, MovedThere
  <2>6. s = "approve" => allowance' = 0
    BY <2>1, <2>2, PageTyped, BoundAssumption DEF ChainOK, Amount, chain
  <2>7. InStep(t)' /\ ~Waits(t)'
    BY <2>5, <2>6 DEF InStep, Waits, At
  <2>8. Outstanding = {}
    BY <1>1, <2>2 DEF Knows, Settles, Waits, At
  <2> QED
    BY <2>2, <2>5, <2>7, <2>8, PassesInformed DEF At
<1>4. CASE AgglayerVerify(t)
  <2>1. /\ At(t, "verify") /\ ~At(t, "answered") /\ page[t].pc = "verify"
        /\ UNCHANGED <<chain, disk, cache, lost, retired>>
    BY <1>4 DEF AgglayerVerify, At
  <2>2. CASE Throws(t)
    BY <2>1, <2>2, ThrowsInformed
  <2>3. ASSUME NEW x \in {"allowance", "sign", "deposit"}, NEW s \in Step,
               page' = [page EXCEPT ![t].pc = x, ![t].step = s,
                                    ![t].pending = Nothing],
               x = "sign" => /\ page[t].step = "reset" /\ s = "approve"
                             /\ page[t].pending.amount = 0 => allowance = 0
        PROVE  Informed'
    <3>1. x \in Pc
      BY DEF Pc
    <3>2. Moved(t, x, s, Nothing)
      BY <2>3, <3>1, PageTyped, PageMoves
    <3>3. page'[t].pc = x /\ page'[t].step = s
      BY <3>1, <3>2, PageTyped, MovedThere
    <3>4. x = "sign" => s = "approve" /\ allowance' = 0
      BY <1>1, <2>1, <2>3 DEF InStep, chain
    <3>5. InStep(t)' /\ ~Waits(t)'
      BY <3>3, <3>4 DEF InStep, Waits, At
    <3>6. Outstanding = {}
      BY <1>1, <2>1 DEF Knows, Settles
    <3> QED
      BY <2>1, <3>3, <3>5, <3>6, PassesInformed
  <2> QED
    BY <1>4, <2>2, <2>3 DEF AgglayerVerify
<1>5. CASE Sign(t, IF page[t].step = "reset" THEN 0 ELSE page[t].want)
  <2>1. PICK amount \in Amount : /\ Sign(t, amount)
                                 /\ page[t].step = "reset" => amount = 0
    <3>1. 0 \in Amount /\ page[t].want \in Amount
      BY PageTyped, BoundAssumption DEF Amount
    <3> QED
      BY <1>5, <3>1
  <2> QED
    BY <2>1, SignInformed
<1> QED
  BY <1>2, <1>3, <1>4, <1>5, RecoverInformedKept DEF AgglayerStep

LEMMA UsdcInformed ==
  ASSUME TypeInv, Informed, UNCHANGED flow, OnePage, NEW t \in Tab,
         flow = "usdc", UsdcStep(t)
  PROVE  Informed'
<1>1. Knows(t)
  BY DEF Informed
<1>2. InStep(t)'
  BY DEF InStep
<1>3. CASE UsdcCheck(t)
  <2>1. /\ At(t, "allowance") /\ ~At(t, "answered")
        /\ Waits(t) \/ Settles(t)
    BY <1>3 DEF UsdcCheck, At, Settles
  <2>2. CASE /\ Retire(t)
             /\ page' = [page EXCEPT ![t].pc = "deposit", ![t].pending = Nothing]
    <3>1. "deposit" \in Pc
      BY DEF Pc
    <3>2. Moved(t, "deposit", page[t].step, Nothing)
      BY <2>2, <3>1, PageTyped, PageMoves
    <3>3. page'[t].pc = "deposit"
      BY <3>1, <3>2, PageTyped, MovedThere
    <3>4. ~Waits(t)'
      BY <3>3 DEF Waits, At
    <3>5. /\ Outstanding' = {} /\ FromZero' /\ NoneBefore'
          /\ cache'[t].unsaved \/ cache'[t].memory \in {Nothing, disk'}
      BY <2>1, <2>2, RetireSettles
    <3> QED
      BY <1>2, <3>3, <3>4, <3>5, GoesOnInformed
  <2>3. ASSUME NEW x \in {"sign", "wait"}, Goto(t, x),
               x = "sign" <=> page[t].pending = Nothing,
               UNCHANGED <<chain, disk, cache, lost, retired>>
        PROVE  Informed'
    <3>1. x \in Pc
      BY DEF Pc
    <3>2. Moved(t, x, page[t].step, page[t].pending)
      BY <2>3, <3>1, PageTyped, PageMoves
    <3>3. page'[t].pc = x /\ page'[t].pending = page[t].pending
      BY <3>1, <3>2, PageTyped, MovedThere
    <3>4. Waits(t)' => View(t) = page'[t].pending
      BY <1>1, <2>1, <2>3, <3>3 DEF Knows, Waits, At
    <3>5. Settles(t)' => Outstanding = {}
      BY <1>1, <2>1, <2>3, <3>3 DEF Knows, Settles, Waits, At
    <3> QED
      BY <1>2, <2>1, <2>3, <3>3, <3>4, <3>5, PassesInformed
  <2> QED
    BY <1>3, <2>2, <2>3 DEF UsdcCheck
<1>4. CASE UsdcVerify(t)
  <2>1. /\ At(t, "verify") /\ ~At(t, "answered")
        /\ UNCHANGED <<chain, disk, cache, lost, retired>>
    BY <1>4 DEF UsdcVerify, At
  <2>2. CASE Throws(t)
    BY <2>1, <2>2, ThrowsInformed
  <2>3. CASE page' = [page EXCEPT ![t].pc = "deposit", ![t].pending = Nothing]
    <3>1. "deposit" \in Pc
      BY DEF Pc
    <3>2. Moved(t, "deposit", page[t].step, Nothing)
      BY <2>3, <3>1, PageTyped, PageMoves
    <3>3. page'[t].pc = "deposit"
      BY <3>1, <3>2, PageTyped, MovedThere
    <3>4. ~Waits(t)' /\ Outstanding = {}
      BY <1>1, <2>1, <3>3 DEF Knows, Settles, Waits, At
    <3> QED
      BY <1>2, <2>1, <3>3, <3>4, PassesInformed
  <2> QED
    BY <1>4, <2>2, <2>3 DEF UsdcVerify
<1>5. CASE Sign(t, page[t].want)
  BY <1>5, PageTyped, SignInformed
<1>6. CASE Recover(t, "allowance")
  BY <1>6, RecoverInformedKept
<1> QED
  BY <1>3, <1>4, <1>5, <1>6 DEF UsdcStep

(* The chain and the wallet never raise what is outstanding, and with one  *)
(* approval live at most, the allowance rises when none is left.           *)
LEMMA NetworkInformed ==
  ASSUME TypeInv, Informed, UNCHANGED flow, OnePage, Network
  PROVE  Informed'
<1>1. Ages /\ ChainOK /\ UNCHANGED <<disk, cache, page, lost, retired>>
  BY NetworkAges DEF TypeInv
<1>2. /\ Len(sent') = Len(sent) /\ allowance \in Nat /\ allowance' \in Nat
      /\ \A n \in 1..Len(sent) : /\ sent'[n].amount = sent[n].amount
                                 /\ Live(n)' => Live(n)
                                 /\ Awaiting(n)' => Awaiting(n)
      /\ \/ allowance' <= allowance
         \/ \E n \in 1..Len(sent) : Live(n) /\ ~Live(n)'
  BY <1>1, BoundAssumption DEF Ages, ChainOK, Amount
<1>3. Outstanding' \subseteq Outstanding
  BY <1>1, OutstandingShrinks
<1>4. ASSUME NEW t \in Tab PROVE Knows(t)'
  <2>1. /\ Known(t)' = Known(t) /\ (Waits(t)' <=> Waits(t))
        /\ (Settles(t)' <=> Settles(t)) /\ View(t)' = View(t)
    BY <1>1 DEF Known, Waits, Settles, View, At
  <2>2. Knows(t)
    BY DEF Informed
  <2> QED
    BY <1>1, <1>3, <2>1, <2>2 DEF Knows
<1>5. ASSUME flow = "agglayer", lost = {}
      PROVE  \A n \in 1..Len(sent) : Live(n) => n \in Outstanding
  BY <1>5, OutstandingAre DEF Informed, FromZero
<1>6. ASSUME NEW t \in Tab PROVE InStep(t)'
  <2>1. InStep(t) /\ Knows(t)
    BY DEF Informed
  <2>2. ASSUME flow = "agglayer", lost = {}, page[t].pc = "sign", allowance = 0
        PROVE  allowance' = 0
    <3>1. Outstanding = {}
      BY <2>1, <2>2 DEF Knows, Settles
    <3> QED
      BY <1>2, <1>5, <2>2, <3>1
  <2> QED
    BY <1>1, <2>1, <2>2 DEF InStep
<1>7. FromZero'
  <2> SUFFICES ASSUME flow = "agglayer", lost = {}
               PROVE  /\ \A n \in retired : ~Live(n)'
                      /\ \A n \in 1..Len(sent) :
                           Live(n)' /\ sent'[n].amount > 0 => allowance' = 0
    BY <1>1, <1>2 DEF FromZero
  <2>1. \A n \in retired : ~Live(n)'
    BY <1>2, PageTyped DEF Informed, FromZero, TypeInv
  <2>2. ASSUME NEW n \in 1..Len(sent), Live(n)', sent'[n].amount > 0
        PROVE  allowance' = 0
    <3>1. Live(n) /\ sent[n].amount > 0 /\ allowance = 0
      BY <1>2, <2>2 DEF Informed, FromZero
    <3>2. ASSUME NEW m \in 1..Len(sent), Live(m) PROVE m = n
      BY <1>5, <3>1, <3>2, OneOutstanding
    <3> QED
      BY <1>2, <2>2, <3>1, <3>2
  <2> QED
    BY <2>1, <2>2
<1>8. NoneBefore'
  BY <1>1, <1>2 DEF Informed, NoneBefore
<1> QED
  BY <1>4, <1>6, <1>7, <1>8 DEF Informed

LEMMA InitInformed == MCInit => Informed
<1> SUFFICES ASSUME MCInit PROVE Informed
  OBVIOUS
<1>1. /\ sent = <<>> /\ retired = {} /\ disk = Nothing
      /\ cache = [t \in Tab |-> [memory |-> Nothing, unsaved |-> FALSE]]
      /\ page = [t \in Tab |-> Idle]
  BY DEF MCInit, Init
<1>2. 1..Len(sent) = {} /\ Outstanding = {}
  BY <1>1 DEF Outstanding
<1>3. ASSUME NEW t \in Tab PROVE Knows(t) /\ InStep(t)
  BY <1>1, <1>2 DEF Knows, InStep, Waits, Settles, At, Idle
<1> QED
  BY <1>1, <1>2, <1>3 DEF Informed, FromZero, NoneBefore

LEMMA NextInformed ==
  ASSUME OnePage
  PROVE  TypeInv /\ Informed /\ [MCNext]_<<vars, flow>> => Informed'
<1> SUFFICES ASSUME TypeInv, Informed, [MCNext]_<<vars, flow>> PROVE Informed'
  OBVIOUS
<1>1. CASE UNCHANGED <<vars, flow>>
  BY <1>1 DEF vars, Informed, Knows, InStep, FromZero, NoneBefore, Known, Waits,
              Settles, View, At, Outstanding, Live, Awaiting, InFlight, Approval
<1>2. CASE MCNext
  <2>1. UNCHANGED flow
    BY <1>2 DEF MCNext
  <2>2. CASE flow = "agglayer" /\ Agglayer!Next
    BY <2>1, <2>2, AgglayerShares, NetworkInformed, CommonInformed,
       AgglayerInformed
  <2>3. CASE flow = "usdc" /\ Usdc!Next
    BY <2>1, <2>3, UsdcShares, NetworkInformed, CommonInformed, UsdcInformed
  <2> QED
    BY <1>2, <2>2, <2>3 DEF MCNext
<1> QED
  BY <1>1, <1>2

-----------------------------------------------------------------------------
(* With one page open, what it knows is enough: it is never asked to sign  *)
(* while an approval it has not lost or retired is outstanding, however    *)
(* often attempts fail and are retried, and whatever happens to the        *)
(* approvals on their way.                                                 *)
THEOREM ApprovalsSignOnce ==
  ASSUME OnePage
  PROVE  MCSpec => []SignsOnce
<1>1. TypeInv /\ Informed => SignsOnce
  BY OneOutstanding DEF SignsOnce
<1> QED
  BY <1>1, InitTyped, NextTyped, InitInformed, NextInformed, PTL DEF MCSpec

(* No deposit of that page is broadcast behind an approval that lowers the *)
(* allowance below it.                                                     *)
THEOREM DepositsNotUndercut ==
  ASSUME OnePage
  PROVE  MCSpec => []DepositNotUndercut
<1>1. TypeInv /\ Informed => DepositNotUndercut
  <2> SUFFICES ASSUME TypeInv, Informed, lost = {},
                      flow = "usdc" => retired = {},
                      NEW d \in 1..Len(sent), NEW n \in 1..Len(sent),
                      Awaiting(d), Live(n), n < d
               PROVE  FALSE
    BY DEF DepositNotUndercut, NotUndercut, Awaiting, Live
  <2>1. d < n
    BY DEF Informed, NoneBefore
  <2> QED
    BY <2>1
<1> QED
  BY <1>1, InitTyped, NextTyped, InitInformed, NextInformed, PTL DEF MCSpec

(* An Agglayer approval of an amount that is next to be mined finds a zero *)
(* allowance: the reset before it was settled.                             *)
THEOREM ResetsSettleFirst ==
  ASSUME OnePage
  PROVE  MCSpec => []ResetsFirst
<1>1. TypeInv /\ Informed => ResetsFirst
  <2> SUFFICES ASSUME TypeInv, Informed, flow = "agglayer", lost \cup retired = {},
                      NEW n \in 1..Len(sent), Live(n), sent[n].amount > 0
               PROVE  allowance = 0
    BY DEF ResetsFirst, Agglayer!ApprovesFromZero, Agglayer!InFlight,
           Agglayer!Approval, Live, InFlight, Approval
  <2> QED
    BY DEF Informed, FromZero
<1> QED
  BY <1>1, InitTyped, NextTyped, InitInformed, NextInformed, PTL DEF MCSpec
================================================================================
