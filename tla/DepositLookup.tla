----------------------------- MODULE DepositLookup -----------------------------
(***************************************************************************)
(* Finding a transfer in Agglayer's list of an address's deposits          *)
(* (src/src/bridge/providers/agglayer/agglayer-status.ts), and for a       *)
(* withdrawal first its identity on Miden (withdrawal-recovery.server.ts,  *)
(* src/src/bridge/miden-rpc.server.ts).  The list is read newest first in  *)
(* pages, while deposits are added in front.                               *)
(***************************************************************************)
EXTENDS StatusPoll

CONSTANTS
  PageSize,   \* the rows asked for: 100
  MaxPages    \* the pages read at most: 100

ASSUME PageAssumption == /\ {PageSize, MaxPages} \subseteq Nat \ {0}
                         /\ None \notin Nat

(* `listed` of a lookup: the transfer was in the list when it began.       *)
NoLookup == [offset |-> 0, pages |-> 0, listed |-> FALSE, result |-> "none"]
BeginLookup ==
  lookup' = [NoLookup EXCEPT !.listed = rows.listed, !.result = "reading"]

StartLookup ==
  /\ poll.at = "idle"
  /\ provider \in Agglayer
  /\ ~saved.found
  /\ IF provider = "agglayer-out" /\ ~saved.exits
     THEN Ask([NoPoll EXCEPT !.hash = saved.hash], "locate") /\ UNCHANGED lookup
     ELSE Ask([NoPoll EXCEPT !.hash = saved.hash], "page") /\ BeginLookup
  /\ UNCHANGED <<chains, saved>>

(* The explorer only locates the transaction: here, in a wrong block, or   *)
(* not at all.  Naming another one is an error.                            *)
LocateTransaction ==
  /\ poll.at = "locate"
  /\ \/ Report(saved)
     \/ \E block \in {"wrong"} \cup (IF tx = "mined" THEN {"own"} ELSE {}) :
          /\ Ask([poll EXCEPT !.hint = block], "header")
          /\ UNCHANGED saved
  /\ UNCHANGED <<chains, lookup>>

(* The node's header in that block decides; its output notes are the exits.*)
VerifyHeader ==
  /\ poll.at = "header"
  /\ IF poll.hint = "own"
     THEN Ask([poll EXCEPT !.exits = TRUE], "page") /\ BeginLookup
          /\ UNCHANGED saved
     ELSE Report(saved) /\ UNCHANGED lookup
  /\ UNCHANGED chains

----------------------------------------------------------------------------
(* A page from an offset: with the list's total the service may return     *)
(* fewer rows than asked for.                                              *)
Total == rows.newer + (IF rows.listed THEN 1 ELSE 0) + rows.older
Least(m, n) == IF m < n THEN m ELSE n
Pages(offset) ==
  LET rest == IF offset < Total THEN Total - offset ELSE 0
      most == Least(PageSize, rest)
  IN  [length: Least(1, rest)..most, total: {Total}]
        \cup [length: {most}, total: {None}]

IsLastPage(page, offset) ==
  \/ page.length = 0
  \/ page.total # None /\ offset >= page.total
  \/ page.total = None /\ page.length < PageSize

(* Mutant: the next page is a whole page further.                          *)
WholePages(offset, page) == offset + PageSize

NextOffset(offset, page) == offset + page.length
Contains(page, offset) ==
  rows.listed /\ rows.newer \in offset..(offset + page.length - 1)

Conclude(result) == lookup' = [lookup EXCEPT !.result = result]
ReadPage ==
  /\ poll.at = "page"
  /\ \E page \in Pages(lookup.offset) :
       LET offset == NextOffset(lookup.offset, page)
           exits  == saved.exits \/ poll.exits
       IN  CASE Contains(page, lookup.offset) ->
                  /\ Conclude("found")
                  /\ Report([saved EXCEPT !.found = TRUE, !.exits = exits])
             [] ~Contains(page, lookup.offset) /\ IsLastPage(page, offset) ->
                  /\ Conclude("missing")
                  /\ Report([saved EXCEPT !.exits = exits])
             [] OTHER ->
                  /\ lookup' = [lookup EXCEPT !.offset = offset, !.pages = @ + 1]
                  /\ UNCHANGED <<saved, poll, rpc>>
  /\ lookup.pages < MaxPages
  /\ UNCHANGED chains

(* The page limit, a service that fails, or its timeout.                   *)
LookupFails ==
  /\ poll.at \in {"locate", "header", "page"}
  /\ Threw
  /\ IF poll.at = "page" THEN Conclude("failed") ELSE UNCHANGED lookup
  /\ UNCHANGED chains

LookupStep ==
  \/ StartLookup
  \/ LocateTransaction
  \/ VerifyHeader
  \/ ReadPage
  \/ LookupFails

(* A deposit listed when a lookup began is found, or the lookup fails and  *)
(* is tried again: rows added in front between two pages shift the list    *)
(* but hide nothing (agglayer-status.ts:20).                               *)
FindsTheDeposit == lookup.result = "missing" => ~lookup.listed
=============================================================================
