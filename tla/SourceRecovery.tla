--------------------------- MODULE SourceRecovery ---------------------------
(***************************************************************************)
(* What became of a source transaction the explorer no longer finds: the   *)
(* search for the block that consumed its nonce, and the replacement in    *)
(* that block (src/src/bridge/evm/source-transaction.ts).                  *)
(*                                                                         *)
(* The chain keeps growing while the search runs, one RPC read per step;   *)
(* any read may fail, and the node that answers may lag behind the chain.  *)
(* Blocks are never reorganised below a head that was reported.            *)
(***************************************************************************)
EXTENDS Integers

CONSTANTS
  Nonce,     \* the nonce of the pending source transaction
  MaxBlock,  \* bound on the height of the chain
  MaxCount   \* bound on the account's transactions

ASSUME NonceAssumption == Nonce \in Nat
ASSUME BoundAssumption == MaxBlock \in Nat /\ MaxCount \in Nat

None == "undefined"

(* The transaction that may consume the nonce: the original, the same call *)
(* with another fee, an empty transfer to the sender itself, or any other. *)
Replacement == {"repriced", "cancelled", "replaced"}
Candidate == {"original"} \cup Replacement

VARIABLES
  top,         \* the latest block
  count,       \* count[b]: the account's transactions up to block b
  winner,      \* the candidate that consumed the nonce
  identity,    \* the receipt holds the original's sender, call and nonce
  pc,          \* where recoverSourceTransaction is
  head, low, high, distance,  \* findNonceBlock's variables
  reads,       \* getTransactionCount calls of this search
  resolution   \* what the last search resolved: no news, a reason, a warning

chain  == <<top, count, winner>>
search == <<head, low, high, distance, reads>>
vars   == <<top, count, winner, identity, pc, head, low, high, distance,
            reads, resolution>>

Init ==
  /\ top = 0 /\ count = [b \in 0..0 |-> 0] /\ winner = None
  /\ identity \in BOOLEAN
  /\ pc = "idle"
  /\ head = 0 /\ low = 0 /\ high = 0 /\ distance = 1 /\ reads = 0
  /\ resolution = None

(* A block with n transactions of the account.                             *)
Mine(n) ==
  /\ top < MaxBlock /\ count[top] + n <= MaxCount
  /\ top' = top + 1
  /\ count' = [b \in 0..(top + 1) |->
                IF b <= top THEN count[b] ELSE count[top] + n]
  /\ IF count[top] <= Nonce /\ Nonce < count[top] + n
     THEN winner' \in Candidate
     ELSE UNCHANGED winner
  /\ UNCHANGED <<identity, pc, search, resolution>>

-----------------------------------------------------------------------------
Resolve(result) ==
  /\ resolution' = result
  /\ pc' = "idle"
  /\ UNCHANGED <<chain, identity, search>>

(* getTransaction: the original is mined, or still known, or not found.    *)
Lookup ==
  /\ pc = "idle" /\ resolution \notin Replacement
  /\ \/ /\ winner = "original"
        /\ resolution' = None /\ identity' = TRUE
        /\ UNCHANGED pc
     \/ /\ resolution' = None /\ identity' = TRUE /\ pc' = "head"
     \/ /\ resolution' = None /\ UNCHANGED identity
        /\ pc' = IF identity THEN "head" ELSE "idle"
  /\ UNCHANGED <<chain, search>>

(* The head some node reports: nothing is concluded while its count does   *)
(* not exceed the nonce.                                                   *)
ReadHead ==
  /\ pc = "head"
  /\ \E h \in 0..top :
       IF count[h] <= Nonce THEN Resolve(None)
       ELSE /\ head' = h /\ low' = h /\ high' = h /\ distance' = 1
            /\ reads' = 1
            /\ pc' = "gallop"
            /\ UNCHANGED <<chain, identity, resolution>>

(* Mutants: no doubling; from the genesis block; no clamp at block 0.      *)
GallopLinear ==
  LET next == IF head > distance THEN head - distance ELSE 0 IN
  /\ pc = "gallop"
  /\ IF low = 0 THEN /\ pc' = "bisect"
                     /\ UNCHANGED <<low, high, distance, reads>>
     ELSE /\ low' = next
          /\ reads' = reads + 1
          /\ IF count[next] <= Nonce
             THEN /\ pc' = "bisect"
                  /\ UNCHANGED <<high, distance>>
             ELSE /\ high' = next /\ distance' = distance + 1
                  /\ UNCHANGED pc
  /\ UNCHANGED <<chain, identity, head, resolution>>

GallopFromGenesis ==
  /\ pc = "gallop"
  /\ low' = 0 /\ pc' = "bisect"
  /\ UNCHANGED <<chain, identity, head, high, distance, reads, resolution>>

GallopUnclamped ==
  LET next == head - distance IN
  /\ pc = "gallop"
  /\ IF low <= 0 THEN /\ pc' = "bisect"
                      /\ UNCHANGED <<low, high, distance, reads>>
     ELSE /\ low' = next
          /\ reads' = reads + 1
          /\ IF next < 0 \/ count[next] <= Nonce
             THEN /\ pc' = "bisect"
                  /\ UNCHANGED <<high, distance>>
             ELSE /\ high' = next /\ distance' = 2 * distance
                  /\ UNCHANGED pc
  /\ UNCHANGED <<chain, identity, head, resolution>>

(* Doubling steps back from the head until the nonce was not yet consumed. *)
Gallop ==
  LET next == IF head > distance THEN head - distance ELSE 0 IN
  /\ pc = "gallop"
  /\ IF low = 0 THEN /\ pc' = "bisect"
                     /\ UNCHANGED <<low, high, distance, reads>>
     ELSE /\ low' = next
          /\ reads' = reads + 1
          /\ IF count[next] <= Nonce
             THEN /\ pc' = "bisect"
                  /\ UNCHANGED <<high, distance>>
             ELSE /\ high' = next /\ distance' = 2 * distance
                  /\ UNCHANGED pc
  /\ UNCHANGED <<chain, identity, head, resolution>>

(* Mutant: the nonce counts as consumed one transaction early.             *)
BisectEarly ==
  LET middle == (low + high) \div 2 IN
  /\ pc = "bisect"
  /\ IF low < high
     THEN /\ reads' = reads + 1
          /\ IF count[middle] >= Nonce THEN high' = middle /\ UNCHANGED low
             ELSE low' = middle + 1 /\ UNCHANGED high
          /\ UNCHANGED pc
     ELSE pc' = "block" /\ UNCHANGED <<low, high, reads>>
  /\ UNCHANGED <<chain, identity, head, distance, resolution>>

Bisect ==
  LET middle == (low + high) \div 2 IN
  /\ pc = "bisect"
  /\ IF low < high
     THEN /\ reads' = reads + 1
          /\ IF count[middle] > Nonce THEN high' = middle /\ UNCHANGED low
             ELSE low' = middle + 1 /\ UNCHANGED high
          /\ UNCHANGED pc
     ELSE pc' = "block" /\ UNCHANGED <<low, high, reads>>
  /\ UNCHANGED <<chain, identity, head, distance, resolution>>

(* The transactions of block b include the one with our nonce.             *)
Contains(b) ==
  /\ count[b] > Nonce
  /\ b > 0 => count[b - 1] <= Nonce

(* Mutant: whatever consumed the nonce is taken for a replacement.         *)
ReadBlockBlindly ==
  /\ pc = "block"
  /\ Contains(low)
  /\ Resolve(IF winner = "original" THEN "replaced" ELSE winner)

(* The block is read: the original after all, or its replacement.          *)
ReadBlock ==
  /\ pc = "block"
  /\ Contains(low)
  /\ Resolve(IF winner = "original" THEN None ELSE winner)

(* A failed lookup or read, or a block without our nonce: a warning, then  *)
(* a retry.                                                                *)
Warn ==
  /\ resolution \notin Replacement
  /\ Resolve("warning")

Next ==
  \/ \E n \in 0..2 : Mine(n)
  \/ Lookup \/ ReadHead \/ Gallop \/ Bisect \/ ReadBlock \/ Warn

Spec == Init /\ [][Next]_vars

-----------------------------------------------------------------------------
TypeOK ==
  /\ top \in Nat
  /\ count \in [0..top -> Nat]
  /\ winner \in Candidate \cup {None}
  /\ identity \in BOOLEAN
  /\ pc \in {"idle", "head", "gallop", "bisect", "block"}
  /\ head \in 0..top /\ low \in 0..head /\ high \in 0..head
  /\ distance \in Nat \ {0} /\ reads \in Nat
  /\ resolution \in Replacement \cup {None, "warning"}

(* The search ends on the one block that consumed the nonce: "Replacement  *)
(* not available yet" (source-transaction.ts:86) is never its own fault.   *)
FirstCrossing == pc = "block" => Contains(low)

(* A transfer is said to be cancelled, replaced or repriced only when      *)
(* another transaction really took its nonce; "elapsed time never implies  *)
(* cancellation" (source-transaction.ts:51), nor does a lagging node.      *)
TruthfulResolution == resolution \in Replacement => winner = resolution

(* "recent replacements should not require ancient archive state"          *)
(* (source-transaction.ts:54): no read goes back further than twice the    *)
(* age of the block searched for, or one block.                            *)
ReadsStayRecent ==
  pc \in {"gallop", "bisect", "block"} =>
    \A b \in 0..head :
      Contains(b) => head - low <= IF b = head THEN 1 ELSE 2 * (head - b)

(* "Logarithmic historical reads" (source-transaction.ts:60): at most twice*)
(* the binary digits of the age of the block searched for, and three.      *)
Bits[n \in Nat] == IF n = 0 THEN 0 ELSE 1 + Bits[n \div 2]
LogarithmicReads ==
  pc \in {"gallop", "bisect", "block"} =>
    \A b \in 0..head : Contains(b) => reads <= 2 * Bits[head - b] + 3
=============================================================================
