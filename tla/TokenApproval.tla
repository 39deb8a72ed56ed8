---------------------------- MODULE TokenApproval ----------------------------
(***************************************************************************)
(* What the two approval flows share: the account's transactions, one      *)
(* token allowance, the browser's record of an unfinished approval         *)
(* (src/src/bridge/evm/approval-store.ts), and a page that recovers, signs *)
(* and confirms an approval and then deposits.  AgglayerApproval and       *)
(* UsdcApproval say how each flow puts these together.                     *)
(*                                                                         *)
(* One scope (network, account, token, spender) and its own transactions:  *)
(* the account approves nothing for this spender elsewhere.  Between two   *)
(* awaits a page runs to completion; the chain, the user's wallet, other   *)
(* pages and reloads move in between.  Reads see the latest block.         *)
(***************************************************************************)
EXTENDS Naturals, Sequences, FiniteSets

CONSTANTS
  Tab,        \* open pages
  MaxAmount,  \* bound on amounts
  MaxSent,    \* bound on the account's transactions
  MaxReplaced \* bound on how many of them are replaced

ASSUME BoundAssumption == {MaxAmount, MaxSent, MaxReplaced} \subseteq Nat

VARIABLES
  sent,       \* the account's transactions by nonce, in flight or mined
  mined,      \* how many of them are mined
  allowance,  \* the spender's allowance in the latest block
  disk,       \* the stored pending approval
  cache,      \* cache[t]: tab t's memory of it, and whether it is unsaved
  page,       \* page[t]: the attempt running in tab t
  lost,       \* history: approvals a page stopped knowing of by a storage fault
  retired     \* history: approvals given up for a sufficient allowance

chain == <<sent, mined, allowance>>
vars  == <<sent, mined, allowance, disk, cache, page, lost, retired>>

Amount == 0..MaxAmount

(* The reason viem and recoverSourceTransaction give for a replacement;    *)
(* "replaced" and "cancelled" are handled alike, and are one here.         *)
Reason == {"none", "repriced", "cancelled"}

(* A transaction.  A replacement is the second version at its nonce.       *)
Transaction == [call: {"approve", "deposit", "cancelled"}, amount: Amount,
                version: 0..1, ok: BOOLEAN]

(* A pending approval: nonce and version stand for its hash, identity for  *)
(* its captured sender, nonce and call.  Nothing has nonce 0.              *)
PendingApproval == [nonce: 0..MaxSent, version: 0..1, amount: Amount,
                    identity: BOOLEAN, reason: Reason]

Nothing == [nonce |-> 0, version |-> 0, amount |-> 0, identity |-> FALSE,
            reason |-> "none"]

(* Where an attempt is.  step: which approval it is about.                 *)
Pc == {"idle", "recover", "satisfied", "allowance", "sign", "answered",
       "capture", "wait", "verify", "deposit", "confirm-deposit"}
Page == [pc: Pc, want: Amount, step: {"saved", "reset", "approve"},
         pending: PendingApproval]

Idle == [pc |-> "idle", want |-> 0, step |-> "saved", pending |-> Nothing]

Init ==
  /\ sent = <<>> /\ mined = 0 /\ allowance \in Amount
  /\ disk = Nothing
  /\ cache = [t \in Tab |-> [memory |-> Nothing, unsaved |-> FALSE]]
  /\ page = [t \in Tab |-> Idle]
  /\ lost = {} /\ retired = {}

-----------------------------------------------------------------------------
(* The chain and the user's wallet.                                        *)
InFlight(n) == n \in (mined + 1)..Len(sent)
Approval(n) == sent[n].call = "approve"

Broadcast(call, amount) ==
  /\ Len(sent) < MaxSent
  /\ sent' = Append(sent, [call |-> call, amount |-> amount, version |-> 0,
                           ok |-> FALSE])
  /\ UNCHANGED <<mined, allowance>>

(* Transactions of an account are mined in the order of their nonces.      *)
Mine(ok) ==
  LET n == mined + 1 IN
  /\ InFlight(n)
  /\ sent[n].call = "deposit" => (ok <=> allowance >= sent[n].amount)
  /\ mined' = n
  /\ sent' = [sent EXCEPT ![n].ok = ok]
  /\ allowance' = CASE ok /\ sent[n].call = "approve" -> sent[n].amount
                    [] ok /\ sent[n].call = "deposit" ->
                         allowance - sent[n].amount
                    [] OTHER -> allowance
  /\ UNCHANGED <<disk, cache, page, lost, retired>>

(* The user speeds up or cancels an approval, or reuses its nonce.         *)
Replace(n, call) ==
  /\ InFlight(n) /\ Approval(n)
  /\ Cardinality({m \in 1..Len(sent) : sent[m].version = 1}) < MaxReplaced
  /\ sent[n].version = 0
  /\ sent' = [sent EXCEPT ![n].call = call, ![n].version = 1]
  /\ UNCHANGED <<mined, allowance, disk, cache, page, lost, retired>>

(* Mutant: a repriced approval is given a reason no record may have.       *)
CallAsReason(n) == sent[n].call

ReasonFor(n) == IF Approval(n) THEN "repriced" ELSE "cancelled"

(* The approval recorded as p was mined as it is recorded, or not.         *)
MinedAsSaved(p) == p.nonce <= mined /\ sent[p.nonce].version = p.version
MinedReplaced(p) == p.nonce <= mined /\ sent[p.nonce].version # p.version

AsReplaced(p) == [p EXCEPT !.version = sent[p.nonce].version,
                           !.identity = TRUE,
                           !.reason = ReasonFor(p.nonce)]

-----------------------------------------------------------------------------
(* approval-store.  Saving Nothing is clearing.  A failed save or clear    *)
(* lives in the tab's memory, which then hides the storage.                *)
Put(t, p) ==
  \/ /\ disk' = p
     /\ cache' = [cache EXCEPT ![t] = [memory |-> p, unsaved |-> FALSE]]
  \/ /\ UNCHANGED disk
     /\ cache' = [cache EXCEPT ![t] = [memory |-> p, unsaved |-> TRUE]]

(* save and then clear in one turn: the clear may fail after the save.     *)
PutThenClear(t, p) ==
  \/ Put(t, Nothing)
  \/ /\ disk' = p
     /\ cache' = [cache EXCEPT ![t] = [memory |-> Nothing, unsaved |-> TRUE]]

(* What load returns, if the storage can be read or not; the tab remembers *)
(* it.                                                                     *)
Loaded(t) ==
  IF cache[t].unsaved THEN {cache[t].memory} ELSE {cache[t].memory, disk}
Remember(t, p) == cache' = [cache EXCEPT ![t].memory = p]

(* What a readable storage makes the tab see.                              *)
View(t) == IF cache[t].unsaved THEN cache[t].memory ELSE disk

-----------------------------------------------------------------------------
(* The steps of an attempt.                                                *)
At(t, pc)   == page[t].pc = pc
Goto(t, pc) == page' = [page EXCEPT ![t].pc = pc]
Throws(t)   == page' = [page EXCEPT ![t] = Idle]

(* The page no longer knows these approvals, if they are still in flight.  *)
Loses(nonces) == lost' = lost \cup (nonces \cap (mined + 1)..Len(sent))

(* `active`: a second attempt in the same page is refused.                 *)
StartFrom(t, want, saved) ==
  /\ At(t, "idle") /\ want > 0
  /\ IF saved.reason = "cancelled"
     THEN Put(t, Nothing) /\ Throws(t)
     ELSE /\ Remember(t, saved)
          /\ UNCHANGED disk
          /\ page' = [page EXCEPT ![t] =
               [pc |-> IF saved = Nothing THEN "allowance" ELSE "recover",
                want |-> want, step |-> "saved", pending |-> saved]]
  /\ Loses({View(t).nonce} \ {saved.nonce})
  /\ UNCHANGED <<chain, retired>>

Start(t, want) == \E saved \in Loaded(t) : StartFrom(t, want, saved)

(* Mutant: the record of a replaced approval keeps the original's hash.    *)
RecoversOriginal(saved) == {saved, [saved EXCEPT !.identity = TRUE]}

(* recoverSourceTransaction: no news, the identity of a known original, or *)
(* the replacement that took the nonce of a known identity.                *)
Resolutions(saved) ==
  {saved}
  \cup (IF MinedReplaced(saved) THEN {} ELSE {[saved EXCEPT !.identity = TRUE]})
  \cup (IF MinedReplaced(saved) /\ saved.identity THEN {AsReplaced(saved)}
        ELSE {})

RecoverAs(t, pc, pending) ==
  /\ IF pending.reason = "cancelled"
     THEN PutThenClear(t, pending) /\ Throws(t)
     ELSE /\ Put(t, pending)
          /\ page' = [page EXCEPT ![t].pc = pc, ![t].pending = pending]
  /\ UNCHANGED <<chain, lost, retired>>

Recover(t, pc) ==
  /\ At(t, "recover")
  /\ \E pending \in Resolutions(page[t].pending) : RecoverAs(t, pc, pending)

(* The nodes answer every question, so a replacement is found.             *)
RecoverInformed(t, pc) ==
  LET saved == page[t].pending IN
  /\ At(t, "recover")
  /\ \E pending \in Resolutions(saved) :
       /\ MinedReplaced(saved) /\ saved.identity => pending # saved
       /\ RecoverAs(t, pc, pending)

(* The current allowance is enough: the record is dropped, mined or not.   *)
Retire(t) ==
  LET n == page[t].pending.nonce IN
  /\ allowance >= page[t].want
  /\ Put(t, Nothing)
  /\ retired' = retired \cup ({n} \cap (mined + 1)..Len(sent))
  /\ UNCHANGED <<chain, lost>>

(* The user confirms an approval in the wallet, which broadcasts it.       *)
Sign(t, amount) ==
  /\ At(t, "sign")
  /\ Broadcast("approve", amount)
  /\ page' = [page EXCEPT
       ![t].pc = "answered",
       ![t].pending = [Nothing EXCEPT !.nonce = Len(sent) + 1,
                                      !.amount = amount]]
  /\ UNCHANGED <<disk, cache, lost, retired>>

(* The hash is saved before any metadata or receipt RPC can fail.          *)
SaveHash(t) ==
  /\ At(t, "answered")
  /\ Put(t, page[t].pending)
  /\ Goto(t, "capture")
  /\ UNCHANGED <<chain, lost, retired>>

(* The identity is captured if a node knows the hash, and saved.           *)
Capture(t) ==
  LET signed == page[t].pending IN
  /\ At(t, "capture")
  /\ \E known \in BOOLEAN :
       /\ known => sent[signed.nonce].version = 0
       /\ LET pending == [signed EXCEPT !.identity = known] IN
          /\ Put(t, pending)
          /\ page' = [page EXCEPT ![t].pc = "wait", ![t].pending = pending]
  /\ UNCHANGED <<chain, lost, retired>>

(* waitForTransactionReceipt answers: the approval was mined as recorded,  *)
(* or viem, which had seen it, saw another transaction take its nonce.  A  *)
(* repriced approval counts.  Either way the record is cleared.            *)
Receipt(t) ==
  IF sent[page[t].pending.nonce].ok THEN Goto(t, "verify") ELSE Throws(t)

Confirmed(t) ==
  /\ At(t, "wait") /\ MinedAsSaved(page[t].pending)
  /\ Put(t, Nothing) /\ Receipt(t)
  /\ UNCHANGED <<chain, lost, retired>>

Replaced(t) ==
  LET saved == page[t].pending IN
  /\ At(t, "wait") /\ MinedReplaced(saved)
  /\ PutThenClear(t, AsReplaced(saved))
  /\ IF ReasonFor(saved.nonce) = "cancelled" THEN Throws(t) ELSE Receipt(t)
  /\ UNCHANGED <<chain, lost, retired>>

(* Mutant: the record goes with the wait.                                  *)
TimeOutForgets(t) ==
  /\ At(t, "wait")
  /\ Put(t, Nothing) /\ Throws(t)
  /\ UNCHANGED <<chain, lost, retired>>

(* The wait times out or fails, perhaps after it has reported a repricing. *)
TimeOut(t) ==
  LET saved == page[t].pending IN
  /\ At(t, "wait")
  /\ \/ UNCHANGED <<disk, cache>>
     \/ /\ MinedReplaced(saved) /\ Approval(saved.nonce)
        /\ Put(t, AsReplaced(saved))
  /\ Throws(t)
  /\ UNCHANGED <<chain, lost, retired>>

(* The deposit is simulated, then confirmed in the wallet.                 *)
Simulate(t) ==
  /\ At(t, "deposit")
  /\ allowance >= page[t].want
  /\ Goto(t, "confirm-deposit")
  /\ UNCHANGED <<chain, disk, cache, lost, retired>>

Deposit(t) ==
  /\ At(t, "confirm-deposit")
  /\ Broadcast("deposit", page[t].want)
  /\ Throws(t)
  /\ UNCHANGED <<disk, cache, lost, retired>>

(* An RPC, the wallet check or the simulation fails, or the user declines. *)
Fail(t) ==
  /\ page[t].pc \notin {"idle", "answered", "capture"}
  /\ Throws(t)
  /\ UNCHANGED <<chain, disk, cache, lost, retired>>

(* The page goes, with its memory and its attempt.                         *)
Reload(t) ==
  /\ cache' = [cache EXCEPT ![t] = [memory |-> Nothing, unsaved |-> FALSE]]
  /\ page' = [page EXCEPT ![t] = Idle]
  /\ Loses({page[t].pending.nonce, cache[t].memory.nonce} \ {disk.nonce})
  /\ UNCHANGED <<chain, disk, retired>>

(* What happens outside the pages.                                         *)
Network ==
  \/ \E ok \in BOOLEAN : Mine(ok)
  \/ \E n \in 1..Len(sent), call \in {"approve", "cancelled"} : Replace(n, call)

(* The steps both flows share.                                             *)
Common(t) ==
  \/ \E want \in Amount : Start(t, want)
  \/ SaveHash(t) \/ Capture(t)
  \/ Confirmed(t) \/ Replaced(t) \/ TimeOut(t)
  \/ Simulate(t) \/ Deposit(t) \/ Fail(t) \/ Reload(t)

(* The steps when nodes answer, the storage can be read and the page stays.*)
(* A wait for what is mined does not time out, a user may still decline.   *)
CalmCommon(t) ==
  \/ \E want \in Amount : StartFrom(t, want, View(t))
  \/ SaveHash(t) \/ Capture(t)
  \/ Confirmed(t) \/ Replaced(t)
  \/ TimeOut(t) /\ ~MinedAsSaved(page[t].pending)
  \/ Simulate(t) \/ Deposit(t)
  \/ page[t].pc \in {"sign", "deposit", "confirm-deposit"} /\ Fail(t)

-----------------------------------------------------------------------------
(* Every variable keeps the shape of what approval-store saves and of the  *)
(* account's history (src/src/bridge/evm/approval-store.ts).               *)
TypeOK ==
  /\ sent \in Seq(Transaction) /\ Len(sent) <= MaxSent
  /\ mined \in 0..Len(sent) /\ allowance \in Amount
  /\ disk \in PendingApproval
  /\ cache \in [Tab -> [memory: PendingApproval, unsaved: BOOLEAN]]
  /\ page \in [Tab -> Page]
  /\ lost \subseteq 1..Len(sent) /\ retired \subseteq 1..Len(sent)

(* The approvals in flight that no reload and no unreadable storage has    *)
(* lost, and no sufficient allowance has retired.                          *)
Outstanding == {n \in 1..Len(sent) : /\ InFlight(n) /\ Approval(n)
                                     /\ n \notin lost \cup retired}

(* Timeouts, failures and retries of an attempt never ask for another      *)
(* signature while an approval is still outstanding: confirm,              *)
(* confirmApproval and resume keep its record.                             *)
SignsOnce ==
  \A m, n \in Outstanding : m = n

(* No deposit in flight is behind an approval that will lower the          *)
(* allowance below it.                                                     *)
NotUndercut ==
  \A d, n \in 1..Len(sent) :
    /\ InFlight(d) /\ sent[d].call = "deposit"
    /\ InFlight(n) /\ Approval(n) /\ n < d
    => sent[n].amount >= sent[d].amount

(* A record whose nonce is taken, by itself or by a replacement its        *)
(* identity can find, does not hold the page up forever: attempts resolve  *)
(* and clear it.                                                           *)
Settled(t, n) ==
  LET saved == View(t) IN
  /\ saved.nonce = n /\ n > 0
  /\ MinedAsSaved(saved) \/ (MinedReplaced(saved) /\ saved.identity)
LetsGo ==
  \A t \in Tab, n \in 1..MaxSent : []<>~Settled(t, n)
=============================================================================
