--------------------------- MODULE AgglayerApproval ---------------------------
(***************************************************************************)
(* ensureAgglayerApproval and the deposit behind it                        *)
(* (src/src/bridge/providers/agglayer/approval.ts).  Some of its tokens    *)
(* refuse to change a nonzero allowance, so a page first resets it to zero *)
(* and then approves the exact amount.                                     *)
(***************************************************************************)
EXTENDS TokenApproval

(* Mutant: any pending approval is retired by a sufficient allowance.      *)
RetiresAny(t) == TRUE

(* A pending reset or a smaller approval can still reduce the allowance.   *)
MayRetire(t) ==
  LET saved == page[t].pending IN
  saved.amount > 0 /\ saved.amount >= page[t].want

Satisfied(t) ==
  /\ At(t, "satisfied")
  /\ IF MayRetire(t) /\ allowance >= page[t].want
     THEN /\ Retire(t)
          /\ page' = [page EXCEPT ![t].pc = "allowance",
                                  ![t].pending = Nothing]
     ELSE Goto(t, "wait") /\ UNCHANGED <<chain, disk, cache, lost, retired>>

(* Enough, a reset before a larger approval, or the approval itself.       *)
CheckAllowance(t) ==
  /\ At(t, "allowance")
  /\ page' = [page EXCEPT
       ![t].pc = IF allowance >= page[t].want THEN "deposit" ELSE "sign",
       ![t].step = IF allowance > 0 THEN "reset" ELSE "approve",
       ![t].pending = Nothing]
  /\ UNCHANGED <<chain, disk, cache, lost, retired>>

(* confirm, after the receipt: the next step, if the allowance is as asked.*)
Verify(t) ==
  LET asked == page[t].pending.amount IN
  /\ At(t, "verify")
  /\ IF IF asked = 0 THEN allowance = 0 ELSE allowance >= asked
     THEN page' = [page EXCEPT
            ![t].pc = CASE page[t].step = "saved"   -> "allowance"
                        [] page[t].step = "reset"   -> "sign"
                        [] page[t].step = "approve" -> "deposit",
            ![t].step = IF page[t].step = "reset" THEN "approve" ELSE @,
            ![t].pending = Nothing]
     ELSE Throws(t)
  /\ UNCHANGED <<chain, disk, cache, lost, retired>>

(* Mutant: no reset.                                                       *)
AsksAtOnce(t) == page[t].want

(* What the user is asked to approve.                                      *)
Asks(t) == IF page[t].step = "reset" THEN 0 ELSE page[t].want

Next ==
  \/ Network
  \/ \E t \in Tab :
       \/ Common(t)
       \/ Recover(t, "satisfied") \/ Satisfied(t) \/ CheckAllowance(t)
       \/ Sign(t, Asks(t)) \/ Verify(t)

Spec == Init /\ [][Next]_vars

(* The steps of a calm time.                                              *)
CalmStep(t) ==
  \/ CalmCommon(t)
  \/ RecoverInformed(t, "satisfied") \/ Satisfied(t) \/ CheckAllowance(t)
  \/ Sign(t, Asks(t)) \/ Verify(t)

-----------------------------------------------------------------------------
(* While nothing is lost or retired, the next approval of an amount to be  *)
(* mined finds a zero allowance, which the tokens that refuse a change of  *)
(* a nonzero one need: ensureAgglayerApproval settles the reset first.     *)
ApprovesFromZero ==
  lost \cup retired = {} =>
    \A n \in 1..Len(sent) :
      /\ InFlight(n) /\ Approval(n) /\ sent[n].amount > 0
      /\ \A m \in 1..(n - 1) : ~(InFlight(m) /\ Approval(m))
      => allowance = 0
=============================================================================
