----------------------------- MODULE UsdcApproval -----------------------------
(***************************************************************************)
(* ensureUsdcApproval and the deposit behind it                            *)
(* (src/src/bridge/providers/xreserve/approval.ts).  One approval is       *)
(* enough, its record carries no amount, and a sufficient allowance        *)
(* retires the record whatever it asked for.                               *)
(***************************************************************************)
EXTENDS TokenApproval

(* Enough already, or a pending approval to wait for, or one to sign.      *)
CheckAllowance(t) ==
  /\ At(t, "allowance")
  /\ IF allowance >= page[t].want
     THEN /\ Retire(t)
          /\ page' = [page EXCEPT ![t].pc = "deposit", ![t].pending = Nothing]
     ELSE /\ Goto(t, IF page[t].pending = Nothing THEN "sign" ELSE "wait")
          /\ UNCHANGED <<chain, disk, cache, lost, retired>>

(* After the receipt the allowance must cover the burn.                    *)
Verify(t) ==
  /\ At(t, "verify")
  /\ IF allowance >= page[t].want
     THEN page' = [page EXCEPT ![t].pc = "deposit", ![t].pending = Nothing]
     ELSE Throws(t)
  /\ UNCHANGED <<chain, disk, cache, lost, retired>>

Next ==
  \/ Network
  \/ \E t \in Tab :
       \/ Common(t)
       \/ Recover(t, "allowance") \/ CheckAllowance(t)
       \/ Sign(t, page[t].want) \/ Verify(t)

Spec == Init /\ [][Next]_vars

(* The steps of a calm time.                                              *)
CalmStep(t) ==
  \/ CalmCommon(t)
  \/ RecoverInformed(t, "allowance") \/ CheckAllowance(t)
  \/ Sign(t, page[t].want) \/ Verify(t)
=============================================================================
