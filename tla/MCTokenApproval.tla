--------------------------- MODULE MCTokenApproval ---------------------------
(* Either flow, on a small account.                                        *)
EXTENDS TokenApproval

VARIABLE flow

Agglayer == INSTANCE AgglayerApproval
Usdc     == INSTANCE UsdcApproval

MCInit == Init /\ flow \in {"agglayer", "usdc"}

MCNext ==
  /\ \/ flow = "agglayer" /\ Agglayer!Next
     \/ flow = "usdc" /\ Usdc!Next
  /\ UNCHANGED flow

MCSpec == MCInit /\ [][MCNext]_<<vars, flow>>

Calm(t) ==
  /\ \/ flow = "agglayer" /\ Agglayer!CalmStep(t)
     \/ flow = "usdc" /\ Usdc!CalmStep(t)
  /\ UNCHANGED flow

(* From some time on nothing fails, and the user keeps retrying.           *)
MCFairSpec ==
  /\ MCSpec
  /\ <>[][\/ Network /\ UNCHANGED flow
          \/ \E t \in Tab : Calm(t)]_<<vars, flow>>
  /\ \A t \in Tab : WF_<<vars, flow>>(Calm(t))

(* A deposit is never broadcast behind an approval that lowers the         *)
(* allowance below it when mined.  ensureAgglayerApproval waits for resets *)
(* and smaller approvals unless it has lost one; ensureUsdcApproval does   *)
(* unless it has retired one, whose amount its record does not hold.       *)
DepositNotUndercut ==
  lost = {} /\ (flow = "usdc" => retired = {}) => NotUndercut

(* The Agglayer flow approves an amount only from a zero allowance         *)
(* (src/src/bridge/providers/agglayer/approval.ts).                        *)
ResetsFirst == flow = "agglayer" => Agglayer!ApprovesFromZero
=============================================================================
