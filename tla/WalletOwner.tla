----------------------------- MODULE WalletOwner -----------------------------
(***************************************************************************)
(* What the portal promises of the user's Bread account, without adapters, *)
(* renders, retries or timers: at any time it works for one owner, one     *)
(* account in one session, or for nobody.  It shows data of the owner      *)
(* only, and forgets them with the owner.                                  *)
(***************************************************************************)
CONSTANT Nobody

VARIABLES
  owner,  \* an account and its session, or Nobody
  shown   \* whose data are shown

Init == owner = Nobody /\ shown = {}

(* Another account, another session of the same one, or nobody.            *)
Change == owner' # owner /\ shown' = {}

Show ==
  /\ owner # Nobody
  /\ shown' \subseteq {owner} /\ UNCHANGED owner

Forget == shown' = {} /\ UNCHANGED owner

Next == Change \/ Show \/ Forget

Spec == Init /\ [][Next]_<<owner, shown>>
=============================================================================
