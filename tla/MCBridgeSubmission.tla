-------------------------- MODULE MCBridgeSubmission --------------------------
(* A deposit currency at 1.25 and another holding at 2.5, a limit of 12.5: *)
(* 2 deposited beside 4.00 reaches the limit, beside 4.01 it passes it by  *)
(* less than a decimal of the limit.                                       *)
EXTENDS BridgeSubmission

CONSTANTS usdc, eth, e1, m1

MCPrice == [s \in Symbol |-> IF s = usdc THEN Decimal(125, 2) ELSE Decimal(25, 1)]
MCCapUsd == Decimal(125, 1)
MCHoldings == {[s \in Symbol |-> IF s = usdc THEN 0 ELSE raw] : raw \in {0, 400, 401}}

(* The accounts of the start are any; those a send holds do not matter.    *)
MCInit ==
  /\ Init
  /\ evm = e1 /\ miden = m1
  /\ route \in Sends => held = [s \in Symbol |-> 0]
MCSpec == MCInit /\ [][Next]_vars /\ WF_vars(Answer)
=============================================================================
