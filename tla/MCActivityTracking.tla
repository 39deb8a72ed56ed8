------------------------ MODULE MCActivityTracking ------------------------
(***************************************************************************)
(* One transfer of any direction, as each flow records it first.           *)
(***************************************************************************)
EXTENDS ActivityTracking, TLC

CONSTANT r1

Opened(d, fields) ==
  Reports([direction |-> d, status |-> "source_finality"] @@ fields)

MCOpening ==
  r1 :> {Opened("agglayer-send", [midenNoteId |-> "known"]),
         Opened("agglayer-receive", [sourceTxHash |-> "known"]),
         Opened("epoch-send", [midenNoteId |-> "known"]),
         Opened("epoch-receive", [sourceTxHash |-> "known"]),
         Opened("xreserve-receive", [sourceTxHash |-> "known",
                                     xreserveStatus |-> "submitted"]),
         Opened("xreserve-send", [midenNoteId |-> "known",
                                  xreserveBurnStatus |-> "pending"])}

AgglayerOpening ==
  r1 :> {a \in MCOpening[r1] :
           a["direction"] \in {"agglayer-send", "agglayer-receive"}}

NoPatch == [d \in Direction |-> {}]

Symmetric == Permutations(Tab)
=============================================================================
