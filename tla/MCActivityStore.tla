-------------------------- MODULE MCActivityStore --------------------------
(***************************************************************************)
(* Two tabs share the receipt r1 of a transfer of any direction and the    *)
(* receipt r2 of a Circle withdrawal.  Patches are what the submissions    *)
(* and monitors of each direction report, in any order and any number of   *)
(* times: what ActivityTracking derives from a chain is one such order.    *)
(***************************************************************************)
EXTENDS ActivityStore, TLC

CONSTANTS r1, r2

With(fields) ==
  [f \in Field |-> IF f \in DOMAIN fields THEN fields[f] ELSE None]

Opened(d, fields) == With([direction |-> d, status |-> "source_finality"] @@ fields)

MCOpening ==
  r1 :> {Opened("agglayer-send", [midenNoteId |-> "known"]),
         Opened("agglayer-receive", [sourceTxHash |-> "known"]),
         Opened("epoch-send", [midenNoteId |-> "known"]),
         Opened("epoch-receive", [sourceTxHash |-> "known"]),
         Opened("xreserve-receive", [sourceTxHash |-> "known",
                                     xreserveStatus |-> "submitted"])}
  @@
  r2 :> {Opened("xreserve-send", [midenNoteId |-> "known",
                                  xreserveBurnStatus |-> "pending"])}

SourceFailed    == With([status |-> "failed", failureLeg |-> "source"])
MessageObserved == With([status |-> "message_observed"])
Delivered == With([status |-> "complete", destinationTxHash |-> "known"])

MCPatch ==
  [d \in Direction |->
    CASE d = "agglayer-send" ->
           {With([agglayerExitHashes |-> "known"]), MessageObserved,
            With([status |-> "claim_available"]), Delivered}
      [] d = "agglayer-receive" -> {SourceFailed, MessageObserved, Delivered}
      [] d = "epoch-send" ->
           {With([epochRecoveryRequired |-> "yes",
                  epochMidenBlock |-> "known"]),
            With([status |-> "message_observed", epochIntentNonce |-> "known",
                  epochRecoveryRequired |-> "no"]),
            Delivered}
      [] d = "epoch-receive" ->
           {With([epochDepositConfirmed |-> "yes"]), SourceFailed,
            With([status |-> "message_observed",
                  epochIntentNonce |-> "known"]),
            Delivered}
      [] d = "xreserve-receive" ->
           {With([xreserveStatus |-> "confirmed",
                  xreserveForwarding |-> "yes"]),
            With([xreserveStatus |-> "attested",
                  status |-> "message_observed"]),
            With([xreserveStatus |-> "delivered", status |-> "complete"]),
            With([xreserveStatus |-> "cancelled", status |-> "failed"])}
      [] OTHER -> {}]

Symmetric == Permutations(Tab)
=============================================================================
