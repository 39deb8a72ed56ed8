-------------------------- MODULE MCSourceRecovery --------------------------
(***************************************************************************)
(* The second transaction of an account that sends up to three, on a chain *)
(* long enough for the search to double its step four times.               *)
(***************************************************************************)
EXTENDS SourceRecovery

MCNonce == 1
MCMaxBlock == 13
MCMaxCount == 3
=============================================================================
