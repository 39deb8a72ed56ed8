-------------------------------- MODULE EvmRpc --------------------------------
(***************************************************************************)
(* Reads of an EVM chain through the portal's server                       *)
(* (src/src/bridge/evm/rpc.server.ts): the configured providers are asked  *)
(* in turn until one answers.  What does not answer, is rate limited or is *)
(* not JSON-RPC is skipped; a result or a contract's error is the answer.  *)
(***************************************************************************)
EXTENDS Naturals

CONSTANTS
  MaxProviders,    \* the providers a network may have
  RequestLimit,    \* the 8 s a provider gets at most
  Budget,          \* the 24 s all of them get
  BrowserLimit     \* the 30 s the browser waits for the server

ASSUME RpcAssumption ==
  /\ {MaxProviders, RequestLimit, Budget, BrowserLimit} \subseteq Nat \ {0}
  /\ Budget <= BrowserLimit

VARIABLE rpc       \* the call under way: its providers, those left, the time

NoCall == [configured |-> 0, left |-> 0, elapsed |-> 0]
Calls  == {[configured |-> n, left |-> n, elapsed |-> 0] : n \in 1..MaxProviders}

(* Mutant: every provider gets the whole 8 s.                              *)
EightSecondsEach(configured) == RequestLimit

Timeout(configured) ==
  IF Budget \div configured < RequestLimit THEN Budget \div configured
  ELSE RequestLimit

(* A provider fails at once, or keeps the server waiting.                  *)
Skip ==
  /\ rpc.left > 1
  /\ \E waited \in {0, Timeout(rpc.configured)} :
       rpc' = [rpc EXCEPT !.left = @ - 1, !.elapsed = @ + waited]
LastProvider == rpc.left = 1

(* The browser never gives up before the last provider has had its time    *)
(* (rpc.server.ts:76, transport.ts:6).                                     *)
InTimeForBrowser ==
  rpc # NoCall => rpc.elapsed + Timeout(rpc.configured) <= BrowserLimit
=============================================================================
