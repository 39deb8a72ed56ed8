----------------------------- MODULE BalanceStore -----------------------------
(***************************************************************************)
(* The reads of a Bread account's balance (src/src/bridge/balance-store.ts)*)
(* and the query cache they share.  A read loads the SDK, asks the wallet  *)
(* and resolves metadata; the store's session may change at each of these  *)
(* awaits.  The session's steps are in MidenWalletSession, which calls     *)
(* SetMidenSession and RequestMiden.                                       *)
(***************************************************************************)
EXTENDS Naturals, FiniteSets

CONSTANTS Account, None

VARIABLES
  midenSession,  \* the account the store may read, or None
  midenVersion,  \* midenSessionVersion
  query,         \* query[a]: the cached query of account a
  reads          \* the reads under way, the last abandoned one included

storeVars == <<midenSession, midenVersion, query, reads>>

(* One account in one session of the store.                                *)
Grant == [account: Account, session: Nat]

ASSUME NoneAssumption == None \notin Account \cup Grant

(* data: the grant under which the cached balances were read.              *)
Query  == [status: {"pending", "success", "error"}, data: Grant \cup {None}]

(* Mutant: a query not yet fetched counts as idle, a status no query has.  *)
UnreadIdle == [status |-> "idle", data |-> None]

Unread == [status |-> "pending", data |-> None]

(* attached: the query still waits for it.  A read given up after its      *)
(* prompt changes nothing any more, and is gone; of those given up before  *)
(* it, which do not affect each other, the last one is followed.           *)
Read == [account: Account, session: Nat, stage: {"loading", "asked"},
         attached: BOOLEAN, expired: BOOLEAN]

StoreInit ==
  /\ midenSession = None /\ midenVersion = 0
  /\ query = [a \in Account |-> Unread]
  /\ reads = {}

-----------------------------------------------------------------------------
GrantOf(r) == [account |-> r.account, session |-> r.session]

(* fetchQuery: a read under way is shared, a good result is reused unless  *)
(* a refresh is asked for.                                                 *)
Fetch(account, version, queries, underWay, refresh) ==
  LET q == queries[account]
      fresh == q.data # None /\ q.status # "error" /\ ~refresh
  IN IF fresh \/ \E r \in underWay : r.attached
     THEN query' = queries /\ reads' = underWay
     ELSE /\ query' = [queries EXCEPT ![account].status =
                         IF q.data = None THEN "pending" ELSE @]
          /\ reads' = underWay \cup
               {[account |-> account, session |-> version, stage |-> "loading",
                 attached |-> TRUE, expired |-> FALSE]}

(* The reads left when the query gives up the one it waits for.            *)
Abandoned(expired) ==
  LET early == {r \in reads : r.attached /\ r.stage = "loading"}
  IN IF early = {} THEN {r \in reads : ~r.attached}
     ELSE {[r EXCEPT !.attached = FALSE, !.expired = expired] : r \in early}

(* Mutant: the cached balances outlive the session.                        *)
KeepsCache(account, next) ==
  /\ midenSession' = account
  /\ midenVersion' = IF account # midenSession THEN next ELSE midenVersion
  /\ UNCHANGED <<query, reads>>

(* A change of account begins the next version, drops every query,         *)
(* abandons its read, and is followed by one automatic read.               *)
SetMidenSession(account, next) ==
  /\ midenSession' = account
  /\ IF account = midenSession THEN UNCHANGED <<midenVersion, query, reads>>
     ELSE LET unread   == [a \in Account |-> Unread]
              underWay == Abandoned(FALSE)
          IN /\ midenVersion' = next
             /\ IF account # None
                THEN Fetch(account, next, unread, underWay, FALSE)
                ELSE query' = unread /\ reads' = underWay

(* Connection, refresh and the wallet menu share the read under way.       *)
RequestMiden(account, refresh) ==
  /\ IF midenSession # None /\ account = midenSession
     THEN Fetch(account, midenVersion, query, reads, refresh)
     ELSE UNCHANGED <<query, reads>>
  /\ UNCHANGED <<midenSession, midenVersion>>

-----------------------------------------------------------------------------
(* The steps of a read.                                                    *)
Current(r) == ~r.expired /\ r.session = midenVersion

(* Its error reaches the query that still waits for it.                    *)
Fails(r) ==
  /\ reads' = reads \ {r}
  /\ query' = IF r.attached
              THEN [query EXCEPT ![r.account].status = "error"] ELSE query
  /\ UNCHANGED <<midenSession, midenVersion>>

(* The SDK is loaded, or fails to load; requestAssets opens its prompt.    *)
AskAssets(r) ==
  /\ r.stage = "loading"
  /\ \/ Fails(r)
     \/ /\ Current(r)
        /\ reads' = (reads \ {r}) \cup {[r EXCEPT !.stage = "asked"]}
        /\ UNCHANGED <<midenSession, midenVersion, query>>

(* The wallet refuses, or hands over the assets: once their metadata are   *)
(* resolved the balances reach the cache.                                  *)
FinishRead(r) ==
  /\ r.stage = "asked"
  /\ \/ Fails(r)
     \/ /\ Current(r) /\ r.attached
        /\ reads' = reads \ {r}
        /\ query' = [query EXCEPT ![r.account] =
                       [status |-> "success", data |-> GrantOf(r)]]
        /\ UNCHANGED <<midenSession, midenVersion>>

(* 45 seconds pass: the query fails, the read itself goes on.              *)
ExpireRead(r) ==
  /\ r.attached
  /\ reads' = Abandoned(TRUE)
  /\ query' = [query EXCEPT ![r.account].status = "error"]
  /\ UNCHANGED <<midenSession, midenVersion>>

ReadStep(r) == AskAssets(r) \/ FinishRead(r) \/ ExpireRead(r)

(* What useMidenBalances hands to the screens.                             *)
Fetching == \E r \in reads : r.attached
Balances == {query[a].data : a \in {b \in Account : /\ query[b].status # "error"
                                                    /\ query[b].data # None}}

StoreTypeOK ==
  /\ midenSession \in Account \cup {None}
  /\ midenVersion \in Nat
  /\ query \in [Account -> Query]
  /\ \A r \in reads : r \in Read
=============================================================================
