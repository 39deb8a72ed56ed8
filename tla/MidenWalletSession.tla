-------------------------- MODULE MidenWalletSession --------------------------
(***************************************************************************)
(* The Bread wallet of a page                                              *)
(* (src/src/wallets/miden/miden-wallet-session.ts): its session, the       *)
(* adapter and the extension behind it, the renders that carry the         *)
(* adapter's state to the session, and the forms that sign through it.     *)
(*                                                                         *)
(* The extension answers a request late, never, or after the attempt was   *)
(* cancelled or timed out; its user switches accounts meanwhile.  The      *)
(* adapter knows at once, the session only when React has rendered it.     *)
(***************************************************************************)
EXTENDS BalanceStore

CONSTANTS
  Foreign,      \* accounts of another network
  MaxCommands,  \* bound on what the user does in the page
  MaxEvents     \* bound on what happens to the extension and the page

ASSUME ForeignAssumption == Foreign \subseteq Account
ASSUME BoundAssumption == {MaxCommands, MaxEvents} \subseteq Nat

VARIABLES
  adapter,      \* the mounted adapter, live; retired once it is to be replaced
  sdk,          \* the adapter as last rendered
  effect,       \* a render the session has not been told of
  wallet,       \* the rendered wallet the session works with, or None
  snapshot,     \* what the session shows
  version,      \* numbers what the session has been told
  restoreTried, \* the one automatic restore is spent
  connection,   \* the attempt that owns the session, or None
  stray,        \* requests of attempts given up, still with the extension
  runs,         \* the refreshes under way
  remembered,   \* localStorage: reconnect on the next load
  held,         \* the signing request a form has taken from the snapshot
  forgotten,    \* history: the user has disconnected or reset since
  commands, events

sessionVars == <<wallet, snapshot, version, restoreTried, connection, stray,
                 runs, remembered>>
outside == <<adapter, sdk, effect>>
bounds  == <<forgotten, commands, events>>
vars == <<storeVars, sessionVars, outside, held, bounds>>

(* A rendered wallet; adapter 0 is none yet.                               *)
Wallet == [adapter: Nat, connected: BOOLEAN, address: Account \cup {None}]
NoSdk  == [adapter |-> 0, connected |-> FALSE, address |-> None]
Ready(w) == w.adapter # 0

EmptySnapshot == [address |-> None, connected |-> FALSE, notes |-> None,
                  signer |-> None]

(* An attempt, by what it waits for, and its request to the extension.     *)
Attempt == [kind: {"connect", "reconnect", "disconnect"}, adapter: Nat,
            stage: {"connecting", "disconnecting"}]
RequestOf(attempt) == [adapter |-> attempt.adapter, stage |-> attempt.stage]

NewAdapter(n) == [id |-> n, address |-> None, retired |-> FALSE]

Init ==
  /\ StoreInit
  /\ adapter = NewAdapter(1) /\ sdk = NoSdk /\ effect = TRUE
  /\ wallet = None /\ snapshot = EmptySnapshot /\ version = 0
  /\ restoreTried = FALSE /\ connection = None /\ stray = {} /\ runs = {}
  /\ remembered \in BOOLEAN
  /\ held = None /\ forgotten = FALSE /\ commands = 0 /\ events = 0

-----------------------------------------------------------------------------
(* Versions and adapters are only ever compared with the ones captured     *)
(* before; a number nothing refers to any more is taken again.             *)
Fresh(captured) == CHOOSE n \in 0..Cardinality(captured) : n \notin captured

Grants == ({run.grant : run \in runs} \cup {GrantOf(r) : r \in reads} \cup
           {query[a].data : a \in Account} \cup {snapshot.notes} \cup
           {IF held = None THEN None ELSE held.grant}) \ {None}
NextSession == Fresh({midenVersion} \cup {g.session : g \in Grants})

Signers == ({run.signer : run \in runs} \cup {snapshot.signer} \cup
            {IF held = None THEN None ELSE held.signer}) \ {None}
NextVersion == Fresh({version} \cup {run.version : run \in runs}
                     \cup {s.version : s \in Signers})

NextAdapter ==
  Fresh({0, adapter.id, sdk.adapter} \cup {run.wallet.adapter : run \in runs}
        \cup {s.wallet.adapter : s \in Signers}
        \cup {w.adapter : w \in {wallet} \ {None}})

(* The adapter is mounted and holds the account of a rendered wallet.      *)
Holds(w) == /\ w.connected /\ adapter.id = w.adapter
            /\ adapter.address # None /\ adapter.address = w.address

(* Mutant: the version is not compared.                                    *)
IsSameWallet(w, v) ==
  Holds(w) /\ wallet # None /\ wallet.adapter = w.adapter

(* isCurrent: it is still what the session works with, in its version.     *)
IsCurrent(w, v) ==
  Holds(w) /\ version = v /\ wallet # None /\ wallet.adapter = w.adapter

(* The guard in front of every request handed out with the snapshot.       *)
Guard(signer) ==
  /\ IsCurrent(signer.wallet, signer.version)
  /\ adapter.address \notin Foreign

(* Mutant: the SDK's old account counts while a disconnect is in progress. *)
TrustsRender == FALSE

(* A disconnect owns the session.                                          *)
Disconnecting == connection # None /\ connection.kind = "disconnect"

(* runConnection: the work starts in the same turn.                        *)
Started(kind, on) ==
  [kind |-> kind, adapter |-> on.adapter,
   stage |-> IF kind = "connect" THEN "connecting" ELSE "disconnecting"]

(* cancelConnection: its request stays with the extension.                 *)
Cancelled == stray \cup (IF connection = None THEN {} ELSE {RequestOf(connection)})

(* invalidate: nobody is connected, until the adapter renders again.       *)
Invalidate ==
  /\ version' = NextVersion /\ wallet' = None
  /\ SetMidenSession(None, NextSession)
  /\ snapshot' = EmptySnapshot

(* updateWallet: the session is told of the last render.                   *)
UpdateWallet ==
  LET connected == Holds(sdk) /\ ~Disconnecting
      changed   == \/ wallet = None \/ wallet.adapter # sdk.adapter
                   \/ snapshot.address # sdk.address
                   \/ snapshot.connected # connected
      now       == IF changed THEN NextVersion ELSE version
      usable    == connected /\ sdk.address \notin Foreign
      restore   == ~restoreTried /\ Ready(sdk) /\ ~sdk.connected
  IN /\ effect /\ effect' = FALSE
     /\ wallet' = sdk /\ version' = now
     /\ SetMidenSession(IF usable THEN sdk.address ELSE None, NextSession)
     /\ restoreTried' = (restoreTried \/ restore)
     /\ connection' = IF restore /\ remembered /\ connection = None
                      THEN Started("connect", sdk) ELSE connection
     /\ snapshot' =
          [address |-> sdk.address, connected |-> connected,
           notes |-> IF changed THEN None ELSE snapshot.notes,
           signer |-> IF usable THEN [wallet |-> sdk, version |-> now] ELSE None]
     /\ UNCHANGED <<adapter, sdk, stray, runs, remembered, held, bounds>>

-----------------------------------------------------------------------------
(* The handlers of the screens.                                            *)
Command(gone) ==
  /\ commands < MaxCommands /\ commands' = commands + 1
  /\ forgotten' = gone /\ UNCHANGED events

(* At most one attempt: a second one joins it.                             *)
StartConnection(kind) ==
  /\ connection' = IF connection = None THEN Started(kind, wallet)
                   ELSE connection
  /\ UNCHANGED <<storeVars, wallet, snapshot, version, stray, runs, remembered,
                 outside, held>>

Connect ==
  /\ Command(FALSE) /\ restoreTried' = TRUE
  /\ IF wallet # None /\ Ready(wallet) THEN StartConnection("connect")
     ELSE UNCHANGED <<storeVars, wallet, snapshot, version, connection, stray,
                      runs, remembered, outside, held>>

(* Without a wallet it is connect.                                         *)
Reconnect ==
  /\ wallet # None /\ Command(FALSE) /\ UNCHANGED restoreTried
  /\ StartConnection(IF wallet.connected THEN "reconnect" ELSE "connect")

Disconnect ==
  /\ Command(TRUE)
  /\ restoreTried' = TRUE /\ remembered' = FALSE
  /\ Invalidate
  /\ stray' = Cancelled
  /\ connection' = IF wallet # None THEN Started("disconnect", wallet) ELSE None
  /\ UNCHANGED <<runs, outside, held>>

(* reset: as disconnect, without waiting, and the adapter is replaced.     *)
DoReset ==
  /\ restoreTried' = TRUE /\ remembered' = FALSE
  /\ Invalidate
  /\ stray' = Cancelled /\ connection' = None
  /\ adapter' = [adapter EXCEPT !.retired = TRUE]
  /\ UNCHANGED <<runs, sdk, effect, held>>

Reset == Command(TRUE) /\ DoReset

(* refresh: one at a time for a version of the session.                    *)
Refresh ==
  /\ Command(forgotten)
  /\ wallet # None /\ IsCurrent(wallet, version)
  /\ wallet.address \notin Foreign
  /\ \A run \in runs : run.version # version
  /\ RequestMiden(wallet.address, TRUE)
  /\ snapshot' = [snapshot EXCEPT !.notes = None]
  /\ runs' = runs \cup
       {[wallet |-> wallet, version |-> version, signer |-> snapshot.signer,
         grant |-> [account |-> wallet.address, session |-> midenVersion],
         stage |-> "balances"]}
  /\ UNCHANGED <<wallet, version, restoreTried, connection, stray, remembered,
                 outside, held>>

(* The balance of the account shown is asked for again.                    *)
ShowBalance ==
  /\ Command(forgotten) /\ snapshot.connected
  /\ \E refresh \in BOOLEAN : RequestMiden(snapshot.address, refresh)
  /\ UNCHANGED <<sessionVars, outside, held>>

(* A form takes the signing request with the account it shows, and uses it *)
(* when its own checks are done.                                           *)
TakeSigner ==
  /\ Command(forgotten)
  /\ held = None /\ snapshot.signer # None
  /\ held' = [signer |-> snapshot.signer,
              grant |-> [account |-> snapshot.address, session |-> midenVersion]]
  /\ UNCHANGED <<storeVars, sessionVars, outside>>

Sign ==
  /\ held # None /\ Guard(held.signer)
  /\ held' = None
  /\ UNCHANGED <<storeVars, sessionVars, outside, bounds>>

SignRefused ==
  /\ held # None /\ ~Guard(held.signer)
  /\ held' = None
  /\ UNCHANGED <<storeVars, sessionVars, outside, bounds>>

(* What the extension and the page do unasked, or no longer asked.         *)
Event == events < MaxEvents /\ events' = events + 1
         /\ UNCHANGED <<forgotten, commands>>

-----------------------------------------------------------------------------
(* An attempt and its race with the deadline and with cancellation.  The   *)
(* answer and the handlers of the promise are one turn.                    *)
SettleFrame == UNCHANGED <<storeVars, wallet, snapshot, version, restoreTried,
                           stray, runs, sdk, effect, held, bounds>>

(* then, catch and finally: what is remembered, and the session is free.   *)
Settles(remember) == remembered' = remember /\ connection' = None

AdapterGets(request, address) ==
  adapter' = IF request.adapter = adapter.id
             THEN [adapter EXCEPT !.address = address] ELSE adapter

Connected ==
  /\ connection # None /\ connection.stage = "connecting"
  /\ \E a \in Account : AdapterGets(connection, a)
  /\ Settles(TRUE)
  /\ SettleFrame

Disconnected ==
  /\ connection # None /\ connection.stage = "disconnecting"
  /\ AdapterGets(connection, None)
  /\ IF connection.kind = "reconnect"
     THEN /\ connection' = [connection EXCEPT !.stage = "connecting"]
          /\ UNCHANGED remembered
     ELSE Settles(FALSE)
  /\ SettleFrame

Refused ==
  /\ connection # None
  /\ Settles(FALSE)
  /\ UNCHANGED adapter /\ SettleFrame

(* Mutant: the deadline is reported, the attempt keeps the session.        *)
ReportsDeadline == connection # None /\ UNCHANGED vars

(* 45 seconds pass.                                                        *)
Timeout == connection # None /\ DoReset /\ UNCHANGED bounds

(* Mutant: a late success is remembered whoever owns the session.          *)
LateAnswer(request) ==
  /\ Event
  /\ stray' = stray \ {request}
  /\ IF request.stage = "connecting"
     THEN (\E a \in Account : AdapterGets(request, a)) /\ remembered' = TRUE
     ELSE AdapterGets(request, None) /\ UNCHANGED remembered
  /\ UNCHANGED <<storeVars, wallet, snapshot, version, restoreTried,
                 connection, runs, sdk, effect, held>>

(* An attempt given up changes nothing in the session when the extension   *)
(* answers it, and a reconnect given up does not connect any more.         *)
StrayAnswer(request) ==
  /\ Event
  /\ stray' = stray \ {request}
  /\ \/ request.stage = "connecting" /\ \E a \in Account : AdapterGets(request, a)
     \/ request.stage = "disconnecting" /\ AdapterGets(request, None)
     \/ UNCHANGED adapter
  /\ UNCHANGED <<storeVars, wallet, snapshot, version, restoreTried,
                 connection, runs, remembered, sdk, effect, held>>

-----------------------------------------------------------------------------
(* The steps of a refresh after its awaits.                                *)
RunFrame == UNCHANGED <<wallet, version, restoreTried, connection, stray,
                        remembered, outside, held, bounds>>

RefreshNotes(run) ==
  /\ run.stage = "balances" /\ ~Fetching
  /\ IF /\ IsCurrent(run.wallet, run.version)
        /\ run.signer # None /\ Guard(run.signer)
     THEN runs' = (runs \ {run}) \cup {[run EXCEPT !.stage = "notes"]}
     ELSE runs' = runs \ {run}
  /\ UNCHANGED <<storeVars, snapshot>>
  /\ RunFrame

NotesAnswered(run) ==
  /\ run.stage = "notes"
  /\ runs' = runs \ {run}
  /\ \E ok \in BOOLEAN :
       snapshot' = IF ok /\ IsCurrent(run.wallet, run.version)
                   THEN [snapshot EXCEPT !.notes = run.grant] ELSE snapshot
  /\ UNCHANGED storeVars /\ RunFrame

-----------------------------------------------------------------------------
(* The extension, React and the page.                                      *)
(* The user switches the account, or disconnects, in the extension.        *)
SwitchAccount ==
  /\ Event /\ adapter.address # None
  /\ \E a \in (Account \cup {None}) \ {adapter.address} :
       adapter' = [adapter EXCEPT !.address = a]
  /\ UNCHANGED <<storeVars, sessionVars, sdk, effect, held>>

(* The adapter as React sees it now.                                       *)
Rendered == [adapter |-> adapter.id, connected |-> adapter.address # None,
             address |-> adapter.address]

Render ==
  /\ Rendered # sdk /\ sdk' = Rendered
  /\ effect' = TRUE
  /\ UNCHANGED <<storeVars, sessionVars, adapter, held, bounds>>

(* The provider remounts with a new adapter after a reset; what the old    *)
(* one was asked is of no consequence any more.                            *)
Remount ==
  /\ adapter.retired
  /\ adapter' = NewAdapter(NextAdapter) /\ sdk' = NoSdk /\ effect' = TRUE
  /\ stray' = {}
  /\ UNCHANGED <<storeVars, wallet, snapshot, version, restoreTried, connection,
                 runs, remembered, held, bounds>>

(* The page is loaded again; versions stay apart from the old page's.      *)
Reload ==
  /\ Event
  /\ adapter' = NewAdapter(NextAdapter) /\ sdk' = NoSdk /\ effect' = TRUE
  /\ wallet' = None /\ snapshot' = EmptySnapshot /\ version' = NextVersion
  /\ restoreTried' = FALSE /\ connection' = None /\ stray' = {}
  /\ runs' = {} /\ held' = None
  /\ midenSession' = None /\ midenVersion' = NextSession
  /\ query' = [a \in Account |-> Unread] /\ reads' = {}
  /\ UNCHANGED remembered

StoreStep(r) ==
  ReadStep(r) /\ UNCHANGED <<sessionVars, outside, held, bounds>>

User == Connect \/ Reconnect \/ Disconnect \/ Reset \/ Refresh \/ ShowBalance
        \/ TakeSigner \/ Sign \/ SignRefused

Next ==
  \/ User \/ UpdateWallet \/ Render \/ Remount \/ SwitchAccount \/ Reload
  \/ Connected \/ Disconnected \/ Refused \/ Timeout
  \/ \E request \in stray : StrayAnswer(request)
  \/ \E r \in reads : StoreStep(r)
  \/ \E run \in runs : RefreshNotes(run) \/ NotesAnswered(run)

Spec == Init /\ [][Next]_vars

-----------------------------------------------------------------------------
(* Every variable keeps the shape of the session's fields and of the       *)
(* store's (src/src/wallets/miden/miden-wallet-session.ts:67,              *)
(* src/src/bridge/balance-store.ts:32).                                    *)
TypeOK ==
  /\ StoreTypeOK
  /\ adapter \in [id: Nat, address: Account \cup {None}, retired: BOOLEAN]
  /\ sdk \in Wallet /\ (wallet # None => wallet \in Wallet)
  /\ snapshot.notes \in Grant \cup {None}
  /\ connection # None => connection \in Attempt

(* After a disconnect or a reset no attempt that succeeds late makes the   *)
(* portal reconnect by itself: runConnection lets only the attempt that    *)
(* owns the session decide what is remembered.                             *)
StaysForgotten == forgotten => ~remembered

(* While the extension is being disconnected nobody is shown, readable or  *)
(* able to sign, although the SDK still renders the old account and the    *)
(* effect of an earlier render may still run (updateWallet).               *)
NobodyWhileDisconnecting ==
  connection # None /\ connection.kind = "disconnect" =>
    /\ ~snapshot.connected /\ snapshot.signer = None
    /\ midenSession = None

(* Whatever adapters, renders and late answers do, the session and the     *)
(* store together serve one owner at a time: they show only its data and   *)
(* forget them with it (updateWallet, resetQueries, isCurrent).            *)
Owner ==
  IF midenSession = None THEN None
  ELSE [account |-> midenSession, session |-> midenVersion]

WalletOwner == INSTANCE WalletOwner WITH
  Nobody <- None, owner <- Owner,
  shown <- Balances \cup ({snapshot.notes} \ {None})

ServesOneOwner == WalletOwner!Spec

(* The extension is asked for a balance, for the notes or for a signature  *)
(* only on behalf of the owner at that time, however long ago the request  *)
(* was prepared (assertCurrent, isCurrent and the guards of the snapshot). *)
AsksForOwner ==
  [][/\ \A r \in reads' \ reads : r.stage = "asked" => GrantOf(r) = Owner
     /\ \A run \in runs' \ runs : run.stage = "notes" => run.grant = Owner
     /\ Sign => held.grant = Owner]_vars

-----------------------------------------------------------------------------
(* Timers fire; the extension owes nobody an answer.                       *)
FairSpec ==
  /\ Spec
  /\ WF_vars(Timeout)
  /\ WF_vars(\E r \in reads : /\ ExpireRead(r)
                              /\ UNCHANGED <<sessionVars, outside, held, bounds>>)

(* No connection attempt keeps the session and no balance read keeps its   *)
(* spinner forever, even when the extension never answers: both carry a    *)
(* deadline of 45 seconds (runConnection, requestMiden).                   *)
WaitsEnd ==
  /\ connection # None ~> connection = None
  /\ Fetching ~> ~Fetching
=============================================================================
