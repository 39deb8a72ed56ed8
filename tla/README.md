# Bridge portal: TLA+ models, checks and proofs

The Miden bridge portal is a browser application. It holds no server-side
state about a transfer: what a user knows of a transfer in flight is a
*receipt* in one `localStorage` entry, written by every open tab of the
portal and brought up to date by polling chains, indexers and solvers that lag
and fail. The transfer itself cannot be undone, so a receipt that says
"complete", "failed" or "replaced" when it is not true, that is lost, or that
waits for ever, is the failure that matters. So is what comes before a receipt:
a wallet asked to sign what was not reviewed, for an account no longer there, or
after the quote has died. The models are about those.

Paths below are relative to `src/src/` unless they begin with `src/`.

## 1. Inventory

| Part | State | Operations | What makes it correct |
|---|---|---|---|
| Receipt merge rule, phase tables (`bridge/activity.ts`, `bridge/core/rules.ts`, `bridge/providers/*/provider.ts`) | none; a receipt's fields | `activityState`, `applyActivityPatch`, `stampLegTimes` | progress and evidence never shrink, a settled receipt keeps its outcome, the fields that carry a phase move together |
| Receipt store (`bridge/activity.ts`, `app/lib/bridge-persistence.ts`, `app/components/ActivityProvider.tsx`) | per tab: receipts and their unsaved changes; shared: the stored rows | `record`, `patch`, `sync`; storage and focus events; reload | saved means durable; unsaved changes survive other tabs' writes; reads are lossless; history is a ledger |
| Tracking (`app/lib/use-activity-tracking.ts`, `bridge/tracking.ts`, the monitors in `bridge/providers/*/flows.ts`, `agglayer/activity-observation.ts`, `epoch/epoch-status.ts`, `xreserve/status.ts`) | per page: one request in flight with the snapshot it was made from | poll, answer, abort | no outcome the chains have not reached; settled in the end |
| Submission (`app/lib/bridge-submission.ts`, `bridge/providers/*/flows.ts`, `*-execute.ts`) | the promise of the page that submits; `pendingWithdrawals` | check, sign, record, update | what is reviewed is what is sent; an interruption is reported, and only then |
| Source transaction recovery (`bridge/evm/source-transaction.ts`) | the variables of one search | look up, gallop, bisect, read the block | ends on the block that consumed the nonce; only real replacements; recent, few reads |
| Token approvals (`bridge/evm/approval-store.ts`, `agglayer/approval.ts`, `xreserve/approval.ts`) | the pending approval in memory and storage; the `active` set of the page | load, save, clear, resume, sign, confirm | no second signature while an approval the page knows of is in flight; no deposit behind an approval that undercuts it; a settled approval never blocks |
| Review and balance cap (`app/components/bridge/use-bridge-transfer.ts`, `app/lib/use-balance-cap.ts`, `bridge/core/balance-cap.ts`) | the frozen input, the quote | review, verify, submit | nothing stale is submitted; exact decimal arithmetic |
| CCTP quote and burn (`xreserve/cctp-quote.ts`, `xreserve/cctp-deposit.ts`) | the selected quote and its deadline | reuse, refresh, simulate, burn | never burnt after the deadline or above the reviewed fee |
| Miden wallet session (`wallets/miden/miden-wallet-session.ts`) | one connection attempt, a version, the remembered connection | connect, reconnect, disconnect, reset, refresh, SDK updates | a superseded attempt changes nothing; a request is signed only for the account it was made for |
| Balance store (`bridge/balance-store.ts`) | session, version, query cache | set session, request, time out | no balance of one account under another |
| Circle status reads (`xreserve/cctp-status.ts`, `arc-status-server.ts`, `status.ts`) | the variables of one poll | source receipt, forwarding, Arc receipt, attestation, delivery; replacement search | what an index suggests counts only when the chains say it is this deposit |
| EVM RPC failover (`bridge/evm/rpc.server.ts`) | the providers left, the time spent | forward | availability errors move on, contract errors are returned, the time budget holds |
| Agglayer deposit lookup (`agglayer/agglayer-status.ts`, `withdrawal-recovery.server.ts`) | an offset | locate, verify, page, match | a withdrawal is matched by its own exits only; a listed deposit is never passed over |
| Epoch SDK boundary (`epoch/bridge.ts`, `epoch/deposit-tracking.ts`, `epoch/miden-note.ts`) | published hashes, bundles | wrap a provider, publish | a broadcast deposit is published once and never looks like a failed request |
| Quotes (`app/lib/provider-quotes.ts`, `bridge/quotes.ts`) | query cache | quote, select | an obsolete quote is never an offer |
| API routes and proxies, configuration, addresses, UI, prices, gas, faucet | none that outlives a request or a render | | |

How they interact. A submission asks the wallet and, in the turn of its answer,
calls `record`; from then on the submission, every tab's poll and every
tab's `sync` reach the receipt only through the store's `record`/`patch`/`sync`
and the merge rule. Tabs share nothing but the storage entry: a write raises a
storage event in the others, which sync and poll again. Monitors read the
snapshot they were given, ask a service, and return a patch that is merged into
whatever receipt the tab holds by then. A submission takes its signing requests
from the Miden wallet session, which owns the one connection to the extension
and tells the balance store which account it may read; the reads of a chain, in
a poll or in a flow, go through the failover of the portal's server.

What is hard: two tabs (and the submitting page among them) interleave at every
await; the store's reads and writes fail (quota, private mode); a reload loses
promises, memory and unsaved changes; services answer late, from nodes that lag,
or not at all; unsaved changes are replayed onto rows that have moved on. Before
the signature, quotes expire, accounts are switched and balances change at each
of a dozen awaits; the extension answers a connection that was cancelled or has
timed out; indexes point at transactions of other deposits. The full list, at its lines, is under "hazards" in `PROJECT.json`.

## 2. Modules

| Module | Models | Depends on |
|---|---|---|
| `ActivityMerge` | fields, phase tables, merge rule, read normalisation: operators only | |
| `ReceiptLedger` | abstract specification: a ledger whose entries only grow and settle once | |
| `ActivityStore` | every tab's store over one storage entry; implements `ReceiptLedger` | `ActivityMerge`, `ReceiptLedger` |
| `ActivityTracking` | chains, submitting page and polls around the store | `ActivityStore` |
| `SourceRecovery` | the nonce search against a growing chain | |
| `TokenApproval` | the account's transactions, the record of an unfinished approval, and the steps the two flows share | |
| `AgglayerApproval`, `UsdcApproval` | how each flow puts those steps together | `TokenApproval` |
| `WalletOwner` | abstract specification: the portal works for one owner at a time, shows only its data and forgets them with it | |
| `BalanceStore` | a Miden balance read, from the load of the SDK to the cache | |
| `MidenWalletSession` | the session, the adapter and extension behind it, the renders between them, the forms in front; implements `WalletOwner` | `BalanceStore`, `WalletOwner` |
| `BalanceCap` | the decimal arithmetic of the deposit limit: operators only | |
| `SubmissionJob` | the state of a submission, the world around it, the awaits flows share | `BalanceCap` |
| `Quotes` | what a provider's answer must bind to be a quote: operators only | `SubmissionJob` |
| `CctpDeposit` | Circle's quote policy and burn | `Quotes` |
| `ProviderFlows` | the six other flows, with the Epoch SDK's boundary | `CctpDeposit` |
| `BridgeSubmission` | form, review, checks before the flow; the whole | `ProviderFlows` |
| `EvmRpc` | one call over a chain's providers | |
| `StatusPoll` | the state of a poll and what its reads share | `EvmRpc` |
| `CircleStatus` | a Circle deposit's poll, server and browser | `StatusPoll` |
| `DepositLookup` | an Agglayer transfer's identity and its place in a paged list | `StatusPoll` |
| `StatusReads` | both in the world they read | `CircleStatus`, `DepositLookup` |
| `MC*` | finite instances for TLC; `MCTokenApproval` composes the two flows | |
| `ActivityStoreProofs`, `ActivityTrackingProofs`, `SourceRecoveryProofs`, `MidenWalletProofs`, `BridgeSubmissionProofs`, `StatusReadsProofs` | theorems and proofs | the module named |
| `SubmissionReceiptProofs` | further theorems about `BridgeSubmission` | `BridgeSubmissionProofs` |
| `TokenApprovalProofs` | theorems about both approval flows | `MCTokenApproval` |

### How state and actions correspond to the code

*Receipts.* A receipt is a function from field names to values, `None` for a
field the code leaves undefined; a patch has the same shape. Identifiers are
abstracted to "known": the code's decisions ask whether a hash is there, never
which one it is (a receipt's hash changes only when a replacement is found, see
below). Fields that come together are one: `sourceTxHash` also stands for
`midenTxId` of a withdrawal, `midenNoteId` for the wallet request,
`destinationTxHash` for the claim hash and for `midenTxId` of a deposit,
`epochIntentNonce` for the nonce and the sponsor. The six tables of
`provider.ts` are the operators `...Phase`, `PhaseStatus`, `PhaseOrder` and
`PhaseFields`; `Merge` is `applyActivityPatch`, `ReadRow` the normalisation of
`bridge-persistence.ts`.

*Store.* `memory[t][r]` is the `ActivityReceipt` of tab `t`. JavaScript runs
`update` and `sync` to completion, so `Record`, `ApplyPatch` and `Sync` are
single actions that contain the sync they end in, with its three outcomes: the
read fails, the write fails, it succeeds. The `ActivityStore` specification lets
any submission or monitor report any of its patches at any time
(`Observe`); `ActivityTracking` derives the patches from a chain.

*Tracking.* `transfer[r]` is the stage the chains have brought a transfer to;
`submission[r]` the page that submits and how far it is; `poll[t]` the snapshot
tab `t` is asking about. `StartPoll`, `ApplyAnswer` and `AbortPoll` are the
three moments of `poll()`. An answer may report any stage the transfer has
passed (`Passed`): indexers and nodes lag. `Changed(snapshot, answer)` is the
filter of `tracking.ts:14-18`, against the snapshot and not against the receipt
the patch is merged into. A tab shows one receipt page, hence one poll per tab.

*Source recovery.* One RPC read per action; the chain may grow between two
reads, any read may fail (`Warn`), and the head may be that of a lagging node.
`winner` is the candidate that took the nonce.

*Token approvals.* `page[t].pc` is the await at which an attempt of tab `t`
stands; between two awaits an attempt is one action. `sent` is the account's
transactions by nonce, mined in that order. A record's hash is its nonce and
version (a replacement is version 1), its captured transaction the flag
`identity`. `Put` is `saveApproval` or `clearApproval` with a storage that works
or fails, `Loaded` is `loadApproval`. `Recover` is `recoverSourceTransaction`
with every answer it may give; how it finds a replacement is `SourceRecovery`.
The wait for a receipt ends in `Confirmed`, `Replaced` or `TimeOut`. The flows differ in what they
do between: Agglayer waits for a reset or a smaller approval and asks for a reset
first, USDC accepts any sufficient allowance.

*Miden wallet.* `adapter` is the SDK's adapter as it is, `sdk` as React last
rendered it, `wallet` as the session was last told (`UpdateWallet` is the effect
that tells it). `connection` is the attempt that owns the session; requests of
attempts given up wait in `stray` until the extension answers them. `IsCurrent`
and `Guard` are the closures that every request handed out carries; `held` is
one a form has taken and uses later. The answer of the extension and the promise
handlers behind it are one turn of the page, hence one action. A balance read is
"loading" until the SDK is there and "asked" once its prompt is open; a read its
query gave up goes on and is checked against the session again at each step.

*Submission.* An async function is the sequence of awaits it still has before
it: `job.todo`. What runs between two awaits is one step, in which the next
await is taken from the sequence, others are put in front of it (a callee's), or
everything is dropped (an error). `ProviderFlows` and `CctpDeposit` give each
flow's sequence; a reader can hold it against the function. Time is what a quote
has left, counted down by `Tick`, so clocks and deadlines need no absolute
values. One number, `cost`, stands for Circle's fee, a withdrawal's fee and what
an Epoch payout falls short; `honest` for the signed fee being the quoted one.

*Status reads.* `poll.at` is the read under way, and the world moves between any
two reads. The server's answer and what the browser does with it are one turn.
The state of the world (`tx`, `forwarded`, `attested`, `delivered`, `rows`)
belongs to one transfer; of other deposits there are a "twin" on the same terms
and a "different" one, and every service may answer about any of them. `rpc`
counts the providers left for a read of a chain and the time already spent.

### Abstractions to know of

- An Epoch intent is allocated by the submitting page itself, through the SDK:
  if that page is gone before the allocation, the transfer stays at its deposit.
  A rejected intent is a failure of the destination leg.
- A Circle deposit rejected by the source chain is shown as "reverted" in
  `ActivityTracking`; "cancelled" and "replaced" occur in `SourceRecovery` and,
  as patches, in `ActivityStore`. The Miden note shown with a delivered deposit
  is left out.
- No monitor follows a Circle withdrawal (`canPoll` is false), and no code sets
  its burn status to "discarded", though its table knows that phase.
- Rows that fail schema validation are not modelled: the rows are those the
  current code writes. Read-then-write of the storage entry is atomic between
  tabs.
- A new receipt has a fresh id (the code takes it from `Date.now()`).
- `Date.now()` is a member of `Time`; it matters only to the time stamp of a
  delivery.
- Of one approval scope: the account approves nothing for the spender elsewhere
  and spends no allowance but by its deposits; reads see the latest block. A
  transaction dropped by every node stays in flight. "Cancelled" and "replaced"
  approvals are handled alike and are one. Checks of balance, fees, account and
  contract before a signature are the step `Fail`.
- In `MidenWalletSession` versions and adapters are renumbered: a number nothing
  refers to any more is taken again (`Fresh`), which no comparison can tell. Of
  the reads given up before their prompt, which do not affect each other, the
  last is followed. The `connecting` flags, error texts, the sync status and the
  store of the remembered flag failing are left out; disposal is part of
  `Reload`. The EVM balance query of the store is not modelled.
- In `BridgeSubmission` each behaviour has one route (Agglayer's tokens, or
  Epoch's networks, differ in data only). Whether the displayed balance blocks a
  receive is any answer: it is a display, checked again at submission. A token
  approval is one await (its inside is `TokenApproval`). There is one submission,
  and the page is not reloaded during it; both, and the updates of a receipt
  after the first, are in `ActivityTracking`.
- The Epoch SDK is external: it submits in turn or as a batch, and once more after
  a wallet error. A batch has an identifier and no hash until its status shows the
  deposit: if that wait fails, no receipt exists, and `ReceiptPerBroadcast` and
  `WarnsOnceBroadcast` say so. It is the one broadcast the portal cannot name.
- In `StatusReads` Circle lists messages and attestations of the transaction asked
  about, or of others on different terms, and a burn it executes makes its deposit
  in the same transaction; the portal's own source transaction makes one deposit.
  Agglayer's list does not shrink between two pages. A replica behind the one
  that served the previous page could hide a row until the next poll. The
  replacement search is one answer, true as `TruthfulResolution` says. The
  fallback to an address's latest deposit needs a receipt without a source hash,
  which no current flow makes. Byte layouts are identities of deposits.
- A chain is not reorganised below a head a node has reported.

## 3. Runs

| Run | Question | Instance |
|---|---|---|
| `store` | are receipts typed, durable when saved, safe to replay, lossless to read; are the rows a ledger? | 2 tabs, 2 receipts, one of them of any of five directions; every observation in any order; storage failing at any read or write; reloads. Symmetry of the tabs. |
| `tracking` | does any receipt show an outcome that is not true, or half an outcome? | 2 tabs, 1 transfer of any of the six directions; lag, faults, reloads, interruption. Symmetry of the tabs. |
| `tracking_live` | is every transfer that can be followed settled, and an interruption reported? Is a healthy submission left alone? | 1 tab, any direction, fairness below |
| `two_tabs_live` | does a tab that looks settled, or one that replays old changes, keep the history from settling? | 2 tabs, an Agglayer transfer, fairness below |
| `source_recovery` | does the search end where it should, with few and recent reads, and report only what happened? | every chain of up to 14 blocks with up to 3 transactions, nonce 1 |
| `approval` | is a second signature ever asked for, a deposit undercut, an amount approved over a nonzero allowance? | both flows, 1 tab, 3 transactions, amounts up to 2, 1 replacement; faults, timeouts, reloads |
| `approval_live` | does a settled approval ever block the flow for good? | both flows, 1 tab, 2 transactions, fairness below |
| `wallet` | is anything asked of the wallet, or shown, for an account that is not the owner? Does a disconnect stay one? Does every wait end? | 3 accounts, one of another network; 2 commands of the user, 2 events of the extension or the page; everything else unbounded |
| `submission` | is what is signed what was reviewed, within the limit and the quote's window, once and with a receipt? Does the submission end? | all seven routes, 2 accounts of each wallet, 2 amounts, 2 costs, quotes of 1 or 3 units, 2 changes of anything |
| `status_reads` | is what a poll reports true of this transfer? Is a listed deposit found? Is every provider asked in time? | one transfer of each provider; 1 to 4 RPC providers with the real limits 8, 24 and 30 s; pages of 2, at most 4 pages, 6 rows |
| `stamped_once` (violation) | "never again (idempotent)", `bridge/core/rules.ts:111` | the `store` instance with two clock values |
| `healthy_submission` (violation) | "Do not label a healthy in-page confirmation as interrupted", `epoch/flows.ts:16` | the `tracking` instance |

*Why the bounds are enough.* Each receipt is merged on its own and tabs meet only
in the durable row, so two tabs show every race of replays; the second receipt of
`store` is there because one write saves all rows. (The store's theorems hold
for any number of tabs and receipts.) Nothing else is bounded in the store and
tracking models: fields, stages and patches are finite, polls repeat for ever. In
`SourceRecovery`, fourteen blocks let the step double four times and the search
meet block 0 by the clamp and without it; three transactions put the nonce first,
between and last in a block with another. Nonce 1 leaves one transaction before
it and one after. That specification stops at its highest block, so its run does
not check deadlock. Nor do `wallet` and `status_reads`: a page may be left alone,
and the polls of a settled transfer stop. The others do.

In the approvals, three transactions are a reset, an approval and a deposit, or
two approvals and a deposit behind them, and amounts up to 2 give a zero, an
insufficient and a sufficient allowance. The replacement may be at any of the
nonces. There is one tab, since the `active` set that keeps two attempts apart is
per page: two tabs may each sign, and the code does not say otherwise.

Every hazard of the wallet session is a race of one attempt or captured request
with one thing that replaces it, so two commands and two events give each order
of a request, what overtakes it, and its late answer; the third account is the
one of another network, which the guards refuse. The proofs of that module cover
any number. In `submission`, a quote of three units outlives the headroom of one
by two ticks, one of a single unit never has a window: reuse, refresh, expiry at
each await and the one rebuild all occur. The cap's instance has prices with
different scales (1.25 and 2.5), a limit of 12.5 and a deposit of 2 beside
holdings of 4.00 and 4.01: equal to the limit, and above it by less than a decimal
of it. In `status_reads`, six rows in pages of two shift by arrivals, come short,
and reach the limit of four pages; four is the longest list of providers
configured.

What the approval runs do not claim: an approval the page never learnt of (a reload
before the save, a save that failed and then a reload) is `lost`, and may be
followed by a second one. A USDC record dropped because the allowance was enough
is `retired`; mined later, it may lower the allowance under a later deposit,
which then fails on chain. And a record whose identity was never captured is
kept for as long as the allowance stays insufficient, if its transaction was
replaced while no page watched: `docs/arc-testnet.md:68-74` says so.

*Symmetry* is used only in the runs without liveness properties.

*The two violations.* Both need a second tab. (1) A tab whose memory predates a
delivery merges that delivery itself, stamps its own time, and its replay
overwrites the durable one: `sync` takes metadata into a settled row. The stamp
is unique per row merged, not per receipt. (2) `pendingWithdrawals` belongs to
one page: another tab that opens the receipt of a withdrawal being submitted
takes it for interrupted and saves that. With one tab the property holds
(`tracking_live`).

### Fairness

`LiveSpec` assumes what an open page does, and nothing of the chains, the
submissions or the user, who may reload for ever:

- a tab that is behind syncs with working storage now and then (mount, focus and
  storage events; storage works now and then);
- an idle tab that may poll does (the timer of `poll()`);
- a poll in flight is now and then answered with the present stage and the answer
  saved (services recover and catch up).

A tab may be interrupted infinitely often between these (aborts, reloads), so the
fairness is strong. For the two actions that end in a sync it is written out as `[]<>P => []<><<A>>_vars`, with P the
condition that enables A, which spares TLC an `ENABLED` of a large action.
Where a service may answer the present stage in several ways (a delivery without its claim hash), the
fair step takes one that decides.

`wallet` assumes that timers fire: the 45 s of an attempt (`Timeout`) and of a
balance read (`ExpireRead`). The extension owes no answer, the user no command.
`submission` assumes that a network request answers or times out (`Answer`); a
user may leave a wallet prompt open (`OnUser`) and a chain may never confirm
(`OnChain`), and `SubmissionEnds` lets a submission wait for those alone.

`approval_live` assumes that from some time on nothing fails (nodes answer,
storage can be read, the page stays, a wait for what is
mined does not time out) and that the user keeps retrying. Before that anything
may fail any number of times.

## 4. Theorems

All for every value of the constants, under the named assumptions of the modules:
`OpeningAssumption` (a first record is past the wallet's signature, with its
direction, the identifiers of the wallet's answer and, for a Circle deposit, its
stage, and claims nothing of the other chain),
`PatchAssumption` (an observation does not change a transfer's direction, and
gives Circle's stage only as one of the type's),
`TimeAssumption`; `FirstRecordAssumption` of `ActivityTracking` (a first record
has no outcome, no delivery and no interruption) and
its `NoneAssumption` (the absent value is no receipt); `NonceAssumption` and
`BoundAssumption` for the search;
`NoneAssumption`, `ForeignAssumption` and `BoundAssumption` for the wallet (the
absent value is no account; foreign accounts are accounts), and for the
submission `NoneAssumption` (it is no quote and no review either),
`CostAssumption` (amounts and costs are numbers, and there is a least cost) and
`TimeAssumption` (so are times), `HoldingsAssumption` (and balances), and
`PriceAssumption` of `BalanceCap` (the symbols are finitely many; prices and the
limit are decimals with neither a sign nor a negative scale, as `decimal()` makes
them); `BoundAssumption` of `TokenApproval` (the bounds
are numbers); `RpcAssumption` (the
server's time budget is within the browser's limit) and `PageAssumption` (pages
are not empty) for the status reads.

**The store.** TypeOK, ReadIsLossless and SavedIsDurable are not inductive: a tab
may replay unsaved changes onto a row another tab has moved, and what the row
then holds depends on what those changes are. The invariant `IInv` of
`ActivityStoreProofs` adds

- every row, durable or shown, is *sound*: in the normal form of its table, with
  the identifiers an Epoch withdrawal starts with;
- every row is *attributable*: a withdrawal through Agglayer without exit hashes
  claims nothing beyond its source, nor do unsaved changes of one;
- the evidence of an unsaved receipt is in the durable row or in its changes;
- all copies of a receipt have the same direction.

`MergeFacts` says what one merge does to any sound receipt; `SyncStep` that a
sync from good receipts keeps the invariant and advances every durable row;
`PublishedGood` that publishing makes good receipts. Every action but `Reload` is
a sync, so these two cover `Next`. `StoreImplementsLedger` follows from
`SyncStep` step by step.

`UnsavedSurvivesReplay` is about progress too: a tab has shown a phase, and what
it keeps for a retry is a few fields, replayed onto a row another tab has moved
in any way. `AllReplay` says why they are enough (`Reaches`): the row is already
that far, or the changes hold a field that carries the phase (`Carries`) - the
status; a discarded burn; of a Circle deposit, its stage or the forwarding. The
carrying field depends on the direction, since it must decide the phase whatever
the other fields of the row are: an Epoch withdrawal with a nonce is at its
status, a Circle deposit only past its stage. Two things are needed besides: all
receipts are past the signature, so the first order needs nothing to carry it, and
Circle's deposits have a stage (`Started`). `CarriedOrder` is the
use of `Carries`; `ObservedCarried` and `MergeCarries` show that a replay and a
publish keep it, a merge that loses included.

**The tracking.** An outcome reaches a row by three ways: an answer merged by a
poll, a replay of unsaved changes, a durable row read back. So `TInv` of
`ActivityTrackingProofs` says the same of all that can be merged, rows, unsaved
changes and patches alike (`Fits`): what one claims of a transfer at its present
stage is true, and said with all the fields it takes. Whatever an outcome brings
along must survive a merge that takes only some of the fields: an outcome among
unsaved changes is one the tab shows, and a Circle delivery's time is durable or
among the changes (`FitsReceipt`). An answer is about the stage the poll's
snapshot was asked at, so a poll's snapshot stays below what its tab shows
(`AllWatched`), and stages follow the direction of the transfer (`AllPlaced`).
The lemmas ending in `Told` take each monitor's answers one by one, `MergeFits`,
`ObservedFits`, `ReplayedFits` and `SyncFits` the store's operations; then there is
one lemma per action. `HealthyLeftAlone` is the same invariant for a portal open
in one page (`OnePage`, its hypothesis): with a second it is false, as
`healthy_submission` shows. `TInv` implies `IInv`, so what was proved of the store
alone from `IInv` (lossless reads, saved is durable) holds here too.

**The search.** `IInv` of `SourceRecoveryProofs` adds that counts grow along the
chain, that the nonce is taken exactly when the count exceeds it, that the first
block past the nonce lies in `[low, high]` (`Bracket`), and how far back `low`
is from `high` and the head while galloping (`Stride`). One lemma per action.
`ReadsAreLogarithmic` adds `Budget`: while galloping there was one read for each
binary digit of the step, and the step is less than four times the head; then,
for the block searched for, the reads so far and one for each digit of
`high - low` stay within twice the digits of its age and three. That halving
takes a digit away and doubling adds one is an induction over the numbers.
The theorems of the library that take a predicate as parameter are of no use to
the provers, but `WFMin`, which takes a set, is: a property of all numbers is
proved from the least counterexample (`LeastNat`), and so is the fact that the
recursive function `Bits` satisfies its own equation (`BitsDef`).

**The wallet.** That the extension is asked only for the owner says nothing of
the requests under way, which is where it could go wrong. `IInv` of
`MidenWalletProofs` adds who each of them belongs to: a read of the present
version reads the owner's account (`ReadsOwned`); cached balances and shown notes
are the owner's (`DataOwned`, `NotesOwned`); the store's account is the one the
session shows (`SessionShown`); a signing request, a refresh or a form's held
request of the present version is the owner's (`SignerShown`, `RunsOwned`,
`HeldOwned`). A new version must differ from every captured one: `FreshExists`
shows that a free number is there, since what is captured is finite (`Shape`).
`ImplementsWalletOwner` and `RequestsAreTheOwners` follow step by step.
`ForgottenForGood` and `NobodyDuringDisconnect` need that an attempt which may
still remember the connection owns the session.

**The submission.** What a wallet is asked to sign depends on which awaits are
still before it, so `IInv` of `BridgeSubmissionProofs` says what `job.todo` may
still hold (`Planned`). Until the flow starts there is no quote (`PreAwaits`).
Circle's deposit either has an authorization of its quote to come or carries one
that is honest and within the reviewed fee (`Authorized`); nothing comes behind
the burn, and once a window is set only the account check and the burn are left,
with at least the headroom and the window still on the quote (`CctpPlan`,
`CctpPlanned`). In the other flows a plain deposit comes right after a check of
the chain (`OtherPlan`). The lemmas on sequences say that taking an await, or
putting a refresh or a rebuild in front, keeps these shapes. One lemma per group
of actions shows that each step keeps `IInv` and prompts only where it may
(`StepRight`). For `TransfersOnce`, `SubmissionReceiptProofs` adds what is left
before a broadcast (`Unpaid`: one prompt at most, and the end behind it) and after
one (`Paid`: no prompt, and a last await that releases the form), and that the
count of broadcasts and the receipt agree with it (`Accounted`). `SubmissionTyping`
adds that what is left ends in an await that releases the form, or replaces what
is left (`Released`): the form is never shown as submitting with nothing to wait
for.

**The limit.** `LimitHolds` is about every sum the code can form: the order in
which holdings are added is whatever `CHOOSE` says, and each addition may change
the scale. `ExactUsd` counts a decimal in the finest unit of all prices and the
limit; `ExactSum` shows that `Add` loses nothing in it, `TotalIsExact` that the
running total is the sum of the holdings' values, by induction over the sets of
holdings, and `AllowedFits` that an allowed deposit then fits. That
the holdings are those of the verdict, and all were asked a price for, is the
second read in `Allowed`; only `Verdict` leads from there into a flow
(`LeavesByVerdict`). The powers of ten and both folds are recursive functions, of
which the prover knows nothing: `RecursionExists` builds a function that does what
a recursion says, from finite attempts at it, whenever each element refers to one
before it in a well-founded order (numbers for `PowerDef`, subsets for
`SubsetRecursion`); the fold, a `CHOOSE` of such a function, is then one.

**The approvals.** `ApprovalTyping` needs no more than that each record held
anywhere, in storage, in memory, or by a suspended attempt, is one of a
transaction the account has sent, for its amount (`TypeInv`). The other three
theorems are about one page (`OnePage`, their hypothesis: two tabs may each sign,
see section 3) and any number of transactions, amounts, failures, replacements
and reloads. What must not happen is a second signature, so `Informed` says why
the page would know: an outstanding approval is the one its memory, or else the
storage, holds, a suspended attempt works on that record, and past the steps
that settle it nothing is outstanding (`Knows`); an Agglayer approval of an
amount is signed only past the reset, over a zero allowance (`InStep`), which
lasts while it is live (`FromZero`); and no live approval is before a deposit in
flight (`NoneBefore`). Both flows share the lemmas on the shared steps;
each flow adds one lemma per step of its own.

**The status reads.** `LastTurnInTime`: the time spent plus the full turns of the
providers left fit the budget (`InTurn`). `ReportsAreTrue`: `Known` states what
each read may rely on from the reads before it - from the source receipt on the
poll is about this deposit, a forwarding is followed to a transaction on Arc
that executed this burn, a delivery is looked up for this deposit's intent, a
replacement is searched only for a transaction no node knows - and that none of
it can be undone by the world. `ListedDepositsAreFound`: a deposit listed when
the lookup began lies at its offset or beyond, since rows are only added in front
(`Ahead`), and a page behind which nothing lies would have contained it
(`LastPage`).

**Model-checked only.** Liveness, which is out of the prover's reach:
`EventuallySettled`, `InterruptionIsReported`, `LetsGo`, `WaitsEnd` and
`SubmissionEnds`. Every other property of the passing runs is a theorem.

## 5. Not modelled, and what is left

Not modelled: request validation, forwarding and rate limits of the API routes
(no state between requests; what they check of an answer and when they fail is
in the steps of the callers); configuration tables and their schema (static);
address conversions and the EVM wallet kit (pure, or a library's); the UI and
its wording; prices, gas and the faucet (single reads that decide nothing about
a transfer; prices are an input of the cap); the EVM balance query.

What the plan has left:

1. A second submission in another tab, and a reload during one, in
   `BridgeSubmission`; the draft that outlives a reload.
2. Rows that fail schema validation, in the receipt store.

## 6. Running

    tlc -workers 2 -config ActivityStore.cfg MCActivityStore
    tlapm ActivityStoreProofs.tla

and likewise for the other runs in `PROJECT.json`. The longest run takes about
two minutes, the proofs a few.
