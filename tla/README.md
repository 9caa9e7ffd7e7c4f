# Verification of admin_back_go

A TLA+ development kept beside the Go code of `admin_back_go`: modules that
model its core, TLC configurations that check them on small instances, and
theorems about them that TLAPS checks for every value of the constants.

Paths are relative to the repository (`src/`), mostly to `internal/`.
`PROJECT.json` lists, for every definition, the source lines it models; for
every run, what it checks; for every property, a mutation of the model that it
catches; and the hazards of the code, each at its line.

| module | models | run (part) | proved in |
|---|---|---|---|
| `Escrow` | the abstract account a wallet promises to be | `wallet` (refinement) | `WalletProofs` |
| `Wallet` | wallets, holds, ledger | `wallet` | `WalletProofs` |
| `RedeemCode` (over `Wallet`) | batches, codes, attempts, failure counter | `wallet` | `RedeemProofs` |
| `Pricing` | quotes, hold targets, prices, shares | `wallet` (pricing) | `RequestProofs` |
| `ContextPlan` | groups, budget, packing and compilation of a reply's context | `wallet` (plan) | `RequestProofs` |
| `Payment` (over `Wallet`) | orders, recharges, Alipay callbacks, payment cron tasks | `work`, `work_live` (one order), `live` (two) | `PaymentProofs` |
| `Reply` | paid AI chat replies: command, lease, attempts, charge, hold, message, reconciler | `reply`, `live` | `ReplyProofs` |
| `Session` | login sessions over MySQL and Redis | `access` (session) | `AccessProofs` |
| `VerifyCode` | one account's verification code and its delivery | `access` (code) | `AccessProofs` |
| `Principal` | authorization snapshots, gates and versions | `access` (principal) | `AccessProofs` |
| `Permissions` | permission tree, roles, grants | `access` (permission) | `AccessProofs` |
| `CronSchedule` | `cron_task` rows against the jobs of each worker | `work`, `work_live` (cron) | – |
| `JobLease` | the Redis lease of a scheduled job | `work` (job) | `WorkProofs` |
| `Notice` | notification tasks | `work`, `work_live` (notice) | `WorkProofs` |
| `Export` | export tasks | `work` (export) | `WorkProofs` |
| `Realtime` | durable events, connections, resume | `reply` (realtime) | `WorkProofs` |
| `BilledTask` | image and text tasks: reserve, send, record, settle | `work`, `work_live` (task) | `WorkProofs` |
| `ContextIndex` | the search index of a context profile | `work`, `work_live` (index) | `ContextProofs` |
| `ConversationContext` | turns, memories, points and plans of one conversation | `work` (chat) | `ContextProofs` |

Components that share no state are checked by one run: an MC module extends
them all, the initial state picks the *part* that moves, and the others rest in
one initial state of theirs.

## 1. The system

`cmd/admin-api` and `cmd/admin-worker` are two processes of one modular
monolith. Any number of each may run. They share MySQL (the truth), Redis
(copies, locks, limits, task queue), Qdrant (search) and object storage.
Handlers run concurrently; a transaction covers what a repository method puts
into one, and nothing spans two stores. Background work reaches the worker in
three ways: the Asynq queue (at least once), a gocron scheduler that runs a job
on the one worker that holds its Redis lease, and pollers started at boot.

| component (`internal/…`) | state | operations | interacts with | correct when |
|---|---|---|---|---|
| wallet (`module/payment/wallet`) | `user_wallets`, `wallet_holds`, `wallet_transactions` | create, reserve / top up, capture, release, credit | called in the transactions of payment, redeem codes and AI billing | never overdrawn, totals match, money moves once |
| payment (`module/payment`) | orders, recharges, callback events | create, pay, sync, close, callback, two cron tasks | Alipay, wallet | paid, credited and in the ledger together; final outcomes stay; listed paid trades settle |
| redeem codes (`…/redeemcode`) | batches, codes; locks and counters in Redis | generate, void, redeem, retry | wallet | one code, one credit; a retry finds it |
| reply commands (`module/ai/replycommand`), gateway and billing (`module/ai/aigateway`, `runtime/ai_billing_*`), chat (`module/ai/chat`) | commands, attempts, charges, runs, messages, delivery chunks | create, claim, renew, dispatch, record, settle, cancel, reconcile | provider, wallet, realtime | no repeated request; charge, hold, command and message close together; every reply settles |
| AI text and image tasks (`module/ai/text`, `image`, `runtime`) | task rows, attempts, charges | accept, wake, execute, settle, reconcile | gateway, wallet, queue | as replies |
| pricing (`module/ai/pricing`, `aigateway`) | the snapshot of a run | quote, validate, price, allocate | gateway, finalizer | usage within bounds fits the hold |
| context engine (`module/ai/contextengine`, `infra/contextindex`) | sources, versions, profiles, memories, plans | index, rebuild, reconcile, build memory, retrieve, pack | Qdrant, provider, chat | readers see one whole generation; nothing hidden is sent; plans fit |
| sessions (`module/auth`) | `user_sessions`; Redis copies and pointer | issue, authenticate, rotate, revoke | every request | limits hold, credentials stay good, revoked is over |
| verification codes (`module/auth`) | Redis keys | deliver, commit, roll back, consume | mail, sms | one consumption, of a delivered code |
| principal cache (`module/permission`) | Redis gate and snapshots per user | begin, publish, abort, reconcile, load | role, user and permission changes | nobody is served revoked grants |
| permissions, roles, users | tables | create, update, move, delete, assign | principal cache | tree and roles in order; changes raise versions |
| scheduler and leases (`infra/scheduler`, `infra/redislock`), cron tasks (`module/crontask`) | Redis lease, `cron_task` rows, gocron jobs | acquire, renew, run; edit, reconcile | queue | one live firing; jobs equal the enabled rows |
| exports, notifications (`module/export`, `notification`) | task rows with a claim token | create, claim, renew, execute, finish | queue, storage, realtime | told once, nothing stuck |
| realtime (`module/realtime`, `infra/realtime`) | events, watermark, connections | append, publish, resume | chat, notifications | an open connection loses nothing, a replay has no gap |
| mail, sms, settings, uploads, AI catalogue, queue monitor, provider adapters, HTTP layer | tables | mostly single rows | providers | section 13 |

## 2. Wallet

**State and actions.** `wallets`, `holds`, `ledger` are the three tables. Every
operation runs in its caller's transaction and locks the wallet row first, so it
is one atomic action: `GetOrCreateWallet`, `ReserveHold` (`ReserveHoldInTx` and
`TopUpHoldInTx`), `CaptureHold`, `ReleaseHold`, `CreditRecharge`,
`CreditRedeemCode`. The guards are the code's validations; an operation that
returns an error is rolled back and leaves no trace, so it is no step. A replay
that the code answers from the stored fact changes nothing.

**Run `wallet`, the wallet alone** (two users, two runs, one recharge, two
codes, amounts {1,2}, `MaxUnits` 3). `MaxUnits` stands for `math.MaxInt64`; with
3, sums of two amounts overflow and every overflow check of the code is met from
both sides. Two users and two runs let a hold of one be tried by the other and
two holds share a wallet. `CHECK_DEADLOCK FALSE`: once every source is spent and
every hold settled, nothing remains to be done.

- `WalletSolvent`, `HoldTotalMatches`: what is held is covered, and the
  redundant `held_units` is the sum of the active holds; otherwise
  `assertActiveHoldTotal` would block the account.
- `ReplayValidates`: every stored fact passes the validator a late duplicate
  runs, and the rows of a wallet chain from `balance_before` to `balance_after`
  and end at its balance, one row per source.
- `ImplementsEscrow`: the whole repository implements `Escrow`, in which money is
  deposited once per source, set aside, and paid or given back once. (That a
  settled hold is final, `HoldsSettleOnce`, is part of this, and proved.)

**Proved** (`WalletProofs`), from `MaxUnits \in Nat \ {0}` and `Amounts \subseteq
1..MaxUnits` alone: `WalletTypeCorrect`, `WalletAlwaysSolvent`,
`CaptureNeverOverflows`, `HoldTotalAlwaysMatches`, `HoldsAlwaysSettleOnce`,
`ReplaysAlwaysValidate`, `WalletImplementsEscrow`. Solvency and the sums are
inductive with the types: the overflow checks of the code are what keeps the
totals in range. `ReplayValidates` is not. Its invariant `ReplayInv` adds
`Chained` (the rows of a wallet, ordered by `balance_before`, are consecutive and
of positive size, so that the new row extends the chain), `SourcesDiffer` (one
row per source), and what a recharge's and a hold's stored facts agree on
(`RechargesReplay`, `HoldsReplay`).

## 3. Redeem codes

**State and actions.** `batches` and `codes` are MySQL, `lock` and `failures`
the Redis keys of a user on a platform. A generate request finds its batch or
inserts batch and codes in one transaction (`GenerateBatch`,
`CreateOrReplayBatch`). A redemption is `Acquire`, `FailureState`, the
transaction `Redeem` (or `RedeemNothing`), `RecordFailure` and `Release`, each a
step, since nothing spans the two stores; the lock expires under a living
attempt (`LockExpires`), the window of failures ends (`WindowExpires`), an
attempt dies (`AttemptDies`), an answer is lost (`AcquireLost`, the lost commits
in `Redeem` and `CreateOrReplayBatch`). Lists, lookup and export only read.

**Run `wallet`, parts with limiter keys** (two attempts, two admins, one batch
of one or two codes, one fault; one user on two platforms, or two users on
one). `RedeemedOnce`: code, ledger row and wallet agree, an attempt answered
"unavailable" is never about a code its user redeemed, and a request id has the
codes it asked for.

**Proved** (`RedeemProofs`), from the assumptions of `Wallet`,
`FingerprintsAssumption` and `RedeemNamesAssumption` (the names for "nothing" name
nothing): `RedeemTypeCorrect`, `CodesPayOnce` (`RedeemedOnce`). The invariant
`RedeemInv` adds to the types what processes carry across steps
(`AttemptsAreSound`: a code refused once stays unredeemable for that user,
although lock and counter are elsewhere), `CodesAreWhole`, `CodesAndLedgerAgree`
(a used code has exactly the ledger row a replay finds; an unused one has none)
and `BatchesAreWhole`. `RedeemKeepsToTheWallet`: every step is a step of `Wallet`
or leaves it alone, so `RedemptionsAreDeposits`: solvency, replay and the escrow
account hold of redemptions as well.

## 4. Payment

**State and actions.** A row of `payment_orders` or `payment_recharges` moves by
an `UPDATE` whose `WHERE` lists the statuses it may leave (`OrderLeaves`,
`RechargeLeaves`). There is no transaction around a handler, so each request,
callback and cron task is a process in `proc` that makes one call per step:
`PayLoad … RechargeAnswered` is `PayOrder` and `PayRecharge`; `SyncLoad`,
`Query`, `NotExist`, `SyncReload`, `CloseQueriedOrder`, `LinkedLoad`,
`LinkedClose` are `SyncOrder` and the cron; `CloseLoad`, `GatewayClose`, `CloseCas` close an
order; `Callback`, `ResolvePaid`, `ResolveFails` handle a notification. Only
`Settle` (`FinalizePaidOrder`) is one transaction, over order, recharge and the
`Wallet` action `CreditRecharge`. `Crash` ends a process at any step; it also
stands for a failed database call, after which the code returns. Alipay is the
variable `trade`: a pay URL is handed out, the buyer opens it and pays or lets
it time out, not after the order's expiry, which `gateway.Pay` passes on.

The clock is a variable of its own, `expired`, and reading it is a step of its
own: `PayClock` after the read of the row, `NotExist` after the answer of
`gateway.Query`. Whatever the buyer does in between, the handler goes on with an
answer that is old.

A run of a cron task lists at most `Batch` rows (`Listed`), by id (`Place`) or by
`expired_at` (`Deadline`): `SyncListed` and `CronExpire` take up one row of the
batch. The paying rows `SyncPendingOrders` lists are those written at least 30
seconds ago; which ones these are is open in `CronSync`.

**Abstractions.** The recharge status `paid` is validated by the code and never
written, so it has no transition. Notifications other than a success are
recorded and ignored by the code and left out here. An order and its recharge
share an id; an order created alone is a raw order of the console.

**Run `work`, part payment** (one order, two concurrent requests, one cron
worker). One order suffices because no handler touches two. Two requests and the
worker give every three-way race of callback, user and cron: one process reads,
another overtakes, a third decides.

- `SettledTogether`: no interleaving or crash settles half, twice, or without
  the buyer's money; Alipay is told "success" only once the order is settled.
- `OutcomesAreFinal`: final statuses are final for late callbacks and stale cron
  rows; only a user's `CloseOrder` closes an order that can still be paid, and
  `CloseExpiredOrders` closes none that was paid.

That no order is closed that was paid does not hold, and run `closed_paid`
(`PaidIsNotClosed`; one order, request and worker) shows one way: sync and cron
close a paid order when the buyer pays after "trade not exist" and the expiry
passes before the clock is read. `CloseOrder` is the other: it closes one that
was paid after the row was read or Alipay answered.

**Runs `work_live`, part payment, and `live`, part orders.** `OrdersSettle`: a
paid trade settles and an expired order ends, without any promise about callbacks,
requests or the buyer, except

- what the finalizer respects until the user pays again: a closed order, or a
  recharge marked failed or closed (`PaymentEnds`). Such a recharge next to a
  paying and paid order (`Stuck`) is refused in every run and keeps its place in
  both lists;
- an order behind a whole batch of stuck rows (`Crowded`), which no run lists.
  The code keeps no position in its lists, so what cannot be settled starves
  what is behind it; TLC refutes the property without this exception. In the
  instance a batch is one row; in the code it takes 50 stuck rows.

`work_live` has one order, one request, one worker and every fault. `live`
(`MCOrders`, instantiated by `MCLive`) has two recharges, a batch of one and no faults of the
worker: that is where rows wait for a place in the list, leave it by being paid,
closed or refused, and come back by being paid again. Two orders are enough for
a batch of one, since a row waits only for those ahead of it.

*Fairness* (`CronFairness`). The scheduler enqueues both cron tasks for ever and
each run works through what it lists, so a row that is again and again in the
batch of all paying rows, or of all expired ones, is taken up: strong fairness of
`SyncListed(p, o, Paying)` and `CronExpire` per order, because each is disabled
while the worker is busy. A row outside the batch is promised nothing. (The
cutoff only takes rows of the last 30 seconds out of the list: it postpones a row
and moves others forward.) A gateway that refuses or loses every call about an
order, or a process killed at the same line every time, would defeat any code:
strong fairness per order of `Query` (per task), `Finalize`, `GatewayClose` and
`CloseQueriedOrder` excludes that. Everything else is weakly fair. In `live`,
where no call fails, weak fairness of all the worker's steps stands for these.

**Proved** (`PaymentProofs`), for any number of orders, requests and workers, from
the assumptions of `Wallet`, `OwnerAssumption` and `OrderUnitsAssumption`, and
for any batch and order of the rows (`BatchAssumption`): `PaymentTypeCorrect`,
`OrdersSettleTogether` (`SettledTogether`), `OutcomesNeverChange`
(`OutcomesAreFinal`), `PaymentKeepsToTheWallet` and
`PaymentsAreDeposits`. `PaymentInv` is `RowsInv` (types, `Unoffered`: an order that
never got a pay URL has no trade, `SettledTogether`) and `ProcsInv`: `Knows` says
what a process at each line may still rely on about a row it read some steps
ago, for instance that a trade it was told is paid stays paid, or that an order
it expires can no longer be paid. One lemma (`Onward`) shows that nobody else's
step takes that away; each action then has a lemma of its own.

## 5. Replies

**State and actions.** `cmd` is the command row with its lease; `attempts`,
`charge`, `hold`, `message`, `deleted`, `chunks` are the rows of its run and
conversation; `worker` is what a goroutine of the runner carries in memory;
`sweep` is how far the reconciler's pass is. One step is one transaction or one
answer of the provider.

- User: `CreateReply`, `Cancel`, `DeleteConversation`.
- Leases: `Claim` (counts a claim unless nothing is to be sent),
  `ClaimAmbiguous` (a lapsed claim that may have reached the provider becomes
  `outcome_unknown`), `Renew`, `Expire`, `Lapse`, `Crash`.
- Execution: `Start`, `Route` (chooses what the next attempt is), `Prepare`
  (reserves), `MarkDispatched`, `Call`, `Record`, `Tools`, `Mark` and `Settle`
  (marker, then finalizer), `Fence`, `Defer`, `Fail`, `Finish`.
- Finalizer: `Normalized`, `Trigger`, `Decide`, `Apply`: the attempts are
  normalised, the trigger is derived from the rows, and one transaction closes
  charge, hold, command and message, or the finalizer answers "pending"
  (`Pending`) or refuses (`Refused`).
- Reconciler: `Reconcile` (an unknown outcome, then an orphan, each error ends
  the pass), `CleanChunks`.

**Environment.** `env` says what the environment may do in a behaviour: the user
(cancel, delete), the provider (reject; silence: no outcome is known; tools;
overflow: a tool continuation above its limit; poor: a wallet without money;
partial: usage missing or above the hold; stream: chunks before the answer)
and faults (crash, lapse of a busy worker's lease, database error, local error),
and how many faults are left; the rest is unbounded.

**Abstractions.** The pair (`lease_owner`, `lease_token`) is the identity of the
holding worker, which works on one claim at a time. `attempt_count` is capped at
`MaxAttempts`: the code only compares it with that. The transition to running
and the first renewal are one step. One chunk stands for the streamed prefix.
Incomplete usage and usage priced above the hold are both `partial`. The flag
for a lost lease that `Renew` sets in memory is subsumed by the guards of the
writes, which check the lease in the database. Delays between retries are left
out, and the reconciler takes any due command. Quotes are always valid; amounts
are `Wallet`'s and `Pricing`'s. The legacy unpaid path is not modelled.

**Run `reply`** (one command, two workers, `MaxAttempts` 2; two faults and every
event but delete, or one fault and every event). Commands share no rows but the
wallet's, modelled apart, so one suffices; two workers are the old and the new
holder of a lease; two attempts make the first one differ from the last; two
faults allow a crash during the recovery from another. The proofs do without
these bounds.

- `ClosedTogether`: charge, hold and command close in one commit; an open charge
  keeps its hold; only an answer or a stopped one is paid for.
- `StopIsFinal`: once stopped, never published as answered.
- `NoBlindRepeat`: only a definite failure or an answer asking for tools is
  followed by another attempt.
- `SettledForGood`: a settled reply changes no more, however late a worker is.

**Run `live`, part reply,** checks `EveryReplySettles` in two environments: without
faults, and with two crashes. *Fairness:* runners and reconciler poll every
second and every call has a timeout, so each step of a worker's execution, each
claim and each sweep is weakly fair, and so is the expiry of a lease nobody
renews. Nothing is promised about users, provider or faults. The environments
leave out the combinations of section 12, under which the code does not settle.

**Proved** (`ReplyProofs`), from `ReplyAssumption` alone (any number of
commands, workers, attempts and faults, any environment): `ReplyTypeCorrect`,
`PaidOnce` (`ClosedTogether`), `StoppedForGood`, `NeverRepeatedBlindly`,
`SettlementIsFinal`. All rest on one inductive invariant,

    ReplyInv == ReplyTypeOK /\ ExecutionsInStep /\ NoBlindRepeat
                /\ SettledAttempts /\ StopIsFinal /\ ClosedTogether

`ExecutionsInStep` ties what a worker carries to the rows: the attempt it is
about to prepare is the next one or was taken meanwhile, the one it calls
exists. Without it `NoBlindRepeat` is not inductive, since a worker acts on what
it read before others moved on. `SettledAttempts` says a settlement leaves no
attempt that could still be dispatched or recorded: the fence that stops a late
`RecordOutcome` is the attempt's own state, not the lease. It is what makes
`SettlementIsFinal` follow. There is one lemma per action; most steps write no
row of the run and share `QuietRows`.

## 6. Image and text tasks

**State and actions** (`BilledTask`). A task is accepted with its run and an
open charge (`Accept`), woken over the queue (`WakeByRequest`, `Reconcile`,
`Redeliver`; the unique lock of a message runs from its enqueueing and may lapse
while it is handled), and executed: `Deliver`, `Look`, `Reserve`, `MarkSent`,
`Answer`, `Record`, `Judge`, `MarkTaskFailure`, `SaveCandidate`, `FinalizeTask`.
An image is executed under a lease of its row with a token that fences its
writes; a text has none, only the compare-and-sets of its rows. Commits whose
answer is lost, failing calls, stalls and deaths are the faults. `sends` is
history: requests a task was allowed to send.

**Runs** (one task of either kind, two executors, three faults; for liveness one
fault). `SettledWhole`: at most one request per task, and task, charge and hold
end together. `TasksEnd` under `TaskFairness`: both reconcilers run on a
schedule, workers take what waits, clocks pass. Amounts, uploads and the
assembly of a request are left out: `SettledWhole` claims of images only that a
result stands, since a second worker may fail a text task under the first
(section 12).

**Proved** (`WorkProofs`), from `TaskAssumption`, for any number of tasks, executors
and faults: `TasksEndWhole` (`SettledWhole`). `TaskInv` has `RowsAgree` (money is
held before an attempt is prepared, an attempt is prepared before it is sent and
sent once, nothing changes once the charge is closed), `ImageAgrees` and
`WorkerIsSound` (what an executor still knows while the row's token is its own)
and `TaskTokensDiffer`. The lease itself is not in the invariant's heart: two
executors of a text hold none, and the compare-and-sets of the attempt and the
charge carry the argument.

## 7. Pricing

`Pricing` is the arithmetic of one run, attempt after attempt: the upper bound of
a request (`InputBound`, whose cap is written into the request and so changes
its length, found by `Converge`), its price at the dearest rates
(`UpperRates`), the hold target on top of what earlier attempts used
(`CumulativeHoldTarget`), the price of the recorded usage by tier and cache
category (`SettlementLines`, `PriceUsage`), and the shares of the items
(`Allocate`). Prices per unit have scales; comparison is crosswise and rounding
is up. *Part pricing of run `wallet`* (a flat and a tiered price book with
different scales, two multipliers, two request sizes, two attempts, digits in
base 4): `BillFitsHold`: usage within its bounds is never priced above the hold,
shares sum up to the bill and none is off by a unit.

**Proved** (`RequestProofs`), from `PricingAssumption` (no rate is negative or for no
tokens, multipliers are positive), for any books, multipliers, windows, requests and
number of attempts: `PricingTypeCorrect`; `UsageCovered`: within the bounds, usage
never prices above the hold and no bill is `over_hold`; and `BillsFit`
(`BillFitsHold`). The last has one more hypothesis, `WholeBooks`: every category has
one rate, or a pair on the sides of a positive threshold. The code does not
check that of a snapshot; with another book the usage of a run cannot be priced at
all (`ErrPriceUnavailable`, a bill `unpriced`), which is not about the hold.

`PricingInv` is `PricingTypeOK`, `HoldCovers` (the hold covers what was used, plus
the bounds of the attempt under way) and `BillIsPrice`. The argument has four parts.
A later attempt moves no earlier one to another tier, because a tier is told
from the prompt of its own attempt (`PromptKept`, `SettlementKept`). No prompt token
costs more than the dearest rate of any prompt category, compared crosswise
(`Dearest`, `Crosswise`), so usage within its bounds prices, exactly, at most as
the bounds do (`WeighedAttempt`). Attempts are rounded up together once where they
were reserved one by one, and rounding a sum up is at most the sum rounded up
(`RoundedOnce`). And floors plus one for each of the largest remainders sum up to
the rounded total, because less than one unit is left per line (`Shares`). The sums
are recursive functions on the numbers up to a length; what they compute is
shown by an induction over the set of those numbers (`BoundedInduction`).

## 8. Context of a reply

`ContextIndex` has the profile row (state, active and target generation) in
MySQL, one collection per generation and the alias in Qdrant, the queue's
messages, and as processes rebuilds (`BeginRebuild … FinishRebuild`, `FailRebuild`,
`DeleteTarget`), indexings of versions (`AcquireVersion`, `PublishPoints`,
`ActivateVersion`), the reconciler (`InspectProfile`, `ApplyRepair`,
`RestoreActive`, `ReconcileVersions`) and the removal of retired collections.
Run `work`, part index (one document with two versions, three generations, two
workers of each kind, five mixes of two faults: `CalmIndex`):
`SearchableWhenReady`: a profile in use has its active collection with every
promised point; `RevisionsOnlyAdvance`. Run `work_live` (`SettlingIndex`, three
mixes): `IndexConverges` under `IndexFairness`: the queue delivers, a delivered
message is worked on until dropped, leases run out, the reconciler polls.

**Proved** (`ContextProofs`), from `IndexAssumption` (finitely many versions with
positive ids) and `CalmIndexing`, for any number of documents, versions, workers,
generations, retries and faults: `ProfilesStaySearchable` (`SearchableWhenReady`) and
`VersionsOnlyAdvance` (`RevisionsOnlyAdvance`). `CalmIndexing` says of a mix what the
mixes of the run have in common: Qdrant answers the reconciler, and either nothing
is rebuilt, or no lease on a rebuild lapses, no document is turned off and on, no
version is activated between a rebuild's comparison and its end, and rebuilds
either die (or lose the answer to their last write), or fail while documents
change, not both. Each exclusion is needed: TLC breaks `SearchableWhenReady` as
soon as a mix with rebuilds adds what is excluded (section 12; rebuilds that die
and fail: one dies after its alias switch, its redelivery fails, and the
cleanup deletes the target the reconciler has meanwhile finished).

`SearchableWhenReady` alone is not inductive. `IndexInv` says more: the active
collection holds disabled documents' points as well (`ProfileHolds`); collections
are of generations that were, or of the one being built (`Generations`); one
rebuild runs, and the row is still its own or was finished by the reconciler
(`BuildTrue`); the alias is at most at the active generation, or at a target that
was switched to (`AliasTrue`); and what the reconciler is about to write from the
row it saw is past, so that its compare-and-set does nothing, or is right
(`RepairTrue`, which carries the repairs that are not fenced: an alias they set
never points above the active generation). A document has the highest of its
ready versions (`DocumentsTrue`), hence an activation by the slower of two workers
leaves it alone.

`ConversationContext` has turns, memories (a chain, each covering the turns up to
its last one), points of single turns and the plan of each reply from its facts
to the dispatch guard, with edits, deletions and profile switches in between.
Run `work`, part chat (four turns of tokens 4,1,4,1, two builders, five mixes:
`CalmChat`): `MemoryIsCurrent` and `PlanStaysTrue`. The mixes have one reply at
a time and no edit while the profile is off; run `memory_stale` shows why.

**Proved** (`ContextProofs`), for any number of turns, builders, faults and repeats
and any token bounds and budgets, from `ChatAssumption` and `CalmTalk` (the two
conditions of the mixes): `MemoriesStayCurrent` (`MemoryIsCurrent`) and
`CommittedPlansStayTrue` (`PlanStaysTrue`). `ChatInv` adds to `MemoryIsCurrent`
`MemoriesInOrder` (a parent has a smaller id, no memory is empty),
`BuildsHaveTurns` (nor is an order), `TurnsInOrder` and `OneAtATime` (the reply
under way is the newest, so no memory reaches it), `PlansHaveReplies` (edits are
refused while a reply is under way, so they meet no plan) and `PlansAreSound`,
what a plan holds after each of its reads. A memory that is committed stands on
the newest one (`CommittedCovers`), hence covers what its range leaves over; one
that ends before the first hidden turn covers no hidden turn (`HidingKeeps`).
`Coverage` and the token sums are recursive functions up to a bound; what they
compute follows from `BoundedInduction`, an induction over sets of numbers that
rests on the well-foundedness of strict inclusion.

`ContextPlan` is the pure part: core facts, memory, history and findings become
groups (`PlanGroups`), evidence is verified, deduplicated, merged and reranked
(`Normalized`, `Reranked`), a failed search degrades the plan (`Degraded`), the
packer takes whole groups (`Choose`, `Selection`), the plan validates itself
(`Valid`) and is compiled (`RolePreserving`, `Legacy`). Run `wallet`, part plan
(three budgets, with and without tools, text, file, four memory states, zero to
three turns, three lists of findings): `PlanFits` and `ToldOnce`.

**Proved** (`RequestProofs`), from `PlanAssumption` (a message has text or a file, the
turns come newest first with ids of their own, a search finds single contents with
tokens and scores, and a passage is not named like a turn), for any budget, history,
memory and findings: `PlansFit` (`PlanFits`) and `ContextToldOnce` (`ToldOnce`).
`PlanFits` speaks of the kept plan; what makes it inductive is
`PlanInv`: what was found stays typed through verification, deduplication, merges
and reranking, a kept plan is `Drafted` of the facts and findings the reply still
has, and a plan was refused only because it did not validate. The rest is about
`Drafted`. No two groups share a name, and `Before` orders them strictly, so `Ordered`
lists each once (`RankingIs`). After any number of ranked groups the packer has
what is required and whatever of the rest fit at its turn, and what is left of the
budget is the budget less their tokens (`Greedy`): what it leaves out for the budget
did not fit beside the required groups and those chosen before it. The items of a
plan are the blocks of its groups, each once (`Items`), so that the tokens of the
selected items are those of the chosen groups and no plan is refused but the one
`PlanFits` names. Sums are counted, as sizes of sets of tokens (`Weight`), which is
what lets the provers compare them without an induction over a fold.

For `ToldOnce` the invariant adds that what was found shares nothing (`Sound`): equal
contents lose all but one in `Deduplicated`, a merge joins the contents of two
candidates that are then one (`GrownMore`), and the rest only leaves candidates out or
reorders them (`Parts`). With what `Recalled` leaves out, no two selected blocks of
any groups show the same (`BlocksApart`), and the items of a turn are exactly its texts
and its files (`Tidy`). Either compilation then lays the places of the selected items
out over the messages (`Layout`: system items, turns, the message; or the order of
the plan), each place in one message, evidence in its order and turns from the
oldest; two layouts in a row are one (`LineJoins`). What is sent is therefore the
selected items once each in another order (`Rearranges`), and a citation is right
because counting the evidence up to a place is the same on either side (`SameCount`).

## 9. Who may do what

`Session`: `row` is `user_sessions` of one user on one platform, `cache` the
Redis copies, `pointer` the single-session pointer, `held` the credentials
clients got. A request makes one call to MySQL or Redis per step: `Issue …
DropCaches, PointAndReturn`; `Authenticate … AuthFetch, AuthPointer, AuthLatest,
AuthRepair, AuthEvict, AuthFill`; `Rotate … RotateSwap`; `Logout` and
`AdminRevoke` with `RevokeMark, RevokeDrop, RevokeNext, RevokeMatch,
RevokeClear`. Keys expire (`CopyExpires`, `PointerExpires`) and requests die
(`Crash`) at any time. The platform's policy does not change; token and refresh
expiry, binding to device, address and platform, and disabled users are left
out: they only refuse more. A Redis call that fails is ignored by the code or
ends the request; a request may stall or die at any step instead. Run `access`,
part session (two requests, two sessions, one rotation, limits 1 and 2; ids run
out, hence `CHECK_DEADLOCK FALSE`):

- `SessionLimit`: never more live sessions than allowed.
- `CredentialsStayGood`: a pair handed out stays good until it is exchanged.
- `SettledRevocation`: a session whose copy was deleted while no authentication
  was past its reads is refused for good. Run `session_revoked` shows why the
  condition is needed.
- `NeverLockedOut`: an authentication is refused for a login elsewhere only if
  its session is over, however stale the pointer is.

**Proved** (`AccessProofs`), from `SessionAssumption` alone (any number of requests,
sessions and rotations, any limits): `SessionTypeCorrect`, `LimitIsKept`,
`CredentialsAreGood`, `RevocationSettles`, `NobodyIsLockedOut`. All rest on
`SessionInv`: `IssuedInOrder` and `OneLive` (what a newest id means),
`HeldIsGood` (a pair at a client or in an answer is the row's own or was
exchanged), `SettledIsOver`, and `ReqsSound`, what a request may rely on between
two of its calls: an authentication about to repair the pointer has seen its own
id or a revoked row; one that is past its reads cannot belong to a settled
revocation. `OthersSound` shows that the steps of other requests keep it.

`VerifyCode`: the code's key, the delivery lock, the deliveries and the requests
that present a code, each script and statement a step, leases lapse and answers
are lost. Part code (two deliveries, two codes, two requests, two faults):
`CodeWorksOnce`. *Proved* (`SentCodeWorksOnce`) with the invariant `CodeInv` =
`CodeTypeOK`, `SlotIsFresh` (a pending slot belongs to a delivery that has not
ended), `UnwrittenIsUnknown`, `CodeWorksOnce`.

`Principal`: `user`, `grants`, `version` are MySQL; `gate` and `snaps` Redis. A
change is `StartMutation`, `LoadVersions`, `Begin`, `Commit`, `Publish` or
`Abort`; a request `Authorize`, `LoadSnapshot`, `Store`; `Reconcile` runs at the
start of a process. Part principal (two changes, one reader, two users and roles,
three scenes): `NoStaleHit`: a snapshot a request can hit carries the present
status, role and grants. The scenes leave out what breaks it (section 12): a
change that outlives its gate of 30 s ("slow"), a rolling start, a lost commit
answer ("ambiguous"), and a user who joins a role while its grants change.
*Proved* (`NoRequestHitsStale`) under exactly these conditions (`Calm`), for any
number of users, changes and requests, with `PrincipalInv` = `PrincipalTypeOK`,
`GatesTrue` (a ready gate has the committed version), `SnapsTrue` (a snapshot at
that version is true or not storable any more), `ReadersTrue` (what a reader
carries is true at the version it read), `TokensDiffer`, `SubjectsNamed`,
`ChangesFenced` (between commit and publication every changed user's gate is
closed), `StartsAlone`.

`Permissions`: the forest of directories, pages and buttons, grants, one role per
user. A request checks what it reads and names the users it concerns in one
step, and writes in one transaction after it; nothing ties the two. Part
permission (four nodes, two roles, two users; a crew of one with three requests,
a crew of two with two): `AccessIsGrounded` (a role opens exactly the granted
nodes that stand), `AloneInOrder` (one admin keeps the tables in order),
`ChangeReachesEveryone` (whoever sees a change gets a new version). The last two
are for a crew of one: two break them (section 12). What hangs below a node, what
a walk passes and what stands are least closed sets, as the code's loops compute
them, and the walk of the grants one after another is a recursive function.

**Proved** (`AccessProofs`), from `PermissionAssumption` (a finite tree that has
the ids of the first rows, finitely many requests at a time): the three
properties, for any tree, roles, users and number of requests. The walk:
`SetInduction` (over the subsets of a finite set) shows that `Resolved` exists and
that after the grants P what is included is what P opens; one more grant adds
what is above it if it stands, because what is included already is closed
upwards, and nothing otherwise. `AccessIsGrounded` so holds of any rows at all and
any number of administrators. For a crew of one the invariant is `AloneInv`: the
tables are `Ordered`, at most one request is under way, and what it checked
`StillFits` the tables; without the last no check would say anything about the
transaction. Being reached from the root is stated as an induction principle
(`Rooted`): it survives a move because the new parent is not below the node.
`SameOpen` says that a change inside a set closed downwards changes nothing for
grants outside it, which makes the subjects of a request enough.

## 10. Background work

`CronSchedule`: the table, what each worker's reconciler believes it applied and
what gocron runs, with failing calls, broken rows and restarts. A row is its
version. `SchedulesConverge` (`work_live`): once edits end, every worker runs the
enabled registered rows. `SchedulerFairness`: the reconciler ticks every two
seconds.

`JobLease`: `[owner, token]` in Redis, a renewal that can only cancel a context,
lost answers, host crashes, overlapping firings of a job that was removed and
added again. `OneLiveFiring` (two firings, two hosts, three tokens).

`Notice`: task rows, the queue and the every-minute dispatcher, batches under a
claim that fences the row and not the batches. `NotifiedOnce`,
`NoticeOutcomeStands`; `NoticesEnd` under `NoticeFairness` (dispatcher, queue,
clock and living workers go on). One task, two workers, three faults.

`Export`: pending row, one message, claim, upload under a fixed key, mark, tell.
`ExportToldOnce`. Nothing but the message drives a task; run `export_stuck`
shows what that costs even under `ExportFairness`.

`Realtime`: a sequence taken before the commit, publication after it, retention,
resume by cursor, one registered connection per key, bounded queues; the client
is the cursor that a delivered event moves and what it has seen. Run `reply`
(two events, two connections, queue and limit of one): `DeliveryIsWhole`: an open
connection loses no live event, and a replay without a reload has every event
above its cursor. `CalmRealtime` leaves out a cleanup between two reads of a
resume. Two events show every order of one event against another. Nothing is
promised of an event whose publication failed: `deferred` remembers those, and
run `realtime_deferred` (`DeferredIsResumed`) shows that a later live event moves
the cursor past one, so that no resume asks for it.

**Proved** (`WorkProofs`), for any number of firings, hosts, tasks, workers, faults
and deliveries. *Job lease:* `LeaseTypeCorrect`, `OneFiringAtATime`, with
`LeaseInv`: tokens are below the counter, firings hold different ones, and nobody
frees a lease under a firing that has not lapsed. *Export:* `ExportIsToldOnce`,
with `MarkersAlone` (only the holder of the token can have marked a task) and
`ToldIsKept`. *Notice:* `EveryoneIsNotifiedOnce`, with `CountedIsDelivered` (what a
courier counted in memory is what was delivered up to its cursor) and
`SuccessIsWhole`; from `AudienceAssumption`. `OutcomesOfNoticesStand`
(`NoticeOutcomeStands`) follows from the same invariant: every write of a courier is
fenced by a row that is still sending. *Realtime:* `DeliveriesAreWhole`
(`DeliveryIsWhole`), for any number of events and connections and any queue, from
`RealtimeAssumption` and `NoRace`: no scene lets retention run between the reads of
a resume, for there a gap goes unreported (section 12). `RealtimeInv` says that
only what was committed is owed or asked for, that what was deleted lies below
the watermark, and that a resume past its second read is not behind it; what a
list of messages holds follows from lemmas about the places of a finite set of
sequences (`EveryPlaceIsTaken`, `ListOfFound`).

`FairWorkSpec` asks fairness of the part that moves only; the job lease, realtime
and the chat owe none.

## 11. What is proved and what is only checked

| module | theorems state | from |
|---|---|---|
| `WalletProofs` | `WalletSolvent`, `HoldTotalMatches`, `ReplayValidates`, `ImplementsEscrow`; `HoldsSettleOnce`, which follows | overflow-checked amounts |
| `RedeemProofs` | `RedeemedOnce`; a refinement of `Wallet` | + names of nothing |
| `PaymentProofs` | `SettledTogether`, `OutcomesAreFinal`; a refinement of `Wallet` | + owners of recharges, `BatchAssumption` |
| `ReplyProofs` | `ClosedTogether`, `StopIsFinal`, `NoBlindRepeat`, `SettledForGood` | `ReplyAssumption` |
| `AccessProofs` | `SessionLimit`, `CredentialsStayGood`, `SettledRevocation`, `NeverLockedOut`, `CodeWorksOnce`, `NoStaleHit`, `AccessIsGrounded`, `AloneInOrder`, `ChangeReachesEveryone` | `SessionAssumption`; `Calm` for `NoStaleHit` (section 9); `PermissionAssumption` for the last three |
| `WorkProofs` | `OneLiveFiring`, `ExportToldOnce`, `NotifiedOnce`, `NoticeOutcomeStands`, `DeliveryIsWhole`, `SettledWhole` | `AudienceAssumption`, `RealtimeAssumption`, `NoRace`, `TaskAssumption` |
| `RequestProofs` | `BillFitsHold`, `PlanFits`, `ToldOnce` | `PricingAssumption`, `WholeBooks`; `PlanAssumption` |
| `ContextProofs` | `MemoryIsCurrent`, `PlanStaysTrue`; `SearchableWhenReady`, `RevisionsOnlyAdvance` | `ChatAssumption`, `CalmTalk`; `IndexAssumption`, `CalmIndexing` (section 8) |

The proofs share a shape: an inductive invariant that joins the rows with what
each process carries from an earlier read; a lemma that any step of somebody
else keeps what a process relies on; one lemma per action; and a temporal step.
TLC checked every such invariant on the run's instance before it was proved.

Only checked by TLC: liveness (`EveryReplySettles`, `OrdersSettle`,
`SchedulesConverge`, `NoticesEnd`, `TasksEnd`, `IndexConverges`). The provers have
no rules for ENABLED and fairness over these actions.

## 12. Findings

With a run that shows them (details and quotations in `PROJECT.json`):

| run | what happens |
|---|---|
| `reply_failed` | Claims and provider attempts are counted apart; a claim spent on a local error lets the last refusal end in `failed` with an open charge and an active hold nobody looks for. |
| `session_revoked` | An authentication that read a live row writes its copy to Redis after a logout, a kick or a newer login deleted it. With several sessions allowed, the revoked session is then accepted from the copy until that expires. |
| `export_stuck` | A worker dies in an export and the message comes back while its claim is held: the redelivery counts as done, and no sweep looks at the row again. |
| `closed_paid` | Alipay's "trade not exist" and the clock are two moments: an order paid in between, which then expires, is closed as unpaid by sync or cron. `CloseOrder` too closes an order that was paid after it looked. |
| `realtime_deferred` | An event whose publication failed is left to the next resume, but the next live event moves the cursor past it: it is never delivered. |
| `memory_stale` | A message deleted while its agent has no profile stays in the memory that is used when the profile is put back. |

Met while modelling, without a run of their own. Where an instance leaves
something out, this is why.

Payment and replies:

- Rows the finalizer refuses in every run (a paying and paid order whose recharge
  `payRechargeRow` marked failed) fill the batch of both cron tasks; a paid trade
  behind a whole batch of them is never settled (`docs/architecture.md:1769`).
- A lease lapses during the provider call, and another claim moves the command to
  `outcome_unknown`. The first worker's answer, a tool call or a retryable
  failure, is then recorded, the finalizer never decides, and the reconciler
  stops there in every pass (`gateway.go:483`, `reconciler.go:99`).
- Syncing a recharge of an expired order whose trade Alipay does not know closes
  both rows and then answers an internal error of its own making, because the
  recharge is closed twice.
- The cleanup deletes chunks of an unknown outcome before the settlement that
  reads them.
- A tool continuation overflow is stored under a code the finalizer does not read
  back; the command is retried for ever.
- A conversation is deleted while its command is `outcome_unknown` with
  delivered chunks: the settlement conflicts for ever.
- `RecordOutcome` fails in the database, the attempt stays dispatched under a
  pending command, and the user cancels: every claim is forced to finalize and
  deferred for ever.
- A failure before dispatch with an earlier dispatched attempt:
  `ErrFinalizationPending` for ever.
- A cancel between the last `Renew` and `Finish` of a worker, with exhausted
  claims and an insufficient wallet after a crash, ends in `failed` unsettled.
- `createReply` does not reject an active command: two replies of one
  conversation may run at once.

Sessions, authorization, permissions:

- `Rotate` trusts a non-empty pointer without asking MySQL
  (`session_lifecycle.go:482`): after a late repair, or after the pointer expired
  and a late login set it, the refresh of the only live session is refused as
  logged in elsewhere (`docs/contracts/admin-browser-auth-contract.md`: login
  and refresh use "the existing MySQL session truth").
- `mutateRoleUsers` reads the users of a role before and outside the
  transaction: a user who joins meanwhile keeps a stale snapshot. `Reconcile` of
  a rolling start lowers a ready version just published. A commit whose answer
  is lost is aborted and reopens the old version. A change slower than 30 s
  loses its gate, and `Publish` is all or nothing with a stolen gate.
- Two administrators at once may create a cycle by two moves, leave no default
  role, leave users on a deleted role, sync grants to a deleted role, or wipe the
  grants of a button both restore. One alone may drop a grant by editing a role
  while the permission is disabled; moving a button gives its roles the new page.

Background work:

- A `cron_task_log` row stays "running" when `LogEnd` uses the cancelled context
  (`scheduler_service.go:57,61`).
- A stale upload overwrites the file of its successor under the fixed object
  key; a `MarkSuccess` whose answer is lost never notifies.
- Realtime: retention between the two reads of a resume leaves a gap that is not
  reported; so does an event that commits after a later sequence was read.
- Tasks: two workers hold one text task; the second, which fails before it sees
  the first one's attempt, marks the task failed, and the answer the first one
  gets is discarded (`ai_billing_text.go:218`). A prepared attempt behind a recorded failure is sent and its success
  discarded; a text that runs out of money races its top-up and pays for a
  discarded answer; a lost `Record` answer followed by a failed look at the
  attempt discards a result.
- `Pricing`: the loop between cap and request length may oscillate at a power of
  ten (`errPaidChatOutputBoundNotConverged`).

Context index:

- One unanswered verification fails a whole profile
  (`docs/runbooks/ai-context-index-rebuild.md` says only a missing or corrupt
  collection or promised point does).
- Two rebuild deliveries on one target delete the active collection, because a
  failure deletes the target unconditionally (the runbook: "A healthy target
  failure deletes the target and returns to the old Active Generation").
- Generation numbers are reused after a failed rebuild from ready, so an ordered
  cleanup of a leaked target can hit a new rebuild.
- An activation between the snapshot comparison and the last compare-and-set, or a
  document disabled during a rebuild and enabled later, leaves a promised point
  missing; the profile fails for good.
- An outage that uses up a version's deliveries archives its message under its
  fixed id; later enqueues count as duplicates and the version stays queued
  (`docs/architecture.md:1845`). Deleted documents do the same and fill the head of
  `ListReconcileCandidates`.
- The error of `EnqueueProfileRebuild` at creation is ignored; a rebuild that dies
  on its last delivery before the alias switch leaves the profile provisioning or
  rebuilding; a rebuild the reconciler finishes first starts once more; one that
  finishes in the middle of an indexing fails the version for good
  (`ErrIndexGenerationUnavailable`).

Conversations and plans:

- Points of hidden turns are never cleaned up by a reconciler although the log
  says so (`history_invalidation.go:216`); `resolve()` drops
  `CandidateVerification.Cleanup`; nobody enqueues the cleanup of a retired
  collection; an upsert that races its cleanup leaves the point for good.
- Deleting a failed message below a memory's boundary invalidates the memory, and
  the identical payload then finds its row terminal: no memory until a new turn
  changes the prefix. A failed row or an archived payload does the same.
- A build whose agent was unbound pays the provider on every retry and leaves no
  row. The reconciler embeds every complete turn again in each pass. With a
  retired profile edits are refused. Recalled turns are found only when a ready
  document exists.
- Required facts above the budget in a message with an attachment fail
  `plan.Validate` (`ErrInvalidBudget`), so no failed plan is kept and the user
  gets a generic failure (`docs/architecture.md:90`; the planner's tests have no
  attachment).
- The packer discards the order of the reranker. A degraded plan drops a recent
  turn with an attachment of the first page while older ones stay. A memory left
  out for the budget leaves the turns it covers unseen, and a large newest turn
  leaves a gap. The legacy compilation puts the user message before the system
  messages of tools, evidence and memory. The text around the evidence is not
  counted. An attachment that is gone on a later page fails the reply without a
  code.

Mail and AI catalogue, which are not modelled:

- The rekey of mail diagnostics has no caller in this commit, and
  `docs/runbooks/session-secret-rotation.md` has no step for it, though its design
  makes zero references a precondition of removing `APP_SECRET_PREVIOUS`; one
  undecipherable row fails a whole page of logs. `ChangeTemplateStatus` and
  `SaveConfig` write back fields they read earlier.
- Provider `Create` and `Update` commit the row before the models' transaction;
  `providerModelReferenced` locks nothing, so a model may be referenced right
  after the check.

## 13. Not modelled, and what is left

By choice: request validation, formatting, routing, lists and statistics,
provider protocols, cryptography, configuration and process start, contract
generation, logs. Not yet: browser grants (a ticket consumed once), the AI
catalogue (providers, official models, agents, tools), uploads and stored files,
the mail rekey, the ingestion of documents (parsing and chunking), the legacy
unpaid replies. `PROJECT.json` gives the reason per component.

What the passing runs check as invariants or action properties is proved; liveness
stays with TLC (section 11).

## Running

    tlc -config MCReply.cfg MCReply      # likewise for the other *.cfg
    tlapm WalletProofs.tla               # likewise for the other *Proofs.tla
