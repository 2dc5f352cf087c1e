# A TLA+ specification of eth-amm-sim

eth-amm-sim is a trading simulator: a Go backend runs bots against a
constant-product AMM contract on a local Anvil chain, a session decides when
they trade, and a browser shows the result. These modules specify the parts
whose correctness depends on order, on concurrency or on rounding, check them
with TLC on small instances and prove the main safety properties with TLAPS
for every instance.

Paths below are relative to `src/`; `engine/`, `server/`, `metrics/`, `store/`,
`chain/` and `bots/` stand for `backend/internal/...`.

## 1. The system

| Part | State it keeps | Operations | Interacts with |
|---|---|---|---|
| Session (`engine/session.go`) | status, duration, elapsed, `startedAt`, cancel function, `stopMode`, under `s.mu` | Start, Stop, Pause, Resume, Reset, SetDuration; a goroutine `run` per accepted Start or Resume | starts and joins the bots through the orchestrator; calls the session-ended hook |
| Orchestrator (`engine/orchestrator.go`) | `isRunning`, errgroup, cancel function, under `o.mu` | Start, Stop | one goroutine per bot, panics recovered |
| Handlers (`server/handlers.go`) | none of their own | session start/stop/pause/resume/reset, trades, balances; each a series of locked calls and RPCs | session, executor, metrics, store |
| Finalization (`server/server.go`) | `sessionFinalized` | the hook: win the guard, fetch the spot price, finalize the accounts | called by `run`, cleared by handlers |
| Account metrics (`metrics/account.go`) | per account: trades, started, ended, balances, equity | RecordTrade, Reset, ResetForSession, FinalizeSession | trade callbacks, handlers, hook |
| Executor (`engine/executor.go`) and nonces (`chain/nonce.go`) | nonce per address under `nm.mu`; a semaphore of callback slots | swaps, approvals, balance resets, chain reset | the node; callbacks into store and hub |
| AppleAMM (`contracts/src/AppleAMM.sol`) | reserves, LP shares, collected fees | addLiquidity, removeLiquidity, two swaps, `receive` | the ERC-20 token |
| WebSocket hub (`server/server.go`, `broadcast.go`) | clients, bounded queue, closed flag | register, Broadcast, writer loop, Stop | every part announces through it |
| Rate limiter (`server/security.go`) | two windows per address | allow, cleanup | wraps every handler |
| Store, candles, LP, impact, trade flow, EWMA (`store/`, `metrics/`) | ring buffers and floating-point statistics, a lock each | record, read, reset | trade callbacks, price poll |
| Bots (`bots/`) | timers; mean reversion keeps traded levels and EWMA | Run until the context ends | executor, trade flow |
| Wiring (`backend/cmd/simulator/main.go`) | none | trade callback, price poll, shutdown | all |
| Configuration, chain client, generated bindings, scripts, frontend | constants, pass-through, display | | |

### What is hard here, and what correctness means

* **Session.** The status is checked, not the goroutine: `Start` may come while
  an earlier `run` is still joining bots or inside its hook. One run at a time;
  no bot outside a running session; a live run can always be cancelled; the hook
  at most once per session; every run ends.
* **Handlers and finalization.** A handler is several critical sections with
  RPCs in between, the hook waits up to ten seconds without a lock, and trade
  callbacks are goroutines of their own. A hook finalizes its own session's
  books, and they hold only its trades, unless something that can be named came
  between; closed books wait for one trade at most; every request is answered.
* **Executor.** Calls on one account pass each other between taking a nonce and
  sending; sends fail, answers get lost, the chain is reset under the cache. No
  nonce collides; the node waits only for nonces somebody accounts for; a sell
  follows its approval; callback slots are bounded and given back.
* **AMM.** Integer division everywhere. Shares add up, reserves are covered,
  rounding never takes from those who stay, fees stay, no round trip pays.
* **Hub.** Sessions, the poll and the shutdown announce at the same time; the
  queue drops, a client may register late, a write may fail. A client that shows
  an old state has missed the new one for a reason that can be named; a
  connection whose peer left, or that a broadcast failed on, leaves nothing
  behind; a shutdown ends.
* **Rate limiter.** Requests are stamped before they queue for the mutex, and the
  map is swept under the same mutex. The sweep is never noticed, the map does not
  grow, and no budget is spent more than twice around an edge.
* **Bots.** A level is used up when it is signalled, not when it is traded;
  counters are set back after a call returns; cancellation races with timers. A
  bot trades at its pace, counted from its last answered swap, once per
  excursion, and at most once after the end.
* **Account books.** One trade, one loop over the books and several finalizations
  interleave. PnL splits into trades and position, a drawdown is from its own
  peak, and all books are of one session.
* **Market data.** The poll, the callbacks and a reset touch prices and events
  under two locks, looking at the session in between. Candles are of the prices
  since the last reset, no large move escapes, and a reset leaves almost nothing
  behind.

`PROJECT.json` lists each hazard with its line and the properties that cover it.

## 2. Modules

    SessionLifecycle          what a client of the session may rely on
          ^ implemented by
    Session                               session.go over orchestrator.go
          ^ extended by
    SessionServer <- SessionProof         handlers, hook, guard, books
    Executor <- ExecutorProof             nonces, approvals, callbacks, node
    AppleAMM <- AppleAMMProof             the contract
    Hub      <- HubProof                  registry, queue, writer, shutdown
    Traders  <- TradersProof              bots over the trade flow
    Accounts <- AccountsProof             books, trades, openings, closings
    MarketData <- MarketDataProof         prices, candles, key events, reset
    FixedWindow               what the rate limiter promises
          ^ implemented by
    RateLimiter <- RateLimiterProof       windows, counting, cleanup

`MC*` modules give the constants model values for TLC. A `*Proof` module holds
the theorems about the module it points at; SessionProof has those of Session
and those of SessionServer.
An operator introduced as a *mutant* is not part of a specification: it is a
plausible bug of the operator that follows it, and each property is known to
fail when the two are exchanged.

### Session and SessionLifecycle

A step is one critical section of `s.mu` or `o.mu`, or one return from a
blocking call. Each accepted `Start` or `Resume` is a *run* `r`; `pc[r]` follows
`run`: `start` and `waitPrev` (orchestrator.Start, and its wait for an earlier
errgroup), `restop` (the nested Stop when the orchestrator was left running),
`wait` (the context), `stopWait` (joining the bots), `finish` (the critical
section that settles the status), `hook`, `done`. `ctx[r]` is the run's context,
`alive[r]` the bots of its group still inside `Run`, `cancel` the run whose
context `s.cancel` cancels, `held` the group `Reset` joins while holding `s.mu`.
A rejected call changes nothing and is no step. Time is abstract: the timer of a
run with time left may fire at any moment, and the elapsed time read is any
value up to the budget. Launching the bots is one step with the end of
`orchestrator.Start`; `endedAt` and the announcements of `emitState` are left out.

SessionLifecycle has just the status and where the bots are (down, up, joined).
The refinement mapping reads the bots' phase off `pc` and `alive`.

### SessionServer

Extends Session with the handlers step by step (`hpc`), the guard `finalized`,
the hook in two steps (win the guard in `HookWins`, finalize in
`HookFinalizes`), and the books of one account (`opened`, `ended`, `book`,
`priced`): the manager treats all accounts alike under one lock. A trade's
callback looks (`IsSessionActive`) and records in two steps, as the code takes
the lock twice; the store's mutex keeps callbacks apart, but not from the hook
and the handlers. Books that a hard reset cleared while the hook waited are not
finalized. Balances, equity and PnL are left out: a trade is in the books or
not and has its closing price or not. Clients call whenever they like. Four
history variables serve the properties: `finals` counts the finalizations that
took place in each session, `sentIn` is the session of a bot's trade, `late` the
trades whose callback was pending at the last reset of the books, and
`disturbed` the sessions during which, or before which, a start or hard reset
was in flight together with a run, another start or another hard reset.

### Executor

One account and the concurrent calls that sign with its key. `pc[c]` follows
`SwapApplesForETH`: `allowance` (getAllowance), `approval`/`approve` (the
approval's nonce, then its send), `nonce`/`send` (the swap's), `emit`. A buy or a
balance reset starts at `nonce`. `known` and `next` are the cache entry. A send
reaches the node, is refused, is lost on the way, or reaches it and loses the
answer. The node is external, modelled from how it is used: it holds
transactions by nonce, mines the next, and `PendingNonceAt` is the first nonce
it has nothing for. `ResetChain`, `ClearCache` and `RedeployFails` are the steps
of `reseedChainAndRedeploy`. Amounts, prices and gas are left out.

### AppleAMM

A transaction is a step; one that reverts is none. Division, the order of the
divisions, the `require`s and the checked word are those of the contract; the
word, the fee and the supply are parameters. The square root is a recursive
function: `guess` is one turn of the contract's loop, and `loop` goes on while the
guesses fall. Allowances and events are left out.

### Hub

A message is the version of the session state it carries, 0 for market data;
the session is a counter, odd while it runs. Each transition has an announcer,
the goroutine `emitState` starts, and the poll is one more: it reads the flag,
then the registry, then sends without blocking (`apc`). The writer receives,
copies the registry, writes to each and purges (`wpc`). A connection is upgraded,
gets its snapshot, is registered and read from (`cpc`). The reader has no
deadline: it ends when its peer has left (`gone`) or the connection was closed
(`shut`). A snapshot whose writes time out (`writeErr`) makes every later write
to that connection fail, but it is registered and read from all the same, until
a broadcast meets it; a peer that goes silent stays likewise. The shutdown
(`spc`) is main's sequence with `Server.Stop` in the middle. `missed` remembers
per peer the newest state that passed it by. A write is one step: its deadline
is why it ends. The throttle of account updates only makes market data rarer.

### RateLimiter and FixedWindow

Time is a discrete clock. A request is stamped (`Arrive`) and counted later
(`Allow`) in any order, at most `Delay` ticks apart. An address that is not a key
of the map has unset fields. `passed` remembers of each admitted request when it was
stamped and the end of the window it was counted in. FixedWindow has the windows
only and forgets none; the refinement mapping reads a window no pending request
can fall into as none.

### Traders

`pc[b]` follows the `Run` of a noise or a mean-reversion bot between sleeps,
calls and locks: the loop's top, the wait, the signal, the swap, and the resets
after it. A swap may fail before it is sent, or be sent and lose its answer
(`SwapLost`): then nothing is emitted and the counter is not set back. A noise
bot whose sell fails panics on the empty hash and leaves `Run` (`AfterError`). A
z-score is its sign and how many trigger levels it reaches, and any value after
an observation, so that no property rests on the averages. The flow tracker
records one trade at a time and starts a goroutine per subscriber while slots
are free; notifications arrive in any order and over the end of sessions.

### Accounts

`book[a]` is an `AccountMetrics` with the sums of its trades instead of their
list; `Record`, `Open`, `Wipe` and `Close` are its methods. A trade finds its
book, checks it and writes to it in three steps; the manager's loops visit one
book per step under its mutex, in any order, as a Go map is ranged over. Amounts
and prices are integers, a price of 0 that of a failed call, an amount received
of 0 that of a trade whose reserves could not be read. `Close` revalues only
trades of some APPL, as the code does: the others keep the PnL they were
recorded with. Beside their cost that is what the price had moved before them,
summed as `drift`; `skipped` is the drift at the closing. Two closings may be
under way, as hooks of two runs can be.

### MarketData

One tick of the poll is four steps: read and record the price, look at the
session, look again if the price moved, log the event. A trade callback, a start
or a resume that logs an event looks and logs in two. A reset is the session's,
then the prices', then the events', the last two under the store's lock, which
keeps others from logging but not the poll from recording a price. The slot of a
price and the moves of the session are free. Of an event who logged it and in
which era (after how many resets) it was decided on are kept.

## 3. Runs

| Run | Instance | What it asks |
|---|---|---|
| session | 3 runs, one bot, two durations, every client call in any order | SingleRun, LiveRunCancellable, HookAfterOwnBots, HookAtMostOnce, RunsEnd, and that Session implements SessionLifecycle |
| session_hook_panics | the same with a hook that may panic, one duration | runs may overlap then: still every run ends (RunsEnd) |
| server | 2 runs, one request at a time, a bot's trade and a user's | LostFinalExplained, StrayTradesExplained, OneUnpriced, and EverythingEnds: requests, callbacks and runs |
| finalized_once | the same without trades | that a completed session is finalized exactly once (FinalizedExactlyOnce): violated, see section 6 |
| amm_pool | two callers, supply 5, word 40, fee 1/4 | SharesAddUp, Solvent, PoolAlive, NoRoundTripPays, ShareValueNeverFalls, FeesStayInPool, FirstDepositIsRoot |
| executor | two calls of any kinds, one callback slot, two failures, one chain reset | NoCollision, GapsExplained, SellsApproved, TradesLand, CallsReturn |
| hub | one connection, a queue of one, two transitions | StaleExplained, ShutdownEnds, BrokenLeave |
| limiter | two addresses, four requests, two at once, window 3, TTL 5, limits 2 and 1 | AtMostTwoLimits, MemoryBounded, and that RateLimiter implements FixedWindow |
| traders | a noise and a mean-reversion bot, fast or slow, two levels, two sessions, five swaps, one slot | OneLateTrade, PacedTrades, OncePerExcursion, BotsReturn |
| accounts | two books, two trades each, three prices, two closings | PnLSplits, DrawdownFromPeak, OneSession, VolatilityOfTheEnded |
| market | four prices, two slots, three ticks between resets, two resets, one callback, two events kept | CandlesSummarize, NoSilentDrift, FewStaleEvents |
| send_after_close | hub with one transition | that Broadcast never sends on the closed channel (NoSendAfterClose): violated, see section 6 |

**Why the bounds are enough.** Three runs let a session be paused and resumed
and a second session start over the end of the first; two settle every pair of
overlapping runs. A group of bots is only ever asked whether it is empty, so one
bot stands for all. Two handlers' worth of interleaving is had from one request
against runs, hooks and callbacks (two requests in flight were checked for the
invariants alone, ten million states, and the theorems hold for any number);
`Room` keeps a request from arriving when no
run would be left to spawn. Two calls on an account already give every order of
nonces against sends, with an approval three nonces; one slot is filled by one
callback. In the pool a word of 40 makes additions and products overflow, amounts up to 5 with
a fee of 1/4 hit every rounding, and two accounts let rounding move value from
one to the other. In the
hub connections meet only in the registry, so one and everybody's queue are
enough to be stale, and two transitions to be overtaken. The limiter's clock runs over more than
two TTLs, so that a cleanup meets every phase of a window. Two trigger levels can
be reached one by one or at once; two trades a session allow a signal, a failure
and a second signal. Two books can be in different sessions. The four prices hold
a small step, a large one, two small ones that add up to a large one, and 0. What
the bounds cannot show the proofs do, for all values.

Runs that disable the deadlock check are of systems that may stop: the pool once
all money has been donated, the calls of an account when both have returned, the
hub when the program has exited, the limiter when its clock has run out, the bots
after the last session.

**Fairness.** Goroutines run on, timers fire, a bot returns once its context is
done, a request in flight is served, an RPC answers (the code gives each a
timeout), the node mines what it can. Weak fairness each time: no lock is
contended for ever, since every holder releases it in the same step or, for
`Reset`, after a join that is itself fair. Nothing obliges clients to call,
sends to fail, hooks to panic or the chain to be reset. In the hub the poll's
leaving of its loop is strongly fair: each tick's `select` may choose the other
case, but not for ever. Properties without liveness are checked without fairness.

## 4. Proofs

Every type invariant, safety invariant, action property and refinement that a
run above checks and finds to hold is also a theorem, for every value of the
constants that the named assumptions allow.

`SessionProof`, for every number of runs and set of bots. When the hook does not
panic: TypeOK, SingleRun, BotsOnlyWhileRunning, LiveRunCancellable,
HookAfterOwnBots, OnlyRunsEndRunning, HookAtMostOnce, and that every step of
Session is a step or a stutter of SessionLifecycle. None is inductive by itself.
The invariant adds *Ownership* (the orchestrator is running exactly for the one
run that waits, `eg` is its group, `cancel` its context, only its bots are
alive) and *Numbering* (runs are spawned in order). HookAtMostOnce needs one
more: a session with a hook called, or about to be, has no unsettled run and is
not resumable.

Over the handlers: every step of SessionServer is a step of Session or leaves it
alone, so all of the above holds there (ServerRunsSession). STypeOK,
LostFinalExplained, StrayTradesExplained and OneUnpriced hold with any number of
handlers and trades and whatever clients do. The invariant speaks of the current
session as long as nothing has overlapped it: every overlap is noted in the step
that makes it (*OverlapNoted*); a hook of an earlier session is under way only
if both are noted (*HooksNoted*); a start in flight has cleared the guard and
opened the books, with late trades in them at most (*StartReady*); and from
there to its hook the session finds the guard clear and its books open
(*SessionReady*), which is what makes the hook win and finalize. OneUnpriced
rests on the store's mutex: one callback at a time is between its look and its
record (*UnpricedInv*).

`AppleAMMProof`: types, Solvent, PoolAlive, ShareValueNeverFalls, FeesStayInPool,
NoRoundTripPays, SharesAddUp and FirstDepositIsRoot, for any supply, word, fee
below one and finite set of accounts, from `PoolAssumption`. Lemmas bound each
rounding (`DivFloor`, `SwapOutput`, `WithdrawalOutput`, `MintPart`, `FeePart`);
the invariant says that balances are in range, the reserves are covered and the
pool is empty in all three ways or in none. No round trip pays: a purchase is
paid at no better than the price it moves the pool to, at which the sale then
starts (`TripReturn`), and a deposit mints no more than its share of either
reserve (`SharesReturn`).
SharesAddUp rests on what the sum over the accounts does when one balance
changes (`SumChange`), FirstDepositIsRoot on the contract's square root being
exact for every product (`Root`): the guesses fall, stay at or above the root,
and the first that does not fall is the root rounded down. Both are inductions
over data. As the library's induction theorems cannot be instantiated, they take
a smallest counterexample (`MinimalSubset`, `LeastNatural`, from the library's
facts on well-founded relations) and refute it.

`ExecutorProof`: types and slots, NoCollision, GapsExplained and SellsApproved,
for any number of calls, failures and resets. The invariant says that the cached
nonce is above all that were handed out (NextIsFresh), that nothing was sent
before the cache was filled, that a clean reset leaves an empty chain until the
cache is cleared, and that each sell past its allowance check has an
approval mined or queued below its own nonce (SellsFollowApproval). The history
variable `clean` names the condition all three need: no chain reset failed
or met a call under way.

`HubProof`: types, StaleExplained, and that no connection has two writers
(NoConcurrentWrites), whether or not snapshots fail, for any connections, queue and transitions. The invariant
says where the newest state is on its way to each connected peer (*Covered*): with
its announcer, in the queue, in the writer's hand, or lost on a failed write; and
that nothing is ahead of the session.

`RateLimiterProof`: types, MemoryBounded, AtMostTwoLimits and the refinement of
FixedWindow, for any addresses, limits, window and waits, when the TTL is at
least the window and twice the wait. The invariant relates each window to when
its address was last seen (*WindowsSeen*): a delayed request may take that back,
by no more than the wait. For AtMostTwoLimits each admitted request is kept with
its window: a budget's windows are a window apart (*Apart*), the current one is
the last (*Behind*), and its count covers all it admitted and one more than those
after its first (*Counted*), so that no window admits more than its limit
(*Full*). Requests less than a window apart then fall into two windows at most,
and not both were opened by one of them: fewer than two limits.

`TradersProof`: types, OneLateTrade, PacedTrades and OncePerExcursion, for any
bots, levels and slots. The invariant says that a bot's counter is not ahead of
what it observed since its last answered swap (*Paced*), that signalled levels stay marked while z is on
their side, though they are cleared by another variable (*Marked*), and that a
late swap sends the bot back to the loop's top (*Late*).

`AccountsProof`: types and all four properties of `accounts`, for any books,
amounts and prices, 0 among them. Each book keeps its promise under every method (*GoodBook*),
so the order of trades and manager does not matter to it; the visited books of a
loop are alike, and so are the others (*SameSession*).

`MarketDataProof`: types, CandlesSummarize, NoSilentDrift and FewStaleEvents, for
any prices, thresholds, retention and resets. Prices are in the order of their
slots (*TicksInOrder*), which makes the last candle the only one a price can
still change; then the candles keep telling, slot by slot, the first, the last,
the highest and the lowest of their prices (`Summary`), none missing
(`SlotsSame`). For the events: between resets each of those who log has at most
one event of an earlier era, and one who has it is not about to log another
(*OneLook*). While a reset is half-way nothing is claimed.

**Model-checked only.** Liveness: RunsEnd, EverythingEnds, TradesLand, CallsReturn, ShutdownEnds, BrokenLeave, BotsReturn, and the fairness
part of the refinement of SessionLifecycle. Fairness is about when an action is
ENABLED, which the provers cannot reason about. The theorems on sessions assume
that the hook does not panic, since without that they are false (section 6).

## 5. Not modelled

* The formulas over floating-point data: Sharpe ratios and win rates, the EWMA's
  arithmetic, LP value and the impact curve, TWAP. Their risk is numeric, not in
  an order of steps; their inputs are single locked assignments.
* The list of trades, kept like the list of events; readers, which copy.
* Authentication and origins: comparisons of a header with a setting.
* The chain client, account keys and configuration: pass-through and constants.
  The node is external to Executor.
* The amounts of emitted trades. They are computed from reserves read before the
  send, so that they are another state's when trades interleave; Executor has no
  amounts, and what is paid AppleAMM decides when the transaction is mined.
* Bindings (generated), deployment scripts (run once) and the frontend (display).
* Account-normalization and balance handlers beyond the transactions they send.

## 6. Where comments and code disagree

* `send_after_close` (a run): `server/server.go:242` says that Broadcast checks
  whether the channel is closed before it sends. It does, but `Stop` may set the
  flag and close the channel between the check and the send
  (`server/server.go:231-232`, `243`, `256-257`). The poll then panics in an
  errgroup goroutine without recover, and the program ends with a crash.
* `finalized_once` (a run): `server/server.go:63-64` says that the guard ensures
  that the accounts are finalized "exactly once per session", and lines 386-388
  "once per completed session". `handleSessionStart` clears the guard
  (`server/handlers.go:63`), makes its RPC calls and starts the session at line
  124. If the session before completes, or only reaches its hook, in between, it
  sets the guard again, and the new session's hook returns at once
  (`server/server.go:390`): its accounts are never finalized.

Seen while modelling, without a run of their own:

* The hook is for "bot teardown finishes before session accounting closes"
  (`engine/session.go:101-102`). A hook that panics after the next session has
  started sets the status to error under the live run (`engine/session.go:199`), so
  that a start is accepted and a third run goes beside the second. Its nested Stop
  takes the orchestrator's flag away and joins the bots; the second run's own Stop
  then returns at once (`engine/orchestrator.go:98-101`) and its hook is called with
  its bots inside `Run`: TLC finds HookAfterOwnBots violated when it is added to
  `session_hook_panics`. With a fourth run HookAtMostOnce fails too: a pause that
  the second run takes makes the third's session resumable while the third is still
  live, and the third and the resumed run both complete it.
* A hard reset while the hook waits for its price leaves it nothing to finalize
  (`metrics/account.go:461`); a start meanwhile has it finalize the next
  session's books. A session that a resume completes is never finalized.
* A refused resume, among others, leaves the accounts recording with no session
  (`server/handlers.go:189`, `store/memory.go:200`).
* A Pause between Stop and the end of its run turns the stop into a pause
  (`engine/session.go:327`); a resume with no time left completes the session
  without its hook (`engine/session.go:346-349`); the status is completed before
  the hook has run (`engine/session.go:237`).
* Later deposits need not keep the pool's ratio (`AppleAMM.sol:123-125`, `139`).
* After a failed send the account's later trades are emitted and never mined
  (`engine/executor.go:233`).
* A callback delayed past finalization records a trade without closing price, and
  one that outlives its session enters the next one's books.
* "Minimum of 3 trades" (`bots/meanrev.go:209`) is 25 as configured; a level is
  marked traded although its trade failed (`bots/meanrev.go:285-287`); the branch
  for half-lives up to 30 is dead with the shipped configuration.
* "Recalculate PnL for all trades using closing price" (`metrics/account.go:471`)
  leaves out trades of 0 APPL, which buys whose reserves could not be read are
  recorded as (`engine/executor.go:213-228`, `store/memory.go:213-223`).
* A swap whose answer is lost does not set the counter back
  (`bots/meanrev.go:358-361`): the next level may be traded at once. A noise bot's
  failed sell leaves the outer error nil (`bots/retail.go:140`,
  `bots/whale.go:119`) and the bot panics on the empty hash.
* A peer that went silent, or whose snapshot timed out, stays registered until a
  broadcast to it fails (`server/broadcast.go:74`, `121-124`).
* Drawdowns after finalization are recomputed from the final peak
  (`metrics/account.go`), a failed price call opens or closes books at price 0,
  and `ResetForSession` ignores the balances it is passed.
* `metrics/ewma.go:73` speaks of the old mean, the code uses the updated one; the
  trade count goes up once per subscriber (`metrics/trade_flow.go:169`).
* Between sessions the poll's baseline follows the price only when a tick
  succeeds: a reset and restart between two such ticks reports the drop to 1.00,
  which `cmd/simulator/main.go:481-482` means to prevent. A baseline of 0 (a pool
  without apples) is kept until the session ends, and nothing is reported.
* Candles are not reset at a session's start, though `store/memory.go:354-355`
  speaks of those "observed during the session"; during a reseed the poll records
  the old pool's prices after the store was reset.
