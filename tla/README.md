# A verification project for xamarinbot

xamarinbot trades (on paper) a venue's five-minute up/down markets. It records
the venue's streams, replays recorded rounds, decides at fixed points of a round
whether to buy one of the two sides, and promises that no combination of fills
takes its settlement margin below a floor. From the rounds it recorded it then
selects those fit to train a model on. This directory holds TLA+ modules
for the parts of it where order, concurrency and failure decide whether such
promises hold, TLC configurations that check them, and TLAPS proofs about the
risk gate, the trading session, the recorder, the capture, the CLOB stream and
the replay.
Paths below are relative to `src/src/xamarinbot/` unless they start with
`docs/`, which is `src/docs/`.

## 1. The system

### Components, state, operations

| Component | Code | State | Operations |
|---|---|---|---|
| Portfolio and risk view | `portfolio/` | shares U and D, money spent C; the active orders as exposures | `apply_fill`, `worst_case_g`, `RiskView.admits`, `evaluate_constraints` |
| Taker execution | `execution/taker.py`, `simulator.py`, `order_state.py` | an order's life cycle, the queue of delayed takers | `walk_depth`, `try_submit`, `resolve_ready`, `reconcile_fill`, `cancel`, `replace_order` |
| Trading session | `execution/session.py` | portfolio, pending takers, resting makers, order sequence | `resolve_ready_takers`, `review_open_orders`, `_expire_maker`, `dispatch` |
| Order supervisor | `supervisor/` | last action time per resting order | `review_order`, `apply_cancel`, `apply_replace` |
| Replay shadow runner | `shadow/runner.py` | the decision loop over one recorded round | `run` |
| Live shadow service | `shadow/live.py` | a session per round, fired decision points, inbox | `_on_tick`, `_decide`, `_on_finalized`, `_on_resolved` |
| Raw recorder and store | `realtime/recorder.py`, `raw_store.py`, `raw_events.py` | bounded queue, dedupe window, `_drained` and `_stop`, counters | `submit`, `_run`, `_persist`, `flush`, `stop` |
| Recorder service, life cycle | `realtime/service.py`, `lifecycle.py` | rounds with their state, rounds and results tables | `run`, `_tick_round`, `_finalize`, `_force_finalize`, `resolve_pending` |
| Shadow journal | `shadow/journal.py` | append-only records | `write_settlement`, `write_final_resolution` |
| Event store and replay | `events/`, `replay/feeds.py` | rows with a sequence; cursor; cached book | `append`, `all_events`, `advance_to`, `get_snapshot` |
| Discovery | `realtime/discovery.py` | none | `discover`, `discover_round`, `build_metadata` |
| CLOB stream | `realtime/clob_ws.py` | socket, subscriptions, a book per token, the open outage | connect, resubscribe, bootstrap, `add_tokens`, `check_integrity` |
| Reference stream | `realtime/rtds.py` | socket, an outage tracker per series | subscribe, watch, reconnect |
| Attribution, eligibility | `realtime/attribution.py`, `continuity.py`, `preflight.py`, `eligibility.py` | control records; verdicts | attribute, audit, judge |
| Labels | `realtime/label.py` | observations, label events, result rows | reconstruct, compare, resolve |
| Projection, dataset | `replay/projection.py`, `features/engine.py`, `model/real_dataset.py`, `gate_a.py` | none | `project_round`, `compute`, build examples, split |
| Counterfactual quotes | `realtime/counterfactual.py` | paper quotes | none in use |
| Controllers and numerics | `optimizer/`, `mpc/`, `features/`, `regime/`, `model/` | none that outlives a decision | `decide`, ... |
| Evaluation | `walkforward/`, `baseline/`, `reports/` | none | offline |

### How they interact

One process. The reader threads of the streams call `RawRecorder.submit`; a
writer thread persists; the main thread runs `RealRecorderService.run`, which
once per pass ticks every round's life cycle and then calls the hooks of the
live shadow service. A decision goes features -> controller -> `dispatch` ->
`RiskView.admits` -> queue or `walk_depth` -> `apply_fill`. The replay runner
drives the same session with a `ReplayCursor` over the event store. Offline,
preflight reads the raw store and judges each round; rounds that pass are
projected to normalized events, from which the dataset is built.

### What is hard, and what makes each component correct

* **Risk**: orders fill in any subset and in part, arrive while others wait and
  are replaced. Correct: each subset of fills respects the floor, and caps
  count what is reserved.
* **Session and supervisor**: a taker matches later than it was submitted; a
  replacement is a cancel and an order; a rate limiter stands beside safety
  cancels. Correct: tables match order states, fills are credited once, an
  unsafe view leaves nothing resting that could be seen.
* **Recorder**: `submit`, the writer and `flush` share a queue and an event
  object without a lock over both. Correct: every event is stored, on its way or
  counted, also when a transaction raises; the writer serves; a flush that says yes means it.
* **Capture**: clock jumps, late outcomes, failing hooks, Ctrl-C between any two
  writes. Correct: every round gets its decisions, its result and its outcome,
  in this order, and the capture ends.
* **Streams**: a reader thread, REST calls of another thread, sockets that
  break or fall silent, tokens added at any time. Correct: a book that may be
  quoted misses nothing, what was lost lies in a published outage, no token is
  forgotten.
* **Audit and dataset**: outages over several rounds, failures nobody can place,
  outcomes after the fact, two pieces of code that read the same series.
  Correct: a round is accepted exactly if its own window is whole, and an
  example has the venue's outcome and only values that were there.
* **Replay**: timestamps of two clocks, events that overtake one another, a
  cursor that moves both ways. Correct: causal order, and a cache nobody can
  observe.

`PROJECT.json` lists these hazards line by line, with the properties aimed at
each and the ones no property covers yet.

## 2. Modules

```
Totals <- RiskEnvelope <- RiskLedger  <............... TradingSession (refines it)
   |           ^---- DepthWalk <---- Candidates <---------'
   '- LiveCapture -> Discovery
ReferenceCapture <- Projection <- CaptureAudit <- TrainingSet
RawRecorder          MarketStream                     |
EventReplay -> Ordering <-----------------------------'
TotalsProofs <- RiskLedgerProofs, TradingSessionProofs, RawRecorderProofs,
   |            LiveCaptureProofs, EventReplayProofs, TrainingSetProofs
   '- Totals, Ordering            (each EXTENDS the module it is about;
MarketStreamProofs                 TradingSessionProofs instantiates RiskLedgerProofs)
MCxxx extends xxx (MCCaptureAudit: TrainingSet) and gives its constants values.
```

**Totals, RiskEnvelope.** The operators of `portfolio/`. Shares are naturals,
money is counted in ticks, one winning share pays `Payout`. `UnitCost` is the
fee-inclusive price of a taker share; the assumptions on it (at least the
price, at most the payout, monotone) are what the fee formula gives for a rate
of at most one. An *exposure* is what an active order costs and brings if it
fills in full; `ex` maps order ids to exposures. `WorstCaseG` tries every
subset up to `ExactSubsetCap` active orders and uses the analytical bound
beyond, as the code does. `MaxOrders` bounds order ids; the code has no such
bound. The tolerance of 1e-9 in `admits` vanishes with integers.

**RiskLedger**: what the risk gate promises, with no market and no strategy in
it. Orders are reserved (`Reserve`), settle for any part of their size at no
more than their reserved cost (`Settle`), are released, replaced, or execute at
once. It is the abstract specification of the session.

**Candidates.** What the controller may propose: the depth a taker may walk
under the floor and the caps, the dearest price it may execute at, sizes of the
three purposes, maker prices, sizes and lifetimes, and the final check each one
passes. Sizes are whole shares: a boundary the code computes as a real number
is the last whole share inside it (the first that repairs, for a hedge), where
the code keeps a margin of 0.01 %. The probability enters as one number, the
cost at which the edge is used up.

**DepthWalk, TradingSession.** `execution/session.py` with the order mechanics
and the supervisor's policy, under the decision loops of both callers
(`setup.caller`). A decision point walks through `phase`: resolve, review each
resting order in turn, dispatch at most one order. Actions correspond to code:

| Action | Code |
|---|---|
| `ResolveTaker`, `ResolveRaises`, `ResolveDone` | `resolve_ready_takers`, as the runner and as live.py call it |
| `Hold`, `Expire`, `Cancel`, `Reprice` | outcomes of one turn of `review_open_orders` |
| `SubmitTaker`, `SubmitMaker`, `Wait` | `dispatch` |
| `Close` | end of the runner's loop; the drain of `_on_finalized` |

The strategy is free: any side, price, size, purpose the candidate generator
can produce (makers are ALPHA only), so that what holds does not depend on the
model's quality. So are the book at a match, whether a synthetic maker filled,
and the supervisor's value comparison. What is *not* free is every guard, the
order of the triggers and every table update.

**RawRecorder.** An action is one step another thread can observe: each queue
operation, each read or write of the `_drained` event, each transaction. The
writer's loop is `LoopHead, Take*, Collected, PersistBatch|PersistRaises,
CheckEmpty, ReportDrained`. `submit` is two steps (`Clear`, `Put`), `flush` two
(`Wake|Timeout`, `Peek`). An event is a number and `wire` gives its dedupe key,
fixed in the initial state, so that TLC does not enumerate equal histories.
Without a writer thread, `flush` and `stop` persist on the caller's
(`SyncPersist`). A transaction that raises is taken as rolled back: its events
are gone with the local variable that held them, the writer is dead
(`PersistRaises`) or the exception leaves the caller's `flush` (`SyncRaises`).
`lost` is a history variable, the events such transactions rolled back.

**LiveCapture.** The main thread as a program counter `loop`: one visit of one
round, one write of `_finalize`, one hook is a step; `Clock`, `Publish` and
`Interrupt` happen in between. `state` is `lifecycle.state`, `roundRow` and
`resultRow` the two tables, `journal` what settlement and final-resolution
records say of the outcome. The capture starts with `Discover`, which reads
`listing` (what the venue answers for each slot, by the rules of **Discovery**)
and may end it (`DiscoverRaises`); a round may then be traded, passed over, or
be the one whose metadata make the tick hook raise.
`stuck` marks rounds with a delayed taker, whose drain raises (found with
TradingSession).

**MarketStream.** The reader thread as a program counter (`connect`, `opened`,
`subscribed`, `bootstrap`, `stream`, `closing`, `leaving`, `off`), the service's
thread as another (`add_tokens`, `check_integrity`), the venue, and a wire per
token. A book is the set of the venue's changes it reflects, so that "current"
is an inclusion. A REST response is fetched in one step and applied in another.
`add_tokens` takes a list (`AddTokens(T)`): it registers all of it, subscribes all
of it in one message (`Announce`), then fetches book by book (`FetchAdded`,
`ApplyFetched`) and stops at the first fetch that raises. The order of the list
is free. `seen` remembers what a property needs to name: tokens registered while
the reader was past its subscription (`missed`), books that took an outdated
response or lost a frame (`suspect`), tokens whose REST call failed
(`unsynced`), tokens behind such a one in its list (`forgotten`), changes lost
while served (`lost`).

**ReferenceCapture.** What a capture leaves in its store. One step of `Second`
is one publication interval; in it the socket may break or fall silent, a series
may stop, a frame may be unreadable, the queue may fill, an integrity check may
fail. Each series has its tracker; outages and failures become `records`,
attributed when they are recorded. `Finalize`, `Interrupt`, `Die`, `Sweep` and
`ResolveStored` write label events and rows. What the venue does is a `world`.

**Projection, CaptureAudit, TrainingSet.** Functions of that store, in the
order the offline tools apply them: what `project_round` makes of a round and
when it raises; outages reconstructed from notices, the completeness of the
failure records, the audit of each series, and the three verdicts; the features
of each decision point, why one is invalid, the examples and their split. They
have no variables of their own: the properties are invariants of the capture,
evaluated when it is in the store.

**EventReplay.** The sort key and the repair of `causal_sort`; a cursor that
gates on event time or receive time; the incremental book of one side with its
binary search written out, because its keys need not ascend. `Slot` says where
the repair puts an event instead of moving list entries. A price level has one
book (the asks; bids are alike). A sorted list is `InOrder` of **Ordering**, the
one list of a set's elements that ascends along a strict order.

## 3. What the runs show

| Run | Question | Result |
|---|---|---|
| `risk_ledger` | Does the admission rule keep its joint promises under any order of operations? | `EnvelopeFloor`, `EnvelopeNeverWorsens`, `SpendWithinCap`, `PositionWithinLimit` hold |
| `session` | Does the session implement that promise and keep its books? | refinement `ImplementsLedger`, `RestingOnlyWhileSafe`, `TrackedMatchesState`, `BooksBalance`, `LimitsHoldAlone`, `UnsafeViewClearsSeen`, `EndedOrdersAreFinal` hold |
| `session_live_drain` | Is a delayed taker resolved at round close in the live service? | no: finding 1 |
| `session_live_blind` | Are resting orders reviewed at a blind decision point? | no: finding 2 |
| `raw_recorder` | Is every event stored, counted, held or rolled back, and is the queue served? | `NothingLostUncounted`, `DuplicatesFarApart`, `QueueIsServed`, `DrainedComesBack` hold |
| `raw_recorder_flush` | Does a flush that returns True mean stored? | no: finding 3 |
| `live_capture` | Do rounds get decisions, result and outcome in order, and does a capture end? | `SettledAfterItsGrid`, `FinalizedHasResult`, `FinalizedAfterTail`, `OutcomesArePublished`, `OutcomesAreKept`, `CaptureEnds` hold |
| `live_capture_misfit` | Is no decision point ever skipped? | one can be: finding 4 |
| `event_replay` | Is the order causal, and the cached book what a rebuild gives? | `SubmitComesFirst`, `OthersKeepOrder`, `CacheIsTransparent`, `PrefixIsExact` hold |
| `event_replay_arrival` | Does the receive-time gate show received events only? | no: finding 5 |
| `market_stream` | Which books may be quoted, are losses inside outages, no outage over too early, every token served? | `QuotableIsCurrent`, `LossIsInsideGap`, `GapEndsResynced`, `ServedAtRest` hold |
| `capture_audit` | Is a round accepted exactly if its window is whole, and are the examples sound? | `CleanRoundsAreWhole`, `CleanRoundsStayClean`, `UnplacedCondemnsAll`, `ExamplesAreSound` hold |

Every property of a passing run is violated by some plausible change of the
modelled code; those changes are the operators commented as mutants, which no
action uses.

### Findings

1. **Live drain** (`shadow/live.py:583`, `:450`). `resolve_ready` calls
   `book_at_fn(pending)`, the live service passes a function of three arguments,
   so resolution raises as soon as an order is ready; the fill is lost, against
   the comment at lines 563-566. Reachable only on markets that delay takers.
2. **Blind points** (`shadow/live.py:462`). Without opening price, features or
   model `_decide` returns before the review;
   `docs/REAL_RECORDER_ARCHITECTURE.md:511-515` says otherwise.
3. **Flush** (`realtime/recorder.py:155`). The writer tests for an empty queue
   and then sets `_drained`; a submit's clear and put may fall in between, and
   `flush` answers True while the event is only in the writer's batch.
4. **Misfit market** (`shadow/live.py:297`). One discovered market without fee
   rate or TWAP window raises in the tick hook, and the service drops the hook
   for all rounds.
5. **Receive-time gate** (`replay/feeds.py:264`). Receive times are bisected in
   the order of source times; if a delayed event precedes a prompt one, the
   prefix can include events not yet received, against lines 85-89.

What the passing properties leave out, because the code does otherwise, is
said in them: `FinalizedAfterTail`, `SettledAfterItsGrid` and `OutcomesArePublished` are
stated for uninterrupted captures, `SettledAfterItsGrid` for a hook that was not
dropped, `UnsafeViewClearsSeen` for the runner, and `PrefixIsExact` for event
time or in-order arrival. `CaptureEnds` allows a capture that fails while it
discovers its rounds. `NothingLostUncounted` names what a failing transaction
rolled back and counts what a dead writer left in the queue as held, so that
dropped = 0 stands for a complete capture only until a transaction raises.
`QuotableIsCurrent`, `ServedAtRest` and `GapEndsResynced` name the books they
leave out: settled tokens and, of `seen`, `suspect` in the first; `missed`,
`unsynced` and what is `forgotten` and `suspect` (no fetch, and the first frame
did not parse) in the second; `unsynced`, `forgotten` and what `add_tokens` is
still at work on in the third. `UnplacedCondemnsAll` needs a store that can tell
of the failure: a record without a place, or a row no older than the last
failure that `resolve_from_store` did not write anew. `CleanRoundsAreWhole` needs data on
both sides of an outage, no dropped record, and no `Flapping` (two outages with
one observation between them, of which `preflight.py:180` drops the later one);
`CleanRoundsStayClean` needs every failure to have its place, and a round whose
window was observed and read in every interval. Either a finding
or a hazard note says so.

Two of these exceptions are defects as we see them. When `write_batch` raises
(`realtime/recorder.py:153`), the writer dies with its batch, `dropped_events`
stays 0 and `is_training_grade` answers True. When `resolve_from_store`
(`realtime/service.py:1002`) writes a row without the session's counters over
one that had them, `preflight.py:233-251` finds fewer failures than were counted
and may accept rounds that an unrecorded failure condemned, against
`preflight.py:218-222` and `attribution.py:606-609`.

Met on the way, and not checked as properties: a series that dies for good
leaves an outage nobody publishes (`abandon` has no caller); a one-sided
mapping of tokens passes discovery; `RecorderMetrics.as_dict` has no
`data_gaps`, so that `preflight.py:244` always reads zero; `_TOPIC_GAP_CACHE`
is keyed by the identity of a store object; `round_windows` of preflight takes
the default lead and tail; after an exception in one element of a
`price_change` frame the others are skipped and the book stays quotable.

### Bounds

* `RiskLedger.cfg`: three order slots with `ExactSubsetCap` 2, so that both
  forms of the envelope and the crossing between them occur; both sides, two
  sizes, partial fills; sessions that start safe, and below the floor, on either
  side. Two orders suffice to break the floor jointly, a third for a
  replacement beside another.
* `Session*.cfg`: three orders over a session, decision times 1 to 3, delay 2,
  rate limit 2, makers that live 1 or 3: expiry, rate-limited reviews, a match
  beside a newer order and a repricing all occur. Two prices, the dearer one
  with a fee; a two-level ladder fills orders in full or in part. Three setups:
  replay from a flat start with delay, replay from a breached start without,
  live.
* `RawRecorder*.cfg`: queue, batch and four events such that the queue overflows,
  a batch is cut, and a duplicate arrives inside and outside the dedupe window
  (size 1); one feed and the main thread, the store may fail at any transaction.
  A second feed thread adds interleavings of the same two steps, which the main
  thread's own submits already give.
* `LiveCapture*.cfg`: two rounds recorded at once (the lead exceeds a round), two
  decisions each, a tail of 1, started exactly a lead ahead of a slot and
  earlier; the clock makes jumps of every size up to `MaxTime` 13. Six
  combinations of listings: of each defect discovery or the shadow knows there
  is one, alone and beside a good round, and one capture with no round at all.
* `MarketStream.cfg`: a token from the start and two added later, by one call or
  by two, one fault of any kind, a clock of two instants. `MaxTouched` lets one
  token, whichever it is, have its book changed, once, and its market settled.
  Every hazard above takes one fault and one such token; more of them multiply
  the states beyond the time a run may take, and one token that changes beside
  another that settles was looked at once only (the theorems are for any number). The two added tokens are alike,
  which `SYMMETRY` uses; no property of the run is a liveness property.
* `CaptureAudit.cfg`: two rounds of one interval in six, with one series that
  settles and one that does not, an audit threshold of two intervals and a stall
  timeout of three. `world.faults` bounds the faults per capture: two in the
  world with readable exact values, one in the world with garbage. The market of
  each round is fixed per world (found late, a stale book at the open, a side
  that vanishes, tick changes announced twice): every reason for an invalid
  decision point occurs, and a round with some valid points.
* `EventReplay*.cfg`: three events over four instants, four pairs of source and
  receive time (three for deltas) of which one overtakes two others; snapshots, removing and adding
  deltas, an order with submits and reactions. Two reactions before a submit and
  two submits of one id occur. The cursor moves to any time in any order.

### Deadlock

Sessions, recorders and captures may stop (order ids, events or time run out, by
bound; `stopped` and `closed` by design), and so may a replay's caller:
`CHECK_DEADLOCK FALSE` in all configurations. That a capture stops *properly* is
`CaptureEnds`; that the writer does not stop with work queued is `QueueIsServed`.

### Fairness

Only two specifications have it. *RawRecorder*: a thread that cleared `_drained`
goes on to put (no lock, no blocking call between); the writer's loop never
blocks for good because `get` has a timeout; a flush and a join return because
both take a timeout. Nobody is made to submit, flush or stop. *LiveCapture*: the
main thread runs, the clock advances, and the resolution sweep ends at its
deadline (weak fairness of `Shutdown`, which is enabled all through the sweep's
waiting). `Publish` and `Interrupt` have none: the venue may never answer.

## 4. What is proved

Eight modules hold theorems; `PROJECT.json` lists those a reader should know
of. Each holds for every value of the constants that satisfies the named
assumptions of the module: any grid, fee table, limits, number of orders,
feeds, tokens or rounds. Where a bound is a constant (`MaxTime`, `MaxEvents`,
`MaxVersion`, `MaxFaults`, `MaxOrders`) the theorem is for every bound.

| Component | Safety properties proved | Refinement |
|---|---|---|
| risk gate | `EnvelopeFloor`, `EnvelopeNeverWorsens`, `SpendWithinCap`, `PositionWithinLimit`, types | - |
| trading session | `TrackedMatchesState`, `BooksBalance`, `EndedOrdersAreFinal`, `RestingOnlyWhileSafe`, `UnsafeViewClearsSeen`, `LimitsHoldAlone`, types | `ImplementsLedger` |
| raw recorder | `NothingLostUncounted`, `CompleteUntilItRaises`, `DuplicatesFarApart`, types, the sum of the counters | - |
| live capture | `SettledAfterItsGrid`, `FinalizedHasResult`, `FinalizedAfterTail`, `OutcomesArePublished`, `OutcomesAreKept`, types | - |
| CLOB stream | `QuotableIsCurrent`, `LossIsInsideGap`, `ServedAtRest`, `GapEndsResynced`, types | - |
| event replay | `SubmitComesFirst`, `OthersKeepOrder`, `CacheIsTransparent`, `PrefixIsExact`, types | - |
| reference capture, audit, dataset | `CleanRoundsAreWhole`, `CleanRoundsStayClean`, `UnplacedCondemnsAll`, `ExamplesAreSound`, types | - |

With these, every invariant and action property of a passing run is a theorem.

Every inductive invariant below was first checked by TLC as an invariant of the
component's run.

### The risk gate (`RiskLedgerProofs`)

Assumed: `PriceAssumption`, `RiskAssumption`, `OfferAssumption`. The first part
is about `RiskEnvelope` alone, for any portfolio `pt` and any exposures `bk`.
Call f *respected* when every subset of the active orders, filled
in full, leaves a margin of at least f. The floor itself is not a fixed number:
a session may start below `GMin` and repair itself through recovery orders, so
the invariant is that `Floor`, the lesser of `GMin` and the opening margin, is
respected. One lemma carries both envelope theorems (`EnvelopeStep`): any
f <= GMin that is respected stays respected.

* *Admission* (`AdmitsKeeps`): after an admission the worst case is at least f,
  by either branch of `admits`, and it bounds every scenario from below
  (`WorstCaseBelow`). In the recovery branch `after >= before` suffices while
  the old orders are within the exact cap, also when the new one crosses it,
  because `before` is then a scenario; beyond the cap the branch admits
  nothing, because the conservative bound falls with every order that costs
  something (hence `OfferAssumption`: a positive cost).
* *Fill* (`FillBetween`, `FillKeeps`): x shares of an order for at most its
  reserved cost and at most their payout leave each scenario no worse than one
  of "not at all" and "in full". If the filled side still lags, the shares pay
  for themselves (`paid <= x * Payout`, the reason for the assumption on
  `UnitCost`); if not, a full fill would bring no more and cost no less.
* *Release, replace*: subsets of fewer orders, and a release followed by an
  admission.
* *Sums*: scenario totals are recursive functions over slots. What the proofs
  need of them (`SumsInsert`, `SumsMonotone`, `SumsAgree`) follows from
  `TotalsProofs`, which proves existence of the partial-sum function and
  induction on slots from the least-number principle, because no theorem with
  an operator parameter can be cited.

Caps: `CapsInv` says of the three totals (money, shares up, shares down) spent
or held *and* reserved that each is within its limit or what the session
started with. All five operations keep it (`CapsStep`): an admission checks
exactly this, a fill moves no more into the portfolio than it takes from the
reserve (`FillSums`), a release only lowers it.

### The trading session (`TradingSessionProofs`)

Assumed besides: `CandidateAssumption` (in it: a price below the payout costs
less than the payout with its fee, which holds for a fee rate below one) and
`SessionAssumption`. Whatever an action is called in the code, it touches the
books in one of four ways: an order *ends* with what it got (`Ends`), one is
*submitted* (`Submits`), a taker *executes* at once (`Executes`), a resting
order is *replaced* (`Replaces`). `StepForms` proves that, and each invariant
and the refinement then has four cases in place of ten.

* `SessionInv` is types, `TrackedMatchesState`, `OrdersAreSound` (only takers
  wait; an active order got nothing yet), `ReviewIsThorough` and the clock.
  `OrdersAreSound` is what makes a fill of the whole reservation the worst of a
  match; `ReviewIsThorough` remembers, while a review is going on, which orders
  it still has to visit, without which `UnsafeViewClearsSeen` is not inductive.
* `LimitsHoldAlone` is a theorem about `Candidates` (`TakersBounded`): the walk
  of a ladder costs at most its size at the dearest price (`WalkCost`), the
  depth the budget and the floor allow is the largest that fits (`DepthSizesFacts`),
  and for each purpose the margin after a fill in part lies between that after
  none and after all. It is why the hypothesis on fees is needed: a share that
  costs its payout never repairs a margin.
* `RestingOnlyWhileSafe`: a maker is ALPHA only, so its admission took the
  strict branch of `admits`; from then on every order admitted beside it, and
  every fill, keeps the envelope at `GMin`, because recovery may not lower an
  envelope that is there already.
* `SessionImplementsLedger`: each form is a step of the ledger under the mapping
  of `TradingSession` (reservations are the exposures of the active orders, the
  offers what the candidate generator can produce). `Promise` is the ledger
  once more, with `SessionOffers` for the offers, over which `RiskLedgerProofs` is
  instantiated. Its lemmas about the gate are read through it at the start of the
  module (`GateSums` says that its operators are the session's), and its theorems
  at the end: `SessionKeepsFloor`, `SessionKeepsSpendCap` and
  `SessionKeepsPositionLimit` are the promises of the ledger, for the session.

### The raw recorder (`RawRecorderProofs`)

Assumed: `RecorderAssumption`. `RecorderInv` adds to the three properties that
each event received is counted once (`Counted`), that an event is put by the
thread that received it, that the batch is non-empty only where the writer holds
it, that each remembered key has a row or was rolled back (`SeenIsKept`), and
that, until a transaction raises, what is remembered are the keys of the
*newest* rows, in their order (`SeenIsRecent`). The last two are the point:
`NothingLostUncounted` needs every remembered key to be backed by an event that
was kept or is named as lost, since a duplicate is discarded on account of it, and
`DuplicatesFarApart` needs the window to be exactly the last rows, which it no
longer is after a failed transaction (the keys are remembered before it). With
`lost` empty the first is `CompleteUntilItRaises`. `PersistRows` describes
one batch by the rows it appends (`Fresh`, the entries neither remembered nor
earlier in the batch), by induction over the batch.

### The live capture (`LiveCaptureProofs`)

Assumed: `CaptureAssumption`. `CaptureInv` says, per position of the main thread:
which rounds were handled in this pass and which are left (`GridFired`,
`NoneForgotten`), that rows of FINALIZED, the state and the sweep come after the
result row (`ResultFirst`), how late each state can be (`InTime`), and, through
the sweep, which outcome is known to whom (`OutcomeKnown`, `RowsCurrent`,
`JournalCurrent`). `GridFired` is why `SettledAfterItsGrid` survives clock jumps:
in the pass that sees a round end the hook still runs after the visit, and
only a later pass finalizes it; so it speaks of rounds *visited* in this pass.
`FirstSlotLater` shows that discovery's search for the first slot is well
defined and returns one at least the lead ahead of the start.

### The CLOB stream (`MarketStreamProofs`)

Assumed: `StreamAssumption`. `StreamInv` says:

* of the threads: what they have in hand is registered, the flags follow the
  reader, the socket serves nothing before the subscription and every served
  token after it (`Serving`);
* of the outages: a loss follows the start of the open outage or the last data
  (`LossFollowsData`), and while none is open nothing was lost that a live
  socket could have been sent (`LossOpensGap`). `LossIsInsideGap` by itself is
  not inductive: a loss happens before anybody opens the outage;
* of the resync: a book that waits is on the list of the bootstrap
  (`ResyncListed`), or somebody is yet to make a list (`SomeoneFetches`), and one
  that none of the exceptions names is fetched by the reader, on the wire, yet
  to be announced, or there is no socket to send it (`BookComes`);
* of the books: what the reader was not handed is under way
  (`WireIsComplete`), so that a response of any age at or above what was handed
  over completes a book (`QuotableIsServed`). A book that was never
  served waits or is suspect (`UnservedIsSuspect`), which a first connection
  needs, since it leaves the books as they are.

The lemmas named `...Does` say once, field by field, what each action changes;
every conjunct is then proved from them.

### The replay (`EventReplayProofs`)

Assumed: `ReplayAssumption` (of it, that a snapshot carries prices with a size
and that nothing arrives before it happened). Lists and recursions are where
the work is, and each was brought down to the least-number principle:
`InOrderSorts` (in `TotalsProofs`) shows that a finite set with a strict order
has the list `InOrder` chooses, by counting what comes before each element, and
`RecursionExists` that a recursion up to n has a solution.

* *The sort* (`SortIsCausal`, `SortKeepsOrder`): slots are even numbers for
  events that stay and the odd one before a reaction for a submit that moves, so
  no two agree (`SlotsDiffer`; two submits of one order cannot both be
  displaced), and the list is read off the slots.
* *The bisection* (`BisectIsExact`): each turn halves a window that is not
  closed, so as many turns as events close it; while the times ascend, what is
  left of it is not later than t and what is right of it is. Without the
  hypothesis on the order it still ends inside the list (`BisectInBook`), which
  the receive-time gate needs.
* *The book* (`AppliedFacts`): a history of levels is unique, so a prefix applied
  in two parts is the prefix applied at once.
* `ReplayInv` then says that the cache is new or holds the prefix it names,
  rebuilt from nothing, and that the last answer is the prefix the bisection
  finds. `CacheGoesOn` is its one real step: from a cache as it is or rewound,
  going on gives what starting over gives. "What was answered is right" alone
  is not inductive, because the next answer is built from the cache.

### The reference capture, its audit and the dataset (`TrainingSetProofs`)

Assumed: `ReferenceAssumption`, `ProjectionAssumption`, `AuditAssumption`,
`TrainingAssumption`. The variables are those of the capture; audit and dataset
are functions of them.

* `AuditInv`, the invariant of the capture, ties each tracker to what was heard
  and stored (`TrackerInv`: an outage starts with the last data, and what was
  heard last is known), the counters to the records (`CountInv`: while nothing was
  dropped every counted failure is recorded, and a failure without a place is
  among the records or missing from them), every
  record to the time and the rounds it names (`RecordInv`), and every row and
  label event to what the venue said and the observations it rests on
  (`RowInv`). `SubmittedFacts` and `AccountsKeep` describe one submission to the
  store, full queue or not; each step is a submission or leaves the log alone.
* `UnplacedCondemnsAll` is counting: an unplaced failure that was recorded makes
  the audit incomplete as it stands, one that was not makes the session's count
  exceed the recorded ones, if a row still has that count: it is then the
  greatest of all rows (`FinalCountIsTotal`).
* `CleanRoundsStayClean`: a round that is `Whole` has an observation in each
  second of its window and next to it, so an outage that touches it has both
  ends within it and is not material (`ReconstructedFacts`, `WholeInside`),
  whatever the fold over the notices made of the others (`FailuresAudited`).
* `CleanRoundsAreWhole` needs `BreakInv` besides: while nothing was dropped, each
  outage of the socket is still open, or the store has a notice of the reconnect
  that ended it with no data in between (`BridgeInv`); nothing was stored since
  the socket was last known to carry data, and history comes with a subscription
  only (`SocketInv`); and notices stand in the order of their times (`OrderInv`),
  so that what the fold took before a notice is an earlier outage. `TouchingIsSame` shows that an
  earlier outage which covers this one is this one, or ends where it begins:
  that is `Flapping`. So a round the outage reached is named by a failure of the
  audit (`OutageIsFound`), and one with a failure of its own is (`HurtIsFound`).
* `ExamplesAreSound`: an accepted round has no unread update in its window
  (`UnreadFails`), so the projection, which reads the store, and the capture,
  which reads the stream, saw the same: the opening price is that of the label
  (`ObservedAfterPick`), the values of a decision point were there at its time
  (`ExampleFacts`). `SplitsInTime` is about the split: its lists are `InOrder` of
  the rounds, the shares of a list do not overlap, and a round before another
  one is over when that one is decided.

  The theorem has a hypothesis of its own, `TolerancesFit`: the tolerance of the
  label is at most one interval more than the lead of the window, and at most
  the projection's look-back. The code's values are 5 s, 420 s and 600 s
  (`realtime/service.py:86`, `realtime/lifecycle.py:60`,
  `replay/projection.py:70`); the lead is an option of
  `scripts/run_real_recorder.py:36`, which would allow one below 5 s. The proof
  uses it where an observation the label is compared with must lie in the window
  the audit looks at, and it is needed: with a tolerance of 2, a lead of 0, an
  audit threshold and a stall timeout of 4 and a price that changes one interval
  before the second round, TLC finds a capture where an update nobody could read
  falls before the window, the next one is missing, and the example starts from a
  price the label was not compared with; with a tolerance of 1 the same instance
  passes. The configuration of `capture_audit` has the boundary value.

Three things were adjusted on the way, none of which changes what the code does
in the model: a break of the socket that the history bridges with data of the same
second is none (`seen.breaks`), `Flapping` names the one outage the audit drops
instead of any with a common end, and `Whole` asks for data that was observed
*and read*, because an unreadable update leaves an outage.

### Only model-checked

* Liveness (`QueueIsServed`, `DrainedComesBack`, `CaptureEnds`): beyond the
  prover.
* That the runs which expect a violation find one (findings 1 to 5): these
  statements are false.

## 5. Not modelled

* Counterfactual quotes: `record_paper_quote` has no caller, no quote is ever open.
* The live inbox, the sequence numbers of `RawEventBuilder` and anything else
  that depends on how the interpreter schedules a single operation.
* The attribution of CLOB failures by token and the audit of source times.
* Parsing of venue documents: `Discovery` starts from what is read out of them.
* Feature values, regime, probability and value computations: numerical, and
  their results are free inputs of the session, so nothing above depends on them.
* SQLite itself: a transaction happens or raises. Process crashes (as opposed
  to Ctrl-C) lose the queue by design and nothing in the code recovers it.
* Walk-forward evaluation, reports, scripts: offline over finished data.

## 6. Plan

Done, in this order: risk envelope and ledger; session and its refinement;
recorder; capture; replay; proofs about the ledger; candidates and their hard
limits; CLOB stream; reference stream with attribution, audit, projection and
dataset; discovery; proofs about candidates, session, refinement, recorder,
capture, CLOB stream, replay, and the reference capture with its audit and its
dataset. Next:

1. An abstract specification of the audit: a store that records each outage and
   each failure with its rounds in one step, which the capture would implement.
2. The live inbox, with the reader thread appending while the main thread
   drains, and the opening price the live shadow caches (`live.py:410`) beside
   the one of the projection.
3. MarketStream composed with the recorder and the attribution of CLOB failures.
