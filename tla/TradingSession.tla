--------------------------- MODULE TradingSession ---------------------------
(***************************************************************************)
(* execution/session.py with the order mechanics of execution/simulator.py *)
(* and order_state.py, the policy of supervisor/supervisor.py, and the     *)
(* decision loop of its two callers, shadow/runner.py and shadow/live.py.  *)
(*                                                                         *)
(* A decision point first resolves delayed taker orders that came due,     *)
(* then reviews every resting maker order, then dispatches at most one new *)
(* order.  The market's book, the strategy's economics and the quality of  *)
(* the feed are chosen freely at every point.                              *)
(***************************************************************************)
EXTENDS Candidates

CONSTANTS
  Ladders,            \* ask ladders a book may show
  MakerHorizon,       \* maker_horizon_s
  MinActionInterval,  \* rate limit on actions on one resting order
  MaxTime,            \* bound: decision times of a round
  Setups              \* the sessions considered, see Setup

\* delay: time a taker order waits for its match, 0 for none.
\* isReal: real market data, on which an expiring maker stays unresolved.
\* isDynamic: maker orders are sized from the portfolio (dynamic_maker).
Setup ==
  [opening : Portfolio, delay : Nat, isReal : BOOLEAN, isDynamic : BOOLEAN,
   caller : {"runner", "live"}]

ASSUME SessionAssumption ==
  /\ Ladders \subseteq {asks \in Seq(Level) : Ascending(asks)}
  /\ MakerHorizon \in Nat
  /\ MinActionInterval \in Nat
  /\ MaxTime \in Nat
  /\ Setups \subseteq Setup

VARIABLES
  pf,        \* session.portfolio
  setup,     \* the session's market, data and caller
  order,     \* order id -> OrderState and TrackedOrder, Unsubmitted before
  pending,   \* TakerOrderQueue._pending
  open,      \* keys of OrderSupervisor.orders
  seq,       \* _order_seq
  now,       \* decision_ts
  phase,     \* where the decision loop is
  view,      \* what the feed gives this decision point
  toReview   \* resting orders review_open_orders has yet to visit

book == <<pf, order, pending, open, seq>>

vars == <<pf, setup, order, pending, open, seq, now, phase, view, toReview>>

Roles == {"TAKER", "MAKER"}

States ==
  {"PENDING_DELAY", "OPEN", "PARTIALLY_FILLED", "FILLED", "CANCELED"}

Terminal == {"FILLED", "CANCELED"}

Order ==
  [role : Roles, side : Sides, price : Prices, qty : Nat, filled : Nat,
   paid : Nat, submit : Nat, matched : Nat, ttl : Nat, acted : Nat,
   state : States]

Unsubmitted == [state |-> "NONE"]

\* Feed quality: "blind" when no decision can be computed at all (outage,
\* invalid features, no model); the sides whose book is two-sided.
View == [data : {"fresh", "stale", "blind"}, usable : SUBSET Sides]

-----------------------------------------------------------------------------
(***************************************************************************)
(* Exposure, as exposure_from_pending_takers, exposure_from_open_maker_    *)
(* orders and candidate_exposure convert orders.                           *)
(***************************************************************************)

Active == pending \cup open

UnitPrice(o) == IF o.role = "TAKER" THEN UnitCost[o.price] ELSE o.price

ExposureOf(o) ==
  [side |-> o.side, qty |-> o.qty - o.filled,
   cost |-> (o.qty - o.filled) * UnitPrice(o)]

Exposures(orders, A) ==
  [i \in OrderIds |-> IF i \in A THEN ExposureOf(orders[i]) ELSE Idle]

\* Mutant: orders waiting for their match are not part of the view.
AdmitsBesideMakers(o, k, A, purpose) ==
  LET makers == A \cap open
  IN  Admits(pf, Exposures([order EXCEPT ![k] = o], makers \cup {k}), makers,
             k, IsRecovery(purpose))

\* The session's view of its own risk, with A as the other active orders.
AdmitsOrder(o, k, A, purpose) ==
  Admits(pf, Exposures([order EXCEPT ![k] = o], A \cup {k}), A, k,
         IsRecovery(purpose))

TakerOrder(side, price, qty) ==
  [role |-> "TAKER", side |-> side, price |-> price, qty |-> qty,
   filled |-> 0, paid |-> 0, submit |-> now, matched |-> now + setup.delay,
   ttl |-> 0, acted |-> now,
   state |-> IF setup.delay > 0 THEN "PENDING_DELAY" ELSE "OPEN"]

MakerOrder(side, price, qty, ttl) ==
  [role |-> "MAKER", side |-> side, price |-> price, qty |-> qty,
   filled |-> 0, paid |-> 0, submit |-> now, matched |-> now,
   ttl |-> ttl, acted |-> now, state |-> "OPEN"]

\* reconcile_fill: an order that got something is done or partly filled.
Reconciled(o, shares, paid) ==
  [o EXCEPT !.filled = shares, !.paid = paid,
            !.state = IF shares = o.qty THEN "FILLED" ELSE "PARTIALLY_FILLED"]

\* Mutant: a delayed order that got nothing is not ended.
WalkedUnended(o, asks) ==
  LET walk == WalkDepth(asks, o.qty, o.price)
  IN  IF walk.filled > 0 THEN Reconciled(o, walk.filled, walk.paid) ELSE o

\* walk_depth against the asks at the match; an order that got nothing is
\* canceled if it was waiting and keeps its state if it was not.
Walked(o, asks) ==
  LET walk == WalkDepth(asks, o.qty, o.price)
  IN  IF walk.filled > 0 THEN Reconciled(o, walk.filled, walk.paid)
      ELSE IF o.state = "PENDING_DELAY" THEN [o EXCEPT !.state = "CANCELED"]
      ELSE o

\* Mutant: the requested shares are credited, not the filled ones.
CreditRequested(o) == ApplyFill(pf, o.side, o.qty, o.paid)

Credit(o) == ApplyFill(pf, o.side, o.filled, o.paid)

-----------------------------------------------------------------------------

Init ==
  /\ setup \in Setups
  /\ pf = setup.opening
  /\ order = [i \in OrderIds |-> Unsubmitted]
  /\ pending = {}
  /\ open = {}
  /\ seq = 0
  /\ now = 0
  /\ phase = "idle"
  /\ view = [data |-> "fresh", usable |-> Sides]
  /\ toReview = {}

\* The strategy clock reaches its next decision point.
Begin ==
  /\ phase = "idle"
  /\ now' \in (now + 1)..MaxTime
  /\ view' \in View
  /\ phase' = "resolve"
  /\ UNCHANGED <<setup, toReview, book>>

Ready == {i \in pending : order[i].matched <= now}

\* resolve_ready_takers with the runner's book_at_fn(pending).
ResolveTaker(i) ==
  /\ phase = "resolve"
  /\ setup.caller = "runner"
  /\ i \in Ready
  /\ \E asks \in Ladders : order' = [order EXCEPT ![i] = Walked(@, asks)]
  /\ pf' = Credit(order'[i])
  /\ pending' = pending \ {i}
  /\ UNCHANGED <<setup, open, seq, now, phase, view, toReview>>

\* live.py hands resolve_ready_takers a book_at(round_id, side, at_ts): the
\* call with one argument raises before anything is resolved, and the
\* handler of _fire_due_decisions gives the decision point up.
ResolveRaises ==
  /\ phase = "resolve"
  /\ setup.caller = "live"
  /\ Ready # {}
  /\ phase' = "idle"
  /\ UNCHANGED <<setup, now, view, toReview, book>>

\* A blind decision point of live.py returns without a review.
Reviewed ==
  IF setup.caller = "live" /\ view.data = "blind" THEN {} ELSE open

\* Whatever keeps the runner from a decision (an outage, invalid features, no
\* model, stale data), it has the resting orders reviewed.
ResolveDone ==
  /\ phase = "resolve"
  /\ Ready = {}
  /\ phase' = "review"
  /\ toReview' = Reviewed
  /\ UNCHANGED <<setup, now, view, book>>

-----------------------------------------------------------------------------
(***************************************************************************)
(* review_open_orders, one resting order at a time in the order they were  *)
(* registered.                                                             *)
(***************************************************************************)

\* Mutant: the order just reviewed is visited again.
ReviewingStuck(i) ==
  /\ phase = "review"
  /\ i \in toReview
  /\ i = Least(toReview)
  /\ UNCHANGED <<setup, pending, now, phase, view, toReview>>

Reviewing(i) ==
  /\ phase = "review"
  /\ i \in toReview
  /\ i = Least(toReview)
  /\ toReview' = toReview \ {i}
  /\ UNCHANGED <<setup, pending, now, phase, view>>

Seen(i) == order[i].side \in view.usable

Expired(i) == now - order[i].submit >= order[i].ttl

FullFill(o) == Reconciled(o, o.qty, o.qty * o.price)

RateLimited(i) == now - order[i].acted < MinActionInterval

\* Mutant: the safety triggers wait for the rate limiter as well.
MustCancelPolitely(i) ==
  /\ ~RateLimited(i)
  /\ view.data # "fresh" \/ G(Credit(FullFill(order[i]))) < GMin

\* The two triggers that come before the rate limiter: FEED_STALE and
\* RISK_BREACH.
MustCancel(i) ==
  \/ view.data # "fresh"
  \/ G(Credit(FullFill(order[i]))) < GMin

\* The order is held, or its book cannot be seen and it is not looked at.
Hold(i) ==
  /\ Reviewing(i)
  /\ Seen(i) => ~Expired(i) /\ ~MustCancel(i)
  /\ UNCHANGED <<pf, order, open, seq>>

\* draw_maker_fill is refused on real data; on synthetic data it may go
\* either way.
Draws == IF setup.isReal THEN {FALSE} ELSE BOOLEAN

\* _expire_maker: a real quote is closed unresolved.
Expire(i) ==
  /\ Reviewing(i)
  /\ Seen(i)
  /\ Expired(i)
  /\ \E isFilled \in Draws :
       order' = [order EXCEPT ![i] = IF isFilled THEN FullFill(@)
                                     ELSE [@ EXCEPT !.state = "CANCELED"]]
  /\ pf' = Credit(order'[i])
  /\ open' = open \ {i}
  /\ UNCHANGED seq

Cancel(i) ==
  /\ Reviewing(i)
  /\ Seen(i)
  /\ ~Expired(i)
  /\ MustCancel(i) \/ ~RateLimited(i)
  /\ order' = [order EXCEPT ![i].state = "CANCELED", ![i].acted = now]
  /\ open' = open \ {i}
  /\ UNCHANGED <<pf, seq>>

\* Prices a maker may quote between some best bid and best ask.
GridPrices == UNION {MakerPrices(bid, ask) : bid, ask \in 1..Payout}

\* evaluate_replacement_plan returns only valid prices of the grid; REPLACE is
\* executed only when the new order clears the view without the old one,
\* otherwise the old order is held.
Reprice(i) ==
  LET k == seq + 1
      A == Active \ {i}
  IN  /\ Reviewing(i)
      /\ Seen(i)
      /\ ~Expired(i)
      /\ ~MustCancel(i)
      /\ ~RateLimited(i)
      /\ seq < MaxOrders
      /\ \E price \in GridPrices :
           LET new == MakerOrder(order[i].side, price, order[i].qty,
                                 order[i].ttl)
           IN  /\ MakerValid(pf, new.side, new.qty, price)
               /\ AdmitsOrder(new, k, A, "ALPHA")
               /\ order' = [order EXCEPT ![i].state = "CANCELED",
                                         ![i].acted = now, ![k] = new]
      /\ open' = (open \ {i}) \cup {k}
      /\ seq' = k
      /\ UNCHANGED pf

\* Only a fresh decision point goes on to a decision; one that takes too long
\* is replaced by WAIT.
ReviewDone ==
  /\ phase = "review"
  /\ toReview = {}
  /\ phase' = IF view.data = "fresh" THEN "dispatch" ELSE "idle"
  /\ UNCHANGED <<setup, now, view, toReview, book>>

-----------------------------------------------------------------------------
(***************************************************************************)
(* dispatch.                                                               *)
(***************************************************************************)

\* WAIT, a candidate the session refuses, or a taker deferred behind a
\* pending one.  The families the regime permits and the ranking by expected
\* value are left open, and WAIT is always on offer.
Wait ==
  /\ phase = "dispatch"
  /\ phase' = "idle"
  /\ UNCHANGED <<setup, now, view, toReview, book>>

\* Mutant: the order sequence does not advance.
SubmittingAgain ==
  /\ phase = "dispatch"
  /\ seq < MaxOrders
  /\ phase' = "idle"
  /\ UNCHANGED <<seq, setup, now, view, toReview>>

Submitting ==
  /\ phase = "dispatch"
  /\ seq < MaxOrders
  /\ seq' = seq + 1
  /\ phase' = "idle"
  /\ UNCHANGED <<setup, now, view, toReview>>

\* What a share may be worth: only the prices it clears matter.
Worths == {UnitCost[p] + 1 : p \in Prices}

\* A valid candidate of a taker family, admitted beside the active orders.
SubmitTaker(side, purpose) ==
  LET k == seq + 1
  IN  /\ Submitting
      /\ pending = {}
      /\ \E asks \in Ladders, worth \in Worths :
           \E c \in Takers(pf, side, asks, worth, purpose) :
             LET new == TakerOrder(side, c.price, c.qty)
             IN  /\ TakerValid(pf, side, asks, c, purpose)
                 /\ AdmitsOrder(new, k, Active, purpose)
                 /\ order' = [order EXCEPT ![k] = IF setup.delay > 0 THEN new
                                                 ELSE Walked(new, asks)]
      /\ pf' = Credit(order'[k])
      /\ pending' = IF setup.delay > 0 THEN pending \cup {k} ELSE pending
      /\ UNCHANGED open

\* The controller generates makers as ALPHA only, on a two-sided book.
SubmitMaker(side) ==
  LET k == seq + 1
  IN  /\ Submitting
      /\ side \in view.usable
      /\ \E price \in GridPrices :
         \E qty \in MakerSizes(pf, side, price, setup.isDynamic),
            ttl \in MakerLifetimes(MakerHorizon, MaxTime - now, setup.isDynamic) :
           LET new == MakerOrder(side, price, qty, ttl)
           IN  /\ MakerValid(pf, side, qty, price)
               /\ AdmitsOrder(new, k, Active, "ALPHA")
               /\ order' = [order EXCEPT ![k] = new]
      /\ open' = open \cup {k}
      /\ UNCHANGED <<pf, pending>>

\* The round ends.  The runner's loop runs out; live.py drains its queue
\* with the same book_at, so that a ready taker is not resolved here either.
Close ==
  /\ phase = "idle"
  /\ now = MaxTime
  /\ phase' = "closed"
  /\ now' = MaxTime + setup.delay
  /\ UNCHANGED <<setup, view, toReview, book>>

Next ==
  \/ Begin
  \/ \E i \in OrderIds : ResolveTaker(i)
  \/ ResolveRaises
  \/ ResolveDone
  \/ \E i \in OrderIds : Hold(i) \/ Expire(i) \/ Cancel(i) \/ Reprice(i)
  \/ ReviewDone
  \/ Wait
  \/ \E side \in Sides :
       \/ \E purpose \in Purposes : SubmitTaker(side, purpose)
       \/ SubmitMaker(side)
  \/ Close

Spec == Init /\ [][Next]_vars

-----------------------------------------------------------------------------

TypeOK ==
  /\ pf \in Portfolio /\ setup \in Setups
  /\ order \in [OrderIds -> Order \cup {Unsubmitted}]
  /\ seq \in 0..MaxOrders
  /\ pending \subseteq 1..seq /\ open \subseteq 1..seq /\ toReview \subseteq open
  /\ \A i \in OrderIds : order[i] \in Order <=> i <= seq
  /\ now \in Nat
  /\ phase \in {"idle", "resolve", "review", "dispatch", "closed"}
  /\ view \in View

(***************************************************************************)
(* The session keeps the promise of RiskLedger: every change of the        *)
(* portfolio is the bounded fill of an order the risk view admitted, and   *)
(* every active order was admitted against all the others.                 *)
(***************************************************************************)
SessionOffers ==
  [side : Sides, qty : MinShares..PositionLimit,
   cost : {q * c : q \in MinShares..PositionLimit,
           c \in Prices \cup {UnitCost[p] : p \in Prices}}]

Ledger ==
  INSTANCE RiskLedger WITH
    ex <- Exposures(order, Active),
    base <- setup.opening,
    Openings <- {s.opening : s \in Setups},
    Offers <- SessionOffers

ImplementsLedger == Ledger!Spec

(***************************************************************************)
(* While any maker order rests, every fill subset keeps the margin at the  *)
(* configured floor: nothing speculative rests on a breached session, even *)
(* one that started breached and was repaired, so the RISK_BREACH trigger  *)
(* of the supervisor is a second line of defence.                          *)
(***************************************************************************)
RestingOnlyWhileSafe ==
  open # {} =>
    \A S \in SUBSET Active : ScenarioG(pf, Exposures(order, Active), S) >= GMin

(***************************************************************************)
(* An order is tracked as pending or as open exactly while its own state   *)
(* says so: none is forgotten with a fill to come, none lingers in a table *)
(* after it ended.                                                         *)
(***************************************************************************)
TrackedMatchesState ==
  \A i \in 1..seq :
    /\ i \in pending <=> order[i].state = "PENDING_DELAY"
    /\ i \in open <=> order[i].role = "MAKER" /\ order[i].state = "OPEN"

(***************************************************************************)
(* candidates.py: every quantity gets "its OWN hard, risk-safe execution   *)
(* price limit".  Whatever the book turns into before the match, and       *)
(* however much of the order it fills, a taker candidate bought within its *)
(* limit keeps the floor (below it: the margin held) and the spend cap of  *)
(* the portfolio it was sized for, also without the aggregate check.       *)
(***************************************************************************)
LimitsHoldAlone ==
  phase = "dispatch" =>
    \A side \in Sides, asks \in Ladders, worth \in Worths, purpose \in Purposes :
      \A c \in Takers(pf, side, asks, worth, purpose), n \in 0..PositionLimit :
        n <= c.qty =>
          LET after == ApplyFill(pf, side, n, n * UnitCost[c.price])
          IN  G(after) >= Lesser(GMin, G(pf)) /\ after.C <= SpendCap

(***************************************************************************)
(* The confirmed portfolio is the opening one plus the fills of the        *)
(* orders, each counted once.                                              *)
(***************************************************************************)
Filled(side) ==
  Total([i \in OrderIds |-> IF i <= seq /\ order[i].side = side
                            THEN order[i].filled ELSE 0], MaxOrders)

BooksBalance ==
  /\ pf.U = setup.opening.U + Filled("UP")
  /\ pf.D = setup.opening.D + Filled("DOWN")
  /\ pf.C = setup.opening.C + Total([i \in OrderIds |-> IF i <= seq THEN order[i].paid
                                                ELSE 0], MaxOrders)

(***************************************************************************)
(* In the runner, a decision point without a fresh view leaves no order    *)
(* resting on a side whose book it could see, rate limit or not.           *)
(***************************************************************************)
UnsafeViewClearsSeen ==
  setup.caller = "runner" /\ phase = "idle" /\ view.data # "fresh" =>
    \A i \in open : order[i].side \notin view.usable

(***************************************************************************)
(* An order that was canceled or executed never changes again: a late fill *)
(* or cancel cannot touch it and its id is not handed out twice.           *)
(***************************************************************************)
EndedOrdersAreFinal ==
  [][\A i \in OrderIds : order[i] # Unsubmitted /\ i \notin Active =>
                            order'[i] = order[i]]_vars

(***************************************************************************)
(* docs/REAL_RECORDER_ARCHITECTURE.md: when an input is missing or stale,  *)
(* resting orders are reviewed against a stale view, the decision point is *)
(* not skipped.  live.py returns before the review when it has no opening  *)
(* price, no valid features or no model.                                   *)
(***************************************************************************)
BlindPointsReviewed ==
  phase = "idle" /\ view.data # "fresh" =>
    \A i \in open : order[i].side \notin view.usable

(***************************************************************************)
(* live.py: pending takers "must still resolve against the real book at    *)
(* their own matched_ts, or a fill submitted at the last grid point would  *)
(* silently vanish from the portfolio".                                    *)
(***************************************************************************)
DrainedAtClose == phase = "closed" => pending = {}
=============================================================================
