----------------------------- MODULE Projection -----------------------------
(***************************************************************************)
(* replay/projection.py: what project_round makes of the store for one     *)
(* round.  A reference series is the whole capture's, whatever round its   *)
(* events are filed under; the market's events are the round's own, and    *)
(* are what the world says the store has of them.  Their clock is finer:   *)
(* Parts moments to a publication interval.                                *)
(***************************************************************************)
EXTENDS ReferenceCapture

CONSTANTS
  Spot,     \* SPOT_TOPIC
  Parts,    \* moments per interval
  Lookback, \* REFERENCE_LOOKBACK_S, in intervals
  Trailing  \* REFERENCE_TAIL_S

ASSUME ProjectionAssumption ==
  /\ Spot \in Series
  /\ Parts \in Nat \ {0}
  /\ {Lookback, Trailing} \subseteq Nat

Moment(s) == s * Parts

Market(r) == world.market[r]

\* An observation of the settling series that has a value here.  The capture
\* could read it, or could not but it has its exact form, which is preferred.
Observations ==
  {s \in kept[Settling] : s \in heard[Settling] \/ world.unreadable = "exact"}

InLookback(r, s) == Start(r) - Lookback <= s /\ s <= End(r) + Trailing

\* What is no number raises, in the settling series wherever it is.
Raises(r) ==
  /\ world.unreadable = "garbage"
  /\ \/ kept[Settling] \ heard[Settling] # {}
     \/ \E s \in kept[Spot] \ heard[Spot] : InLookback(r, s)

\* p0: the last observation at or before the open.
OpenPick(r) == PickBefore(Observations, Start(r))

P0 == [r \in Rounds |-> LET s == OpenPick(r) IN IF s = None THEN None ELSE world.price[s]]

\* project_round gives a result.  No market parameter has a default, and the
\* time at which they were learned is that of an event.
Projects(r) ==
  /\ Market(r).complete
  /\ ~Raises(r)
  /\ P0[r] # None
  /\ Market(r).found # None

\* MARKET_CONFIG events: the market as it was found, visible from then on,
\* and one more for each change of the tick.  A repetition changes nothing.
WithTick(acc, f) ==
  IF f.type = "tick_size_change" /\ f.source # None /\ f.tick # acc.tick
  THEN [tick |-> f.tick,
        out |-> Append(acc.out, [source |-> f.source, recv |-> f.recv, tick |-> f.tick])]
  ELSE acc

Configs(r) ==
  LET found == [source |-> Market(r).found, recv |-> Market(r).found, tick |-> Market(r).tick]
  IN FoldLeft(WithTick, [tick |-> found.tick, out |-> <<found>>], Market(r).frames).out

\* TWAP and SPOT events.
Twaps(r) == {s \in Observations : InLookback(r, s)}
Spots(r) == {s \in kept[Spot] \cap heard[Spot] : InLookback(r, s)}

\* BOOK_SNAPSHOT and BOOK_DELTA events, of a known side, dated by the venue.
Projected(f) ==
  /\ f.side \in {"UP", "DOWN"} /\ f.source # None
  /\ \/ f.type = "book"
     \/ f.type = "price_change" /\ f.part \in {"bids", "asks"}

Books(r) == SelectSeq(Market(r).frames, Projected)

\* The supervised target, which is no event: the reconstructed outcome, when
\* the venue's is known and the same and no label event says otherwise.
ProjectedLabel(r) ==
  IF /\ rows[r].reported # "none" /\ rows[r].declared # "none"
     /\ rows[r].agrees = "yes" /\ rows[r].declared = rows[r].reported
     /\ labels[r] # NoLabel => labels[r].status = "CONFIRMED"
  THEN rows[r].declared ELSE "none"

=============================================================================
