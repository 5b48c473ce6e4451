---------------------------- MODULE TrainingSet ----------------------------
(***************************************************************************)
(* What is learned from a capture: model/gate_a.py projects the rounds     *)
(* that are eligible, features/engine.py computes the features of each     *)
(* decision point from what had been received, and model/real_dataset.py   *)
(* makes examples of the valid ones and splits them in time.               *)
(***************************************************************************)
EXTENDS CaptureAudit, Ordering

CONSTANTS
  Grid,       \* decision_grid, in moments after the open
  Freshness,  \* freshness_s
  VolWindow, VolSamples, \* of the realized volatility
  Horizon,    \* canonical_horizon_s
  TrainPercent, CalibratePercent

ASSUME TrainingAssumption ==
  /\ Grid \subseteq 0..(Length * Parts)
  /\ {Freshness, VolWindow, VolSamples, Horizon, TrainPercent, CalibratePercent} \subseteq Nat
  /\ TrainPercent + CalibratePercent <= 100

-----------------------------------------------------------------------------
(***************************************************************************)
(* features/engine.py.                                                     *)
(***************************************************************************)

\* visible_events and the filter of compute: received, and about the past.
Visible(f, d) == f.recv <= d /\ f.source <= d

\* _value_at_or_before.
LastBy(S, d) == LET B == {s \in S : Moment(s) <= d} IN IF B = {} THEN None ELSE Largest(B)

\* A side of the book after a delta.
WithLevel(levels, f, part) ==
  IF f.part # part THEN levels
  ELSE IF f.size = 0 THEN levels \ {f.price} ELSE levels \cup {f.price}

\* _book_timeseries, of UP: a point whenever both sides have a level.
WithBook(acc, f) ==
  LET bids == IF f.type = "book" THEN f.bids ELSE WithLevel(acc.bids, f, "bids")
      asks == IF f.type = "book" THEN f.asks ELSE WithLevel(acc.asks, f, "asks")
  IN [bids |-> bids, asks |-> asks,
      points |-> IF bids # {} /\ asks # {} THEN acc.points \cup {f.source} ELSE acc.points]

BookPoints(r, d) ==
  LET up(f) == f.side = "UP" /\ Visible(f, d)
      before(f, g) == f.source < g.source \/ (f.source = g.source /\ f.recv < g.recv)
  IN FoldLeft(WithBook, [bids |-> {}, asks |-> {}, points |-> {}],
              SortSeq(SelectSeq(Books(r), up), before)).points

Stale(at, d) == d - at > Freshness

\* compute, and design_vector on what it returns.
Validity(r, d) ==
  LET spot == LastBy(Spots(r), d)
      twap == LastBy(Twaps(r), d)
      points == BookPoints(r, d)
      window == {s \in Spots(r) : d - VolWindow <= Moment(s) /\ Moment(s) <= d}
  IN CASE \A c \in Range(Configs(r)) : ~Visible(c, d) -> "MISSING_MARKET_CONFIG"
       [] spot = None -> "MISSING_SPOT"
       [] spot # None /\ Stale(Moment(spot), d) -> "STALE_SPOT"
       [] twap = None -> "MISSING_TWAP"
       [] twap # None /\ Stale(Moment(twap), d) -> "STALE_TWAP"
       [] points = {} -> "MISSING_BOOK"
       [] points # {} /\ Stale(Largest(points), d) -> "STALE_BOOK"
       [] Cardinality(window) < VolSamples + 1 -> "INSUFFICIENT_VOLATILITY_HISTORY"
       [] LastBy(Spots(r), d - Horizon) = None -> "design_vector_unavailable"
       [] OTHER -> "valid"

-----------------------------------------------------------------------------
(***************************************************************************)
(* gate_a.py and real_dataset.py.                                          *)
(***************************************************************************)

\* The verdict is derived here, and a round without a label is left out.
Included == {r \in EligibleRounds : ProjectedLabel(r) # "none"}

DecisionAt(r, t) == Moment(Start(r)) + t

ValidPoints(r) == {t \in Grid : t > 0 /\ Validity(r, DecisionAt(r, t)) = "valid"}

\* The examples of a round, which have the weight of one between them.
ExamplesOf(r) ==
  LET valid == ValidPoints(r) IN
    {[round |-> r, at |-> DecisionAt(r, t),
      y |-> ProjectedLabel(r), p0 |-> P0[r],
      spot |-> LastBy(Spots(r), DecisionAt(r, t)),
      twap |-> LastBy(Twaps(r), DecisionAt(r, t)),
      sharedBy |-> Cardinality(valid)] : t \in valid}

Examples == UNION {ExamplesOf(r) : r \in Included}

\* chronological_split: by round, in the order of their first decisions.
Split(E) ==
  LET firstOf(r) == Smallest({e.at : e \in {x \in E : x.round = r}})
      rounds == {e.round : e \in E}
      order == InOrder(rounds, {w \in rounds \X rounds : firstOf(w[1]) < firstOf(w[2])})
      n == Cardinality(rounds)
      nTrain == (n * TrainPercent) \div 100
      nCal == (n * CalibratePercent) \div 100
      part(a, b) == {e \in E : \E k \in a..b : order[k] = e.round}
  IN [train |-> part(1, nTrain),
      calibrate |-> part(nTrain + 1, nTrain + nCal),
      test |-> part(nTrain + nCal + 1, n)]

-----------------------------------------------------------------------------

\* What is learned is the outcome the venue resolved to, of a market that
\* does not contradict its rule, against the very observation the label was
\* compared with and values the capture itself could read; and what it is
\* tested on comes after all it was trained on.
ExamplesAreSound ==
  Over => LET E == Examples IN
    /\ \A e \in E :
         /\ world.text[e.round] # "contradicts"
         /\ e.y = world.outcome[e.round]
         /\ e.p0 = rows[e.round].start
         /\ e.spot \in heard[Spot] /\ e.twap \in heard[Settling]
    /\ \A e \in Split(E).train, f \in Split(E).calibrate \cup Split(E).test :
         DecisionAt(e.round, Length * Parts) <= DecisionAt(f.round, 0)

=============================================================================
