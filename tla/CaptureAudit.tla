---------------------------- MODULE CaptureAudit ----------------------------
(***************************************************************************)
(* What may be learned from a capture: realtime/preflight.py reads the     *)
(* store, realtime/continuity.py audits each series in it and              *)
(* eligibility.py puts the verdict together, with a projection of the      *)
(* round.  All of it is a function of the store.                           *)
(***************************************************************************)
EXTENDS Projection

CONSTANT AuditGap  \* DEFAULT_GAP_THRESHOLD_S, in publication intervals

ASSUME AuditAssumption == AuditGap \in Nat /\ Material < AuditGap

-----------------------------------------------------------------------------
(***************************************************************************)
(* preflight.py: the failures of a capture.                                *)
(***************************************************************************)

\* All events of a series count, also the history a subscription is
\* answered with; that comes after what else happens in its interval.
EventsOf(t) == kept[t] \cup history[t]

\* Mutant: an outage is the instant it is noticed at.
AtNotice(n) == [from |-> n.from, to |-> n.from]

\* reconstruct_gap_interval: the last event of the series, or of any, before
\* the notice and the first one after it.
Reconstructed(n) ==
  LET T == IF n.topic # "" THEN {n.topic} ELSE Series
      before == UNION {{e \in kept[t] : e <= n.from} \cup {e \in history[t] : e < n.from} : t \in T}
      after == UNION {{e \in kept[t] : e > n.from} \cup {e \in history[t] : e >= n.from} : t \in T}
  IN [from |-> IF before = {} THEN n.from ELSE Largest(before),
      to |-> IF after = {} THEN n.from ELSE Smallest(after)]

IsNotice(n) == n.type \in {"reconnect", "stream_stalled", "topic_stalled"}

\* structured_failure_events: records come with their rounds; a notice is
\* turned into the outage around it, if that is material and touches none
\* that an earlier notice of the same series was turned into.
WithRecord(acc, n) ==
  LET gap == Reconstructed(n) IN
    IF ~IsNotice(n) THEN [acc EXCEPT !.out = @ \cup {n}]
    ELSE IF \/ gap.to - gap.from <= Material
            \/ \E c \in acc.covered :
                 c.topic = n.topic /\ gap.from <= c.to /\ gap.to >= c.from
         THEN acc
    ELSE [out |-> acc.out \cup {[n EXCEPT !.rounds = RoundsOver(gap.from, gap.to)]},
          covered |-> acc.covered \cup {[topic |-> n.topic, from |-> gap.from, to |-> gap.to]}]

Failures ==
  LET after[k \in 0..Len(records)] ==
        IF k = 0 THEN [out |-> {}, covered |-> {}]
        ELSE WithRecord(after[k - 1], records[k])
  IN  after[Len(records)].out

\* The counters of a session only grow: its total is the greatest of them.
SessionParse == Largest({0} \cup {rows[r].metrics[1] : r \in {r \in Rounds : rows[r].metrics # <<>>}})

Recorded == Cardinality({i \in DOMAIN records : records[i].type = "parse_failure"})

\* Mutant: what was counted and not recorded is let pass.
TrustsRecords == \A i \in DOMAIN records : records[i].placed

\* AttributionSummary.is_complete.
IsComplete ==
  /\ SessionParse <= Recorded
  /\ \A i \in DOMAIN records : records[i].placed

IsGap(n) == n.type # "parse_failure"

Touches(n, r) == n.placed /\ r \in n.rounds

\* affected_rounds_by_kind.
ParseFailed(r) == ~IsComplete \/ \E n \in Failures : Touches(n, r) /\ ~IsGap(n)
GapFound(r) == \E n \in Failures : Touches(n, r) /\ IsGap(n)

-----------------------------------------------------------------------------
(***************************************************************************)
(* continuity.py.                                                          *)
(***************************************************************************)

\* audit_topic: receive times farther apart than the threshold.
AuditGaps(t) ==
  LET E == EventsOf(t)
      next(a) == Smallest({e \in E : e > a})
  IN {<<a, next(a)>> : a \in {a \in E : a # Largest(E) /\ next(a) - a > AuditGap}}

AuditFound(r) == \E t \in Series : \E g \in AuditGaps(t) : r \in RoundsOver(g[1], g[2])

-----------------------------------------------------------------------------
(***************************************************************************)
(* eligibility.py.                                                         *)
(***************************************************************************)

\* evaluate_data_quality; counters are those of the round's own row.
DataValid(r) ==
  /\ rows[r].metrics # <<>>
  /\ rows[r].metrics[2] = 0
  /\ ~ParseFailed(r)
  /\ ~GapFound(r) /\ ~AuditFound(r)
  /\ r \notin mismatched

\* label_fields: the last label event, over it what the result row knows;
\* the status is derived anew when no event has one.
Known(x, y) == IF x # "none" THEN x ELSE y
ReportedOf(r) == Known(rows[r].reported, labels[r].reported)
DeclaredOf(r) == Known(rows[r].declared, labels[r].declared)
AgreesOf(r) == Known(labels[r].agrees, rows[r].agrees)
StatusOf(r) ==
  IF labels[r] # NoLabel THEN labels[r].status
  ELSE Status(DeclaredOf(r), ReportedOf(r), "none")

\* verify_rule_text, from the text in the round's row: silence is no
\* agreement.
RuleText(r) ==
  CASE world.text[r] = "absent" -> "SOURCE_TEXT_UNAVAILABLE"
    [] world.text[r] = "agrees" -> "VERIFIED_TRUE"
    [] OTHER -> "VERIFIED_FALSE"

\* Mutant: the status alone decides.
LabelStatusValid(r) == StatusOf(r) = "CONFIRMED"

\* evaluate_label.
LabelValid(r) ==
  /\ RuleText(r) \in {"VERIFIED_TRUE", "SOURCE_TEXT_UNAVAILABLE"}
  /\ StatusOf(r) = "CONFIRMED"
  /\ DeclaredOf(r) # "none" /\ ReportedOf(r) # "none"
  /\ AgreesOf(r) = "yes"

\* projection_problems: finalized, and events on both sides of the round.
Projectable(r) ==
  /\ Finalized(r)
  /\ kept[Settling] # {}
  /\ Smallest(kept[Settling]) <= Start(r)
  /\ Largest(kept[Settling]) >= End(r)

\* build: three verdicts of their own; that of the projection is only good
\* if one was run.
Gates(r) ==
  [label |-> LabelValid(r), data |-> DataValid(r),
   projection |-> Projectable(r) /\ Projects(r)]

\* RoundEligibility.training_eligible.
Eligible(r) == Gates(r).label /\ Gates(r).projection /\ Gates(r).data

\* evaluate_capture.
EligibleRounds == {r \in Rounds : Eligible(r)}

-----------------------------------------------------------------------------

Over == phase = "stored"

\* The outages of the socket: between the last event of any series before it
\* failed and the first one after, if there are both.
Outages ==
  LET E == UNION {EventsOf(t) : t \in Series}
      bounded == {at \in seen.breaks : /\ \E e \in E : e <= at
                                       /\ \E e \in E : e > at}
  IN {[from |-> Largest({e \in E : e <= at}), to |-> Smallest({e \in E : e > at})] : at \in bounded}

\* An outage that begins with the observation another one ends with: the
\* audit can take it for a part of that one.
Flapping(o) ==
  \E i \in DOMAIN records :
    /\ IsNotice(records[i]) /\ records[i].topic = ""
    /\ LET p == Reconstructed(records[i]) IN p.to = o.from /\ p.to - p.from > Material

\* Every series was observed and read in each interval round r needs, and in
\* those next to them: an outage that ends where the window starts touches it.
Whole(r) ==
  \A s \in (RequiredStart(r) - 1)..(RequiredEnd(r) + 1) :
    s \in 1..now => \A t \in Series : s \in kept[t] \cap heard[t]

\* Sanity of the trackers and counters: an outage starts no later than the
\* data it starts after, and what is recorded was counted.
TypeOK ==
  /\ now \in 0..MaxTime
  /\ phase \in {"capture", "stored"}
  /\ on \subseteq Series
  /\ socket.state \in {"down", "up", "silent"}
  /\ \A t \in Series : gaps[t].last \in None..now /\ gaps[t].start \in None..gaps[t].last
  /\ \A t \in Series : heard[t] \cup kept[t] \cup history[t] \subseteq 0..now
  /\ counters.parse >= Recorded
  /\ faults \in 0..world.faults

\* A round's own failure, or an outage of the socket in its window: not in
\* the window of a neighbour.  Two outages with one observation between them
\* are the exception: preflight.py:179 takes the later one for covered.
Spoiled(r) ==
  \/ r \in seen.hurt
  \/ \E o \in Outages : r \in RoundsOver(o.from, o.to) /\ o.to - o.from > Material /\ ~Flapping(o)

\* The data of a round that something befell is not accepted, if nothing the
\* capture submitted was dropped; also when the outage began before the
\* window or ended after the round was finalized.
CleanRoundsAreWhole ==
  Over /\ counters.dropped = 0 => \A r \in Rounds : Spoiled(r) => ~DataValid(r)

\* No round is condemned for the failures of another one: one that nothing
\* befell and that misses no observation is accepted, as long as every
\* failure was recorded with its place.
CleanRoundsStayClean ==
  Over /\ counters.dropped = 0 /\ ~seen.unplaced => \A r \in Rounds :
    Finalized(r) /\ r \notin seen.hurt /\ Whole(r) => DataValid(r)

\* What the store can still tell of a failure that no record places: a record
\* without a place, or the final count in a row that is as the capture left
\* it.  A row that resolve_from_store wrote anew has no counters.
UnplacedIsKnown ==
  \/ \E i \in DOMAIN records : ~records[i].placed
  \/ \E r \in Rounds \ seen.rewritten : Finalized(r) /\ rows[r].metrics[1] = counters.parse

\* A failure that was counted and that nothing places condemns every round,
\* as long as the store can tell of it: not if every row is older than the
\* last failure, or was rewritten since.
UnplacedCondemnsAll ==
  Over /\ seen.unplaced /\ UnplacedIsKnown => \A r \in Rounds : ~DataValid(r)

=============================================================================
