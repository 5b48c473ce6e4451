-------------------------- MODULE ReferenceCapture --------------------------
(***************************************************************************)
(* What a capture leaves in its store: the reference series of             *)
(* realtime/rtds.py with a gap tracker each, the callbacks of              *)
(* realtime/service.py that turn outages and unreadable frames into        *)
(* control records, and the rows written when a round is finalized and     *)
(* when its outcome is learned later.                                      *)
(*                                                                         *)
(* One step of the clock is one publication interval (1 Hz); source and    *)
(* receive times agree.  Settling is set, the series a round is labelled   *)
(* from, is one of Series.  Whatever is submitted while the recorder's     *)
(* queue is full is dropped and counted.                                   *)
(***************************************************************************)
EXTENDS Integers, Sequences, FiniteSets, SequencesExt

CONSTANTS
  Series,       \* required BTC topics
  Settling,     \* the one the rounds settle on
  NRounds,      \* rounds of the capture
  FirstStart, Length, Lead, Trail, \* their windows
  Tolerance,    \* label_tolerance_s
  StallTimeout, \* _stall_timeout
  Worlds,       \* what the venue may do, see World
  MaxTime       \* bound: the clock

Material == 1   \* MATERIAL_GAP_S, in publication intervals

Rounds == 1..NRounds

Start(r) == FirstStart + (r - 1) * Length

End(r) == Start(r) + Length

RequiredStart(r) == Start(r) - Lead

RequiredEnd(r) == End(r) + Trail

Outcomes == {"UP", "DOWN"}

\* A frame of the market: dated by the venue, if it is, and by its receipt.
Frame == [type : {"book", "price_change", "tick_size_change", "last_trade_price"},
          side : {"UP", "DOWN", "none"}, source : Int, recv : Nat,
          part : {"bids", "asks", "none"}, price : Nat, size : Nat, tick : Nat,
          bids : SUBSET Nat, asks : SUBSET Nat]

\* A market in the store: complete, if its row has every parameter and the
\* fee rate; when it was found, if that event is there; its tick then, and
\* its frames in the order they were received.
MarketLog == [complete : BOOLEAN, found : Int, tick : Nat, frames : Seq(Frame)]

\* price: value of the settling series over time; outcome: what the venue
\* resolves to; early: rounds whose outcome it publishes before they are
\* finalized, of the others it does so afterwards; text: whether a market's
\* own text "agrees" with its declared basis, "contradicts" it, says nothing
\* of it ("silent") or is "absent"; market: what the store has of the round's
\* own market; unreadable: an update without a readable value lacks it
\* ("missing"), has its "exact" form only, or is "garbage"; faults: bound on
\* the faults of series, socket, queue and frames.
World == [price : [0..MaxTime -> Nat], outcome : [Rounds -> Outcomes],
          text : [Rounds -> {"agrees", "contradicts", "silent", "absent"}],
          early : SUBSET Rounds, market : [Rounds -> MarketLog],
          unreadable : {"missing", "exact", "garbage"}, faults : Nat]

ASSUME ReferenceAssumption ==
  /\ Settling \in Series /\ IsFiniteSet(Series)
  /\ {NRounds, Length} \subseteq Nat \ {0}
  /\ {FirstStart, Lead, Trail, Tolerance, StallTimeout, MaxTime} \subseteq Nat
  /\ Lead < FirstStart
  /\ MaxTime >= FirstStart + NRounds * Length + Trail
  /\ Worlds \subseteq World

VARIABLES
  world,
  now,
  phase,    \* capture, stored
  on,       \* series the venue publishes
  socket,   \* state: down, up or silent; first; quiet: last frame of any asset
  gaps,     \* series -> StreamGapTracker: last, start of the open gap
  watched,  \* the series were looked at in this interval
  heard,    \* series -> times of its observations that could be read
  kept,     \* series -> receive times of its observations in the store
  history,  \* series -> receive times of its subscription histories there
  records,  \* the control events in the store, see Record
  mismatched, \* rounds with a failed integrity check in the store
  counters, \* parse: parse_failures, dropped: dropped_events
  full,     \* the recorder's queue is full
  labels,   \* round -> its last label_reconstruction event in the store
  rows,     \* round -> its round_results row
  faults,
  seen      \* history: breaks, backfills, unplaced, hurt, rewritten

vars == <<world, now, phase, on, socket, gaps, watched, heard, kept, history, records,
          mismatched, counters, full, labels, rows, faults, seen>>

None == -1

\* A control record: what it is about, when, and for failures that are
\* attributed at once the rounds they touch.
Record(type, topic, from, to, rounds, placed) ==
  [type |-> type, topic |-> topic, from |-> from, to |-> to,
   rounds |-> rounds, placed |-> placed]

NoLabel == [status |-> "none", agrees |-> "none", reported |-> "none", declared |-> "none"]
NoRow == [reported |-> "none", declared |-> "none", agrees |-> "none",
          start |-> None, metrics |-> <<>>]

\* seen.breaks: when the socket last carried data before it failed, unless
\* history made up for it in the same interval;
\* seen.backfills: when a subscription was answered with history;
\* seen.unplaced: a failure was counted that no record in the store places;
\* seen.hurt: rounds a failure belongs to; seen.rewritten: rounds resolved
\* from the store.
Init ==
  /\ world \in Worlds
  /\ now = 0 /\ phase = "capture"
  /\ on = Series
  /\ socket = [state |-> "down", first |-> TRUE, quiet |-> 0]
  /\ gaps = [t \in Series |-> [last |-> None, start |-> None]]
  /\ watched = TRUE
  /\ heard = [t \in Series |-> {}] /\ kept = heard /\ history = heard
  /\ records = <<>>
  /\ mismatched = {}
  /\ counters = [parse |-> 0, dropped |-> 0]
  /\ full = FALSE
  /\ labels = [r \in Rounds |-> NoLabel]
  /\ rows = [r \in Rounds |-> NoRow]
  /\ faults = 0
  /\ seen = [breaks |-> {}, backfills |-> {}, unplaced |-> FALSE,
             hurt |-> {}, rewritten |-> {}]

Finalized(r) == rows[r] # NoRow

stored == <<labels, rows>>
feed == <<on, socket, gaps, watched>>
log == <<heard, kept, history, records, mismatched, counters, full>>

-----------------------------------------------------------------------------
(***************************************************************************)
(* Attribution.                                                            *)
(***************************************************************************)

\* Mutant: a failure is put to the account of every round.
EveryRound(from, to) == Rounds

\* RoundWindow.overlaps: the required window, not the trading window.
RoundsOver(from, to) ==
  {r \in Rounds : from <= RequiredEnd(r) /\ to >= RequiredStart(r)}

\* attribute_gap on a reference series: every round whose window it overlaps.
GapRecord(t, from, to) == Record("data_gap", t, from, to, RoundsOver(from, to), TRUE)

\* attribute_failure on the reference stream: GLOBAL_WINDOW at that time.
FailureRecord(at) == Record("parse_failure", "", at, at, RoundsOver(at, at), TRUE)

\* A frame of the market stream: EXACT when it names a token, whoever owns
\* it; UNATTRIBUTED when it names nothing.
NamedRecord(at, rounds) == Record("parse_failure", "", at, at, rounds, TRUE)
NamelessRecord(at) == Record("parse_failure", "", at, at, RoundsOver(at, at), FALSE)

\* A control event with a time only: reconnect, stream_stalled, topic_stalled.
Notice(type, t, at) == Record(type, t, at, at, {}, TRUE)

-----------------------------------------------------------------------------
(***************************************************************************)
(* recorder.submit, for control events and observations.                   *)
(***************************************************************************)

\* new: control events submitted, nObs: observations, parse: failures
\* counted, ahead of what is submitted for them.
Submitted(new, nObs, parse) ==
  /\ records' = IF full THEN records ELSE records \o new
  /\ counters' = [parse |-> counters.parse + parse,
                  dropped |-> IF full THEN counters.dropped + Len(new) + nObs
                              ELSE counters.dropped]

\* The failures among them befall the rounds of H.
Befallen(H, parse) ==
  [seen EXCEPT !.hurt = @ \cup H, !.unplaced = @ \/ (full /\ parse > 0)]

InWindow(at) == {r \in Rounds : at \in RequiredStart(r)..RequiredEnd(r)}

-----------------------------------------------------------------------------
(***************************************************************************)
(* The reader of the reference stream.                                     *)
(***************************************************************************)

\* Series an observation of which reaches the reader now.
Arriving == IF socket.state = "up" THEN on ELSE {}

NoteData(g, at) == [last |-> at, start |-> None]

\* Mutant: an outage starts when it is noticed.
BeginNow(g, at) == IF g.start # None THEN g ELSE [g EXCEPT !.start = at]

Begin(g, at) ==
  IF g.start # None THEN g
  ELSE [g EXCEPT !.start = IF g.last # None THEN g.last ELSE at]

\* The time goes on by one publication interval and each series that is
\* published is read: the gap of this series closes, and is recorded if it
\* is material.  An update that cannot be read is a parse failure and closes
\* no gap; its event is kept if only its value is unreadable, not if it has
\* no source timestamp.
Second ==
  /\ phase = "capture" /\ watched /\ now < MaxTime
  /\ \E r \in Rounds : ~Finalized(r)
  /\ LET at == now + 1 IN
       \E bad \in {{}} \cup {{t} : t \in Arriving} : \E undated \in SUBSET bad :
         LET good == Arriving \ bad
             events == Arriving \ undated
             over == {t \in good : gaps[t].start # None /\ at - gaps[t].start > Material}
             new == SetToSeq({GapRecord(t, gaps[t].start, at) : t \in over})
                      \o SetToSeq({FailureRecord(at) : t \in bad})
         IN /\ bad # {} => faults < world.faults
            /\ faults' = faults + Cardinality(bad)
            /\ now' = at
            /\ gaps' = [t \in Series |-> IF t \in good THEN NoteData(gaps[t], at) ELSE gaps[t]]
            /\ heard' = [t \in Series |-> IF t \in good THEN heard[t] \cup {at} ELSE heard[t]]
            /\ kept' = [t \in Series |-> IF t \in events /\ ~full THEN kept[t] \cup {at} ELSE kept[t]]
            /\ Submitted(new, Cardinality(events), Cardinality(bad))
            /\ seen' = Befallen(IF bad = {} THEN {} ELSE InWindow(at), Cardinality(bad))
            /\ socket' = IF socket.state = "up" THEN [socket EXCEPT !.quiet = at] ELSE socket
  /\ watched' = (socket.state = "down")
  /\ full' = FALSE
  /\ UNCHANGED <<world, phase, on, history, mismatched, stored>>

Silent(t) == gaps[t].last # None /\ gaps[t].start = None /\ now - gaps[t].last > StallTimeout

\* _check_topic_liveness, and the watchdog of the socket, which opens the
\* gap of every series and gives the socket up.
Watch ==
  /\ phase = "capture" /\ ~watched
  /\ watched' = TRUE
  /\ LET stale == {t \in Series : Silent(t)}
         dead == now - socket.quiet > StallTimeout
         new == SetToSeq({Notice("topic_stalled", t, now) : t \in stale})
                  \o (IF dead THEN <<Notice("stream_stalled", "", now)>> ELSE <<>>)
     IN /\ gaps' = [t \in Series |-> IF t \in stale \/ dead THEN Begin(gaps[t], now) ELSE gaps[t]]
        /\ socket' = IF dead THEN [socket EXCEPT !.state = "down"] ELSE socket
        /\ Submitted(new, 0, 0)
        /\ seen' = IF dead THEN [seen EXCEPT !.breaks = @ \cup {socket.quiet}] ELSE seen
  /\ UNCHANGED <<world, now, phase, on, heard, kept, history, mismatched, full, stored, faults>>

\* A connection that comes up is a "reconnect" unless it is the first, and
\* dates the series that never published; the venue may answer the
\* subscription with history, whose events are kept and close no gap.
Connect ==
  /\ phase = "capture" /\ socket.state = "down"
  /\ socket' = [state |-> "up", first |-> FALSE, quiet |-> now]
  /\ LET new == IF socket.first THEN <<>> ELSE <<Notice("reconnect", "", now)>> IN
       \E back \in {{}, on} :
         /\ Submitted(new, Cardinality(back), 0)
         /\ seen' = IF back # {}
                    THEN [seen EXCEPT !.backfills = @ \cup {now}, !.breaks = @ \ {now}]
                    ELSE seen
         /\ history' = [t \in Series |-> IF t \in back /\ ~full THEN history[t] \cup {now} ELSE history[t]]
  /\ gaps' = [t \in Series |-> IF gaps[t].last = None THEN [gaps[t] EXCEPT !.last = now] ELSE gaps[t]]
  /\ watched' = TRUE
  /\ UNCHANGED <<world, now, phase, on, heard, kept, mismatched, full, stored, faults>>

-----------------------------------------------------------------------------
(***************************************************************************)
(* Faults.                                                                 *)
(***************************************************************************)

Fault == phase = "capture" /\ watched /\ faults < world.faults /\ faults' = faults + 1

\* The socket raises, or an attempt to open it: a connection-wide parse
\* failure, and no outage until the reader is back.  A connection lasts
\* until the next interval.
Break ==
  /\ Fault
  /\ \/ socket.state = "down"
     \/ socket.state = "up" /\ now \notin seen.backfills
  /\ socket' = [socket EXCEPT !.state = "down"]
  /\ Submitted(<<FailureRecord(now)>>, 0, 1)
  /\ seen' = [Befallen(InWindow(now), 1) EXCEPT
                !.breaks = IF socket.state = "up" THEN @ \cup {socket.quiet} ELSE @]
  /\ UNCHANGED <<world, now, phase, on, gaps, watched, heard, kept, history, mismatched, full, stored>>

\* It stops delivering and never raises.
FallSilent ==
  /\ Fault
  /\ socket.state = "up"
  /\ socket' = [socket EXCEPT !.state = "silent"]
  /\ UNCHANGED <<world, now, phase, on, gaps, watched, log, stored, seen>>

Stops(t) ==
  /\ Fault
  /\ t \in on
  /\ on' = on \ {t}
  /\ UNCHANGED <<world, now, phase, socket, gaps, watched, log, stored, seen>>

Resumes(t) ==
  /\ phase = "capture" /\ watched /\ t \notin on
  /\ on' = on \cup {t}
  /\ UNCHANGED <<world, now, phase, socket, gaps, watched, log, stored, faults, seen>>

QueueFills ==
  /\ phase = "capture" /\ faults < world.faults /\ faults' = faults + 1
  /\ ~full
  /\ full' = TRUE
  /\ UNCHANGED <<world, now, phase, feed, heard, kept, history, records, mismatched, counters, stored, seen>>

\* A frame of the market stream that cannot be read.
FrameFails ==
  /\ Fault
  /\ \/ \E rounds \in {{}} \cup {{r} : r \in Rounds} :
          /\ Submitted(<<NamedRecord(now, rounds)>>, 0, 1)
          /\ seen' = Befallen(rounds, 1)
     \/ /\ Submitted(<<NamelessRecord(now)>>, 0, 1)
        /\ seen' = [seen EXCEPT !.unplaced = TRUE]
  /\ UNCHANGED <<world, now, phase, feed, heard, kept, history, mismatched, full, stored>>

\* _maybe_check_integrity: a book of the round in play differs from REST.
IntegrityFails(r) ==
  /\ Fault
  /\ Start(r) <= now /\ now < End(r)
  /\ mismatched' = IF full THEN mismatched ELSE mismatched \cup {r}
  /\ counters' = IF full THEN [counters EXCEPT !.dropped = @ + 1] ELSE counters
  /\ seen' = Befallen({r}, 0)
  /\ UNCHANGED <<world, now, phase, feed, heard, kept, history, records, full, stored>>

-----------------------------------------------------------------------------
(***************************************************************************)
(* The rows of a round.                                                    *)
(***************************************************************************)

Largest(S) == CHOOSE x \in S : \A y \in S : x >= y
Smallest(S) == CHOOSE x \in S : \A y \in S : x <= y

\* _pick, at or before the boundary, and at or after it: the nearest
\* observation on that side, if it is near enough.
PickBefore(S, boundary) == LET B == {s \in S : s <= boundary} IN IF B = {} THEN None ELSE Largest(B)
PickAfter(S, boundary) == LET A == {s \in S : s >= boundary} IN IF A = {} THEN None ELSE Smallest(A)

StartPick(r) == PickBefore(heard[Settling], Start(r))
EndPick(r) == PickAfter(heard[Settling], End(r))

\* reconstruct_basis: UP when the end is not below the start.
Declared(r) ==
  IF StartPick(r) = None \/ EndPick(r) = None THEN "none"
  ELSE IF Start(r) - StartPick(r) > Tolerance \/ EndPick(r) - End(r) > Tolerance THEN "none"
  ELSE IF world.price[EndPick(r)] >= world.price[StartPick(r)] THEN "UP" ELSE "DOWN"

Agreement(declared, reported) ==
  IF "none" \in {declared, reported} THEN "none"
  ELSE IF declared = reported THEN "yes" ELSE "no"

\* LabelReconstruction.status.
Status(declared, reported, textAgrees) ==
  CASE Agreement(declared, reported) = "none" -> "UNRESOLVED"
    [] Agreement(declared, reported) = "no" -> "LABEL_AMBIGUOUS"
    [] OTHER -> IF textAgrees = "no" THEN "LABEL_AMBIGUOUS" ELSE "CONFIRMED"

\* declared_basis_matches_rule_text: no evidence is no disagreement.
TextAgrees(r) ==
  CASE world.text[r] = "agrees" -> "yes"
    [] world.text[r] = "contradicts" -> "no"
    [] OTHER -> "none"

Row(r, declared, reported, metrics) ==
  [reported |-> reported, declared |-> declared,
   agrees |-> Agreement(declared, reported),
   start |-> IF declared = "none" THEN None ELSE world.price[StartPick(r)],
   metrics |-> metrics]

Label(declared, reported, textAgrees) ==
  [status |-> Status(declared, reported, textAgrees),
   agrees |-> Agreement(declared, reported),
   reported |-> reported, declared |-> declared]

\* _finalize of the rounds in R.
FinalizeAll(R) ==
  LET known(r) == IF r \in world.early /\ now >= End(r) THEN world.outcome[r] ELSE "none"
      lost == IF full THEN Cardinality(R) ELSE 0 IN
    /\ labels' = [r \in Rounds |->
         IF r \in R /\ ~full THEN Label(Declared(r), known(r), TextAgrees(r)) ELSE labels[r]]
    /\ counters' = [counters EXCEPT !.dropped = @ + lost]
    /\ rows' = [r \in Rounds |->
         IF r \in R THEN Row(r, Declared(r), known(r),
                             <<counters.parse, counters.dropped + lost>>)
         ELSE rows[r]]

Finalize(r) ==
  /\ phase = "capture" /\ watched /\ ~Finalized(r) /\ now >= RequiredEnd(r)
  /\ FinalizeAll({r})
  /\ UNCHANGED <<world, now, phase, feed, heard, kept, history, records, mismatched, full, faults, seen>>

\* Ctrl-C: what is not finalized is finalized now.
Interrupt ==
  /\ Fault
  /\ LET R == {r \in Rounds : ~Finalized(r)} IN
       /\ R # {}
       /\ FinalizeAll(R)
  /\ UNCHANGED <<world, now, phase, feed, heard, kept, history, records, mismatched, full, seen>>

\* The process dies: what it had finalized is in the store.
Die ==
  /\ Fault
  /\ phase' = "stored"
  /\ UNCHANGED <<world, now, feed, log, stored, seen>>

\* When every round is finalized the streams stop, whatever gap is open, and
\* resolve_pending waits for outcomes as long as it may: the rounds in K get
\* theirs.  _apply_resolution compares anew, without the market's text.
Sweep ==
  /\ phase = "capture" /\ \A r \in Rounds : Finalized(r)
  /\ phase' = "stored"
  /\ \E K \in SUBSET {r \in Rounds : rows[r].reported = "none"} :
       /\ labels' = [r \in Rounds |->
            IF r \in K THEN Label(rows[r].declared, world.outcome[r], "none") ELSE labels[r]]
       /\ rows' = [r \in Rounds |->
            IF r \in K
            THEN [rows[r] EXCEPT !.reported = world.outcome[r],
                                 !.agrees = Agreement(rows[r].declared, world.outcome[r]),
                                 !.metrics = <<counters.parse, counters.dropped>>]
            ELSE rows[r]]
  /\ UNCHANGED <<world, now, feed, log, faults, seen>>

\* resolve_from_store, on the rounds whose stored label knows no outcome: a
\* new row takes the place of the old one, without the session's counters.
ResolveStored ==
  /\ phase = "stored"
  /\ LET K == {r \in Rounds : labels[r] # NoLabel /\ labels[r].reported = "none"} \ seen.rewritten IN
       /\ K # {}
       /\ rows' = [r \in Rounds |->
            IF r \in K
            THEN [rows[r] EXCEPT !.reported = world.outcome[r],
                                 !.declared = labels[r].declared,
                                 !.agrees = Agreement(labels[r].declared, world.outcome[r]),
                                 !.metrics = <<0, 0>>]
            ELSE rows[r]]
       /\ seen' = [seen EXCEPT !.rewritten = @ \cup K]
  /\ UNCHANGED <<world, now, phase, feed, log, labels, faults>>

Next ==
  \/ Second \/ Watch \/ Connect
  \/ Break \/ FallSilent \/ QueueFills \/ FrameFails
  \/ \E t \in Series : Stops(t) \/ Resumes(t)
  \/ \E r \in Rounds : IntegrityFails(r) \/ Finalize(r)
  \/ Interrupt \/ Die \/ Sweep \/ ResolveStored

Spec == Init /\ [][Next]_vars

=============================================================================
