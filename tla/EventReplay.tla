----------------------------- MODULE EventReplay -----------------------------
(***************************************************************************)
(* The event store's deterministic order (events/types.py, events/store.py)*)
(* and the replay of one side of a book through a moving cursor            *)
(* (replay/feeds.py).                                                      *)
(*                                                                         *)
(* Events are numbered in the order they were appended.  An event happened *)
(* at src and arrived at recv; it may overtake another one on the wire, as *)
(* the REST snapshot of a book does when deltas arrive while it is asked   *)
(* for.  A cursor is opened on the events so far and gates on either time. *)
(***************************************************************************)
EXTENDS Ordering, Sequences

CONSTANTS
  Prices,     \* prices of the book's levels
  Orders,     \* own orders
  Offers,     \* events that may be appended
  MaxEvents,  \* bound: length of the log
  MaxTime     \* bound: the cursor's time

\* The levels of a book: BOOK_SNAPSHOT carries all of them, BOOK_DELTA one
\* price with its size.
IsBook(levels) ==
  DOMAIN levels \subseteq Prices /\ levels \in [DOMAIN levels -> Nat \ {0}]
\* FILL stands for the three reactions to an order.
Kinds == {"BOOK_SNAPSHOT", "BOOK_DELTA", "ORDER_SUBMIT", "FILL"}

ASSUME ReplayAssumption ==
  /\ MaxEvents \in Nat /\ MaxTime \in Nat
  /\ \A e \in Offers :
       /\ e.kind \in Kinds
       /\ e.recv \in Nat /\ e.src \in 0..e.recv
       /\ e.kind = "BOOK_SNAPSHOT" => IsBook(e.levels)
       /\ e.kind = "BOOK_DELTA" => e.price \in Prices /\ e.size \in Nat
       /\ e.kind \in {"ORDER_SUBMIT", "FILL"} => e.order \in Orders

Gates == {"event_time", "recv_ts"}

VARIABLES
  log,     \* the store's rows, in the order of their sequence
  gate,    \* the cursor's time_attr, "closed" before it is opened
  now,     \* the cursor's time, -1 for -infinity
  cache,   \* _BookSideCache: levels, processed, at (snapshot_at_idx), snapshot
  answer   \* the last snapshot given: when asked (-1: never yet), the
           \* number of events it covers, the snapshot

vars == <<log, gate, now, cache, answer>>

None == [levels |-> <<>>, ts |-> -1]

-----------------------------------------------------------------------------
(***************************************************************************)
(* Order.                                                                  *)
(***************************************************************************)

Rank(e) ==
  CASE e.kind \in {"BOOK_SNAPSHOT", "BOOK_DELTA"} -> 1
    [] e.kind = "ORDER_SUBMIT" -> 2
    [] e.kind = "FILL" -> 3

\* sort_key: event time, rank, receive time, sequence.
Before(i, j) ==
  LET a == log[i]
      b == log[j]
  IN  \/ a.src < b.src
      \/ a.src = b.src /\ Rank(a) < Rank(b)
      \/ a.src = b.src /\ Rank(a) = Rank(b) /\ a.recv < b.recv
      \/ a.src = b.src /\ Rank(a) = Rank(b) /\ a.recv = b.recv /\ i < j

Index(i) == Cardinality({j \in DOMAIN log : Before(j, i)})

\* Events of order o of one kind.
Of(o, kind) ==
  {i \in DOMAIN log : log[i].kind = kind /\ log[i].order = o}

Earliest(S) == CHOOSE i \in S : \A j \in S \ {i} : Before(i, j)

\* An order's first submit is displaced when a reaction sorts before it.
Displaced(i) ==
  /\ log[i].kind = "ORDER_SUBMIT"
  /\ i = Earliest(Of(log[i].order, "ORDER_SUBMIT"))
  /\ \E j \in Of(log[i].order, "FILL") : Before(j, i)

\* Mutant: the timestamps are taken at their word.
SlotUnrepaired(i) == 2 * Index(i)

\* Mutant: a displaced submit goes to the front of the round.
SlotFirst(i) == IF Displaced(i) THEN -1 - Index(i) ELSE 2 * Index(i)

\* A displaced submit goes right before the earliest reaction.
Slot(i) ==
  IF Displaced(i) THEN 2 * Index(Earliest(Of(log[i].order, "FILL"))) - 1
  ELSE 2 * Index(i)

CausalSort ==
  InOrder(DOMAIN log, {w \in (DOMAIN log) \X (DOMAIN log) : Slot(w[1]) < Slot(w[2])})

-----------------------------------------------------------------------------
(***************************************************************************)
(* The cursor and the book feed.                                           *)
(***************************************************************************)

BookEvents == {i \in DOMAIN log : log[i].kind \in {"BOOK_SNAPSHOT", "BOOK_DELTA"}}

Merged == InOrder(BookEvents, {w \in BookEvents \X BookEvents : Before(w[1], w[2])})

TimeOf(i) == IF gate = "recv_ts" THEN log[i].recv ELSE log[i].src

\* Mutant: bisect_left.
NarrowedLeft(w, seq, t) ==
  LET mid == (w.lo + w.hi) \div 2
  IN  IF w.lo >= w.hi THEN w
      ELSE IF t <= TimeOf(seq[mid + 1]) THEN [w EXCEPT !.hi = mid]
      ELSE [w EXCEPT !.lo = mid + 1]

\* One turn of bisect_right: what it looks for is in lo..hi.
Narrowed(w, seq, t) ==
  LET mid == (w.lo + w.hi) \div 2
  IN  IF w.lo >= w.hi THEN w
      ELSE IF t < TimeOf(seq[mid + 1]) THEN [w EXCEPT !.hi = mid]
      ELSE [w EXCEPT !.lo = mid + 1]

\* bisect_right on the times of seq: how many of its events the cursor's
\* time has reached, if the times ascend.  No more turns than events.
Bisect(seq, t) ==
  LET window[k \in 0..Len(seq)] ==
        IF k = 0 THEN [lo |-> 0, hi |-> Len(seq)]
        ELSE Narrowed(window[k - 1], seq, t)
  IN  window[Len(seq)].lo

\* Mutant: a level of size zero stays in the book.
ApplyKeeping(levels, e) ==
  IF e.kind = "BOOK_SNAPSHOT" THEN e.levels
  ELSE [p \in DOMAIN levels \cup {e.price} |->
          IF p = e.price THEN e.size ELSE levels[p]]

\* A snapshot replaces the levels, a delta sets or removes one.
Apply(levels, e) ==
  IF e.kind = "BOOK_SNAPSHOT" THEN e.levels
  ELSE [p \in IF e.size = 0 THEN DOMAIN levels \ {e.price}
              ELSE DOMAIN levels \cup {e.price} |->
          IF p = e.price THEN e.size ELSE levels[p]]

\* The levels after the events m + 1 to n of seq.
Applied(levels, seq, m, n) ==
  LET after[k \in m..n] ==
        IF k = m THEN levels ELSE Apply(after[k - 1], log[seq[k]])
  IN  after[n]

Empty == [levels |-> <<>>, processed |-> 0, at |-> -1, snapshot |-> None]

\* Mutant: the levels are left as they are.
RewoundInPlace(idx) ==
  IF idx < cache.processed THEN [cache EXCEPT !.processed = 0, !.at = -1] ELSE cache

\* A cursor that moved backward makes the feed start over.
Rewound(idx) ==
  IF idx < cache.processed
  THEN [cache EXCEPT !.levels = <<>>, !.processed = 0, !.at = -1]
  ELSE cache

Init ==
  /\ log = <<>>
  /\ gate = "closed"
  /\ now = -1
  /\ cache = Empty
  /\ answer = [at |-> -1, idx |-> 0, snapshot |-> None]

\* append: the round is written, or grows, before it is replayed.
Record(e) ==
  /\ gate = "closed"
  /\ Len(log) < MaxEvents
  /\ log' = Append(log, e)
  /\ UNCHANGED <<gate, now, cache, answer>>

Open(g) ==
  /\ gate = "closed"
  /\ gate' = g
  /\ UNCHANGED <<log, now, cache, answer>>

\* advance_to, which accepts any time.
AdvanceTo(t) ==
  /\ gate # "closed"
  /\ now' = t
  /\ UNCHANGED <<log, gate, cache, answer>>

GetSnapshot ==
  LET seq == Merged
      idx == Bisect(seq, now)
      old == Rewound(idx)
      levels == Applied(old.levels, seq, old.processed, idx)
      snapshot == [levels |-> levels, ts |-> log[seq[idx]].src]
  IN  /\ gate # "closed"
      /\ \/ /\ idx = 0
            /\ answer' = [at |-> now, idx |-> 0, snapshot |-> None]
            /\ UNCHANGED cache
         \/ /\ idx > 0
            /\ idx = old.at
            /\ cache' = old
            /\ answer' = [at |-> now, idx |-> idx, snapshot |-> old.snapshot]
         \/ /\ idx > 0
            /\ idx # old.at
            /\ cache' = [levels |-> levels, processed |-> idx, at |-> idx,
                         snapshot |-> snapshot]
            /\ answer' = [at |-> now, idx |-> idx, snapshot |-> snapshot]
      /\ UNCHANGED <<log, gate, now>>

Next ==
  \/ \E e \in Offers : Record(e)
  \/ \E g \in Gates : Open(g)
  \/ \E t \in 0..MaxTime : AdvanceTo(t)
  \/ GetSnapshot

Spec == Init /\ [][Next]_vars

-----------------------------------------------------------------------------

TypeOK ==
  /\ log \in Seq(Offers) /\ Len(log) <= MaxEvents
  /\ gate \in Gates \cup {"closed"}
  /\ now \in -1..MaxTime
  /\ IsBook(cache.levels)
  /\ cache.processed \in 0..Cardinality(BookEvents)
  /\ cache.at \in {-1, cache.processed}
  /\ answer.idx \in 0..Cardinality(BookEvents)

(***************************************************************************)
(* causal_sort: no reaction to an order comes before the order's submit,   *)
(* whatever the venue's timestamps say.                                    *)
(***************************************************************************)
SubmitComesFirst ==
  LET sorted == CausalSort
      At(n, kind, o) == log[sorted[n]].kind = kind /\ log[sorted[n]].order = o
  IN  \A o \in Orders, m, n \in DOMAIN sorted :
        At(m, "FILL", o) /\ At(n, "ORDER_SUBMIT", o) =>
          \E k \in 1..(m - 1) : At(k, "ORDER_SUBMIT", o)

(***************************************************************************)
(* causal_sort: everything but a displaced submit keeps the order of the   *)
(* sort key, and a displaced one comes right before the reaction it was    *)
(* moved for: behind just what that reaction was behind.                   *)
(***************************************************************************)
OthersKeepOrder ==
  LET sorted == CausalSort
  IN  \A m, n \in DOMAIN sorted :
        LET i == sorted[m]
            j == sorted[n]
        IN  ~Displaced(j) =>
              /\ m < n /\ ~Displaced(i) => Before(i, j)
              /\ Displaced(i) =>
                   (n < m <=> \A f \in Of(log[i].order, "FILL") : Before(j, f))

(***************************************************************************)
(* The incremental cache never shows: a snapshot is the book one would     *)
(* rebuild from nothing, however the cursor moved before.                  *)
(***************************************************************************)
CacheIsTransparent ==
  answer.idx > 0 =>
    LET seq == Merged
    IN  answer.snapshot = [levels |-> Applied(<<>>, seq, 0, answer.idx),
                           ts |-> log[seq[answer.idx]].src]

InSourceOrder ==
  \A i, j \in BookEvents : Before(i, j) => log[i].recv <= log[j].recv

(***************************************************************************)
(* A snapshot covers exactly the events the cursor's time has reached,     *)
(* when it gates on event time or nothing overtook on the wire.            *)
(***************************************************************************)
PrefixIsExact ==
  answer.at >= 0 /\ (gate = "event_time" \/ InSourceOrder) =>
    LET seq == Merged
    IN  \A n \in DOMAIN seq : n <= answer.idx <=> TimeOf(seq[n]) <= answer.at

(***************************************************************************)
(* feeds.py: with the recv_ts gate, "a real system can only ever act on    *)
(* data it has actually received over the wire".  The receive times that   *)
(* are bisected follow the order of the source times, not their own.       *)
(***************************************************************************)
OnlyReceivedEvents ==
  gate = "recv_ts" =>
    \A n \in 1..answer.idx : log[Merged[n]].recv <= answer.at
=============================================================================
