----------------------------- MODULE RawRecorder -----------------------------
(***************************************************************************)
(* realtime/recorder.py: feed threads submit into a bounded queue, one     *)
(* writer thread persists it in batches, the main thread flushes it before *)
(* a round's result is written and stops it at the end of a capture.       *)
(*                                                                         *)
(* An action is one step another thread can observe: each queue operation, *)
(* each read or write of the _drained event, each transaction.             *)
(***************************************************************************)
EXTENDS Integers, FiniteSets, SequencesExt

CONSTANTS
  Feeds,         \* reader threads
  Main,          \* the service's main thread
  Keys,          \* dedupe keys: the distinct observations
  Wires,         \* what the venues may send, see wire
  MaxEvents,     \* bound: events submitted in a session
  QueueMax,      \* queue_maxsize
  BatchSize,     \* batch_size
  DedupeWindow,  \* dedupe_window
  StoreFails     \* may a transaction raise, and roll back (disk full)?

ASSUME RecorderAssumption ==
  /\ Main \notin Feeds
  /\ MaxEvents \in Nat
  /\ Wires \subseteq [1..MaxEvents -> Keys]
  /\ {QueueMax, BatchSize, DedupeWindow} \subseteq Nat \ {0}
  /\ StoreFails \in BOOLEAN

Threads == Feeds \cup {Main}

VARIABLES
  wire,      \* event id -> the dedupe key of what the venue sent
  queue,     \* _queue
  drained,   \* _drained
  stopping,  \* _stop
  attached,  \* _thread is not None
  seen,      \* _dedupe, oldest key first
  stored,    \* rows of the raw store, in the order they were inserted
  metrics,   \* events_received, dropped_events, duplicate_events, ...
  putting,   \* thread -> the event it is about to put, or None
  writer,    \* where the writer thread is
  batch,     \* the batch the writer holds
  lost,      \* history: the events failed transactions rolled back
  main,      \* where the main thread is
  stops,     \* is its flush the one of stop()?
  asked,     \* ids of the events in the recorder when flush was called
  answer     \* what flush returned

shared == <<queue, drained, stopping, attached, seen, stored, metrics>>

control == <<main, stops, asked, answer>>

vars == <<wire, shared, putting, writer, batch, lost, control>>

\* Events are numbered in the order they are received.
Event == 1..MaxEvents

None == 0

Init ==
  /\ wire \in Wires
  /\ queue = <<>> /\ drained = TRUE /\ stopping = FALSE /\ attached = FALSE
  /\ seen = <<>> /\ stored = <<>>
  /\ metrics = [received |-> 0, dropped |-> 0, duplicate |-> 0, persisted |-> 0]
  /\ putting = [t \in Threads |-> None]
  /\ writer = "off" /\ batch = <<>> /\ lost = <<>>
  /\ main = "idle" /\ stops = FALSE /\ asked = {} /\ answer = FALSE

-----------------------------------------------------------------------------
(***************************************************************************)
(* submit, on any thread: the counter, then _drained.clear(), then the     *)
(* put.  The main thread submits between flushes.                          *)
(***************************************************************************)

Clear(t) ==
  /\ putting[t] = None
  /\ t = Main => main = "idle"
  /\ metrics.received < MaxEvents
  /\ metrics' = [metrics EXCEPT !.received = @ + 1]
  /\ putting' = [putting EXCEPT ![t] = metrics'.received]
  /\ drained' = FALSE
  /\ UNCHANGED <<wire, queue, stopping, attached, seen, stored, writer, batch, lost, control>>

\* Mutant: an event that does not fit is forgotten.
PutSilently(t) ==
  /\ putting[t] # None
  /\ putting' = [putting EXCEPT ![t] = None]
  /\ queue' = IF Len(queue) < QueueMax THEN Append(queue, putting[t]) ELSE queue
  /\ UNCHANGED <<wire, metrics, drained, stopping, attached, seen, stored, writer,
                 batch, lost, control>>

Put(t) ==
  /\ putting[t] # None
  /\ putting' = [putting EXCEPT ![t] = None]
  /\ IF Len(queue) < QueueMax
     THEN queue' = Append(queue, putting[t]) /\ UNCHANGED metrics
     ELSE metrics' = [metrics EXCEPT !.dropped = @ + 1] /\ UNCHANGED queue
  /\ UNCHANGED <<wire, drained, stopping, attached, seen, stored, writer, batch, lost, control>>

-----------------------------------------------------------------------------
(***************************************************************************)
(* _persist.                                                               *)
(***************************************************************************)

KeysOf(s) == [i \in DOMAIN s |-> wire[s[i]]]

\* Where s has an event whose key is neither in known nor earlier in s.
NewAt(s, known) ==
  {i \in DOMAIN s : /\ wire[s[i]] \notin known
                    /\ \A j \in DOMAIN s : j < i => wire[s[j]] # wire[s[i]]}

\* Those events, in their order.
Fresh(s, known) ==
  LET at == NewAt(s, known)
      nth == CHOOSE f \in [1..Cardinality(at) -> at] :
               \A m, n \in DOMAIN f : m < n => f[m] < f[n]
  IN  [n \in 1..Cardinality(at) |-> s[nth[n]]]

\* Mutant: no key is ever forgotten.
Untrimmed(keys) == keys

\* Mutant: the newest keys are forgotten instead of the oldest.
TrimmedNewest(keys) == SubSeq(keys, 1, Min({DedupeWindow, Len(keys)}))

\* The newest DedupeWindow keys are remembered.
Trimmed(keys) ==
  SubSeq(keys, Max({1, Len(keys) - DedupeWindow + 1}), Len(keys))

\* Deduplication of s and, if the transaction commits, its rows.  The keys are
\* remembered before the transaction and stay so when it raises.
Persist(s, commits) ==
  LET new  == Fresh(s, ToSet(seen))
      rows == IF commits THEN new ELSE <<>>
  IN  /\ commits \/ (StoreFails /\ new # <<>>)
      /\ seen' = Trimmed(seen \o KeysOf(new))
      /\ stored' = stored \o rows
      /\ lost' = IF commits THEN lost ELSE lost \o new
      /\ metrics' = [metrics EXCEPT !.duplicate = @ + Len(s) - Len(new),
                                    !.persisted = @ + Len(rows)]

-----------------------------------------------------------------------------
(***************************************************************************)
(* _run, on the writer thread.                                             *)
(***************************************************************************)

Start ==
  /\ main = "idle"
  /\ putting[Main] = None
  /\ ~attached
  /\ writer = "off"
  /\ attached' = TRUE
  /\ stopping' = FALSE
  /\ writer' = "head"
  /\ UNCHANGED <<wire, queue, drained, seen, stored, metrics, putting, batch, lost, control>>

\* Mutant: the loop ends on stop, whatever is queued.
GoesOnUntilStop == ~stopping

\* The loop condition.
GoesOn == ~stopping \/ queue # <<>>

LoopHead ==
  /\ writer = "head"
  /\ writer' = IF GoesOn THEN "collect" ELSE "done"
  /\ UNCHANGED <<wire, shared, putting, batch, lost, control>>

\* One get of _collect_batch.
Take ==
  /\ writer = "collect"
  /\ queue # <<>>
  /\ Len(batch) < BatchSize
  /\ batch' = Append(batch, Head(queue))
  /\ queue' = Tail(queue)
  /\ UNCHANGED <<wire, drained, stopping, attached, seen, stored, metrics, putting,
                 writer, lost, control>>

\* The batch is full or the queue had no more; nothing at all is a timeout.
Collected ==
  /\ writer = "collect"
  /\ queue = <<>> \/ Len(batch) = BatchSize
  /\ writer' = IF batch = <<>> THEN "check" ELSE "persist"
  /\ UNCHANGED <<wire, shared, putting, batch, lost, control>>

PersistBatch ==
  /\ writer = "persist"
  /\ Persist(batch, TRUE)
  /\ batch' = <<>>
  /\ writer' = "check"
  /\ UNCHANGED <<wire, queue, drained, stopping, attached, putting, control>>

\* write_batch raises: the thread ends and the batch, a local of it, is gone.
PersistRaises ==
  /\ writer = "persist"
  /\ Persist(batch, FALSE)
  /\ batch' = <<>>
  /\ writer' = "dead"
  /\ UNCHANGED <<wire, queue, drained, stopping, attached, putting, control>>

\* Mutant: an empty queue is not reported.
CheckSilently ==
  /\ writer = "check"
  /\ writer' = "head"
  /\ UNCHANGED <<wire, shared, putting, batch, lost, control>>

\* "if self._queue.empty()", after a batch and after a timeout ...
CheckEmpty ==
  /\ writer = "check"
  /\ writer' = IF queue = <<>> THEN "report" ELSE "head"
  /\ UNCHANGED <<wire, shared, putting, batch, lost, control>>

\* ... "self._drained.set()".
ReportDrained ==
  /\ writer = "report"
  /\ drained' = TRUE
  /\ writer' = "head"
  /\ UNCHANGED <<wire, queue, stopping, attached, seen, stored, metrics, putting,
                 batch, lost, control>>

-----------------------------------------------------------------------------
(***************************************************************************)
(* flush and stop, on the main thread.                                     *)
(***************************************************************************)

CallFlush ==
  /\ main = "idle"
  /\ putting[Main] = None
  /\ main' = IF attached THEN "wait" ELSE "sync"
  /\ stops' \in BOOLEAN
  /\ asked' = ToSet(queue) \cup ToSet(batch)
  /\ UNCHANGED <<wire, shared, putting, writer, batch, lost, answer>>

\* _drained.wait returns true.
Wake ==
  /\ main = "wait"
  /\ drained
  /\ main' = "peek"
  /\ UNCHANGED <<wire, shared, putting, writer, batch, lost, stops, asked, answer>>

Timeout ==
  /\ main = "wait"
  /\ ~drained
  /\ main' = "answered"
  /\ answer' = FALSE
  /\ UNCHANGED <<wire, shared, putting, writer, batch, lost, stops, asked>>

Peek ==
  /\ main = "peek"
  /\ main' = "answered"
  /\ answer' = (queue = <<>>)
  /\ UNCHANGED <<wire, shared, putting, writer, batch, lost, stops, asked>>

\* The next batch, taken by a caller that drains the queue itself.
SyncBatch(commits) ==
  /\ main = "sync"
  /\ queue # <<>>
  /\ LET n == Min({BatchSize, Len(queue)})
     IN  /\ Persist(SubSeq(queue, 1, n), commits)
         /\ queue' = SubSeq(queue, n + 1, Len(queue))

\* Without a writer thread the caller drains the queue itself.
SyncPersist ==
  /\ SyncBatch(TRUE)
  /\ drained' = (drained \/ queue' = <<>>)
  /\ UNCHANGED <<wire, stopping, attached, putting, writer, batch, control>>

\* write_batch raises: the exception leaves flush, or stop.
SyncRaises ==
  /\ SyncBatch(FALSE)
  /\ main' = "idle" /\ asked' = {} /\ stops' = FALSE
  /\ UNCHANGED <<wire, drained, stopping, attached, putting, writer, batch, answer>>

SyncDone ==
  /\ main = "sync"
  /\ queue = <<>>
  /\ main' = "answered"
  /\ answer' = TRUE
  /\ UNCHANGED <<wire, shared, putting, writer, batch, lost, stops, asked>>

\* The caller goes on, whatever flush returned; stop() asks the writer to end
\* and joins it.
Return ==
  /\ main = "answered"
  /\ stopping' = (stopping \/ stops)
  /\ main' = IF stops /\ attached THEN "join" ELSE "idle"
  /\ asked' = {} /\ answer' = FALSE /\ stops' = FALSE
  /\ UNCHANGED <<wire, queue, drained, attached, seen, stored, metrics, putting,
                 writer, batch, lost>>

\* The thread ended, or the join timed out: it is forgotten either way.
Join ==
  /\ main = "join"
  /\ attached' = FALSE
  /\ main' = "idle"
  /\ UNCHANGED <<wire, queue, drained, stopping, seen, stored, metrics, putting,
                 writer, batch, lost, stops, asked, answer>>

-----------------------------------------------------------------------------

WriterStep ==
  \/ LoopHead \/ Take \/ Collected \/ PersistBatch \/ PersistRaises
  \/ CheckEmpty \/ ReportDrained

MainStep ==
  \/ Wake \/ Timeout \/ Peek \/ SyncPersist \/ SyncRaises \/ SyncDone
  \/ Return \/ Join

Next ==
  \/ \E t \in Threads : Clear(t) \/ Put(t)
  \/ Start
  \/ WriterStep
  \/ CallFlush
  \/ MainStep

(***************************************************************************)
(* Threads are scheduled: a submit that began is finished, the writer      *)
(* goes round its loop (get has a timeout), a flush and a join return      *)
(* (both have one).  Nothing makes anyone submit, flush or stop.           *)
(***************************************************************************)
Fairness ==
  /\ \A t \in Threads : WF_vars(Put(t))
  /\ WF_vars(WriterStep)
  /\ WF_vars(MainStep)

Spec == Init /\ [][Next]_vars /\ Fairness

-----------------------------------------------------------------------------

WriterAlive == writer \notin {"off", "done", "dead"}

\* Events that are on their way: queued or in the writer's hands.
InFlight == ToSet(queue) \cup ToSet(batch)

TypeOK ==
  /\ wire \in Wires
  /\ queue \in Seq(Event) /\ Len(queue) <= QueueMax
  /\ batch \in Seq(Event) /\ Len(batch) <= BatchSize
  /\ stored \in Seq(Event) /\ lost \in Seq(Event)
  /\ seen \in Seq(Keys) /\ Len(seen) <= DedupeWindow
  /\ drained \in BOOLEAN /\ stopping \in BOOLEAN /\ attached \in BOOLEAN
  /\ metrics \in [{"received", "dropped", "duplicate", "persisted"}
                    -> 0..MaxEvents]
  /\ putting \in [Threads -> Event \cup {None}]
  /\ writer \in {"off", "head", "collect", "persist", "check", "report",
                 "done", "dead"}
  /\ main \in {"idle", "wait", "peek", "sync", "answered", "join"}
  /\ stops \in BOOLEAN /\ asked \subseteq Event /\ answer \in BOOLEAN

Held == InFlight \cup (Range(putting) \ {None})

\* Every observation received is among those of the events in kept.
HasAll(kept) ==
  \A e \in 1..metrics.received : \E k \in kept : wire[k] = wire[e]

(***************************************************************************)
(* While nothing was dropped, every observation received is in the store,  *)
(* held by the recorder or among the rows a transaction that raised rolled *)
(* back: a duplicate is only discarded next to the copy that was kept.  So *)
(* dropped = 0 stands for a complete capture until a transaction raises;   *)
(* after that it stands for one that lacks what was rolled back and, the   *)
(* writer being dead, what nobody takes out of the queue any more.         *)
(***************************************************************************)
NothingLostUncounted ==
  metrics.dropped = 0 => HasAll(ToSet(stored) \cup Held \cup ToSet(lost))

\* dropped = 0 stands for a complete capture.
Complete ==
  metrics.dropped = 0 => HasAll(ToSet(stored) \cup Held)

(***************************************************************************)
(* Two rows of one observation are further apart than the dedupe window,   *)
(* as long as no transaction was lost between them.                        *)
(***************************************************************************)
DuplicatesFarApart ==
  lost = <<>> => \A i, j \in DOMAIN stored :
    i < j /\ wire[stored[i]] = wire[stored[j]] => j - i > DedupeWindow

(***************************************************************************)
(* The writer does not retire with work queued: what is queued while it    *)
(* lives leaves the queue, unless the store kills it.                      *)
(***************************************************************************)
QueueIsServed ==
  queue # <<>> /\ WriterAlive ~> queue = <<>> \/ writer = "dead"

(***************************************************************************)
(* A flush need not run into its timeout: after a submit the event object  *)
(* is set again as long as the writer lives.                               *)
(***************************************************************************)
DrainedComesBack == ~drained /\ WriterAlive ~> drained \/ ~WriterAlive

(***************************************************************************)
(* flush, beside a running writer: "Blocks until the queue has been        *)
(* drained to the store ... so a round's data is durable before its result *)
(* is written.  Returns True if fully drained."                            *)
(***************************************************************************)
FlushedIsStored ==
  main = "answered" /\ attached /\ answer => asked \cap InFlight = {}
=============================================================================
