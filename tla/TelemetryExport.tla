--------------------------- MODULE TelemetryExport ---------------------------
(***************************************************************************)
(* OtlpTelemetryExporter: spans and metric points wait in two bounded      *)
(* queues and leave them in batches, when a batch is full, when the timer  *)
(* fires, and at shutdown; any number of requests is under way at once,    *)
(* and what a request that fails carried is gone.                          *)
(***************************************************************************)
EXTENDS Integers, FiniteSets, Sequences

CONSTANTS ExporterSizes, \* of [batch, queue]: batchSize and maxQueueSize
          PerCall,       \* set of numbers: the metric points one call records
          MaxItems       \* [span, metric]: bound on what is recorded

ASSUME ExportConstants ==
  ExporterSizes \subseteq [batch : Nat \ {0}, queue : Nat \ {0}] /\ PerCall \subseteq Nat

VARIABLES export

Signals == {"span", "metric"}
ExportInit ==
  \E sizes \in ExporterSizes, timer \in BOOLEAN :
    export = [sizes |-> sizes, timer |-> timer, \* a flush interval of 0 has none
              queue |-> [s \in Signals |-> <<>>], count |-> [s \in Signals |-> 0],
              dropped |-> [s \in Signals |-> {}], requests |-> {}, ended |-> [s \in Signals |-> {}],
              closing |-> "no", before |-> [s \in Signals |-> 0]]

\* A signal's records are numbered in the order in which they are recorded.
Request(s, items, last) == [signal |-> s, items |-> items, closing |-> last]

\* flushSpans and flushMetrics, up to the request: the batch leaves the queue
\* before anything is awaited.
TakenLate(e, s, last) == \* mutant of Taken: a batch leaves the queue as a copy
  IF e.queue[s] = <<>> THEN e
  ELSE LET n == IF Len(e.queue[s]) < e.sizes.batch THEN Len(e.queue[s]) ELSE e.sizes.batch
       IN  [e EXCEPT !.requests = @ \cup {Request(s, SubSeq(e.queue[s], 1, n), last)}]
Taken(e, s, last) ==
  IF e.queue[s] = <<>> THEN e
  ELSE LET n == IF Len(e.queue[s]) < e.sizes.batch THEN Len(e.queue[s]) ELSE e.sizes.batch
       IN  [e EXCEPT !.requests = @ \cup {Request(s, SubSeq(e.queue[s], 1, n), last)},
                     !.queue[s] = SubSeq(@, n + 1, Len(@))]
\* exportSpan and exportMetric: the oldest makes room for the newest.
Exported(e, s) ==
  LET full == Len(e.queue[s]) >= e.sizes.queue
      kept == IF full /\ e.queue[s] # <<>> THEN Tail(e.queue[s]) ELSE e.queue[s]
      item == e.count[s] + 1
      after == [e EXCEPT !.queue[s] = Append(kept, item), !.count[s] = item,
                         !.dropped[s] = IF full /\ e.queue[s] # <<>> THEN @ \cup {Head(e.queue[s])} ELSE @]
  IN  IF Len(after.queue[s]) >= e.sizes.batch THEN Taken(after, s, FALSE) ELSE after

ExportSpan ==
  /\ export.count["span"] < MaxItems.span
  /\ export' = Exported(export, "span")
\* recordModelMetrics and recordToolMetrics record several points at once.
RecordMetrics(n) ==
  LET After[k \in 0..n] == IF k = 0 THEN export ELSE Exported(After[k - 1], "metric")
  IN  /\ export.count["metric"] + n <= MaxItems.metric
      /\ export' = After[n]
Flushed(e, last) == Taken(Taken(e, "span", last), "metric", last)
FlushTimer ==
  /\ export.timer
  /\ export' = Flushed(export, FALSE)
\* A failed request is caught; its batch is not put back.
RequestEnds(r) ==
  export' = [export EXCEPT !.requests = @ \ {r},
               !.ended[r.signal] = @ \cup {r.items[k] : k \in DOMAIN r.items}]
\* shutdown waits for the requests it makes, and for no others.
Shutdown ==
  /\ export.closing = "no"
  /\ export' = [Flushed(export, TRUE) EXCEPT !.timer = FALSE, !.closing = "flushing",
                                           !.before = export.count]
ShutdownReturns ==
  /\ export.closing = "flushing" /\ \A r \in export.requests : ~r.closing
  /\ export' = [export EXCEPT !.closing = "done"]

ExportNext ==
  \/ ExportSpan \/ \E n \in PerCall : RecordMetrics(n)
  \/ FlushTimer \/ Shutdown \/ ShutdownReturns
  \/ \E r \in export.requests : RequestEnds(r)
ExportSpec == ExportInit /\ [][ExportNext]_export
-----------------------------------------------------------------------------
Items(s) == {s[k] : k \in DOMAIN s}
Carried(s) == {r \in export.requests : r.signal = s}

\* Whatever was recorded is in one place: it waits, is on its way in one
\* request, was sent, or was dropped; what waits is the newest, in order.
EachOnce ==
  \A s \in Signals :
    LET waits == export.queue[s]
        places == <<Items(waits), UNION {Items(r.items) : r \in Carried(s)}, export.ended[s], export.dropped[s]>>
    IN  /\ 1..export.count[s] = UNION Items(places)
        /\ \A i, j \in 1..4 : i # j => places[i] \cap places[j] = {}
        /\ \A r, q \in Carried(s) : r # q => Items(r.items) \cap Items(q.items) = {}
        /\ \A k \in DOMAIN waits : waits[k] = export.count[s] - Len(waits) + k

\* A queue with room for a batch never holds one and drops nothing, whatever
\* the collector does; with less room nothing leaves but by the timer or at
\* shutdown, and no request is longer than a batch.
BoundedExport ==
  /\ \A s \in Signals :
       IF export.sizes.queue >= export.sizes.batch
       THEN Len(export.queue[s]) < export.sizes.batch /\ export.dropped[s] = {}
       ELSE Len(export.queue[s]) <= export.sizes.queue
  /\ \A r \in export.requests : Len(r.items) \in 1..export.sizes.batch

\* Shutdown leaves nothing of what was recorded before it behind.
NothingLeftBehind ==
  export.closing # "no" => \A s \in Signals : Items(export.queue[s]) \cap 1..export.before[s] = {}

ExportHolds == EachOnce /\ BoundedExport /\ NothingLeftBehind
=============================================================================
