------------------------- MODULE CollectorPipeline -------------------------
(***************************************************************************)
(* The collector from its input to its output: a reader goroutine, the     *)
(* packet loop of main, the gstream workers, the enrichment queue with its *)
(* workers, the record publisher, and the shutdown that main runs when the *)
(* input ends.  The correlator is what it makes of a packet: nothing, or a *)
(* record; a packet closes one file at most and a gstream packet holds one *)
(* event.  The reader is that of a file, of a followed file or of UDP.     *)
(***************************************************************************)
EXTENDS Integers, Sequences, FiniteSets, OrderedSeqs

CONSTANTS
    Feed,           \* what the input comes to hold: a sequence of [kind, vo, path]
    Sources,        \* the kinds of input considered
    Workers,        \* enrichment workers
    GStreamWorkers, \* gstream workers
    InputCap,       \* capacity of packetsWithAddr (100)
    GStreamCap,     \* capacity of gstreamPackets (20000)
    Capacity,       \* enrichmentWorkQueue.capacity (1000000)
    PageSize,       \* enrichmentQueuePageSize (4096)
    ResultsCap,     \* capacity of the publisher's channel (4096)
    WLCGEnabled,    \* config.WLCG.Enabled
    WLCGVOs,        \* c.wlcgVOs
    WLCGPaths,      \* the paths c.wlcgPathPrefixes match
    GStreamPaths,   \* the paths the gstream code routes to WLCG
    DropVOs,        \* c.dropVOs
    DropPaths,      \* the paths c.dropPathPrefixes match
    StampVO         \* c.vo, "" when not configured

GStreamKinds == {"cache", "tcp", "tpc", "other stream"}
Kinds == {"malformed", "unparsable", "state", "close"} \cup GStreamKinds
Items == 1..Len(Feed)

ASSUME PipelineAssumption ==
    /\ Feed \in Seq([kind : Kinds, vo : STRING, path : STRING])
    /\ Sources # {} /\ Sources \subseteq {"udp", "file", "follow"}
    /\ {InputCap, GStreamCap, Capacity, PageSize, ResultsCap} \subseteq Nat \ {0}
    /\ Workers # {} /\ GStreamWorkers # {}
    /\ WLCGEnabled \in BOOLEAN
    /\ "" \notin WLCGVOs \cup DropVOs
    /\ StampVO \in STRING

VARIABLES
    source,         \* config.Input.Type and config.Input.Follow
    written,        \* how much of the input is there
    next,           \* how much of it was read
    eof,            \* the scanner met the end of the file
    input,          \* packetsWithAddr
    inputClosed,
    mpc,            \* where main is
    gstream,        \* gstreamPackets
    gstreamClosed,
    gitem,          \* the packet each gstream worker has, 0 for none, -1 when it returned
    pages,          \* q.pages: the requests and the capacity of each page
    size,           \* q.size
    closed,         \* q.closed
    asleep,         \* the workers in q.notEmpty.Wait()
    wpc,            \* where each enrichment worker is
    wrec,           \* the record it has
    ctxDone,        \* c.ctx is cancelled
    results,        \* the channel to the record publisher
    resultsClosed,
    publisherDone,
    out,            \* what the output connectors were given
    outClosed,
    fate            \* history: whether each item is "stored", "emitted", "dropped", "cancelled"

inputVars == <<source, written, next, eof, input, inputClosed>>
gstreamVars == <<gstream, gstreamClosed, gitem>>
queueVars == <<pages, size, closed, asleep>>
workerVars == <<wpc, wrec>>
outVars == <<results, resultsClosed, publisherDone, out, outClosed>>
vars == <<inputVars, mpc, gstreamVars, queueVars, workerVars, ctxDone, outVars, fate>>

Settle(i, f) == fate' = [fate EXCEPT ![i] = f]

\* A record in the pipeline; its VO may be replaced before it is encoded.
Record(i) == [item |-> i, vo |-> Feed[i].vo]
NoRecord == [item |-> 0, vo |-> ""]
Path(r) == Feed[r.item].path

\* Every connector is given the record; one that fails is logged.
WriteToExchange(r) == out' = out \cup {r}

-----------------------------------------------------------------------------
(* The readers of input.go.                                                *)

\* Whoever writes the followed file.
LineAppended ==
    /\ written < Len(Feed)
    /\ written' = written + 1
    /\ UNCHANGED <<source, next, eof, input, inputClosed, mpc, gstreamVars, queueVars, workerVars,
                   ctxDone, outVars, fate>>

\* A line that is no JSON or no base64 is skipped; a datagram has no such form.
Skips(i) == source # "udp" /\ Feed[i].kind = "malformed"

\* A full channel drops.
Offer(i) ==
    IF Len(input) < InputCap
    THEN input' = Append(input, i) /\ UNCHANGED fate
    ELSE Settle(i, "dropped") /\ UNCHANGED input

\* The readLoop of either reader: a datagram is read when it arrives.
ReadNext ==
    LET i == next + 1 IN
    /\ ~inputClosed
    /\ ~eof
    /\ i <= written
    /\ next' = i
    /\ \/ Skips(i) /\ Settle(i, "dropped") /\ UNCHANGED input
       \/ ~Skips(i) /\ Offer(i)
    /\ UNCHANGED <<source, written, eof, inputClosed, mpc, gstreamVars, queueVars, workerVars,
                   ctxDone, outVars>>

\* Scan returns FALSE at the end of the file, and for ever after: a followed
\* file is scanned again every 100 ms, by a scanner that keeps its end of file.
ReadEOF ==
    /\ source # "udp"
    /\ ~inputClosed
    /\ ~eof
    /\ next = written
    /\ eof' = TRUE
    /\ inputClosed' = (source = "file")
    /\ UNCHANGED <<source, written, next, input, mpc, gstreamVars, queueVars, workerVars, ctxDone,
                   outVars, fate>>

\* A read error, or a line of more than 10 MB.
ReadError ==
    /\ source # "udp"
    /\ ~inputClosed
    /\ ~eof
    /\ inputClosed' = TRUE
    /\ UNCHANGED <<source, written, next, eof, input, mpc, gstreamVars, queueVars, workerVars,
                   ctxDone, outVars, fate>>

Reader == ReadNext \/ ReadEOF \/ ReadError

-----------------------------------------------------------------------------
(* enrichmentWorkQueue.                                                    *)

LastPage == pages[Len(pages)]

Smaller(a, b) == IF a < b THEN a ELSE b

\* Mutant: a new page may be larger than what is left of the capacity.
AppendRequestNoLimit(r) ==
    IF pages = <<>> \/ Len(LastPage.reqs) = LastPage.cap
    THEN Append(pages, [reqs |-> <<r>>, cap |-> PageSize])
    ELSE [pages EXCEPT ![Len(pages)] = [reqs |-> Append(@.reqs, r), cap |-> @.cap]]

\* enqueueLocked: a page that is full, as far as it is left, gets a successor.
AppendRequest(r) ==
    IF pages = <<>> \/ Len(LastPage.reqs) = LastPage.cap
    THEN Append(pages, [reqs |-> <<r>>, cap |-> Smaller(PageSize, Capacity - size)])
    ELSE [pages EXCEPT ![Len(pages)] = [reqs |-> Append(@.reqs, r), cap |-> @.cap]]

\* Reslicing a page shrinks its capacity with its length.
RemoveRequest ==
    IF Len(pages[1].reqs) = 1
    THEN Tail(pages)
    ELSE [pages EXCEPT ![1] = [reqs |-> Tail(@.reqs), cap |-> @.cap - 1]]

\* q.notEmpty.Signal() wakes one waiter, if there is one.
Signal ==
    \/ asleep = {} /\ UNCHANGED asleep
    \/ \E w \in asleep : asleep' = asleep \ {w}

\* The items of records, and of the requests on all pages.
ItemsOf(s) == {s[j].item : j \in 1..Len(s)}
Queued == UNION {ItemsOf(pages[k].reqs) : k \in 1..Len(pages)}

-----------------------------------------------------------------------------
(* processPackets and handleParsedPacket.                                  *)

ParseFails(i) ==
    /\ Feed[i].kind \in {"malformed", "unparsable"}
    /\ Settle(i, "dropped")
    /\ UNCHANGED <<gstreamVars, queueVars>>

\* Packets that only change the state of the correlator, or that it refuses.
HandleState(i) ==
    /\ Feed[i].kind = "state"
    /\ Settle(i, "stored")
    /\ UNCHANGED <<gstreamVars, queueVars>>

HandleGStream(i) ==
    /\ Feed[i].kind \in GStreamKinds
    /\ IF Len(gstream) < GStreamCap
       THEN gstream' = Append(gstream, i) /\ UNCHANGED fate
       ELSE Settle(i, "dropped") /\ UNCHANGED gstream
    /\ UNCHANGED <<gstreamClosed, gitem, queueVars>>

\* Mutant: nobody is woken.
EnqueueForEnrichmentSilent(i) ==
    /\ Feed[i].kind = "close"
    /\ IF size < Capacity
       THEN /\ pages' = AppendRequest(Record(i))
            /\ size' = size + 1
            /\ UNCHANGED <<fate, asleep>>
       ELSE Settle(i, "dropped") /\ UNCHANGED <<pages, size, asleep>>
    /\ UNCHANGED <<closed, gstreamVars>>

\* A file close: the record goes to the queue or, when that is full, is dropped.
EnqueueForEnrichment(i) ==
    /\ Feed[i].kind = "close"
    /\ IF size < Capacity
       THEN /\ pages' = AppendRequest(Record(i))
            /\ size' = size + 1
            /\ Signal
            /\ UNCHANGED fate
       ELSE Settle(i, "dropped") /\ UNCHANGED <<pages, size, asleep>>
    /\ UNCHANGED <<closed, gstreamVars>>

HandleParsedPacket ==
    /\ mpc = "loop"
    /\ input # <<>>
    /\ input' = Tail(input)
    /\ \/ ParseFails(Head(input))
       \/ HandleState(Head(input))
       \/ HandleGStream(Head(input))
       \/ EnqueueForEnrichment(Head(input))
    /\ UNCHANGED <<source, written, next, eof, inputClosed, mpc, workerVars, ctxDone, outVars>>

-----------------------------------------------------------------------------
(* The gstream workers.                                                    *)

GStreamTake(g) ==
    /\ gitem[g] = 0
    /\ gstream # <<>>
    /\ gitem' = [gitem EXCEPT ![g] = Head(gstream)]
    /\ gstream' = Tail(gstream)
    /\ UNCHANGED <<gstreamClosed, inputVars, mpc, queueVars, workerVars, ctxDone, outVars, fate>>

\* CachePathCheckWLCG and TPCPathCheckWLCG, on paths that are not configurable.
PathCheckWLCG(i) == Feed[i].path \in GStreamPaths

\* Cache and third-party copy events have an exchange of their own for WLCG paths.
EventExchange(i) ==
    LET needsWLCG == WLCGEnabled /\ PathCheckWLCG(i) IN
    CASE Feed[i].kind = "cache" -> IF needsWLCG THEN "wlcg cache" ELSE "cache"
      [] Feed[i].kind = "tpc" -> IF needsWLCG THEN "wlcg tpc" ELSE "tpc"
      [] Feed[i].kind = "tcp" -> "tcp"
      [] OTHER -> "default"

\* ProcessGStreamPacket adds nothing but the server to an event.
GStreamEvent(i) == [item |-> i, vo |-> Feed[i].vo, exchange |-> EventExchange(i)]

\* emitGStreamEvent, which may fail to convert.
GStreamEmit(g) ==
    LET i == gitem[g] IN
    /\ i > 0
    /\ \/ /\ WriteToExchange(GStreamEvent(i))
          /\ Settle(i, "emitted")
       \/ Settle(i, "dropped") /\ UNCHANGED out
    /\ gitem' = [gitem EXCEPT ![g] = 0]
    /\ UNCHANGED <<gstream, gstreamClosed, inputVars, mpc, queueVars, workerVars, ctxDone,
                   results, resultsClosed, publisherDone, outClosed>>

GStreamReturn(g) ==
    /\ gitem[g] = 0
    /\ gstream = <<>>
    /\ gstreamClosed
    /\ gitem' = [gitem EXCEPT ![g] = -1]
    /\ UNCHANGED <<gstream, gstreamClosed, inputVars, mpc, queueVars, workerVars, ctxDone,
                   outVars, fate>>

GStreamWorker(g) == GStreamTake(g) \/ GStreamEmit(g) \/ GStreamReturn(g)

-----------------------------------------------------------------------------
(* enrichmentWorker and processEnrichmentRequest.                          *)

Dequeue(w) ==
    /\ wpc[w] = "dequeue"
    /\ w \notin asleep
    /\ size > 0
    /\ wrec' = [wrec EXCEPT ![w] = pages[1].reqs[1]]
    /\ pages' = RemoveRequest
    /\ size' = size - 1
    /\ wpc' = [wpc EXCEPT ![w] = "process"]
    /\ UNCHANGED <<closed, asleep, inputVars, mpc, gstreamVars, ctxDone, outVars, fate>>

DequeueWaits(w) ==
    /\ wpc[w] = "dequeue"
    /\ w \notin asleep
    /\ size = 0
    /\ ~closed
    /\ asleep' = asleep \cup {w}
    /\ UNCHANGED <<pages, size, closed, inputVars, mpc, gstreamVars, workerVars, ctxDone,
                   outVars, fate>>

\* Closed and drained.
WorkerReturns(w) ==
    /\ wpc[w] = "dequeue"
    /\ w \notin asleep
    /\ size = 0
    /\ closed
    /\ wpc' = [wpc EXCEPT ![w] = "returned"]
    /\ UNCHANGED <<wrec, inputVars, mpc, gstreamVars, queueVars, ctxDone, outVars, fate>>

NextRequest(w) ==
    /\ wpc' = [wpc EXCEPT ![w] = "dequeue"]
    /\ wrec' = [wrec EXCEPT ![w] = NoRecord]

ShouldDrop(r) == r.vo \in DropVOs \/ Path(r) \in DropPaths
MatchesWLCG(r) == WLCGEnabled /\ (r.vo \in WLCGVOs \/ Path(r) \in WLCGPaths)
Stamp(r) == IF StampVO = "" THEN r ELSE [r EXCEPT !.vo = StampVO]

\* Mutant: the configured VO is stamped on before the routing decision.
BuildEnrichedRecordStamped(r) ==
    [item |-> r.item, vo |-> Stamp(r).vo,
     exchange |-> IF MatchesWLCG(Stamp(r)) THEN "wlcg" ELSE "default"]

BuildEnrichedRecord(r) ==
    [item |-> r.item, vo |-> Stamp(r).vo,
     exchange |-> IF MatchesWLCG(r) THEN "wlcg" ELSE "default"]

FilterDrops(w) ==
    /\ wpc[w] = "process"
    /\ ShouldDrop(wrec[w])
    /\ Settle(wrec[w].item, "dropped")
    /\ NextRequest(w)
    /\ UNCHANGED <<inputVars, mpc, gstreamVars, queueVars, ctxDone, outVars>>

\* The DNS lookups, which end at their timeout at the latest, and the encoding.
Enrich(w) ==
    /\ wpc[w] = "process"
    /\ ~ShouldDrop(wrec[w])
    /\ \/ wpc' = [wpc EXCEPT ![w] = "send"] /\ UNCHANGED <<wrec, fate>>
       \/ Settle(wrec[w].item, "dropped") /\ NextRequest(w)
    /\ UNCHANGED <<inputVars, mpc, gstreamVars, queueVars, ctxDone, outVars>>

\* Mutant: a full channel is not waited for, and the record is forgotten.
SendForgets(w) ==
    /\ wpc[w] = "send"
    /\ results' = IF Len(results) < ResultsCap
                  THEN Append(results, BuildEnrichedRecord(wrec[w]))
                  ELSE results
    /\ NextRequest(w)
    /\ UNCHANGED <<inputVars, mpc, gstreamVars, queueVars, ctxDone, resultsClosed,
                   publisherDone, out, outClosed, fate>>

Send(w) ==
    /\ wpc[w] = "send"
    /\ Len(results) < ResultsCap
    /\ results' = Append(results, BuildEnrichedRecord(wrec[w]))
    /\ NextRequest(w)
    /\ UNCHANGED <<inputVars, mpc, gstreamVars, queueVars, ctxDone, resultsClosed,
                   publisherDone, out, outClosed, fate>>

\* The other case of the select, taken at will once the context is cancelled.
SendCancelled(w) ==
    /\ wpc[w] = "send"
    /\ ctxDone
    /\ Settle(wrec[w].item, "cancelled")
    /\ NextRequest(w)
    /\ UNCHANGED <<inputVars, mpc, gstreamVars, queueVars, ctxDone, outVars>>

EnrichmentWorker(w) ==
    \/ Dequeue(w)
    \/ DequeueWaits(w)
    \/ WorkerReturns(w)
    \/ FilterDrops(w)
    \/ Enrich(w)
    \/ Send(w)
    \/ SendCancelled(w)

-----------------------------------------------------------------------------
(* The record publisher.                                                   *)

Publish ==
    /\ results # <<>>
    /\ WriteToExchange(Head(results))
    /\ results' = Tail(results)
    /\ Settle(Head(results).item, "emitted")
    /\ UNCHANGED <<inputVars, mpc, gstreamVars, queueVars, workerVars, ctxDone, resultsClosed,
                   publisherDone, outClosed>>

PublisherReturns ==
    /\ results = <<>>
    /\ resultsClosed
    /\ ~publisherDone
    /\ publisherDone' = TRUE
    /\ UNCHANGED <<inputVars, mpc, gstreamVars, queueVars, workerVars, ctxDone, results,
                   resultsClosed, out, outClosed, fate>>

Publisher == Publish \/ PublisherReturns

-----------------------------------------------------------------------------
(* The end of main: the deferred calls, with Correlator.Stop among them.   *)

LoopEnds ==
    /\ mpc = "loop"
    /\ input = <<>>
    /\ inputClosed
    /\ gstreamClosed' = TRUE
    /\ mpc' = "wait gstream"
    /\ UNCHANGED <<gstream, gitem, inputVars, queueVars, workerVars, ctxDone, outVars, fate>>

\* Mutant: no broadcast.
StopClosesQueueSilent ==
    /\ mpc = "wait gstream"
    /\ \A g \in GStreamWorkers : gitem[g] = -1
    /\ closed' = TRUE
    /\ mpc' = "cancel"
    /\ UNCHANGED <<pages, size, asleep, inputVars, gstreamVars, workerVars, ctxDone, outVars, fate>>

\* gstreamWG.Wait(), then enrichmentQueue.Close(), which wakes everybody.
StopClosesQueue ==
    /\ mpc = "wait gstream"
    /\ \A g \in GStreamWorkers : gitem[g] = -1
    /\ closed' = TRUE
    /\ asleep' = {}
    /\ mpc' = "cancel"
    /\ UNCHANGED <<pages, size, inputVars, gstreamVars, workerVars, ctxDone, outVars, fate>>

StopCancels ==
    /\ mpc = "cancel"
    /\ ctxDone' = TRUE
    /\ mpc' = "wait workers"
    /\ UNCHANGED <<inputVars, gstreamVars, queueVars, workerVars, outVars, fate>>

\* Mutant: enrichmentWG is not waited for.
ClosesResultsEarly ==
    /\ mpc = "wait workers"
    /\ resultsClosed' = TRUE
    /\ mpc' = "wait publisher"
    /\ UNCHANGED <<results, publisherDone, out, outClosed, inputVars, gstreamVars, queueVars,
                   workerVars, ctxDone, fate>>

\* enrichmentWG.Wait() ends Stop; main closes the channel to the publisher.
ClosesResults ==
    /\ mpc = "wait workers"
    /\ \A w \in Workers : wpc[w] = "returned"
    /\ resultsClosed' = TRUE
    /\ mpc' = "wait publisher"
    /\ UNCHANGED <<results, publisherDone, out, outClosed, inputVars, gstreamVars, queueVars,
                   workerVars, ctxDone, fate>>

ClosesOutput ==
    /\ mpc = "wait publisher"
    /\ publisherDone
    /\ outClosed' = TRUE
    /\ mpc' = "exited"
    /\ UNCHANGED <<results, resultsClosed, publisherDone, out, inputVars, gstreamVars, queueVars,
                   workerVars, ctxDone, fate>>

Main ==
    \/ HandleParsedPacket
    \/ LoopEnds
    \/ StopClosesQueue
    \/ StopCancels
    \/ ClosesResults
    \/ ClosesOutput

-----------------------------------------------------------------------------
Init ==
    /\ source \in Sources
    /\ written = IF source = "follow" THEN 0 ELSE Len(Feed)
    /\ next = 0 /\ eof = FALSE /\ input = <<>> /\ inputClosed = FALSE
    /\ mpc = "loop"
    /\ gstream = <<>> /\ gstreamClosed = FALSE
    /\ gitem = [g \in GStreamWorkers |-> 0]
    /\ pages = <<>> /\ size = 0 /\ closed = FALSE /\ asleep = {}
    /\ wpc = [w \in Workers |-> "dequeue"]
    /\ wrec = [w \in Workers |-> NoRecord]
    /\ ctxDone = FALSE
    /\ results = <<>> /\ resultsClosed = FALSE /\ publisherDone = FALSE
    /\ out = {} /\ outClosed = FALSE
    /\ fate = [i \in Items |-> "none"]

Next ==
    \/ LineAppended
    \/ Reader
    \/ Main
    \/ \E g \in GStreamWorkers : GStreamWorker(g)
    \/ \E w \in Workers : EnrichmentWorker(w)
    \/ Publisher

Spec == Init /\ [][Next]_vars

\* Goroutines are scheduled.  Nothing makes the input go on or end.
FairSpec ==
    /\ Spec
    /\ WF_vars(Main)
    /\ \A g \in GStreamWorkers : WF_vars(GStreamWorker(g))
    /\ \A w \in Workers : WF_vars(EnrichmentWorker(w))
    /\ WF_vars(Publisher)

-----------------------------------------------------------------------------
(* Properties.                                                             *)

Requests == {Record(i) : i \in Items}
EnrichedRecords == {BuildEnrichedRecord(r) : r \in Requests}

InputTypes ==
    /\ source \in Sources
    /\ written \in 0..Len(Feed) /\ next \in 0..written
    /\ eof \in BOOLEAN
    /\ input \in Seq(Items) /\ Len(input) <= InputCap
    /\ inputClosed \in BOOLEAN

GStreamTypes ==
    /\ gstream \in Seq(Items) /\ Len(gstream) <= GStreamCap
    /\ gstreamClosed \in BOOLEAN
    /\ gitem \in [GStreamWorkers -> Items \cup {0, -1}]

QueueTypes ==
    /\ pages \in Seq([reqs : Seq(Requests), cap : Nat])
    /\ size \in 0..Capacity
    /\ closed \in BOOLEAN
    /\ asleep \subseteq Workers

WorkerTypes ==
    /\ wpc \in [Workers -> {"dequeue", "process", "send", "returned"}]
    /\ wrec \in [Workers -> Requests \cup {NoRecord}]
    /\ \A w \in Workers : wrec[w] # NoRecord <=> wpc[w] \in {"process", "send"}

OutTypes ==
    /\ results \in Seq(EnrichedRecords) /\ Len(results) <= ResultsCap
    /\ resultsClosed \in BOOLEAN
    /\ publisherDone \in BOOLEAN
    /\ out \subseteq EnrichedRecords \cup {GStreamEvent(i) : i \in Items}
    /\ outClosed \in BOOLEAN

\* Types, and a worker has a record exactly while it works on one: what
\* processEnrichmentRequest was given is not seen by the next request.
TypeOK ==
    /\ InputTypes
    /\ GStreamTypes
    /\ QueueTypes
    /\ WorkerTypes
    /\ OutTypes
    /\ mpc \in {"loop", "wait gstream", "cancel", "wait workers", "wait publisher", "exited"}
    /\ ctxDone \in BOOLEAN
    /\ fate \in [Items -> {"none", "stored", "emitted", "dropped", "cancelled"}]

InItemOrder(s) == \A i, j \in 1..Len(s) : i < j => s[i].item < s[j].item

\* The paged queue is one first-in first-out queue: size counts the requests on
\* its pages, no page is empty, only the last has room, and with that room the
\* pages never claim more than the capacity, however far they are consumed.
PagesConsistent ==
    /\ size = Cardinality(Queued)
    /\ \A k \in 1..Len(pages) : Len(pages[k].reqs) \in 1..pages[k].cap
    /\ \A k \in 1..(Len(pages) - 1) : Len(pages[k].reqs) = pages[k].cap
    /\ pages # <<>> => size - Len(LastPage.reqs) + LastPage.cap <= Capacity
    /\ \A k \in 1..Len(pages) : InItemOrder(pages[k].reqs)
    /\ \A k, l \in 1..Len(pages) :
          k < l => Precedes(ItemsOf(pages[k].reqs), ItemsOf(pages[l].reqs))

\* In how many places of the pipeline an item is.
Places(i) ==
    Cardinality({k \in 1..Len(input) : input[k] = i})
    + Cardinality({k \in 1..Len(gstream) : gstream[k] = i})
    + Cardinality({g \in GStreamWorkers : gitem[g] = i})
    + Cardinality({k \in 1..Len(pages) : i \in ItemsOf(pages[k].reqs)})
    + Cardinality({w \in Workers : wrec[w].item = i})
    + Cardinality({k \in 1..Len(results) : results[k].item = i})

\* From the input to the output no packet is duplicated, and none vanishes other
\* than by one of the drops at a full channel or queue, by the filter, an error
\* or the cancelled context.
NothingVanishes ==
    \A i \in 1..next : Places(i) = IF fate[i] = "none" THEN 1 ELSE 0

\* Every deferred call finds its users gone: nobody sends on a closed channel
\* or writes to closed outputs.
ClosedInOrder ==
    /\ resultsClosed => \A w \in Workers : wpc[w] = "returned"
    /\ outClosed => publisherDone /\ \A g \in GStreamWorkers : gitem[g] = -1
    /\ mpc = "exited" => \A i \in 1..next : fate[i] # "none"

\* "It is stamped after the drop filter and the routing decision above have both
\* matched on the packet's own VO, so it can change neither the exchange a record
\* lands on nor whether it is dropped" (buildEnrichedRecord): a record leaves on
\* the exchange, and passes the filter, of the VO it came with.
RoutedByOwnVO ==
    \A o \in out :
        Feed[o.item].kind = "close" =>
            LET own == Record(o.item) IN
            /\ o.exchange = "wlcg" <=> MatchesWLCG(own)
            /\ ~ShouldDrop(own)
            /\ o.vo = Stamp(own).vo

\* While the input goes on as well as when it ends, everything that was read is
\* published or dropped for a reason: no worker sleeps through a record.
EventuallySettled == <>[](\A i \in 1..next : fate[i] # "none")

\* The end of the input leads to the end of the program: no goroutine that
\* shutdown waits for is left waiting itself.
ShutdownCompletes == inputClosed ~> mpc = "exited"

\* "Close queue first so workers drain in-flight requests before exiting": no
\* record that was accepted is dropped because of the shutdown.
StopDrains == \A i \in Items : fate[i] # "cancelled"
=============================================================================
