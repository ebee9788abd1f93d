# xrootd-monitoring-shoveler: a TLA+ verification project

The repository holds two programs. The *shoveler* receives XRootD monitoring
packets and relays them to a message broker; the *collector* parses and
correlates the packets first and relays one record per closed file. Both put
what they send into a queue that spills to disk and is emptied by a publisher,
AMQP workers or a STOMP connection. This project models the parts that carry
state over time and the decoder of the packets, checks the models with TLC on
small instances, and proves the safety of most of them with TLAPS for every
value of their parameters: the queue and its refinement of a lossy FIFO, the
AMQP session and worker pool, the RabbitMQ input, the packet parser, the
shoveler and the collector from input to output. Paths below are relative to
the repository root.

## 1. Inventory

| Component | Source | State | Operations | Status |
|---|---|---|---|---|
| Confirmation queue | `queue.go` | memory list, disk queue, `usingDisk`, condition variable | Enqueue, Dequeue, Size, Close, Init | modelled, proved |
| Queue recovery | `queue.go` (`openQueue`) | segment files of the spool | open, move a torn segment aside, give up | modelled |
| AMQP session | `amqp.go` (`Session`) | connection, channel, `isReady`, `done` | connect, reinit, Push, Close | modelled, proved |
| AMQP worker pool | `amqp.go` (`WorkerPool`, `PublishWorker`) | contexts, worker list, shared channel, token | feed, publish, rotate the token, stop | modelled, proved |
| STOMP publisher | `stomp.go` | a connection, the message in hand | read the queue, publish, reconnect | modelled, proved (with the shoveler) |
| Shoveler pipeline | `cmd/shoveler/main.go`, `packageudp.go`, `verify.go` | none but the queue | read, verify, package, enqueue, copy to UDP | modelled, proved |
| RabbitMQ input | `input/rabbitmq_input.go` | connection, acknowledgement counters | connect, consume, ack, nack, stop | modelled, proved |
| File and UDP inputs | `input/input.go` | a socket or a file, one channel | read | modelled but for `RabbitMQConsumer`, which nothing uses |
| Packet parser | `parser/xrootd_parser.go` | none | decode a datagram | partly: lengths, texts and the record walk; not numeric fields, g-stream events, `GetRequestID` |
| State map | `collector/state.go` | entries with expiry, capacity | Set, Get, Delete, clean up | partly: not Stop |
| Correlator | `collector/correlator.go`, `key_builder.go` | four state maps | one handler per packet kind | partly: not the computed fields of a record, nor Stop's janitors |
| Asynchronous enrichment | `collector/enrichment.go` | paged bounded queue, DNS cache | enqueue, enrich, route, stop | partly: not the DNS cache; proved |
| Record filter | `collector/filter.go` | none | drop and routing tests | modelled, proved (with the collector) |
| Collector pipeline | `cmd/collector/main.go`, `connectors/` | channels between the parts | packet loop, gstream workers, publisher, shutdown | partly: file and UDP inputs; proved |
| SciTags registry | `collector/scitags.go` | two lookup tables | refresh, look up | not modelled: one atomic swap beside readers |
| WLCG conversion | `collector/wlcg_converter.go` | none | one record format to another | not modelled: formatting (its two path tests are in the pipeline) |
| XRootD metrics package | `metrics/xrootd_metrics.go` | caches of transfers and sessions | count a packet | not modelled: no program of the repository calls it |
| Configuration, logging, metrics, tools, file writer | the rest | none that is read back | | not modelled |

How they interact: inputs hand packets over a channel to the packet loop, which
calls parser and correlator; the correlator hands records to the enrichment
workers, they to the record publisher, and it to the confirmation queue. The
shoveler's loop enqueues directly. Behind the queue is either the worker pool (a
feeder goroutine moves messages to a Go channel, workers publish them, each over
a session of its own, and the token watcher replaces all workers when the token
file changes) or the STOMP publisher.

What is hard, and what makes each part correct:

* **Queue.** Messages move between two stores in loops, disk calls fail in the
  middle of them, the process dies in the middle of them, and the next process
  opens what is left. Order, accounting, a bound on what a crash costs, and no
  consumer asleep beside a message.
* **Recovery.** A torn segment must not stop the program for good, and readable
  ones must get consumed.
* **Session.** Two goroutines share `isReady` without a lock, and failures hit
  at every point of connecting. A session must become usable again, and Push
  must not wait for ever.
* **Pool.** Restart, Stop, the feeder and the workers share a context, a cancel
  function, a worker list and a channel that one of them closes. Order at the
  broker, one generation of workers at a time, no send on a closed channel, an
  account of every message.
* **STOMP and shoveler.** A publish whose receipt is missing is repeated; the
  reconnect loop is entered from the first connection, the hourly tick and every
  failure. No overtaking, no more repeats than failures, an account of packets.
* **RabbitMQ input.** Delivery tags belong to a channel, acknowledgements are
  batched behind a counter and a ticker, a rejection must settle the batch
  first, and Stop closes what the connection loop uses. Nothing that was not
  handed on is acknowledged. What was buffered when a channel died is still handed on
  over the dead link, so a lost channel may repeat much more than a batch, but no more
  than a prefetch window.
* **Parser.** Sizes and types taken from the datagram drive the walk over its
  records. The walk stays inside, finds what was sent, and ends. Two parsers of
  the same user text must name the same user.
* **Correlator.** Datagrams get lost, repeated and reordered, servers reuse each
  other's ids, entries expire, maps are full, and a second parser of user texts
  takes some users for others. A record must never show another server's data, nor
  that of a user the file's owner can be told apart from, and an open must be used
  exactly once while it lives.
* **Collector pipeline.** Five kinds of goroutines, four bounded channels and
  queues of which some drop and some block, and a shutdown that closes them one
  after the other. Every packet is accounted for, nobody sends on a closed
  channel, no worker sleeps beside a record, and shutdown ends.

`PROJECT.json` lists the hazards one by one, each at its line.

## 2. Modules

* **`OrderedSeqs`** has the vocabulary the models share: the elements of a
  sequence, increasing sequences, and how often a sequence repeats itself.
  **`OrderedSeqTheorems`** has the lemmas about it that all proofs cite.
* **`ConfirmationQueue`** models `ConfirmationQueue` of `queue.go`. `mem`,
  `disk`, `usingDisk` are the fields of the same meaning; `waiting` is the wait
  set of `emptyCond`. A method that holds the mutex is one action, except for
  the two transfer loops (`SpillStart/Move/Finish`, `RefillStart/Move/Finish`),
  taken one message at a time with `holder` keeping the mutex, because a crash
  or a disk error inside a loop leaves a state no whole call produces. Disk
  errors are part of the actions: a failed disk write drops the message
  (`DqueEnqueue`), a failed read loses it or panics (`DequeueDiskError`,
  `DequeuePanics`). `Crash` ends the process and `Reopen` is `Init` on what the
  files hold, minus a prefix and a suffix moved aside by `openQueue`. Messages
  are numbered by acceptance. The dque library runs in turbo mode: its files
  survive the process, not necessarily the machine; only the former is modelled.
* **`LossyFifo`** is what the queue promises its callers: one first-in first-out
  queue that may lose runs of neighbours. `ConfirmationQueue` implements it, the
  two stores being mapped to `Contents`.
* **`QueueRecovery`** models `openQueue` over restarts of the process
  (`SpoolInit`, `SpoolNext`, so that it can be extended beside the queue). Segments
  are numbers; which are torn is chosen initially, and more tear at an abrupt
  exit. The spool gets no new segments.
* **`SessionLink`** lists the states of a session as its worker sees it and the
  edges between them. `AmqpSession` follows the edges and `WorkerPool` uses
  nothing else of a session: this is how the two compose.
* **`AmqpSession`** models one `Session` with its reconnecting goroutine and the
  worker that calls Push and Close. The AMQP library is external: a connection
  dies, a close notification stays pending until received, opening a channel on
  a dead connection fails.
* **`WorkerPool`** models `feedMessages`, `PublishWorker.run`, `publishMessage`,
  `CheckTokenFile`, `Restart`, the end of `StartAMQP` and `Stop`. Contexts are
  numbered, worker `<<g, i>>` belongs to context `g`. The queue behind the feeder is
  abstracted to what `ConfirmationQueue` shows of its disk: a Dequeue that fails has
  already removed its message (`DequeueFails`), and either reports an error, on which
  the feeder goes on with the next one, or panics. A panic or `log.Fatalln`
  sets `crashed` and stops everything. `range p.workers` in Stop races with
  Restart: it may pair the new array with the old length and dereference nil.
* **`Shoveler`** models both shoveling modes of `cmd/shoveler/main.go` with the
  STOMP publisher: main's loop (`Receive`, `Package`, `Enqueue`, `Forward`,
  `FileEnds`), `readMsgStomp` (`ReaderDequeue`) and the select loop of
  `StartStomp` with its publish and its reconnects. Packets are of the kinds
  verification tells apart. The queue is abstracted to what `LossyFifo` allows:
  it hands out in order and a disk error loses a message. The broker may have
  taken a message whose receipt got lost.
* **`RabbitMQReader`** models `Start`, `connect`, `connectionLoop`, `consume`,
  `processMessage` and `Stop`, with `pc` the place of the loop. The broker keeps
  the messages that are ready and, per channel, the deliveries and which of them
  are outstanding; a tag is the position among the deliveries, so an
  acknowledgement on the wrong channel would show as an unknown tag. What went
  unsettled with a channel is delivered again in its old order, as RabbitMQ does
  it. `Binds` says whether the reader is configured to declare the queue. Which
  goroutine wins when Stop closes `packetsWithAddr` under the sender is left
  open.
* **`InfoText`** has both user text parsers of the repository,
  `ParseUserInfo` (`parser/xrootd_parser.go`) and `ParseUserInfoSimple`
  (`collector/correlator.go`), and the key=value texts, on sequences of symbols:
  separators, letters and digits. What a server writes is there beside them:
  `ServerUser` and `UserText` for the user, `HasFields` for the key=value text.
* **`PacketParser`** is `ParsePacket`, with one step per record of
  `parseFileRecords`. Lengths and offsets are in words of four bytes. At an
  offset where its sender put a record header the walk reads that header;
  anywhere else it may read any header at all. `DatagramOK` says what a packet
  is that a server sent: `LaidOut` for an f-stream, `Names` for a user packet.
  They are assumptions about the sender, not about the parser, and `sent` tells
  what it put in. `MCPacketParser` makes the datagrams: streams as a server lays
  them out, arbitrary bytes, packets of every type with right and wrong lengths,
  and user texts.
* **`StateMap`** has the operations of `collector/state.go` as operators on a
  function from keys to entries.
* **`Correlator`** has one action per packet kind of `ProcessPacket`, working on
  four maps, plus the clock and the janitors. A packet that carries several file
  records is several steps. Every datum carries the server and the user it came
  from, so that a wrong join shows in a record, and what was said. `Owner` tells
  whom a server means by an id. The correlator reads that user with two parsers
  and files what it knows under a third form: 'u' and 'T' packets yield the user
  itself, 'd', 'i' and 'U' packets what `parseUserInfo` of `correlator.go` makes
  of the text (`ReadAs`, possibly nobody), and `KeyInfo` is what
  `BuildUserInfoKey` writes, with pid and sid cut to 32 bits. The proofs leave
  both functions open. `MCCorrelator` gives them values, those of `ReadAs`
  compared with what `InfoText` computes: on one server `john.doe` is read as a
  `john` with pid 0, and the key writes a `john` with pid 2^32 as pid 0 too, so
  that both come under one name; on the other server `alice` comes out as
  herself and `bob@lab` is not read. Packets that no handler acts on (XML, an
  'i' or 'U' packet that parses but has no second part) are left out. A packet
  is one step and the clock stands still during it. `opened`, the history of
  opens, decides by `Full` whether one was stored, not by the operator `Set`
  uses.
* **`CollectorPipeline`** composes the collector from input to output: the read
  loops of `input.go` (`Reader`), `processPackets` and `handleParsedPacket`
  (`HandleParsedPacket`), the gstream workers, `enrichmentWorkQueue` with its
  pages, `enrichmentWorker` and `processEnrichmentRequest`, the record publisher,
  and the deferred calls of `runCollectorModeFile` and `main` with
  `Correlator.Stop` (`LoopEnds` to `ClosesOutput`, `mpc` being main's place). A
  method that holds the queue's mutex is one action; `asleep` is the wait set of
  `notEmpty`. The correlator is abstracted to whether a packet makes a record;
  the output connectors to the set `out` of what they were given. `fate` is a
  history of what became of each packet. The DNS lookups of a record are one step
  that ends, because every lookup has a timeout. `MCCollectorPipeline` gives the
  packets: closes on every route, gstream events, a packet that only changes
  state, and one that cannot be decoded.
* **`ConfirmationQueueProofs`**, **`AmqpSessionProofs`**,
  **`WorkerPoolProofs`**, **`ShovelerProofs`**, **`RabbitMQReaderProofs`** and
  **`CollectorPipelineProofs`** have the theorems about the module of that name,
  the first those about `QueueRecovery` as well. **`PacketProofs`** has those
  about `PacketParser` with `InfoText`, and about `Correlator` with `StateMap`.

Mutants (`...OffByOne`, `...Eager` and so on, each under a comment starting with
"Mutant:") are variants of an action with a plausible bug. They are in no
next-state relation; each is there to show that a property notices the bug.

## 3. Runs

| Run | Shows |
|---|---|
| `queue` | two producers, two consumers, 8 messages, `MaxInMemory` 3, `LowWaterMark` 2: order, accounting, size, wakeups, bounded crash loss, the refinement of `LossyFifo`, and that a queued message is handed out while the process stays up |
| `recovery` | 5 segments, any of them torn, at most 2 moved aside per startup, one more torn later: both ends of a running queue are readable, every segment is in the directory, used up or, only if torn, moved aside (`SpoolSound`), and every readable segment is consumed in the end |
| `session` | 2 messages, 3 failures: a failure behind every repeated or missing message, the edges of `SessionLink`, recovery and a returning Push unless the session hangs |
| `pool` | one worker, 3 messages, a token rotation racing with Stop, one failure of a connection or of the disk queue: order, one generation, no send on a closed channel, an account of messages; until the rotation a failure costs at most the message it hits, the others are published, and Restart completes unless Push cannot end |
| `pool_resumes`, `pool_stop` | violated: see below |
| `shoveler` | 4 packets from a socket or a file, with and without verification, 2 UDP destinations of which any may be undialled, 3 failures of the STOMP connection: order and repeats at the broker, an account of every packet, delivery of all that was enqueued unless the process ends |
| `rabbitmq` | 5 messages, the third undecodable, a window of 3, batches of 2, a channel of one place, a queue that somebody else creates late, 2 failures and Stop at any time: only what was handed on is acknowledged, no stale tag, at most a window handed on again, every message settled, Stop releases loop and connection |
| `parser` | streams of up to 3 records as a server lays them out, up to 10 words of arbitrary bytes with header sizes 0, 1, 2, 4 and 8, other packets of right and wrong length, user texts with dots, at signs and IPv6 hosts: records inside the datagram, what was sent is found, the two user parsers agree exactly where they should, the walk ends |
| `correlator` | two servers with the same ids, four users of whom two come under one name and one is not read, one file, packets that say one of two things, any four of them, maps of two entries, time to live 1 of 2: truthful records, one join per live open, augmentation that replaces only what it brings |
| `collector` | file, followed file and UDP, two enrichment workers, a gstream worker, channels of one or two places, an enrichment queue of two: accounting, pages within the capacity, routing by the record's own VO, shutdown order, everything settled in the end, shutdown completes |
| `collector_drain` | violated: see below |

The violated properties state what the documentation or a comment says:

* `PublishingResumes` (`README.md:533`). The feeder ends with the context that
  Restart cancels, and Restart starts no other one.
* `StopLeavesNoWorker` (`amqp.go:114`). `StartAMQP` waits on the first context, so
  the first rotation makes it call Stop beside Restart; the new workers then read
  nil from the closed channel.
* `StopDrains` (`collector/correlator.go:1392`). Stop cancels the context before it
  waits for the workers, and a worker's send selects between the results channel
  and that context: at the end of an input file records that were accepted are
  dropped at random. `NothingVanishes` and `ClosedInOrder` show that this is the
  only way for a record to get lost at shutdown.

Read in the code while modelling, and visible in the models, but not stated as
runs:

* Queue: it spills when the next message would *make* `MaxInMemory`, one earlier
  than `queue.go:203` and `README.md:578` say.
* Session: `handleReInit` retries on the same connection and does not listen to
  `notifyConnClose` until a channel is open, so a connection that dies before
  that is never replaced, although `amqp.go:365` speaks of reconnecting
  continuously (`RecoversUnlessHung` shows that there is no other way to stay
  disconnected); Push does not wait for the confirmation `amqp.go:474` speaks
  of; Close on a session that is not ready leaves its goroutine running
  (`amqp.go:518`).
* Pool: a rotation drops the message a worker or the feeder holds at that moment; a
  Dequeue that reports an error has thrown its message away.
* Shoveler: a UDP destination that cannot be dialled is announced as left out
  but is kept as nil, and the first packet panics (`cmd/shoveler/main.go:160`);
  in file mode a packet without a resolvable remote address dereferences nil in
  `PackageUdp`; at the end of a file main returns without waiting for the
  publisher.
* RabbitMQ input: the passive declaration of a missing queue closes the channel,
  so consuming fails and the loop connects again; the message in hand when Stop
  is called counts as processed although it was not handed on, and the final
  acknowledgement covers it (`input/rabbitmq_input.go:363`); Stop may panic a
  sender on the closed `packetsWithAddr`.
* Parser: a time record is passed by its 24 bytes whatever size it states; the
  flag alone decides whether a close record has operation counts. The two user
  parsers differ for names with '.' or '@', though `collector/correlator.go:620`
  speaks of the same logic; `UsersNamedAlike` says exactly when they agree, and
  `RecordsTruthful` what a record may show of users who are taken for one another.
* Correlator: `handleFileOpen` accepts only a string from the dictionary and a
  `d` packet stores a `*PathInfo`, so the lookup of `README.md:769` finds no
  name; an 'i' packet "adds appinfo to user state"
  (`collector/correlator.go:451`), but of a user with a dotted name it makes
  another one, and the id then leads to a fresh state without the credentials of
  the login; a repeated `u` packet wipes token, application and SciTags of its
  user; users whose pids differ by a multiple of 2^32 share a state; a server's
  map keeps time records that nothing reads; `Correlator.Stop` leaves the
  janitor of `dictMap` running.
* File and UDP inputs: a followed file is not read past the end it had when the
  reader first got there, because a `bufio.Scanner` stays at its end of file
  (`ReadEOF`, `input/input.go:375`); a file that is read faster than it is
  processed loses packets at the input channel, as a socket does, without a count
  (`input/input.go:420`).

### Bounds

`MaxMsgs`, `MaxPackets`, `MaxFaults`, `MaxTokens`, `MaxTears`, `MaxRecords`,
`MaxWords` and `MaxTime` bound histories and the environment; no operation of
the code depends on them. Eight messages against `MaxInMemory` 3 let the queue
spill, drain, refill and spill again with messages on both sides of a crash.
`LowWaterMark` 2 is the largest the assumption allows, so that a refill fills
memory as far as it can. Three failures reach a failure during the recovery from
a failure. A rotation puts Restart beside Stop. One worker is the shoveler's
configuration and the one for which an order is promised; the channel has one
place so that the feeder blocks. Five messages through a window of three make
the RabbitMQ broker withhold two, so that one handed on beyond the window would
show; the third being undecodable puts a rejection behind a batch and one behind
half a batch, and two failures lose a channel with repeats outstanding. Ten
words hold a record header with its fields and the start of another; header size
0 is the one that would not advance. Four packets are enough for a login, an
augmentation, an open and a close; two entries per map are reached within three
packets. Two values tell what was said last from what was said before; values
are only compared, so exchanging them (the symmetry of the run) changes nothing.
Seven packets with three closes fill an enrichment queue of two, leave it a page
that is partly consumed and make it open a shorter one behind that; two gstream
packets fill a queue of one.

Deadlock is checked for the queue and the correlator (the clock stops, the
janitors do not); everything else may come to an end: a session and a pool are
stopped, a reader is stopped, a datagram has been parsed, a spool is empty, the
programs exit.

### Fairness

Liveness needs goroutines to be scheduled: weak fairness per goroutine, as the
Go scheduler and the mutex are starvation-free. It needs an environment that
does not fail for ever: strong fairness of a successful dial, channel and
publish (`ConnectOk`, `InitOk`, `UnsafePushOk`, `PushOk`), of opening and
quarantining (`NewOrOpenOk`, `QuarantineSegment`), while the broker reads what
it is sent and delivers what it has (`BrokerReceives`, `Deliver`). Failures are
bounded, so this assumes recovery only after the last one. Where a select has
several ready cases Go chooses at random, so a case that is ready again and
again is taken: strong fairness of `TakeMessage` beside the hourly tick, and of
`SelectStop` and `SelectClosed` beside deliveries. A ticker ticks. Nothing is
assumed of producers, publishers, the token file, the creation of a missing
queue or of Stop being called, nor of an input going on or ending. `Hung`, an
expired token and the end of a process are exceptions written into the
properties, not excluded by fairness.

## 4. Proofs

Every theorem is for all values of the constants under the named assumption of
the module. The invariants of the runs are seldom inductive; each proof module
defines `IInv`, proves that the initial states have it and that each action keeps
it, one lemma per group of actions, and derives the theorems by PTL.

* **Queue** (`LowWaterMark < MaxInMemory`; the code has 50 and 100). `FifoCorrect`,
  `AccountingCorrect`, `WakeupCorrect`, `SizeCorrect`, `CrashLossCorrect`. `StoresInv`
  says that outside the loops one store is empty and inside them what the loop has
  established; it makes `Size` count everything and bounds the loss of a crash in
  the middle of a refill. `OrderInv` orders the stores, and inside a loop the source
  against the target by its direction. With the water marks reversed a refill
  would bring `MaxInMemory` messages into memory. `QueueImplementsFifo`: on
  `Contents`, enqueues and dequeues are those of `LossyFifo`, the moves of the two
  loops are stutters, and disk errors, panics and crashes lose a run of neighbours;
  the lemmas on cutting a concatenation are what makes the last of these a step.
* **Recovery** (any number of segments, torn in any pattern, any number of restarts).
  `RecoveryCorrect`: `SpoolSound` is inductive together with the types. That a
  segment that can be read is never given up needs that `openQueue` renames the very
  segment its error names, and that the directory stays in order.
* **Session.** `SessionFaultsExplainDelivery`, `SessionFollowsLink`,
  `SessionReadyHasChannel`. `LinkInv` ties the place of the reconnecting goroutine
  to connection, channel and `isReady`; `WireInv` says that nothing is in transit
  on a dead connection; `DeliveryInv` counts, besides the repetitions at the broker,
  the one that the next attempt may make.
* **Pool.** `PoolOneGeneration`, `PoolNoSendOnClosed`, `PoolPublishedInOrder`,
  and `PoolNothingForgotten`, which names the only three places where a message
  is lost: a Dequeue that fails, a connection that dies, a context that is
  cancelled. `RotationInv`: contexts are replaced only for newer tokens;
  `ListedInv`: who is alive is listed, and the list is of the current context,
  except inside Restart; `SentInv`, `FeedOrderInv` and `WorkerOrderInv` put
  every message on its way and, with one worker, what it holds between what the
  broker has and what waits.
* **Shoveler.** `ShovelerInOrder`, `ShovelerAccounts`. `ControlInv` says which
  goroutine holds a message where, `OrderInv` orders the stages from the broker back
  to main, `RepeatInv` gives each repetition a failure of its own.
* **RabbitMQ input.** `SpecSettledRightly`, `SpecAcksKnownTags`,
  `SpecUnackedCounted`, `SpecRepeatsBounded`. The code never looks at the
  broker's state, so the invariant ties its counters to it: `ChannelInv` (what
  is outstanding belongs to the channel that is open), `TagInv`
  (`lastAckDeliveryTag` is the last tag dealt with) and `WindowInv` (the
  outstanding tags up to it are counted by `unackedCount`). That bounds nothing
  once the channel is dead; the bound on repeats needs the queue as a whole.
  `QueueInv`: what is unsettled is ready or in flight, and since the oldest goes
  out first, within the window, fewer than a window of unsettled messages are
  older than any that was ever delivered. Every action but `Publish` and
  `Deliver` only winnows the queue (`Winnows`), and the youngest message that
  can be repeated bounds the rest.
* **Parser.** `RecordsStayInside`, for any bytes: `BehindReader` adds that the
  reader is past the header of every record it found. `RecordsBoundedBySize`,
  for any bytes again: by `CountInv`, each record kept cost the reader a
  header's two words. `ParsesEveryPacketSent`, for f-streams of any length with
  records of any sizes: `SentInv` says that in the loop the reader stands where
  the server began a record, or at the end, with exactly the records before it
  found. `LaidOut` states the layout by offset, the records before each being
  given, so that one step of the walk needs one step of the layout and no
  induction over the stream. `UsersAreNamed`, for any user and any fields that a
  server may write: lemmas on where a symbol stands first and last in a text
  joined from parts (`CutFirst`, `CutLast`) take `UserText` apart again as each
  parser does (`ParsesUser`, `SimpleParsesUser`); a '@' or '.' in the username
  makes the second parser cut too early (`SimpleCutsEarly`, `SimpleCutsName`);
  and the pieces between the '&' are the fields, one each (`PieceFacts`,
  `FieldsFound`). `NamedInv` carries this through the one step such a packet
  takes.
* **Correlator** (any servers, users and files, maps of any capacity, any number
  of packets, any second parser and any key of a user info).
  `RecordsAreTruthful`, `OpensJoinOnce`, `AugmentationLosesNothing`,
  `CorrelatorTypes`. The properties speak of the last record or of one step;
  what they rest on is `CorrelatorInv`: every entry of the four maps is about
  the server it is filed under and about what the owner of the id may be read
  as; a user state holds what was said of users who go by the name in its key
  (`DictInv`, `UserInv`, `FileInv`, `SiteInv`); and an open is in the map from
  when it was stored until it is joined or has expired (`OpenInv`, with
  `ClockInv`). That the keys of different kinds and servers differ
  (`KeysDiffer`) is what keeps one packet from disturbing the entry of another;
  `SetFacts`, `DeleteFacts` and `CleanupFacts` say what the map does.
* **Collector pipeline** (any input, any non-empty sets of workers, any capacities).
  `PipelineQueue`, `PipelineNothingVanishes`, `PipelineClosedInOrder`,
  `PipelineRoutes`. `StageInv` says that the packets that were read and have no fate
  are partitioned by the six stages, `OnceInv` that none is in a stage twice and that
  what waits behind the packet loop came before what waits in front of it, which is
  what keeps the pages in order when a record joins them. `ShutdownInv` says what has
  ended for good at each place of main, and `RouteInv` that what passed the filter was
  not to be dropped. Two groups of lemmas carry the queue: a request joins the last
  page or opens one (`AppendKeepsPages`), and leaves the first (`RemoveKeepsPages`).

Every invariant and every action property that a passing run checks is a theorem, and
so are the two refinements of a safety specification, `ImplementsFifo` and
`FollowsSessionLink`. Only model-checked is liveness, which is out of the prover's
reach: `EventuallyDequeued`, `SpoolDrains`, `RecoversUnlessHung`,
`PushReturnsUnlessHung`, `EventuallyPublished`, `RotationCompletes`,
`EventuallySettled`, `ShutdownCompletes`, `EverySettled`, `StopReleases`,
`EventuallyRelayed` and `Terminates`; and the three runs that find a violation. What
the theorems assume of the outside is in `DatagramOK` (a sender that follows the
format), in the environment actions of each module, and in the assumption named in
it.

## 5. Not modelled, and the plan

* The SciTags registry: `Load` builds new tables and swaps them atomically, so that
  a reader sees one version or the other; two lookups for one record may see two,
  which affects two descriptive fields.
* The DNS cache, which workers share; packets with several closes; the RabbitMQ
  input as a source of the collector pipeline. These are the next extensions: the
  first composes `StateMap` with the enrichment workers, the last replaces `Reader`
  by `RabbitMQReader`.
* The conversion to WLCG records, the computed fields of a record and the numeric
  fields of a packet: one-to-one conversions without control.
* The package `metrics/xrootd_metrics.go` keeps caches of transfers and sessions behind
  its counters, and no program of the repository calls it.
* Configuration is read once; the other metrics are written and never read back;
  the tools run once; the file writer appends lines under a mutex.
* Proofs that remain: none of a property that is checked now. The extensions above
  need theirs: that a record waiting for the DNS cache keeps its place, and that the
  packets of the RabbitMQ input are settled only once the pipeline has them.
