--------------------------- MODULE RabbitMQReader ---------------------------
(***************************************************************************)
(* The RabbitMQ input of the collector (input/rabbitmq_input.go): one      *)
(* goroutine, connectionLoop, connects, consumes with a prefetch window,   *)
(* hands every decoded packet to the collector over packetsWithAddr and    *)
(* acknowledges in batches, by a one-second ticker, or before it rejects a *)
(* message it cannot decode.  Stop runs in another goroutine.              *)
(*                                                                         *)
(* The broker keeps the messages of the queue: those ready for delivery    *)
(* and those outstanding on the current channel.  A delivery is named by   *)
(* its tag, its position among the deliveries of the channel; losing the   *)
(* channel makes the outstanding messages ready again.                     *)
(***************************************************************************)
EXTENDS Integers, Sequences, FiniteSets

CONSTANTS
    MaxMsgs,    \* bound on the messages published to the queue
    Bad,        \* the messages that are not JSON with base64 data
    Prefetch,   \* the prefetch count set with Qos (1000)
    Batch,      \* successes before an acknowledgement (100)
    ChanCap,    \* capacity of packetsWithAddr (100)
    Binds,      \* an exchange is configured, so connect binds the queue
    MaxFaults   \* bound on failed connects and lost channels

ASSUME ReaderAssumption ==
    /\ MaxMsgs \in Nat
    /\ Bad \subseteq 1..MaxMsgs
    /\ Prefetch \in Nat \ {0}
    /\ Batch \in Nat \ {0}
    /\ ChanCap \in Nat \ {0}
    /\ Binds \in BOOLEAN
    /\ MaxFaults \in Nat

Msgs == 1..MaxMsgs

VARIABLES
    queueExists,    \* the queue is declared at the broker
    published,      \* how many messages were published to it
    ready,          \* the messages waiting for delivery
    delivered,      \* the deliveries of the current channel; a tag is an index
    outstanding,    \* the tags neither acknowledged nor rejected
    link,           \* the channel: "up", "dead" (only the broker knows), "closed"
    conn,           \* the reader's connection is open
    pc,             \* where connectionLoop is
    read,           \* how many deliveries consume took from msgs
    unackedCount,
    lastAckDeliveryTag,
    packets,        \* packetsWithAddr
    packetsClosed,
    spc,            \* where Stop is
    crashed,        \* a send on a closed channel ended the process
    faults,
    handed,         \* history: messages handed to the collector
    acked,          \* history: messages the broker saw acknowledged
    rejected,       \* history: messages the broker saw rejected
    refused         \* history: the broker met an unknown delivery tag

queueVars == <<queueExists, published>>
brokerVars == <<ready, delivered, outstanding, link, acked, rejected, refused>>
ackVars == <<unackedCount, lastAckDeliveryTag>>
stopVars == <<spc, packetsClosed>>
vars == <<queueVars, brokerVars, ackVars, stopVars, conn, pc, read, packets, crashed, faults,
          handed>>

\* r.stop is closed.
Stopping == spc # "idle"

Init ==
    /\ queueExists \in BOOLEAN
    /\ published = 0
    /\ ready = {}
    /\ delivered = <<>>
    /\ outstanding = {}
    /\ link = "closed"
    /\ conn = FALSE
    /\ pc = "new"
    /\ read = 0
    /\ unackedCount = 0
    /\ lastAckDeliveryTag = 0
    /\ packets = <<>>
    /\ packetsClosed = FALSE
    /\ spc = "idle"
    /\ crashed = FALSE
    /\ faults = 0
    /\ handed = {}
    /\ acked = {}
    /\ rejected = {}
    /\ refused = FALSE

-----------------------------------------------------------------------------
(* The broker.                                                             *)

\* The messages outstanding on the channel.
InFlight == {delivered[t] : t \in outstanding}

\* The channel ends in state `to`: the broker makes what was outstanding
\* ready again.  What the client library has buffered is still there.
LoseChannel(to) ==
    /\ link' = to
    /\ ready' = ready \cup InFlight
    /\ outstanding' = {}

QueueCreated ==
    /\ ~queueExists
    /\ queueExists' = TRUE
    /\ UNCHANGED <<published, brokerVars, ackVars, stopVars, conn, pc, read, packets, crashed,
                   faults, handed>>

Publish ==
    /\ queueExists
    /\ published < MaxMsgs
    /\ published' = published + 1
    /\ ready' = ready \cup {published + 1}
    /\ UNCHANGED <<queueExists, delivered, outstanding, link, acked, rejected, refused, ackVars,
                   stopVars, conn, pc, read, packets, crashed, faults, handed>>

\* Mutant: connect sets no prefetch count, so the broker knows no window.
DeliverUnlimited ==
    /\ link = "up"
    /\ pc \in {"select", "forward", "nack"}
    /\ \E m \in ready :
        /\ \A n \in ready : m <= n
        /\ ready' = ready \ {m}
        /\ delivered' = Append(delivered, m)
        /\ outstanding' = outstanding \cup {Len(delivered) + 1}
    /\ UNCHANGED <<queueVars, link, acked, rejected, refused, ackVars, stopVars, conn, pc, read,
                   packets, crashed, faults, handed>>

\* The oldest ready message goes out within the prefetch window, once there
\* is a consumer.
Deliver ==
    /\ link = "up"
    /\ pc \in {"select", "forward", "nack"}
    /\ Cardinality(outstanding) < Prefetch
    /\ \E m \in ready :
        /\ \A n \in ready : m <= n
        /\ ready' = ready \ {m}
        /\ delivered' = Append(delivered, m)
        /\ outstanding' = outstanding \cup {Len(delivered) + 1}
    /\ UNCHANGED <<queueVars, link, acked, rejected, refused, ackVars, stopVars, conn, pc, read,
                   packets, crashed, faults, handed>>

ConnectionLost ==
    /\ link = "up"
    /\ faults < MaxFaults
    /\ faults' = faults + 1
    /\ LoseChannel("dead")
    /\ UNCHANGED <<queueVars, delivered, acked, rejected, refused, ackVars, stopVars, conn, pc,
                   read, packets, crashed, handed>>

\* The client library notices: msgs is closed, calls on the channel fail.
LossNoticed ==
    /\ link = "dead"
    /\ link' = "closed"
    /\ conn' = FALSE
    /\ UNCHANGED <<queueVars, ready, delivered, outstanding, acked, rejected, refused, ackVars,
                   stopVars, pc, read, packets, crashed, faults, handed>>

\* channel.Ack(tag, true): everything outstanding up to tag.  An unknown tag
\* is a channel exception; on a dead link the frame is lost without an error.
AckUpTo(tag) ==
    IF link # "up" THEN UNCHANGED <<ready, outstanding, link, acked, refused>>
    ELSE IF tag \in outstanding
    THEN LET upTo == {t \in outstanding : t <= tag} IN
         /\ outstanding' = outstanding \ upTo
         /\ acked' = acked \cup {delivered[t] : t \in upTo}
         /\ UNCHANGED <<ready, link, refused>>
    ELSE /\ LoseChannel("closed")
         /\ refused' = TRUE
         /\ UNCHANGED acked

\* msg.Nack(false, false): this delivery alone, not requeued.
Reject(tag) ==
    IF link # "up" THEN UNCHANGED <<ready, outstanding, link, rejected, refused>>
    ELSE IF tag \in outstanding
    THEN /\ outstanding' = outstanding \ {tag}
         /\ rejected' = rejected \cup {delivered[tag]}
         /\ UNCHANGED <<ready, link, refused>>
    ELSE /\ LoseChannel("closed")
         /\ refused' = TRUE
         /\ UNCHANGED rejected

NoBrokerCall == UNCHANGED <<ready, outstanding, link, acked, refused>>

-----------------------------------------------------------------------------
(* connectionLoop and consume.                                             *)

Goto(l) == pc' = l

\* Start reads the token, which may fail, and starts connectionLoop.
Start ==
    /\ pc = "new"
    /\ spc = "idle"
    /\ \/ Goto("top") /\ UNCHANGED faults
       \/ faults < MaxFaults /\ faults' = faults + 1 /\ Goto("unstarted")
    /\ UNCHANGED <<queueVars, brokerVars, ackVars, stopVars, conn, read, packets, crashed, handed>>

LoopTop ==
    /\ ~crashed
    /\ pc = "top"
    /\ Goto(IF Stopping THEN "done" ELSE "connect")
    /\ UNCHANGED <<queueVars, brokerVars, ackVars, stopVars, conn, read, packets, crashed, faults,
                   handed>>

\* connect returns an error: nothing stays open.
ConnectFails ==
    /\ ~crashed
    /\ pc = "connect"
    /\ IF ~queueExists /\ Binds THEN UNCHANGED faults
       ELSE faults < MaxFaults /\ faults' = faults + 1
    /\ Goto("sleep")
    /\ conn' = FALSE
    /\ UNCHANGED <<queueVars, brokerVars, ackVars, stopVars, read, packets, crashed, handed>>

\* connect returns nil.  A queue that does not exist has made the broker
\* close the channel, which the passive declaration only logs.
ConnectSucceeds ==
    /\ ~crashed
    /\ pc = "connect"
    /\ queueExists \/ ~Binds
    /\ link' = IF queueExists THEN "up" ELSE "closed"
    /\ conn' = TRUE
    /\ delivered' = <<>>
    /\ read' = 0
    /\ Goto("consume")
    /\ UNCHANGED <<queueVars, ready, outstanding, acked, rejected, refused, ackVars, stopVars,
                   packets, crashed, faults, handed>>

\* Mutant: the bookkeeping of tags outlives its channel.
ConsumeStartsKeepsTags ==
    /\ ~crashed
    /\ pc = "consume"
    /\ link = "up"
    /\ UNCHANGED ackVars
    /\ Goto("select")
    /\ UNCHANGED <<queueVars, brokerVars, stopVars, conn, read, packets, crashed, faults, handed>>

\* consume registers the consumer, which a dead link cannot answer, and
\* resets the bookkeeping of tags.
ConsumeStarts ==
    /\ ~crashed
    /\ pc = "consume"
    /\ link = "up"
    /\ unackedCount' = 0
    /\ lastAckDeliveryTag' = 0
    /\ Goto("select")
    /\ UNCHANGED <<queueVars, brokerVars, stopVars, conn, read, packets, crashed, faults, handed>>

ConsumeFails ==
    /\ ~crashed
    /\ pc = "consume"
    /\ link = "closed"
    /\ Goto("cleanup")
    /\ UNCHANGED <<queueVars, brokerVars, ackVars, stopVars, conn, read, packets, crashed, faults,
                   handed>>

\* There is something to acknowledge.
HasUnacked == unackedCount > 0 /\ lastAckDeliveryTag > 0

\* case <-r.stop
SelectStop ==
    /\ ~crashed
    /\ pc = "select"
    /\ Stopping
    /\ IF HasUnacked THEN AckUpTo(lastAckDeliveryTag) ELSE NoBrokerCall
    /\ Goto("cleanup")
    /\ UNCHANGED <<queueVars, delivered, rejected, ackVars, stopVars, conn, read, packets, crashed,
                   faults, handed>>

\* Mutant: the ticker, too, waits for a full batch.
SelectTickFullBatch ==
    /\ ~crashed
    /\ pc = "select"
    /\ HasUnacked /\ unackedCount >= Batch
    /\ AckUpTo(lastAckDeliveryTag)
    /\ unackedCount' = IF link = "closed" THEN unackedCount ELSE 0
    /\ UNCHANGED <<queueVars, delivered, rejected, lastAckDeliveryTag, stopVars, conn, pc, read,
                   packets, crashed, faults, handed>>

\* case <-ackTicker.C; a tick that finds nothing to do changes nothing.
SelectTick ==
    /\ ~crashed
    /\ pc = "select"
    /\ HasUnacked
    /\ AckUpTo(lastAckDeliveryTag)
    /\ unackedCount' = IF link = "closed" THEN unackedCount ELSE 0
    /\ UNCHANGED <<queueVars, delivered, rejected, lastAckDeliveryTag, stopVars, conn, pc, read,
                   packets, crashed, faults, handed>>

\* case _, ok := <-msgs with !ok
SelectClosed ==
    /\ ~crashed
    /\ pc = "select"
    /\ link = "closed"
    /\ Goto("cleanup")
    /\ UNCHANGED <<queueVars, brokerVars, ackVars, stopVars, conn, read, packets, crashed, faults,
                   handed>>

\* case msg := <-msgs with a message that decodes: processMessage goes on to
\* its own select.  A delivery buffered before the loss may still be read.
TakeGood ==
    /\ ~crashed
    /\ pc = "select"
    /\ read < Len(delivered)
    /\ delivered[read + 1] \notin Bad
    /\ read' = read + 1
    /\ Goto("forward")
    /\ UNCHANGED <<queueVars, brokerVars, ackVars, stopVars, conn, packets, crashed, faults, handed>>

\* Mutant: the count is not reset before a rejection.
TakeBadKeepsCount ==
    /\ ~crashed
    /\ pc = "select"
    /\ read < Len(delivered)
    /\ delivered[read + 1] \in Bad
    /\ read' = read + 1
    /\ UNCHANGED unackedCount
    /\ IF HasUnacked THEN AckUpTo(lastAckDeliveryTag) ELSE NoBrokerCall
    /\ Goto("nack")
    /\ UNCHANGED <<queueVars, delivered, rejected, lastAckDeliveryTag, stopVars, conn, packets,
                   crashed, faults, handed>>

\* case msg := <-msgs with a message that does not decode: what was handed
\* on before is acknowledged first, and the count reset whatever Ack returns.
TakeBad ==
    /\ ~crashed
    /\ pc = "select"
    /\ read < Len(delivered)
    /\ delivered[read + 1] \in Bad
    /\ read' = read + 1
    /\ IF HasUnacked
       THEN AckUpTo(lastAckDeliveryTag) /\ unackedCount' = 0
       ELSE NoBrokerCall /\ UNCHANGED unackedCount
    /\ Goto("nack")
    /\ UNCHANGED <<queueVars, delivered, rejected, lastAckDeliveryTag, stopVars, conn, packets,
                   crashed, faults, handed>>

\* ... and then this one is rejected.
Nack ==
    /\ ~crashed
    /\ pc = "nack"
    /\ Reject(read)
    /\ lastAckDeliveryTag' = read
    /\ Goto("select")
    /\ UNCHANGED <<queueVars, delivered, acked, unackedCount, stopVars, conn, read, packets,
                   crashed, faults, handed>>

\* processMessage returned nil: count the message, acknowledge a full batch.
Processed ==
    /\ lastAckDeliveryTag' = read
    /\ IF unackedCount + 1 >= Batch
       THEN /\ AckUpTo(read)
            /\ unackedCount' = IF link = "closed" THEN unackedCount + 1 ELSE 0
       ELSE /\ NoBrokerCall
            /\ unackedCount' = unackedCount + 1
    /\ Goto("select")

\* The packet goes to the collector.
Forward ==
    /\ ~crashed
    /\ pc = "forward"
    /\ ~packetsClosed
    /\ Len(packets) < ChanCap
    /\ packets' = Append(packets, delivered[read])
    /\ handed' = handed \cup {delivered[read]}
    /\ Processed
    /\ UNCHANGED <<queueVars, delivered, rejected, stopVars, conn, read, crashed, faults>>

\* processMessage meets the closed stop channel: nil, though nothing was sent.
ForwardStopped ==
    /\ ~crashed
    /\ pc = "forward"
    /\ Stopping
    /\ Processed
    /\ UNCHANGED <<queueVars, delivered, rejected, stopVars, conn, read, packets, crashed, faults,
                   handed>>

\* The select of processMessage picks the send after Stop closed the channel.
ForwardPanics ==
    /\ ~crashed
    /\ pc = "forward"
    /\ packetsClosed
    /\ crashed' = TRUE
    /\ LoseChannel("closed")
    /\ conn' = FALSE
    /\ UNCHANGED <<queueVars, delivered, acked, rejected, refused, ackVars, stopVars, pc, read,
                   packets, faults, handed>>

\* Mutant: only the channel is closed.
CleanupChannelOnly ==
    /\ ~crashed
    /\ pc = "cleanup"
    /\ LoseChannel("closed")
    /\ UNCHANGED conn
    /\ Goto("sleep")
    /\ UNCHANGED <<queueVars, delivered, acked, rejected, refused, ackVars, stopVars, read,
                   packets, crashed, faults, handed>>

\* connectionLoop closes the channel and the connection.
Cleanup ==
    /\ ~crashed
    /\ pc = "cleanup"
    /\ LoseChannel("closed")
    /\ conn' = FALSE
    /\ Goto("sleep")
    /\ UNCHANGED <<queueVars, delivered, acked, rejected, refused, ackVars, stopVars, read,
                   packets, crashed, faults, handed>>

\* time.Sleep does not listen to stop.
Sleep ==
    /\ ~crashed
    /\ pc = "sleep"
    /\ Goto("top")
    /\ UNCHANGED <<queueVars, brokerVars, ackVars, stopVars, conn, read, packets, crashed, faults,
                   handed>>

-----------------------------------------------------------------------------
(* Stop, step by step, and the collector's end of packetsWithAddr.         *)

StopCalled ==
    /\ ~crashed
    /\ spc = "idle"
    /\ pc # "new"
    /\ spc' = "channel"
    /\ UNCHANGED <<queueVars, brokerVars, ackVars, packetsClosed, conn, pc, read, packets, crashed,
                   faults, handed>>

\* r.channel and r.conn are read without synchronisation: Stop closes the
\* current one, or one that is closed already.
StopChannel ==
    /\ ~crashed
    /\ spc = "channel"
    /\ spc' = "conn"
    /\ \/ LoseChannel("closed")
       \/ UNCHANGED <<ready, outstanding, link>>
    /\ UNCHANGED <<queueVars, delivered, acked, rejected, refused, ackVars, packetsClosed, conn,
                   pc, read, packets, crashed, faults, handed>>

StopConn ==
    /\ ~crashed
    /\ spc = "conn"
    /\ spc' = "packets"
    /\ \/ LoseChannel("closed") /\ conn' = FALSE
       \/ UNCHANGED <<ready, outstanding, link, conn>>
    /\ UNCHANGED <<queueVars, delivered, acked, rejected, refused, ackVars, packetsClosed, pc,
                   read, packets, crashed, faults, handed>>

StopPackets ==
    /\ ~crashed
    /\ spc = "packets"
    /\ spc' = "done"
    /\ packetsClosed' = TRUE
    /\ UNCHANGED <<queueVars, brokerVars, ackVars, conn, pc, read, packets, crashed, faults, handed>>

\* The collector ranges over packetsWithAddr.
Receive ==
    /\ ~crashed
    /\ packets # <<>>
    /\ packets' = Tail(packets)
    /\ UNCHANGED <<queueVars, brokerVars, ackVars, stopVars, conn, pc, read, crashed, faults, handed>>

-----------------------------------------------------------------------------

Broker == QueueCreated \/ Publish \/ Deliver \/ ConnectionLost \/ LossNoticed
Loop == \/ LoopTop \/ ConnectFails \/ ConnectSucceeds \/ ConsumeStarts \/ ConsumeFails
        \/ SelectStop \/ SelectTick \/ SelectClosed \/ TakeGood \/ TakeBad \/ Nack
        \/ Forward \/ ForwardStopped \/ ForwardPanics \/ Cleanup \/ Sleep
StopSteps == StopChannel \/ StopConn \/ StopPackets

Next == Broker \/ Start \/ Loop \/ StopCalled \/ StopSteps \/ Receive

Spec == Init /\ [][Next]_vars

\* Goroutines run, ticks come, the broker delivers, a dead connection is
\* noticed (heartbeats), the collector keeps receiving.  Nobody has to call
\* Stop, to publish or to create the queue.
FairSpec ==
    /\ Spec
    /\ WF_vars(Start)
    /\ WF_vars(Loop)
    /\ WF_vars(SelectTick)
    /\ WF_vars(Deliver)
    /\ WF_vars(LossNoticed)
    /\ WF_vars(StopSteps)
    /\ WF_vars(Receive)
    /\ SF_vars(SelectStop)
    /\ SF_vars(SelectClosed)

-----------------------------------------------------------------------------
(* Properties.                                                             *)

TypeOK ==
    /\ queueExists \in BOOLEAN
    /\ published \in 0..MaxMsgs
    /\ ready \subseteq Msgs
    /\ delivered \in Seq(Msgs)
    /\ outstanding \subseteq 1..Len(delivered)
    /\ link \in {"up", "dead", "closed"}
    /\ conn \in BOOLEAN
    /\ pc \in {"new", "unstarted", "top", "connect", "consume", "select", "forward", "nack",
               "cleanup", "sleep", "done"}
    /\ read \in 0..Len(delivered)
    /\ unackedCount \in Nat
    /\ lastAckDeliveryTag \in Nat
    /\ packets \in Seq(Msgs)
    /\ packetsClosed \in BOOLEAN
    /\ spc \in {"idle", "channel", "conn", "packets", "done"}
    /\ crashed \in BOOLEAN
    /\ faults \in 0..MaxFaults
    /\ handed \subseteq Msgs
    /\ acked \subseteq Msgs
    /\ rejected \subseteq Msgs
    /\ refused \in BOOLEAN

\* What the broker may forget: a message is acknowledged only after it was
\* handed to the collector, unless Stop was called; one that does not decode
\* is never acknowledged along with its neighbours by a multiple ack, and
\* only such a one is rejected (consume, processMessage).
SettledRightly ==
    /\ ~Stopping => acked \subseteq handed
    /\ acked \cap Bad = {}
    /\ rejected \subseteq Bad

\* No acknowledgement or rejection names a tag the channel does not know,
\* which would make the broker close the channel: the counters are reset for
\* each channel, and a rejected tag is never acknowledged again (consume).
AcksKnownTags == ~refused

\* While the channel is up, unackedCount is the number of deliveries up to the
\* tag noted last that are still outstanding, and it stays below the batch size:
\* what is acknowledged next is all that is due, across batches, ticks and the
\* acknowledgement before a rejection (consume).
UnackedCounted ==
    link = "up" /\ pc = "select" =>
        /\ Cardinality({t \in outstanding : t <= lastAckDeliveryTag}) = unackedCount
        /\ unackedCount < Batch

\* What the collector has been handed and the broker will deliver again is never
\* more than one prefetch window, over any number of lost channels: deliveries
\* that were buffered when a channel died are still handed on over the dead link,
\* so it may be much more than a batch (connect, consume).
RepeatsBounded == Cardinality(handed \ (acked \cup rejected)) <= Prefetch

\* Every message published to the queue is at last acknowledged or rejected
\* at the broker, across lost connections, undecodable neighbours, a full
\* channel and a queue that is created late, unless Start fails or Stop is
\* called (connectionLoop, ackTicker).
EverySettled ==
    \A m \in Msgs :
        m <= published ~> m \in acked \cup rejected \/ Stopping \/ pc = "unstarted"

\* Stop ends connectionLoop and leaves no connection behind, whatever it was
\* doing and whichever connection Stop found in r.conn, unless the send on
\* the closed packetsWithAddr panics first (Stop, connectionLoop).
StopReleases ==
    Stopping ~> crashed \/ (pc \in {"done", "unstarted"} /\ ~conn)
=============================================================================
