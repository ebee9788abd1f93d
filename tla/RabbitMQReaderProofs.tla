------------------------ MODULE RabbitMQReaderProofs ------------------------
(***************************************************************************)
(* Proofs about RabbitMQReader for every number of messages, every set of  *)
(* undecodable ones, every prefetch window, batch size and channel         *)
(* capacity.                                                               *)
(*                                                                         *)
(* The inductive invariant ties the reader's two counters to the broker's  *)
(* view of the channel: while it is up, the tags read but not yet settled  *)
(* are those up to lastAckDeliveryTag that are outstanding, unackedCount   *)
(* is their number, and everything after what was read is outstanding.     *)
(*                                                                         *)
(* A second invariant, QueueInv, looks at the queue as a whole, whatever   *)
(* the channel did: at most a prefetch window of unsettled messages is     *)
(* older than one that was delivered, so no more can be handed on twice.   *)
(***************************************************************************)
EXTENDS RabbitMQReader, FiniteSetTheorems, FunctionTheorems, SequenceTheorems,
        WellFoundedInduction, TLAPS

Consuming == pc \in {"select", "forward", "nack"}

\* Read, handed on and not yet acknowledged.
Unconfirmed == {t \in outstanding : t <= lastAckDeliveryTag}

\* Only a channel that is up has deliveries outstanding, and between two
\* connections there is none.
ChannelInv ==
    /\ link # "up" => outstanding = {}
    /\ pc \in {"new", "unstarted", "top", "connect", "sleep", "done"} => link = "closed"
    /\ pc = "consume" => read = 0 /\ delivered = <<>> /\ outstanding = {}

\* lastAckDeliveryTag is the last tag dealt with; the one in hand follows it.
TagInv ==
    /\ pc = "select" => lastAckDeliveryTag = read
    /\ pc \in {"forward", "nack"} => read = lastAckDeliveryTag + 1
    /\ pc = "forward" => delivered[read] \notin Bad
    /\ pc = "nack" => delivered[read] \in Bad /\ Unconfirmed = {}

\* What is outstanding at the broker, seen from the reader's counters.
WindowInv ==
    Consuming /\ link = "up" =>
        /\ \A t \in 1..Len(delivered) : t > lastAckDeliveryTag => t \in outstanding
        /\ \A t \in Unconfirmed :
            delivered[t] \notin Bad /\ (Stopping \/ delivered[t] \in handed)
        /\ IsFiniteSet(Unconfirmed)
        /\ Cardinality(Unconfirmed) = unackedCount
        /\ unackedCount > 0 => lastAckDeliveryTag \in outstanding
        /\ unackedCount < Batch

Invs == ChannelInv /\ TagInv /\ WindowInv /\ SettledRightly /\ AcksKnownTags

IInv == TypeOK /\ Invs

-----------------------------------------------------------------------------
(* What the calls on the channel do.                                       *)

\* The tags outstanding name deliveries.
LEMMA DeliveredMsgs ==
    ASSUME TypeOK
    PROVE  \A t \in outstanding : t \in Nat /\ delivered[t] \in Msgs
BY DEF TypeOK

\* Losing the channel leaves nothing outstanding.
LEMMA LoseChannelTypes ==
    ASSUME TypeOK, NEW to, LoseChannel(to)
    PROVE  ready' \subseteq Msgs /\ outstanding' = {} /\ link' = to
<1>1. InFlight \subseteq Msgs
  BY DeliveredMsgs DEF InFlight
<1>2. QED
  BY <1>1 DEF LoseChannel, TypeOK

\* An acknowledgement keeps the types and adds nothing to what is outstanding.
LEMMA AckTypes ==
    ASSUME TypeOK, NEW tag, AckUpTo(tag)
    PROVE  /\ ready' \subseteq Msgs
           /\ outstanding' \subseteq outstanding
           /\ link' \in {link, "closed"}
           /\ acked' \subseteq Msgs
           /\ refused' \in BOOLEAN
<1>1. CASE link # "up"
  BY <1>1 DEF AckUpTo, TypeOK
<1>2. CASE link = "up" /\ tag \in outstanding
  <2>1. {delivered[t] : t \in {u \in outstanding : u <= tag}} \subseteq Msgs
    BY DeliveredMsgs
  <2>2. QED
    BY <1>2, <2>1 DEF AckUpTo, TypeOK
<1>3. CASE link = "up" /\ tag \notin outstanding
  BY <1>3, LoseChannelTypes DEF AckUpTo, TypeOK
<1>4. QED
  BY <1>1, <1>2, <1>3

\* So does a rejection.
LEMMA RejectTypes ==
    ASSUME TypeOK, NEW tag, Reject(tag)
    PROVE  /\ ready' \subseteq Msgs
           /\ outstanding' \subseteq outstanding
           /\ link' \in {link, "closed"}
           /\ rejected' \subseteq Msgs
           /\ refused' \in BOOLEAN
<1>1. CASE link # "up"
  BY <1>1 DEF Reject, TypeOK
<1>2. CASE link = "up" /\ tag \in outstanding
  BY <1>2, DeliveredMsgs DEF Reject, TypeOK
<1>3. CASE link = "up" /\ tag \notin outstanding
  BY <1>3, LoseChannelTypes DEF Reject, TypeOK
<1>4. QED
  BY <1>1, <1>2, <1>3

\* And counting a message, with or without its acknowledgement.
LEMMA ProcessedTypes ==
    ASSUME TypeOK, Processed
    PROVE  /\ ready' \subseteq Msgs
           /\ outstanding' \subseteq outstanding
           /\ link' \in {link, "closed"}
           /\ acked' \subseteq Msgs
           /\ refused' \in BOOLEAN
           /\ pc' = "select"
           /\ unackedCount' \in Nat
           /\ lastAckDeliveryTag' \in Nat
<1>1. CASE unackedCount + 1 >= Batch
  BY <1>1, AckTypes DEF Processed, Goto, TypeOK
<1>2. CASE ~(unackedCount + 1 >= Batch)
  BY <1>2 DEF Processed, NoBrokerCall, Goto, TypeOK
<1>3. QED
  BY <1>1, <1>2

-----------------------------------------------------------------------------
(* The initial state and the types.                                        *)

\* The initial state satisfies the invariant.
LEMMA InitIInv == Init => IInv
<1> SUFFICES ASSUME Init PROVE IInv
  OBVIOUS
<1>1. TypeOK
  <2>1. <<>> \in Seq(Msgs) /\ Len(<<>>) = 0
    OBVIOUS
  <2>2. /\ published \in 0..MaxMsgs /\ faults \in 0..MaxFaults
        /\ read \in 0..Len(delivered)
        /\ delivered \in Seq(Msgs) /\ packets \in Seq(Msgs)
    BY <2>1, ReaderAssumption DEF Init
  <2>3. QED
    BY <2>2 DEF Init, TypeOK
<1>2. Invs
  BY DEF Init, Invs, ChannelInv, TagInv, WindowInv, SettledRightly, AcksKnownTags, Consuming,
         Stopping
<1>3. QED
  BY <1>1, <1>2 DEF IInv, Invs

\* The actions a step can be.
LEMMA Steps ==
    ASSUME [Next]_vars
    PROVE  \/ QueueCreated \/ Publish \/ Deliver \/ ConnectionLost \/ LossNoticed \/ Start
           \/ LoopTop \/ ConnectFails \/ ConnectSucceeds \/ ConsumeStarts \/ ConsumeFails \/ SelectStop
           \/ SelectTick \/ SelectClosed \/ TakeGood \/ TakeBad \/ Nack \/ Forward
           \/ ForwardStopped \/ ForwardPanics \/ Cleanup \/ Sleep \/ StopCalled \/ StopChannel
           \/ StopConn \/ StopPackets \/ Receive \/ UNCHANGED vars
BY DEF Next, Broker, Loop, StopSteps

\* Every step keeps the types.
LEMMA NextTypeOK == TypeOK /\ ChannelInv /\ TagInv /\ [Next]_vars => TypeOK'
<1> SUFFICES ASSUME TypeOK, ChannelInv, TagInv, [Next]_vars PROVE TypeOK'
  OBVIOUS
<1> USE ReaderAssumption DEF TypeOK, Msgs, queueVars, brokerVars, ackVars, stopVars
<1>1. CASE QueueCreated
  BY <1>1 DEF QueueCreated, Goto
<1>2. CASE Publish
  BY <1>2 DEF Publish, Goto
<1>3. CASE Deliver
  <2>1. PICK m \in ready : /\ ready' = ready \ {m}
                           /\ delivered' = Append(delivered, m)
                           /\ outstanding' = outstanding \cup {Len(delivered) + 1}
    BY <1>3 DEF Deliver
  <2>2. delivered' \in Seq(Msgs) /\ Len(delivered') = Len(delivered) + 1
    BY <2>1
  <2>3. Len(delivered) \in Nat
    OBVIOUS
  <2>4. /\ \A t \in outstanding' : t \in 1..Len(delivered')
        /\ read \in 0..Len(delivered')
    BY <2>1, <2>2, <2>3
  <2>5. QED
    BY <1>3, <2>1, <2>2, <2>4 DEF Deliver
<1>4. CASE ConnectionLost
  BY <1>4, LoseChannelTypes DEF ConnectionLost, Goto
<1>5. CASE LossNoticed
  BY <1>5 DEF LossNoticed, Goto
<1>6. CASE Start
  BY <1>6 DEF Start, Goto
<1>7. CASE LoopTop
  BY <1>7 DEF LoopTop, Goto
<1>8. CASE ConnectFails
  <2>1. faults' \in 0..MaxFaults
    BY <1>8 DEF ConnectFails
  <2>2. QED
    BY <1>8, <2>1 DEF ConnectFails, Goto
<1>9. CASE ConnectSucceeds
  <2>1. outstanding = {} /\ delivered' = <<>> /\ <<>> \in Seq(Msgs) /\ Len(<<>>) = 0
    BY <1>9 DEF ConnectSucceeds, ChannelInv
  <2>2. QED
    BY <1>9, <2>1 DEF ConnectSucceeds, Goto
<1>10. CASE ConsumeStarts
  BY <1>10 DEF ConsumeStarts, Goto
<1>11. CASE ConsumeFails
  BY <1>11 DEF ConsumeFails, Goto
<1>12. CASE SelectStop
  BY <1>12, AckTypes DEF SelectStop, Goto, NoBrokerCall
<1>13. CASE SelectTick
  BY <1>13, AckTypes DEF SelectTick, Goto, NoBrokerCall
<1>14. CASE SelectClosed
  BY <1>14 DEF SelectClosed, Goto
<1>15. CASE TakeGood
  BY <1>15 DEF TakeGood, Goto
<1>16. CASE TakeBad
  <2>1. /\ ready' \subseteq Msgs /\ acked' \subseteq Msgs
        /\ outstanding' \subseteq outstanding
        /\ link' \in {link, "closed"} /\ refused' \in BOOLEAN
    BY <1>16, AckTypes DEF TakeBad, NoBrokerCall
  <2>2. unackedCount' \in Nat
    BY <1>16 DEF TakeBad
  <2>3. read' \in 0..Len(delivered)
    BY <1>16 DEF TakeBad
  <2>4. QED
    BY <1>16, <2>1, <2>2, <2>3 DEF TakeBad, Goto
<1>17. CASE Nack
  <2>1. Reject(read)
    BY <1>17 DEF Nack
  <2>2. QED
    BY <1>17, <2>1, RejectTypes, read \in Nat DEF Nack, Goto
<1>18. CASE Forward
  <2>1. delivered[read] \in Msgs
    BY <1>18 DEF Forward, TagInv
  <2>2. packets' \in Seq(Msgs) /\ handed' \subseteq Msgs
    <3>1. Append(packets, delivered[read]) \in Seq(Msgs)
      BY <2>1, AppendProperties
    <3>2. QED
      BY <1>18, <2>1, <3>1 DEF Forward
  <2>3. QED
    BY <1>18, <2>2, ProcessedTypes DEF Forward
<1>19. CASE ForwardStopped
  BY <1>19, ProcessedTypes DEF ForwardStopped, Goto
<1>20. CASE ForwardPanics
  BY <1>20, LoseChannelTypes DEF ForwardPanics, Goto
<1>21. CASE Cleanup
  BY <1>21, LoseChannelTypes DEF Cleanup, Goto
<1>22. CASE Sleep
  BY <1>22 DEF Sleep, Goto
<1>23. CASE StopCalled
  BY <1>23 DEF StopCalled, Goto
<1>24. CASE StopChannel
  BY <1>24, LoseChannelTypes DEF StopChannel, Goto
<1>25. CASE StopConn
  BY <1>25, LoseChannelTypes DEF StopConn, Goto
<1>26. CASE StopPackets
  BY <1>26 DEF StopPackets, Goto
<1>27. CASE Receive
  BY <1>27 DEF Receive, Goto
<1>28. CASE UNCHANGED vars
  BY <1>28 DEF vars
<1> QED
  BY Steps, <1>1, <1>2, <1>3, <1>4, <1>5, <1>6, <1>7, <1>8, <1>9, <1>10, <1>11, <1>12, <1>13, <1>14, <1>15, <1>16, <1>17, <1>18, <1>19, <1>20, <1>21, <1>22, <1>23, <1>24, <1>25, <1>26, <1>27, <1>28

-----------------------------------------------------------------------------
(* Acknowledging what was handed on.                                       *)

\* Acknowledging up to lastAckDeliveryTag settles exactly what was read and
\* handed on, all of it decodable, and names a tag the channel knows.
LEMMA AckSafe ==
    ASSUME IInv, Consuming, HasUnacked, AckUpTo(lastAckDeliveryTag)
    PROVE  /\ link' = link /\ ~refused'
           /\ outstanding' = outstanding \ Unconfirmed
           /\ acked' \cap Bad = {}
           /\ ~Stopping => acked' \subseteq handed
<1> USE DEF IInv, Invs, SettledRightly, AcksKnownTags
<1>1. CASE link # "up"
  BY <1>1 DEF AckUpTo, ChannelInv
<1>2. CASE link = "up"
  <2>1. lastAckDeliveryTag \in outstanding
    BY <1>2 DEF WindowInv, HasUnacked
  <2>2. /\ outstanding' = outstanding \ Unconfirmed
        /\ acked' = acked \cup {delivered[t] : t \in Unconfirmed}
        /\ link' = link /\ ~refused'
    BY <1>2, <2>1 DEF AckUpTo, Unconfirmed
  <2>3. \A t \in Unconfirmed : delivered[t] \notin Bad /\ (Stopping \/ delivered[t] \in handed)
    BY <1>2 DEF WindowInv
  <2>4. QED
    BY <2>2, <2>3
<1>3. QED
  BY <1>1, <1>2

\* Counting the message just dealt with, and acknowledging a full batch.
LEMMA ProcessedSafe ==
    ASSUME IInv, pc = "forward", Processed
    PROVE  /\ link' = link /\ ~refused'
           /\ link # "up" => outstanding' = {}
           /\ acked' \cap Bad = {}
           /\ ~Stopping => acked' \subseteq handed \cup {delivered[read]}
           /\ link = "up" =>
                /\ outstanding' \subseteq outstanding
                /\ \A t \in 1..Len(delivered) : t > read => t \in outstanding'
                /\ IsFiniteSet({t \in outstanding' : t <= read})
                /\ Cardinality({t \in outstanding' : t <= read}) = unackedCount'
                /\ unackedCount' > 0 => read \in outstanding'
                /\ unackedCount' < Batch
<1> USE DEF IInv, Invs, SettledRightly, AcksKnownTags
<1>1. CASE link # "up"
  BY <1>1 DEF Processed, AckUpTo, NoBrokerCall, ChannelInv
<1>2. CASE link = "up"
  <2>1. /\ read \in 1..Len(delivered) /\ read = lastAckDeliveryTag + 1
        /\ delivered[read] \notin Bad
        /\ unackedCount \in Nat /\ Batch \in Nat \ {0} /\ lastAckDeliveryTag \in Nat
        /\ Len(delivered) \in Nat
        /\ \A t \in outstanding : t \in Nat
        /\ \A t \in 1..Len(delivered) : t > lastAckDeliveryTag => t \in outstanding
    BY <1>2, ReaderAssumption DEF TypeOK, TagInv, WindowInv, Consuming
  <2>2. read \in outstanding /\ read \notin Unconfirmed
    BY <2>1 DEF Unconfirmed
  <2>3. {t \in outstanding : t <= read} = Unconfirmed \cup {read}
    <3>1. ASSUME NEW t \in outstanding
          PROVE  t <= read <=> t <= lastAckDeliveryTag \/ t = read
      BY <2>1
    <3>2. QED
      BY <2>2, <3>1 DEF Unconfirmed
  <2>4. /\ IsFiniteSet(Unconfirmed) /\ Cardinality(Unconfirmed) = unackedCount
        /\ \A t \in Unconfirmed : delivered[t] \notin Bad
        /\ \A t \in Unconfirmed : Stopping \/ delivered[t] \in handed
    BY <1>2 DEF WindowInv, Consuming
  <2>5. CASE unackedCount + 1 >= Batch
    <3>1. /\ outstanding' = outstanding \ {t \in outstanding : t <= read}
          /\ acked' = acked \cup {delivered[t] : t \in {u \in outstanding : u <= read}}
          /\ link' = link /\ ~refused' /\ unackedCount' = 0
      BY <1>2, <2>2, <2>5 DEF Processed, AckUpTo
    <3>2. {t \in outstanding' : t <= read} = {}
      BY <3>1
    <3>3. acked' = acked \cup {delivered[t] : t \in Unconfirmed} \cup {delivered[read]}
      BY <2>3, <3>1
    <3>4. IsFiniteSet({}) /\ Cardinality({}) = 0
      BY FS_EmptySet
    <3>5. /\ outstanding' \subseteq outstanding
          /\ \A t \in 1..Len(delivered) : t > read => t \in outstanding'
      BY <2>1, <3>1, \A t \in 1..Len(delivered) : t > read => t > lastAckDeliveryTag
    <3>6. acked' \cap Bad = {} /\ (~Stopping => acked' \subseteq handed \cup {delivered[read]})
      BY <2>1, <2>4, <3>3
    <3>7. /\ IsFiniteSet({t \in outstanding' : t <= read})
          /\ Cardinality({t \in outstanding' : t <= read}) = unackedCount'
      BY <3>1, <3>2, <3>4
    <3>8. ~(unackedCount' > 0) /\ unackedCount' < Batch
      BY <2>1, <3>1
    <3>9. QED
      BY <1>2, <3>1, <3>5, <3>6, <3>7, <3>8
  <2>6. CASE ~(unackedCount + 1 >= Batch)
    <3>1. /\ UNCHANGED <<ready, outstanding, link, acked, refused>>
          /\ unackedCount' = unackedCount + 1
      BY <2>6 DEF Processed, NoBrokerCall
    <3>2. /\ IsFiniteSet(Unconfirmed \cup {read})
          /\ Cardinality(Unconfirmed \cup {read}) = unackedCount + 1
      BY <2>2, <2>4, FS_AddElement
    <3>3. /\ acked' \cap Bad = {}
          /\ ~Stopping => acked' \subseteq handed \cup {delivered[read]}
      BY <3>1
    <3>4. \A t \in 1..Len(delivered) : t > read => t \in outstanding'
      BY <2>1, <3>1
    <3>5. {t \in outstanding' : t <= read} = Unconfirmed \cup {read}
      BY <2>3, <3>1
    <3>6. /\ IsFiniteSet({t \in outstanding' : t <= read})
          /\ Cardinality({t \in outstanding' : t <= read}) = unackedCount'
      BY <3>1, <3>2, <3>5
    <3>7. unackedCount' < Batch
      BY <2>1, <2>6, <3>1
    <3>8. QED
      BY <1>2, <2>2, <3>1, <3>3, <3>4, <3>6, <3>7
  <2>7. QED
    BY <2>5, <2>6
<1>3. QED
  BY <1>1, <1>2

-----------------------------------------------------------------------------
(* The invariant is inductive.                                             *)

\* Every step keeps the rest of the invariant.
LEMMA NextInvs == IInv /\ [Next]_vars => Invs'
<1> SUFFICES ASSUME IInv, [Next]_vars PROVE Invs'
  OBVIOUS
<1>inv. TypeOK /\ Invs
  BY DEF IInv
<1> USE DEF Invs, ChannelInv, TagInv, WindowInv, SettledRightly, AcksKnownTags, Consuming,
            Unconfirmed, Stopping, queueVars, brokerVars, ackVars, stopVars
<1>1. CASE QueueCreated
  BY <1>inv, <1>1 DEF QueueCreated, Goto
<1>2. CASE Publish
  BY <1>inv, <1>2 DEF Publish, Goto
<1>3. CASE Deliver
  <2>1. PICK m \in ready : /\ delivered' = Append(delivered, m)
                           /\ outstanding' = outstanding \cup {Len(delivered) + 1}
    BY <1>3 DEF Deliver
  <2>2. /\ m \in Msgs /\ delivered \in Seq(Msgs) /\ Len(delivered) \in Nat
        /\ outstanding \subseteq 1..Len(delivered)
        /\ read \in 0..Len(delivered) /\ lastAckDeliveryTag \in Nat
        /\ lastAckDeliveryTag <= Len(delivered)
    BY <1>inv, <1>3 DEF TypeOK, Deliver
  <2>3. /\ Len(delivered') = Len(delivered) + 1
        /\ \A t \in 1..Len(delivered) : delivered'[t] = delivered[t]
    BY <2>1, <2>2, AppendProperties
  <2>4. Unconfirmed' = Unconfirmed
    BY <1>3, <2>1, <2>2 DEF Deliver
  <2>5. TagInv'
    BY <1>inv, <1>3, <2>2, <2>3, <2>4 DEF Deliver
  <2>6. ASSUME link = "up"
        PROVE  /\ \A t \in 1..Len(delivered') : t > lastAckDeliveryTag => t \in outstanding'
               /\ \A t \in Unconfirmed' :
                    delivered'[t] \notin Bad /\ (Stopping \/ delivered'[t] \in handed)
    BY <1>inv, <1>3, <2>1, <2>2, <2>3, <2>4, <2>6 DEF Deliver
  <2>7. WindowInv'
    BY <1>inv, <1>3, <2>1, <2>4, <2>6 DEF Deliver
  <2>8. QED
    BY <1>inv, <1>3, <2>5, <2>7 DEF Deliver
<1>4. CASE ConnectionLost
  BY <1>inv, <1>4, LoseChannelTypes DEF ConnectionLost, Goto
<1>5. CASE LossNoticed
  BY <1>inv, <1>5 DEF LossNoticed, Goto
<1>6. CASE Start
  BY <1>inv, <1>6 DEF Start, Goto
<1>7. CASE LoopTop
  BY <1>inv, <1>7 DEF LoopTop, Goto
<1>8. CASE ConnectFails
  BY <1>inv, <1>8 DEF ConnectFails, Goto
<1>9. CASE ConnectSucceeds
  BY <1>inv, <1>9 DEF ConnectSucceeds, Goto
<1>10. CASE ConsumeStarts
  <2>1. /\ read = 0 /\ delivered' = <<>> /\ Len(<<>>) = 0 /\ outstanding' = {}
        /\ unackedCount' = 0 /\ lastAckDeliveryTag' = 0 /\ Batch > 0
    BY <1>inv, <1>10, ReaderAssumption DEF ConsumeStarts
  <2>2. {t \in outstanding' : t <= lastAckDeliveryTag'} = {}
    BY <2>1
  <2>3. IsFiniteSet({}) /\ Cardinality({}) = 0
    BY FS_EmptySet
  <2>4. WindowInv'
    BY <2>1, <2>2, <2>3
  <2>5. QED
    BY <1>inv, <1>10, <2>1, <2>4 DEF ConsumeStarts, Goto
<1>11. CASE ConsumeFails
  BY <1>inv, <1>11 DEF ConsumeFails, Goto
<1>12. CASE SelectStop
  BY <1>inv, <1>12, AckSafe DEF SelectStop, NoBrokerCall, Goto
<1>13. CASE SelectTick
  <2>1. /\ link' = link /\ ~refused' /\ acked' \cap Bad = {}
        /\ outstanding' = outstanding \ Unconfirmed
        /\ ~Stopping => acked' \subseteq handed
    BY <1>inv, <1>13, AckSafe DEF SelectTick
  <2>2. Unconfirmed' = {} /\ IsFiniteSet({}) /\ Cardinality({}) = 0
    BY <1>13, <2>1, FS_EmptySet DEF SelectTick
  <2>3. /\ lastAckDeliveryTag \in Nat /\ Batch > 0
        /\ \A t \in 1..Len(delivered) : t \in Nat
    BY <1>inv, ReaderAssumption DEF TypeOK
  <2>4. WindowInv'
    <3> SUFFICES ASSUME link = "up" PROVE WindowInv'
      BY <2>1
    <3>1. \A t \in 1..Len(delivered) : t > lastAckDeliveryTag => t \in outstanding'
      BY <1>inv, <1>13, <2>1, <2>3 DEF SelectTick
    <3>2. unackedCount' = 0 /\ delivered' = delivered /\ lastAckDeliveryTag' = lastAckDeliveryTag
      BY <1>13, <2>1 DEF SelectTick
    <3>3. IsFiniteSet(Unconfirmed') /\ Cardinality(Unconfirmed') = unackedCount'
      BY <2>2, <3>2
    <3>4. QED
      BY <2>2, <2>3, <3>1, <3>2, <3>3
  <2>5. QED
    BY <1>inv, <1>13, <2>1, <2>4 DEF SelectTick
<1>14. CASE SelectClosed
  BY <1>inv, <1>14 DEF SelectClosed, Goto
<1>15. CASE TakeGood
  BY <1>inv, <1>15 DEF TakeGood, Goto
<1>16. CASE TakeBad
  <2>1. /\ link' = link /\ ~refused' /\ acked' \cap Bad = {}
        /\ outstanding' = outstanding \ Unconfirmed
        /\ ~Stopping => acked' \subseteq handed
        /\ link = "up" => unackedCount' = 0
    <3>1. CASE HasUnacked
      BY <1>inv, <1>16, <3>1, AckSafe DEF TakeBad
    <3>2. CASE ~HasUnacked
      <4>1. link = "up" => unackedCount = 0
        BY <1>inv, <1>16, <3>2 DEF TakeBad, HasUnacked, TypeOK
      <4>2. link = "up" => Unconfirmed = {}
        BY <1>inv, <1>16, <4>1, FS_EmptySet DEF TakeBad
      <4>3. outstanding = outstanding \ Unconfirmed
        BY <1>inv, <4>2
      <4>4. QED
        BY <1>inv, <1>16, <3>2, <4>1, <4>3 DEF TakeBad, NoBrokerCall
    <3>3. QED
      BY <3>1, <3>2
  <2>2. Unconfirmed' = {} /\ IsFiniteSet({}) /\ Cardinality({}) = 0
    BY <1>16, <2>1, FS_EmptySet DEF TakeBad
  <2>3. /\ lastAckDeliveryTag \in Nat /\ Batch > 0
        /\ \A t \in 1..Len(delivered) : t \in Nat
    BY <1>inv, ReaderAssumption DEF TypeOK
  <2>4. WindowInv'
    <3> SUFFICES ASSUME link = "up" PROVE WindowInv'
      BY <2>1
    <3>1. \A t \in 1..Len(delivered) : t > lastAckDeliveryTag => t \in outstanding'
      BY <1>inv, <1>16, <2>1, <2>3 DEF TakeBad
    <3>2. unackedCount' = 0 /\ delivered' = delivered /\ lastAckDeliveryTag' = lastAckDeliveryTag
      BY <1>16, <2>1 DEF TakeBad
    <3>3. IsFiniteSet(Unconfirmed') /\ Cardinality(Unconfirmed') = unackedCount'
      BY <2>2, <3>2
    <3>4. QED
      BY <2>2, <2>3, <3>1, <3>2, <3>3
  <2>5. QED
    BY <1>inv, <1>16, <2>1, <2>2, <2>4 DEF TakeBad, Goto
<1>17. CASE Nack
  <2>1. /\ read \in 1..Len(delivered) /\ lastAckDeliveryTag' = read /\ Batch > 0
        /\ Unconfirmed = {} /\ delivered[read] \in Bad
        /\ \A t \in outstanding : t \in Nat
        /\ lastAckDeliveryTag \in Nat /\ read = lastAckDeliveryTag + 1
    BY <1>inv, <1>17, ReaderAssumption DEF Nack, TypeOK
  <2>2. link = "up" => read \in outstanding
    BY <1>inv, <1>17, <2>1 DEF Nack
  <2>3. /\ link' = link /\ ~refused' /\ rejected' \subseteq Bad
        /\ link = "up" => outstanding' = outstanding \ {read}
        /\ link # "up" => outstanding' = outstanding
    BY <1>inv, <1>17, <2>1, <2>2 DEF Nack, Reject
  <2>4. link = "up" => Unconfirmed' = {}
    BY <2>1, <2>3
  <2>5. link = "up" => unackedCount' = 0
    BY <1>inv, <1>17, <2>1, FS_EmptySet DEF Nack
  <2>6. WindowInv'
    <3> SUFFICES ASSUME link = "up" PROVE WindowInv'
      BY <2>3
    <3>1. \A t \in 1..Len(delivered) : t > read => t \in outstanding'
      BY <1>inv, <1>17, <2>1, <2>3 DEF Nack
    <3>2. IsFiniteSet(Unconfirmed') /\ Cardinality(Unconfirmed') = unackedCount'
      BY <2>4, <2>5, FS_EmptySet
    <3>3. QED
      BY <1>17, <2>1, <2>4, <2>5, <3>1, <3>2 DEF Nack
  <2>7. QED
    BY <1>inv, <1>17, <2>1, <2>3, <2>6 DEF Nack, Goto
<1>18. CASE Forward
  <2>1. /\ pc = "forward" /\ Processed /\ pc' = "select" /\ lastAckDeliveryTag' = read
        /\ delivered' = delivered /\ read' = read /\ spc' = spc
    BY <1>18 DEF Forward, Processed, Goto
  <2>2. /\ Stopping \/ delivered[read] \in handed'
        /\ handed \subseteq handed' /\ rejected' = rejected
    BY <1>18 DEF Forward
  <2>3. /\ link' = link /\ ~refused' /\ acked' \cap Bad = {}
        /\ link # "up" => outstanding' = {}
        /\ ~Stopping => acked' \subseteq handed'
    BY <2>1, <2>2, ProcessedSafe
  <2>4. WindowInv'
    <3> SUFFICES ASSUME link = "up" PROVE WindowInv'
      BY <2>3
    <3>1. ASSUME NEW t \in Unconfirmed'
          PROVE  t \in Unconfirmed \/ t = read
      <4>1. outstanding' \subseteq outstanding
        BY <2>1, ProcessedSafe
      <4>2. t \in outstanding /\ t <= read
        BY <2>1, <3>1, <4>1
      <4>3. t \in Nat /\ read = lastAckDeliveryTag + 1 /\ lastAckDeliveryTag \in Nat
        BY <1>inv, <2>1, <4>2 DEF TypeOK
      <4>4. QED
        BY <4>2, <4>3
    <3>2. \A t \in Unconfirmed' : delivered[t] \notin Bad /\ (Stopping \/ delivered[t] \in handed')
      BY <1>inv, <2>1, <2>2, <3>1
    <3>3. QED
      BY <2>1, <3>2, ProcessedSafe
  <2>5. QED
    BY <1>inv, <2>1, <2>2, <2>3, <2>4
<1>19. CASE ForwardStopped
  <2>1. /\ pc = "forward" /\ Processed /\ pc' = "select" /\ lastAckDeliveryTag' = read
        /\ delivered' = delivered /\ read' = read /\ spc' = spc
    BY <1>19 DEF ForwardStopped, Processed, Goto
  <2>2. /\ Stopping \/ delivered[read] \in handed'
        /\ handed \subseteq handed' /\ rejected' = rejected
    BY <1>19 DEF ForwardStopped
  <2>3. /\ link' = link /\ ~refused' /\ acked' \cap Bad = {}
        /\ link # "up" => outstanding' = {}
        /\ ~Stopping => acked' \subseteq handed'
    BY <2>1, <2>2, ProcessedSafe
  <2>4. WindowInv'
    <3> SUFFICES ASSUME link = "up" PROVE WindowInv'
      BY <2>3
    <3>1. ASSUME NEW t \in Unconfirmed'
          PROVE  t \in Unconfirmed \/ t = read
      <4>1. outstanding' \subseteq outstanding
        BY <2>1, ProcessedSafe
      <4>2. t \in outstanding /\ t <= read
        BY <2>1, <3>1, <4>1
      <4>3. t \in Nat /\ read = lastAckDeliveryTag + 1 /\ lastAckDeliveryTag \in Nat
        BY <1>inv, <2>1, <4>2 DEF TypeOK
      <4>4. QED
        BY <4>2, <4>3
    <3>2. \A t \in Unconfirmed' : delivered[t] \notin Bad /\ (Stopping \/ delivered[t] \in handed')
      BY <1>inv, <2>1, <2>2, <3>1
    <3>3. QED
      BY <2>1, <3>2, ProcessedSafe
  <2>5. QED
    BY <1>inv, <2>1, <2>2, <2>3, <2>4
<1>20. CASE ForwardPanics
  BY <1>inv, <1>20, LoseChannelTypes DEF ForwardPanics, Goto
<1>21. CASE Cleanup
  BY <1>inv, <1>21, LoseChannelTypes DEF Cleanup, Goto
<1>22. CASE Sleep
  BY <1>inv, <1>22 DEF Sleep, Goto
<1>23. CASE StopCalled
  BY <1>inv, <1>23 DEF StopCalled, Goto
<1>24. CASE StopChannel
  <2>1. CASE LoseChannel("closed")
    BY <1>inv, <1>24, <2>1, LoseChannelTypes DEF StopChannel
  <2>2. CASE UNCHANGED <<ready, outstanding, link>>
    BY <1>inv, <1>24, <2>2 DEF StopChannel
  <2>3. QED
    BY <1>24, <2>1, <2>2 DEF StopChannel
<1>25. CASE StopConn
  <2>1. CASE LoseChannel("closed")
    BY <1>inv, <1>25, <2>1, LoseChannelTypes DEF StopConn
  <2>2. CASE UNCHANGED <<ready, outstanding, link>>
    BY <1>inv, <1>25, <2>2 DEF StopConn
  <2>3. QED
    BY <1>25, <2>1, <2>2 DEF StopConn
<1>26. CASE StopPackets
  BY <1>inv, <1>26 DEF StopPackets, Goto
<1>27. CASE Receive
  BY <1>inv, <1>27 DEF Receive, Goto
<1>28. CASE UNCHANGED vars
  BY <1>inv, <1>28 DEF vars
<1> QED
  BY Steps, <1>1, <1>2, <1>3, <1>4, <1>5, <1>6, <1>7, <1>8, <1>9, <1>10, <1>11, <1>12, <1>13, <1>14, <1>15, <1>16, <1>17, <1>18, <1>19, <1>20, <1>21, <1>22, <1>23, <1>24, <1>25, <1>26, <1>27, <1>28

\* Every step keeps the whole invariant.
LEMMA NextIInv == IInv /\ [Next]_vars => IInv'
BY NextTypeOK, NextInvs DEF IInv, Invs

-----------------------------------------------------------------------------
(* How much can be handed on again.                                        *)

\* The messages the broker still keeps.
Unsettled == {m \in 1..published : m \notin acked \cup rejected}

\* Those among them that were published before m.
Older(m) == {u \in Unsettled : u < m}

\* What the broker keeps is ready or in flight, and the oldest goes out first:
\* whatever the channel delivered or the collector got had less than a window of
\* unsettled messages before it.
QueueInv ==
    /\ ready \subseteq 1..published
    /\ handed \subseteq 1..published
    /\ Unsettled \subseteq ready \cup InFlight
    /\ \A t \in 1..Len(delivered) : delivered[t] \in 1..published
    /\ \A t \in 1..Len(delivered) :
        delivered[t] \in Unsettled => Cardinality(Older(delivered[t])) < Prefetch
    /\ \A m \in handed : m \in Unsettled => Cardinality(Older(m)) < Prefetch

\* The broker keeps finitely many messages.
LEMMA UnsettledFinite ==
    ASSUME TypeOK
    PROVE  IsFiniteSet(Unsettled)
<1>1. IsFiniteSet(1..published)
  BY FS_Interval, ReaderAssumption DEF TypeOK
<1>2. QED
  BY <1>1, FS_Subset DEF Unsettled

\* As messages are settled, fewer are older than m.
LEMMA OlderShrinks ==
    ASSUME TypeOK, NEW S \in SUBSET Unsettled, NEW m
    PROVE  /\ {u \in S : u < m} \subseteq Older(m)
           /\ Cardinality({u \in S : u < m}) <= Cardinality(Older(m))
           /\ Cardinality(Older(m)) \in Nat
           /\ Cardinality({u \in S : u < m}) \in Nat
<1>1. IsFiniteSet(Older(m))
  BY UnsettledFinite, FS_Subset DEF Older
<1>2. {u \in S : u < m} \subseteq Older(m)
  BY DEF Older
<1>3. QED
  BY <1>1, <1>2, FS_Subset, FS_CardinalityType

\* No more messages are in flight than tags are outstanding.
LEMMA InFlightBounded ==
    ASSUME TypeOK
    PROVE  /\ IsFiniteSet(InFlight)
           /\ Cardinality(InFlight) \in Nat
           /\ Cardinality(outstanding) \in Nat
           /\ Cardinality(InFlight) <= Cardinality(outstanding)
<1>1. IsFiniteSet(outstanding)
  <2>1. IsFiniteSet(1..Len(delivered))
    BY FS_Interval DEF TypeOK
  <2>2. QED
    BY <2>1, FS_Subset DEF TypeOK
<1> DEFINE f == [t \in outstanding |-> delivered[t]]
<1>2. f \in Surjection(outstanding, InFlight)
  BY DEF Surjection, InFlight
<1>3. IsFiniteSet(InFlight) /\ Cardinality(InFlight) <= Cardinality(outstanding)
  BY <1>1, <1>2, FS_Surjection
<1>4. QED
  BY <1>1, <1>3, FS_CardinalityType

\* What every action but Publish and Deliver does to the queue: it may settle
\* messages, start a new channel and hand on what the channel delivered.
Winnows ==
    /\ published' = published
    /\ acked \subseteq acked' /\ rejected \subseteq rejected'
    /\ delivered' \in {delivered, <<>>}
    /\ handed' \subseteq handed \cup {delivered[t] : t \in 1..Len(delivered)}
    /\ ready' \subseteq ready \cup InFlight
    /\ Unsettled' \subseteq (ready \cup InFlight)'

\* Such a step keeps the invariant.
LEMMA WinnowsKeeps ==
    ASSUME TypeOK, QueueInv, Winnows
    PROVE  QueueInv'
<1>1. Unsettled' \in SUBSET Unsettled
  BY DEF Unsettled, Winnows
<1>2. ASSUME NEW m, m \in Unsettled => Cardinality(Older(m)) < Prefetch,
             m \in Unsettled'
      PROVE  Cardinality(Older(m)') < Prefetch
  <2>1. Older(m)' = {u \in Unsettled' : u < m}
    BY DEF Older
  <2>2. Cardinality(Older(m)') <= Cardinality(Older(m))
    BY <1>1, <2>1, OlderShrinks
  <2>3. Cardinality(Older(m)) < Prefetch
    BY <1>1, <1>2
  <2>4. Cardinality(Older(m)') \in Nat /\ Cardinality(Older(m)) \in Nat
    BY <1>1, <2>1, OlderShrinks
  <2>5. QED
    BY <2>2, <2>3, <2>4, ReaderAssumption
<1>3. InFlight \subseteq 1..published
  BY DEF InFlight, QueueInv, TypeOK
<1>4. ready' \subseteq 1..published' /\ Unsettled' \subseteq (ready \cup InFlight)'
  BY <1>3 DEF QueueInv, Winnows
<1>5. \A t \in 1..Len(delivered)' : t \in 1..Len(delivered) /\ delivered'[t] = delivered[t]
  BY DEF Winnows
<1>6. handed' \subseteq 1..published'
  BY DEF QueueInv, Winnows
<1>7. ASSUME NEW t \in 1..Len(delivered)'
      PROVE  /\ delivered'[t] \in 1..published'
             /\ delivered'[t] \in Unsettled' => Cardinality(Older(delivered[t])') < Prefetch
  BY <1>2, <1>5 DEF QueueInv, Winnows
<1>8. ASSUME NEW m \in handed', m \in Unsettled'
      PROVE  Cardinality(Older(m)') < Prefetch
  BY <1>2, <1>8 DEF QueueInv, Winnows
<1>9. \A t \in 1..Len(delivered)' :
        delivered'[t] \in Unsettled' => Cardinality(Older(delivered[t])') < Prefetch
  BY <1>7
<1>10. QED
  BY <1>4, <1>5, <1>6, <1>7, <1>8, <1>9 DEF QueueInv, Older

\* Losing the channel makes ready what was in flight.
LEMMA LoseChannelWinnows ==
    ASSUME TypeOK, QueueInv, NEW to, LoseChannel(to),
           UNCHANGED <<published, delivered, handed, acked, rejected>>
    PROVE  Winnows
<1>1. Unsettled' = Unsettled /\ ready' = ready \cup InFlight
  BY DEF Unsettled, LoseChannel
<1>2. QED
  BY <1>1 DEF Winnows, QueueInv

\* An acknowledgement takes out of flight what it settles.
LEMMA AckWinnows ==
    ASSUME TypeOK, QueueInv, NEW tag, AckUpTo(tag),
           UNCHANGED <<published, delivered, rejected>>,
           handed' \subseteq handed \cup {delivered[t] : t \in 1..Len(delivered)}
    PROVE  Winnows
<1>1. CASE link # "up"
  BY <1>1 DEF AckUpTo, Winnows, QueueInv, Unsettled, InFlight
<1>2. CASE link = "up" /\ tag \in outstanding
  <2> DEFINE upTo == {t \in outstanding : t <= tag}
  <2>1. /\ outstanding' = outstanding \ upTo /\ ready' = ready
        /\ acked' = acked \cup {delivered[t] : t \in upTo}
    BY <1>2 DEF AckUpTo
  <2>2. ASSUME NEW u \in Unsettled', u \notin ready
        PROVE  u \in InFlight'
    <3>1. u \in InFlight
      BY <2>1, <2>2 DEF Unsettled, QueueInv
    <3>2. PICK t \in outstanding : delivered[t] = u
      BY <3>1 DEF InFlight
    <3>3. t \notin upTo
      BY <2>1, <2>2, <3>2 DEF Unsettled
    <3>4. QED
      BY <2>1, <3>2, <3>3 DEF InFlight
  <2>3. QED
    BY <2>1, <2>2 DEF Winnows
<1>3. CASE link = "up" /\ tag \notin outstanding
  <2>1. LoseChannel("closed") /\ acked' = acked
    BY <1>3 DEF AckUpTo
  <2>2. Unsettled' = Unsettled /\ ready' = ready \cup InFlight
    BY <2>1 DEF Unsettled, LoseChannel
  <2>3. QED
    BY <2>1, <2>2 DEF Winnows, QueueInv
<1>4. QED
  BY <1>1, <1>2, <1>3

\* So does a rejection.
LEMMA RejectWinnows ==
    ASSUME TypeOK, QueueInv, NEW tag, Reject(tag),
           UNCHANGED <<published, delivered, handed, acked>>
    PROVE  Winnows
<1>1. CASE link # "up"
  BY <1>1 DEF Reject, Winnows, QueueInv, Unsettled, InFlight
<1>2. CASE link = "up" /\ tag \in outstanding
  <2>1. /\ outstanding' = outstanding \ {tag} /\ ready' = ready
        /\ rejected' = rejected \cup {delivered[tag]}
    BY <1>2 DEF Reject
  <2>2. ASSUME NEW u \in Unsettled', u \notin ready
        PROVE  u \in InFlight'
    <3>1. u \in InFlight
      BY <2>1, <2>2 DEF Unsettled, QueueInv
    <3>2. PICK t \in outstanding : delivered[t] = u
      BY <3>1 DEF InFlight
    <3>3. t # tag
      BY <2>1, <2>2, <3>2 DEF Unsettled
    <3>4. QED
      BY <2>1, <3>2, <3>3 DEF InFlight
  <2>3. QED
    BY <2>1, <2>2 DEF Winnows
<1>3. CASE link = "up" /\ tag \notin outstanding
  <2>1. LoseChannel("closed") /\ rejected' = rejected
    BY <1>3 DEF Reject
  <2>2. QED
    BY <2>1, LoseChannelWinnows
<1>4. QED
  BY <1>1, <1>2, <1>3

\* A step that leaves the broker alone changes nothing here.
LEMMA NoCallWinnows ==
    ASSUME TypeOK, QueueInv,
           UNCHANGED <<published, ready, delivered, outstanding, acked, rejected>>,
           handed' \subseteq handed \cup {delivered[t] : t \in 1..Len(delivered)}
    PROVE  Winnows
<1>1. Unsettled' = Unsettled /\ InFlight' = InFlight
  BY DEF Unsettled, InFlight
<1>2. QED
  BY <1>1 DEF Winnows, QueueInv

\* The message in hand is one the channel delivered.
LEMMA ProcessedWinnows ==
    ASSUME TypeOK, QueueInv, Processed,
           UNCHANGED <<published, delivered, rejected>>,
           handed' \subseteq handed \cup {delivered[t] : t \in 1..Len(delivered)}
    PROVE  Winnows
<1>1. CASE unackedCount + 1 >= Batch
  BY <1>1, AckWinnows DEF Processed
<1>2. CASE ~(unackedCount + 1 >= Batch)
  BY <1>2, NoCallWinnows DEF Processed, NoBrokerCall
<1>3. QED
  BY <1>1, <1>2

\* A message published now is younger than all the others.
LEMMA PublishKeeps == TypeOK /\ QueueInv /\ Publish => QueueInv'
<1> SUFFICES ASSUME TypeOK, QueueInv, Publish PROVE QueueInv'
  OBVIOUS
<1>1. /\ published' = published + 1 /\ ready' = ready \cup {published + 1}
      /\ UNCHANGED <<delivered, outstanding, handed, acked, rejected>>
  BY DEF Publish
<1>2. published \in Nat
  BY ReaderAssumption DEF TypeOK
<1>3. Unsettled' \subseteq Unsettled \cup {published + 1} /\ InFlight' = InFlight
  BY <1>1, <1>2 DEF Unsettled, InFlight
<1>4. ASSUME NEW m \in 1..published
      PROVE  /\ m \in 1..published' /\ (m \in Unsettled' => m \in Unsettled)
             /\ {u \in Unsettled' : u < m} = Older(m)
  <2>1. m \in 1..published' /\ (m \in Unsettled' => m \in Unsettled)
    BY <1>1, <1>2 DEF Unsettled
  <2>2. \A u \in Unsettled' : u < m => u \in Unsettled
    <3>1. ~(published + 1 < m)
      BY <1>2
    <3>2. QED
      BY <1>3, <3>1
  <2>3. Unsettled \subseteq Unsettled'
    BY <1>1, <1>2 DEF Unsettled
  <2>4. {u \in Unsettled' : u < m} = {u \in Unsettled : u < m}
    BY <2>2, <2>3
  <2>5. QED
    BY <2>1, <2>4 DEF Older
<1>5. /\ ready' \subseteq 1..published' /\ handed' \subseteq 1..published'
      /\ Unsettled' \subseteq (ready \cup InFlight)'
  BY <1>1, <1>2, <1>3 DEF QueueInv
<1>6. ASSUME NEW t \in 1..Len(delivered)
      PROVE  /\ delivered[t] \in 1..published'
             /\ delivered[t] \in Unsettled' =>
                    Cardinality({u \in Unsettled' : u < delivered[t]}) < Prefetch
  <2>1. delivered[t] \in 1..published
    BY DEF QueueInv
  <2>2. QED
    BY <1>4, <2>1 DEF QueueInv
<1>7. ASSUME NEW m \in handed, m \in Unsettled'
      PROVE  Cardinality({u \in Unsettled' : u < m}) < Prefetch
  BY <1>4, <1>7 DEF QueueInv
<1>8. QED
  BY <1>1, <1>5, <1>6, <1>7 DEF QueueInv, Older

\* What is older than the message the broker delivers is all in flight, where
\* there is room for one more.
LEMMA DeliverKeeps == TypeOK /\ QueueInv /\ Deliver => QueueInv'
<1> SUFFICES ASSUME TypeOK, QueueInv, Deliver PROVE QueueInv'
  OBVIOUS
<1>1. PICK m \in ready : /\ \A n \in ready : m <= n
                         /\ ready' = ready \ {m}
                         /\ delivered' = Append(delivered, m)
                         /\ outstanding' = outstanding \cup {Len(delivered) + 1}
  BY DEF Deliver
<1>2. UNCHANGED <<published, handed, acked, rejected>> /\ Cardinality(outstanding) < Prefetch
  BY DEF Deliver, queueVars
<1>3. /\ Len(delivered) \in Nat /\ Len(delivered') = Len(delivered) + 1
      /\ \A t \in 1..Len(delivered) : delivered'[t] = delivered[t]
      /\ delivered'[Len(delivered) + 1] = m
      /\ m \in 1..published
      /\ published \in Nat
      /\ outstanding \subseteq 1..Len(delivered)
  BY <1>1, ReaderAssumption DEF TypeOK, QueueInv, Msgs
<1>4. InFlight' = InFlight \cup {m}
  BY <1>1, <1>3 DEF InFlight
<1>5. Unsettled' = Unsettled /\ \A n : Older(n)' = Older(n)
  BY <1>2 DEF Unsettled, Older
<1>6. Cardinality(Older(m)) < Prefetch
  <2>1. ASSUME NEW u \in Older(m)
        PROVE  u \in InFlight
    <3>1. u \in Unsettled /\ u \in Nat /\ u < m /\ m \in Nat
      BY <1>3 DEF Older, Unsettled
    <3>2. u \notin ready
      BY <1>1, <3>1
    <3>3. QED
      BY <3>1, <3>2 DEF QueueInv
  <2>2. Older(m) \in SUBSET InFlight
    BY <2>1
  <2>3. Cardinality(Older(m)) <= Cardinality(InFlight) /\ Cardinality(Older(m)) \in Nat
    BY <2>2, InFlightBounded, FS_Subset, FS_CardinalityType
  <2>4. QED
    BY <1>2, <2>3, InFlightBounded, ReaderAssumption
<1>7. /\ ready' \subseteq 1..published' /\ handed' \subseteq 1..published'
      /\ Unsettled' \subseteq (ready \cup InFlight)'
  BY <1>1, <1>2, <1>4, <1>5 DEF QueueInv
<1>8. ASSUME NEW t \in 1..Len(delivered')
      PROVE  /\ delivered'[t] \in 1..published'
             /\ delivered'[t] \in Unsettled' => Cardinality(Older(delivered'[t])) < Prefetch
  <2>1. t \in 1..Len(delivered) \/ t = Len(delivered) + 1
    BY <1>3
  <2>2. QED
    BY <1>2, <1>3, <1>5, <1>6, <2>1 DEF QueueInv
<1>9. \A n \in handed' : n \in Unsettled' => Cardinality(Older(n)') < Prefetch
  BY <1>2, <1>5 DEF QueueInv
<1>10. \A t \in 1..Len(delivered') :
          /\ delivered'[t] \in 1..published'
          /\ delivered'[t] \in Unsettled' =>
                Cardinality({u \in Unsettled' : u < delivered'[t]}) < Prefetch
  BY <1>5, <1>8 DEF Older
<1>11. QED
  BY <1>7, <1>9, <1>10 DEF QueueInv, Older

\* Every step keeps the invariant about the queue.
LEMMA NextQueueInv == IInv /\ QueueInv /\ [Next]_vars => QueueInv'
<1> SUFFICES ASSUME IInv, QueueInv, [Next]_vars PROVE QueueInv'
  OBVIOUS
<1>inv. TypeOK /\ ChannelInv /\ TagInv
  BY DEF IInv, Invs
<1>d. delivered[read] \in {delivered[t] : t \in 1..Len(delivered)} \/ pc # "forward"
  BY <1>inv DEF TypeOK, TagInv
<1> USE DEF queueVars, brokerVars, ackVars, stopVars
<1>1. CASE Publish
  BY <1>inv, <1>1, PublishKeeps
<1>2. CASE Deliver
  BY <1>inv, <1>2, DeliverKeeps
<1>3. ASSUME \/ QueueCreated \/ LossNoticed \/ Start \/ LoopTop \/ ConnectFails
             \/ ConsumeStarts \/ ConsumeFails \/ SelectClosed \/ TakeGood \/ Sleep
             \/ StopCalled \/ StopPackets \/ Receive \/ UNCHANGED vars
      PROVE  Winnows
  <2>1. UNCHANGED <<published, ready, delivered, outstanding, acked, rejected, handed>>
    BY <1>3 DEF QueueCreated, LossNoticed, Start, LoopTop, ConnectFails, ConsumeStarts,
                ConsumeFails, SelectClosed, TakeGood, Sleep, StopCalled, StopPackets, Receive,
                vars
  <2>2. QED
    BY <1>inv, <2>1, NoCallWinnows
<1>4. ASSUME ConnectionLost PROVE Winnows
  BY <1>inv, <1>4, LoseChannelWinnows DEF ConnectionLost
<1>5. ASSUME ConnectSucceeds PROVE Winnows
  <2>1. /\ UNCHANGED <<published, ready, outstanding, acked, rejected, handed>>
        /\ delivered' = <<>> /\ outstanding = {}
    BY <1>inv, <1>5 DEF ConnectSucceeds, ChannelInv
  <2>2. Unsettled' = Unsettled /\ InFlight' = InFlight
    BY <2>1 DEF Unsettled, InFlight
  <2>3. QED
    BY <2>1, <2>2 DEF Winnows, QueueInv
<1>6. ASSUME SelectStop PROVE Winnows
  <2>1. CASE HasUnacked
    BY <1>inv, <1>6, <2>1, AckWinnows DEF SelectStop
  <2>2. CASE ~HasUnacked
    BY <1>inv, <1>6, <2>2, NoCallWinnows DEF SelectStop, NoBrokerCall
  <2>3. QED
    BY <2>1, <2>2
<1>7. ASSUME SelectTick PROVE Winnows
  BY <1>inv, <1>7, AckWinnows DEF SelectTick
<1>8. ASSUME TakeBad PROVE Winnows
  <2>1. CASE HasUnacked
    BY <1>inv, <1>8, <2>1, AckWinnows DEF TakeBad
  <2>2. CASE ~HasUnacked
    BY <1>inv, <1>8, <2>2, NoCallWinnows DEF TakeBad, NoBrokerCall
  <2>3. QED
    BY <2>1, <2>2
<1>9. ASSUME Nack PROVE Winnows
  BY <1>inv, <1>9, RejectWinnows DEF Nack
<1>10. ASSUME Forward PROVE Winnows
  BY <1>inv, <1>10, <1>d, ProcessedWinnows DEF Forward
<1>11. ASSUME ForwardStopped PROVE Winnows
  BY <1>inv, <1>11, ProcessedWinnows DEF ForwardStopped
<1>12. ASSUME ForwardPanics PROVE Winnows
  BY <1>inv, <1>12, LoseChannelWinnows DEF ForwardPanics
<1>13. ASSUME Cleanup PROVE Winnows
  BY <1>inv, <1>13, LoseChannelWinnows DEF Cleanup
<1>14. ASSUME StopChannel PROVE Winnows
  <2>1. CASE LoseChannel("closed")
    BY <1>inv, <1>14, <2>1, LoseChannelWinnows DEF StopChannel
  <2>2. CASE UNCHANGED <<ready, outstanding, link>>
    BY <1>inv, <1>14, <2>2, NoCallWinnows DEF StopChannel
  <2>3. QED
    BY <1>14, <2>1, <2>2 DEF StopChannel
<1>15. ASSUME StopConn PROVE Winnows
  <2>1. CASE LoseChannel("closed")
    BY <1>inv, <1>15, <2>1, LoseChannelWinnows DEF StopConn
  <2>2. CASE UNCHANGED <<ready, outstanding, link>>
    BY <1>inv, <1>15, <2>2, NoCallWinnows DEF StopConn
  <2>3. QED
    BY <1>15, <2>1, <2>2 DEF StopConn
<1>16. Winnows => QueueInv'
  BY <1>inv, WinnowsKeeps
<1>17. QED
  BY Steps, <1>1, <1>2, <1>3, <1>4, <1>5, <1>6, <1>7, <1>8, <1>9, <1>10, <1>11, <1>12, <1>13,
     <1>14, <1>15, <1>16

\* The initial state has an empty queue.
LEMMA InitQueueInv == Init => QueueInv
BY DEF Init, QueueInv, Unsettled

\* A bounded set of numbers that is not empty has a largest one.
LEMMA Largest ==
    ASSUME NEW S \in SUBSET Nat, NEW b \in Nat, \A s \in S : s <= b, S # {}
    PROVE  \E h \in S : \A s \in S : s <= h
<1> DEFINE Bounds == {n \in Nat : \A s \in S : s <= n}
           Less == {p \in Nat \X Nat : p[1] < p[2]}
<1>1. IsWellFoundedOn(Less, Nat)
  BY NatLessThanWellFounded, Zenon DEF OpToRel
<1>2. PICK h \in Bounds : \A n \in Bounds : ~(<<n, h>> \in Less)
  <2>1. Bounds \subseteq Nat /\ b \in Bounds
    OBVIOUS
  <2> HIDE DEF Less, Bounds
  <2>2. Bounds # {}
    BY <2>1
  <2>3. QED
    BY <1>1, <2>1, <2>2, WFMin
<1>3. h \in S
  <2> SUFFICES ASSUME h \notin S PROVE FALSE
    OBVIOUS
  <2>1. PICK s \in S : TRUE
    OBVIOUS
  <2>2. \A u \in S : u <= h - 1 /\ u \in Nat
    OBVIOUS
  <2>3. h - 1 \in Nat
    BY <2>1, <2>2
  <2>4. h - 1 \in Bounds /\ h \in Nat /\ h - 1 < h
    BY <2>2, <2>3
  <2>5. <<h - 1, h>> \in Less
    BY <2>3, <2>4
  <2>6. QED
    BY <1>2, <2>4, <2>5
<1>4. QED
  BY <1>3

\* Everything handed on and unsettled is the youngest such message or older, and
\* less than a window is older.
LEMMA QueueInvBounds == TypeOK /\ QueueInv => RepeatsBounded
<1> SUFFICES ASSUME TypeOK, QueueInv PROVE RepeatsBounded
  OBVIOUS
<1> DEFINE Repeatable == handed \ (acked \cup rejected)
<1>1. Repeatable = {m \in handed : m \in Unsettled} /\ published \in Nat
  <2>1. \A m \in handed : m \in Unsettled <=> m \notin acked \cup rejected
    BY DEF QueueInv, Unsettled
  <2>2. QED
    BY <2>1, ReaderAssumption DEF TypeOK
<1>2. CASE Repeatable = {}
  <2>1. Cardinality(Repeatable) = 0
    <3> HIDE DEF Repeatable
    <3>1. QED
      BY <1>2, FS_EmptySet
  <2>2. QED
    BY <2>1, ReaderAssumption DEF RepeatsBounded
<1>3. CASE Repeatable # {}
  <2>1. Repeatable \in SUBSET Nat /\ \A s \in Repeatable : s <= published
    BY <1>1 DEF Unsettled
  <2>2. PICK h \in Repeatable : \A s \in Repeatable : s <= h
    <3> HIDE DEF Repeatable
    <3>1. QED
      BY <1>1, <1>3, <2>1, Largest
  <2>3. IsFiniteSet(Older(h))
    BY UnsettledFinite, FS_Subset DEF Older
  <2>4. Cardinality(Older(h)) < Prefetch /\ Cardinality(Older(h)) \in Nat
    <3>1. h \in handed /\ h \in Unsettled
      BY <1>1, <2>2
    <3>2. QED
      BY <2>3, <3>1, FS_CardinalityType DEF QueueInv
  <2>5. h \notin Older(h)
    BY <2>1, <2>2 DEF Older
  <2>6. /\ IsFiniteSet(Older(h) \cup {h})
        /\ Cardinality(Older(h) \cup {h}) = Cardinality(Older(h)) + 1
    BY <2>3, <2>5, FS_AddElement
  <2>7. Repeatable \in SUBSET (Older(h) \cup {h})
    <3>1. ASSUME NEW s \in Repeatable, s # h
          PROVE  s \in Older(h)
      BY <1>1, <2>1, <2>2, <3>1 DEF Older
    <3>2. QED
      BY <3>1
  <2>8. /\ Cardinality(Repeatable) <= Cardinality(Older(h)) + 1
        /\ Cardinality(Repeatable) \in Nat
    BY <2>6, <2>7, FS_Subset, FS_CardinalityType
  <2>9. Cardinality(Repeatable) <= Prefetch
    BY <2>4, <2>8, ReaderAssumption
  <2>10. QED
    BY <2>9 DEF RepeatsBounded
<1>4. QED
  BY <1>2, <1>3

-----------------------------------------------------------------------------
(* The theorems.                                                           *)

\* The inductive invariant holds throughout.
THEOREM SpecIInv == Spec => []IInv
BY InitIInv, NextIInv, PTL DEF Spec

\* Every variable keeps its type; in particular the tags outstanding are
\* always tags of the current channel.
THEOREM SpecTypeOK == Spec => []TypeOK
BY SpecIInv, PTL DEF IInv

\* The broker is told to forget a message only after the collector has it,
\* unless Stop was called, and rejects exactly what does not decode
\* (consume, processMessage).
THEOREM SpecSettledRightly == Spec => []SettledRightly
BY SpecIInv, PTL DEF IInv, Invs

\* The reader never acknowledges or rejects a tag its channel does not know
\* (the resets in consume, one set of counters per channel).
THEOREM SpecAcksKnownTags == Spec => []AcksKnownTags
BY SpecIInv, PTL DEF IInv, Invs

\* unackedCount counts exactly what was read from the channel that is up and is
\* still outstanding, and stays below a batch (consume).
THEOREM SpecUnackedCounted == Spec => []UnackedCounted
<1>1. IInv => UnackedCounted
  BY DEF IInv, Invs, WindowInv, Consuming, Unconfirmed, UnackedCounted
<1>2. QED
  BY <1>1, SpecIInv, PTL

\* The messages handed to the collector that the broker will deliver again are
\* never more than one prefetch window, however many channels are lost and
\* whatever is handed on over a dead link (connect, consume).
THEOREM SpecRepeatsBounded == Spec => []RepeatsBounded
<1>1. Spec => []QueueInv
  BY InitQueueInv, NextQueueInv, SpecIInv, PTL DEF Spec
<1>2. QED
  BY <1>1, SpecTypeOK, QueueInvBounds, PTL
=============================================================================
