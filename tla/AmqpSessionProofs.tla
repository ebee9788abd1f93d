------------------------- MODULE AmqpSessionProofs -------------------------
(***************************************************************************)
(* Proofs about AmqpSession for any number of messages and failures: the   *)
(* session moves only along the edges of SessionLink, which is all that    *)
(* WorkerPool assumes of it, and it takes failures for what the broker     *)
(* gets to deviate from what was published.                                *)
(***************************************************************************)
EXTENDS AmqpSession, OrderedSeqTheorems

-----------------------------------------------------------------------------
(* The inductive invariant.                                                *)

Publishing == {"publish", "backoff", "push"}
Closing == {"close", "closechan", "closeconn", "exited"}

\* What the places in handleReconnect and handleReInit say of the connection,
\* the channel and isReady.
LinkInv ==
    /\ connNote => conn # "open"
    /\ chanNote => chan # "open"
    /\ rpc \in {"top", "dial", "dialwait"} => conn # "open"
    /\ rpc \in {"dial", "dialwait", "init", "initwait"} => ~isReady
    /\ rpc = "reinit" /\ isReady => chan # "open" \/ conn # "open"
    /\ isReady => chan # "none"
    /\ done => wpc \in Closing
    /\ wpc \in Closing => cancelled

\* Nothing is written to a connection that is gone.
WireInv ==
    /\ conn # "open" => wire = <<>>
    /\ wpc = "closeconn" => wire = <<>>

\* The worker is done with the messages before msg, and with msg in select.
WorkerInv ==
    /\ wpc \in Publishing => msg # 0
    /\ WrittenSet \subseteq 1..msg
    /\ published \subseteq 1..msg

\* What was written is in order; each repetition, and the one that the next
\* attempt may make, has a failure of its own.
DeliveryInv ==
    /\ NonDecreasing(Written)
    /\ Repeats(Written) + (IF wpc \in Publishing /\ msg \in WrittenSet THEN 1 ELSE 0) <= faults
    /\ faults = 0 /\ wpc \in Publishing => 1..(msg - 1) \subseteq WrittenSet
    /\ faults = 0 /\ wpc = "select" => 1..msg \subseteq WrittenSet
    /\ faults = 0 => published \subseteq WrittenSet

IInv == TypeOK /\ LinkInv /\ WireInv /\ WorkerInv /\ DeliveryInv

-----------------------------------------------------------------------------
(* Types and the link.                                                     *)

\* Reading a message off the wire changes nothing of what was written.
LEMMA ReceivedMoves ==
    ASSUME TypeOK, BrokerReceives
    PROVE  /\ received' \in Seq(1..MaxMsgs) /\ wire' \in Seq(1..MaxMsgs)
           /\ Written' = Written
<1>1. wire \in Seq(1..MaxMsgs) /\ received \in Seq(1..MaxMsgs) /\ wire # <<>>
      /\ received' = Append(received, Head(wire)) /\ wire' = Tail(wire)
  BY DEF TypeOK, BrokerReceives
<1>2. Head(wire) \in 1..MaxMsgs /\ Tail(wire) \in Seq(1..MaxMsgs)
  BY <1>1, HeadTailProperties
<1>3. Append(received, Head(wire)) \in Seq(1..MaxMsgs)
  BY <1>1, <1>2, AppendProperties
<1>4. Append(received, Head(wire)) \o Tail(wire) = received \o wire
  BY <1>1, MoveFront
<1>5. QED BY <1>1, <1>2, <1>3, <1>4 DEF Written

\* A successful write, or one that only looks like a failure, appends msg.
LEMMA WriteAppends ==
    ASSUME TypeOK, WorkerInv, UnsafePushOk \/ UnsafePushHalfFails
    PROVE  /\ msg \in 1..MaxMsgs
           /\ received' \in Seq(1..MaxMsgs) /\ wire' \in Seq(1..MaxMsgs)
           /\ Written \in Seq(1..MaxMsgs)
           /\ Written' = Append(Written, msg)
<1>1. wire \in Seq(1..MaxMsgs) /\ received \in Seq(1..MaxMsgs) /\ msg \in 1..MaxMsgs
  BY SessionBounds DEF TypeOK, WorkerInv, Publishing, UnsafePushOk, UnsafePushHalfFails
<1>2. /\ <<msg>> \in Seq(1..MaxMsgs)
      /\ received \o wire \in Seq(1..MaxMsgs)
      /\ Append(wire, msg) = wire \o <<msg>>
      /\ Append(wire, msg) \in Seq(1..MaxMsgs)
      /\ Append(received \o wire, msg) = (received \o wire) \o <<msg>>
      /\ (received \o wire) \o <<msg>> \in Seq(1..MaxMsgs)
  <2>1. <<msg>> \in Seq(1..MaxMsgs) /\ received \o wire \in Seq(1..MaxMsgs)
    BY <1>1, ConcatProperties
  <2>2. /\ Append(wire, msg) = wire \o <<msg>>
        /\ Append(received \o wire, msg) = (received \o wire) \o <<msg>>
    BY <1>1, <2>1, AppendIsConcat
  <2>3. Append(wire, msg) \in Seq(1..MaxMsgs)
    BY <1>1, AppendProperties
  <2>4. (received \o wire) \o <<msg>> \in Seq(1..MaxMsgs)
    BY <2>1, ConcatProperties
  <2>5. QED BY <2>1, <2>2, <2>3, <2>4
<1>3. received \o (wire \o <<msg>>) = (received \o wire) \o <<msg>>
      /\ ((received \o wire) \o <<msg>>) \o <<>> = (received \o wire) \o <<msg>>
      /\ <<>> \in Seq(1..MaxMsgs)
  BY <1>1, <1>2, ConcatAssociative, ConcatEmptySeq, EmptySeq
<1>4. CASE UnsafePushOk
  <2>1. received' = received /\ wire' = wire \o <<msg>>
    BY <1>2, <1>4 DEF UnsafePushOk
  <2>2. QED BY <1>1, <1>2, <1>3, <2>1 DEF Written
<1>5. CASE UnsafePushHalfFails
  BY <1>1, <1>2, <1>3, <1>5 DEF UnsafePushHalfFails, Written
<1>6. QED BY <1>4, <1>5

\* Every step keeps the types.
LEMMA TypeStep ==
    ASSUME TypeOK, WorkerInv, [Next]_vars
    PROVE  TypeOK'
<1> USE SessionBounds DEF TypeOK, LinkStates
<1>1. CASE ConnectionDies
  BY <1>1 DEF ConnectionDies, worker
<1>2. CASE ChannelDies
  BY <1>2 DEF ChannelDies, worker
<1>3. CASE BrokerReceives
  BY <1>3, ReceivedMoves DEF BrokerReceives, session, worker
<1>4. CASE Reconnecting
  <2>1. CASE ConnectOk
    <3>1. <<>> \in Seq(1..MaxMsgs)
      OBVIOUS
    <3>2. QED BY <2>1, <3>1 DEF ConnectOk, worker
  <2>2. ASSUME ~ConnectOk PROVE TypeOK'
    <3>1. UNCHANGED <<wpc, msg, cancelled, published, wire, received, faults, done, conn>>
      BY <1>4, <2>2 DEF Reconnecting, ReconnectTop, ConnectFails, ReconnectDelay, ReInitTop,
         InitOk, InitFails, ReInitDelay, Watch, worker, network
    <3>2. /\ rpc' \in {"top", "dial", "dialwait", "reinit", "init", "initwait", "watch", "returned"}
          /\ isReady' \in BOOLEAN /\ connNote' \in BOOLEAN /\ chanNote' \in BOOLEAN
          /\ chan' \in {"none", "open", "dead", "shut"}
      BY <1>4, <2>2 DEF Reconnecting, ReconnectTop, ConnectFails, ReconnectDelay, ReInitTop,
         InitOk, InitFails, ReInitDelay, Watch
    <3>3. QED BY <3>1, <3>2
  <2>3. QED BY <2>1, <2>2
<1>5. CASE UnsafePushOk
  <2>1. published' \subseteq 1..MaxMsgs /\ wpc' = "select"
    BY <1>5, WriteAppends DEF UnsafePushOk
  <2>2. QED BY <1>5, <2>1, WriteAppends DEF UnsafePushOk, session
<1>6. CASE UnsafePushHalfFails
  BY <1>6, WriteAppends DEF UnsafePushHalfFails, worker
<1>7. CASE TakeMessage \/ PushStart \/ Backoff \/ WorkerStops
  <2>1. UNCHANGED <<rpc, isReady, done, conn, chan, connNote, chanNote, wire, received, faults,
                    cancelled, published>>
    BY <1>7 DEF TakeMessage, PushStart, Backoff, WorkerStops, session, network
  <2>2. msg' \in 0..MaxMsgs /\ wpc' \in {"select", "publish", "backoff", "push", "close"}
    BY <1>7 DEF TakeMessage, PushStart, Backoff, WorkerStops
  <2>3. QED BY <2>1, <2>2
<1>8. CASE CloseStart \/ CloseChannel \/ CloseConnection
  BY <1>8 DEF CloseStart, CloseChannel, CloseConnection, network
<1>9. CASE Cancel
  BY <1>9 DEF Cancel, session, network
<1>10. CASE UNCHANGED vars
  BY <1>10 DEF vars, session, worker, network
<1>11. QED BY <1>1, <1>2, <1>3, <1>4, <1>5, <1>6, <1>7, <1>8, <1>9, <1>10 DEF Next, Working

\* Every step keeps what is known of the connection and the channel.
LEMMA LinkStep ==
    ASSUME TypeOK, LinkInv, WireInv, [Next]_vars
    PROVE  LinkInv' /\ WireInv'
<1> USE DEF LinkInv, WireInv, Closing
<1>1. CASE ConnectionDies
  BY <1>1 DEF ConnectionDies, worker
<1>2. CASE ChannelDies
  BY <1>2 DEF ChannelDies, worker
<1>3. CASE BrokerReceives
  BY <1>3 DEF BrokerReceives, session, worker
<1>4. CASE Reconnecting
  BY <1>4 DEF Reconnecting, ReconnectTop, ConnectOk, ConnectFails, ReconnectDelay, ReInitTop,
     InitOk, InitFails, ReInitDelay, Watch, worker, network
<1>5. CASE UnsafePushOk \/ UnsafePushHalfFails
  BY <1>5 DEF UnsafePushOk, UnsafePushHalfFails, session, worker
<1>6. CASE TakeMessage \/ PushStart \/ Backoff \/ WorkerStops
  BY <1>6 DEF TakeMessage, PushStart, Backoff, WorkerStops, session, network
<1>7. CASE CloseStart \/ CloseChannel \/ CloseConnection
  BY <1>7 DEF CloseStart, CloseChannel, CloseConnection, network
<1>8. CASE Cancel
  BY <1>8 DEF Cancel, session, network
<1>9. CASE UNCHANGED vars
  BY <1>9 DEF vars, session, worker, network
<1>10. QED BY <1>1, <1>2, <1>3, <1>4, <1>5, <1>6, <1>7, <1>8, <1>9 DEF Next, Working

-----------------------------------------------------------------------------
(* Delivery.                                                               *)

\* The set of what was written, and how often it repeats.
LEMMA WrittenFacts ==
    ASSUME TypeOK
    PROVE  /\ Written \in Seq(1..MaxMsgs)
           /\ WrittenSet \subseteq 1..MaxMsgs
           /\ Repeats(Written) \in Int
           /\ faults \in Nat /\ msg \in Nat
<1>1. wire \in Seq(1..MaxMsgs) /\ received \in Seq(1..MaxMsgs) /\ faults \in Nat /\ msg \in Nat
  BY SessionBounds DEF TypeOK
<1>2. Written \in Seq(1..MaxMsgs)
  BY <1>1, ConcatProperties DEF Written
<1>3. Len(Written) \in Nat /\ Cardinality(Elements(Written)) \in Nat
  BY <1>2, ElementsCardinality, FS_CardinalityType, LenProperties
<1>4. WrittenSet \subseteq 1..MaxMsgs
  <2>1. \A i \in 1..Len(Written) : Written[i] \in 1..MaxMsgs
    BY <1>2, ElementOfSeq
  <2>2. QED BY <2>1 DEF WrittenSet, Elements
<1>5. Repeats(Written) \in Int
  BY <1>3 DEF Repeats
<1>6. QED BY <1>1, <1>2, <1>4, <1>5

\* A connection or channel that dies takes what is on the wire with it.
LEMMA WireLost ==
    ASSUME TypeOK, WorkerInv, DeliveryInv, wire' = <<>>, faults' = faults + 1,
           UNCHANGED <<worker, received>>
    PROVE  WorkerInv' /\ DeliveryInv'
<1>1. /\ wire \in Seq(1..MaxMsgs) /\ received \in Seq(1..MaxMsgs)
      /\ received \o <<>> = received
  BY ConcatEmptySeq DEF TypeOK
<1>2. Written = received \o wire /\ Written' = received
  BY <1>1 DEF Written
<1>3. Repeats(Written') <= Repeats(Written) /\ Repeats(Written') \in Int
  <2>1. Len(received) \in Nat /\ Cardinality(Elements(received)) \in Nat
    BY <1>1, ElementsCardinality, FS_CardinalityType, LenProperties
  <2>2. QED BY <1>1, <1>2, <2>1, RepeatsPrefix DEF Repeats
<1>4. WrittenSet' \subseteq WrittenSet
  BY <1>1, <1>2, ElementsConcat DEF WrittenSet
<1>5. NonDecreasing(Written')
  <2>1. /\ Len(received) \in Nat /\ Len(Written) \in Nat /\ Len(received) <= Len(Written)
        /\ \A i \in 1..Len(received) : Written[i] = received[i]
    BY <1>1, <1>2, ConcatProperties, LenProperties
  <2>2. QED BY <1>2, <2>1 DEF DeliveryInv, NonDecreasing
<1>6. QED BY <1>3, <1>4, <1>5, WrittenFacts DEF WorkerInv, DeliveryInv, worker

\* A step that writes and loses nothing.
LEMMA WrittenKept ==
    ASSUME TypeOK, WorkerInv, DeliveryInv, Written' = Written,
           UNCHANGED <<msg, published, faults>>,
           cancelled => cancelled',
           wpc' \in Publishing => wpc \in Publishing,
           wpc' = "select" => wpc = "select"
    PROVE  WorkerInv' /\ DeliveryInv'
<1>1. WrittenSet' = WrittenSet /\ Repeats(Written') = Repeats(Written) /\ NonDecreasing(Written')
  BY DEF WrittenSet, Elements, Repeats, DeliveryInv, NonDecreasing
<1>2. WorkerInv'
  BY <1>1 DEF WorkerInv
<1>3. QED BY <1>1, <1>2, WrittenFacts DEF DeliveryInv

\* A write appends msg; if it looked like a failure, one was counted.
LEMMA WriteDelivers ==
    ASSUME TypeOK, WorkerInv, DeliveryInv, UnsafePushOk \/ UnsafePushHalfFails
    PROVE  WorkerInv' /\ DeliveryInv'
<1>1. /\ msg \in 1..MaxMsgs /\ msg' = msg /\ cancelled' = cancelled
      /\ wpc = "push"
      /\ \/ wpc' = "select" /\ faults' = faults /\ published' = published \cup {msg}
         \/ wpc' = "push" /\ faults' = faults + 1 /\ published' = published
  BY WriteAppends DEF UnsafePushOk, UnsafePushHalfFails, worker
<1>2. Written \in Seq(1..MaxMsgs) /\ Written' = Append(Written, msg)
  BY WriteAppends
<1>3. WrittenSet' = WrittenSet \cup {msg}
  <2>1. Elements(Append(Written, msg)) = Elements(Written) \cup {msg}
    BY <1>1, <1>2 DEF Elements
  <2>2. QED BY <1>2, <2>1 DEF WrittenSet
<1>4. Repeats(Written') = Repeats(Written) + (IF msg \in WrittenSet THEN 1 ELSE 0)
  BY <1>1, <1>2, RepeatsAppend DEF WrittenSet
<1>5. NonDecreasing(Written')
  <2>1. \A y \in Elements(Written) : y <= msg
    BY <1>1, WrittenFacts DEF WorkerInv, WrittenSet
  <2>2. 1..MaxMsgs \in SUBSET Int /\ NonDecreasing(Written)
    BY DEF DeliveryInv
  <2>3. NonDecreasing(Append(Written, msg))
    BY <1>1, <1>2, <2>1, <2>2, NonDecreasingAppend
  <2>4. QED BY <1>2, <2>3
<1>6. WorkerInv'
  <2>1. msg \in 1..msg /\ msg # 0
    BY <1>1
  <2>2. QED BY <1>1, <1>3, <2>1 DEF WorkerInv
<1>7. DeliveryInv'
  <2>1. Repeats(Written') + (IF wpc' \in Publishing /\ msg' \in WrittenSet' THEN 1 ELSE 0) <= faults'
    BY <1>1, <1>3, <1>4, WrittenFacts DEF DeliveryInv, Publishing
  <2>2. faults' = 0 => wpc' = "select" /\ faults = 0
    BY <1>1, WrittenFacts
  <2>3. faults' = 0 => 1..msg \subseteq WrittenSet'
    <3>1. 1..msg = 1..(msg - 1) \cup {msg}
      BY <1>1
    <3>2. QED BY <1>1, <1>3, <2>2, <3>1 DEF DeliveryInv, Publishing
  <2>4. faults' = 0 => published' \subseteq WrittenSet'
    BY <1>1, <1>3, <2>2 DEF DeliveryInv
  <2>5. QED BY <1>1, <1>5, <2>1, <2>2, <2>3, <2>4 DEF DeliveryInv, Publishing
<1>8. QED BY <1>6, <1>7

\* Every step keeps the invariant of the worker and of the delivery.
LEMMA DeliveryStep ==
    ASSUME TypeOK, LinkInv, WireInv, WorkerInv, DeliveryInv, [Next]_vars
    PROVE  WorkerInv' /\ DeliveryInv'
<1>1. CASE ConnectionDies
  BY <1>1, WireLost DEF ConnectionDies
<1>2. CASE ChannelDies
  BY <1>2, WireLost DEF ChannelDies
<1>3. CASE BrokerReceives
  BY <1>3, ReceivedMoves, WrittenKept DEF BrokerReceives, worker
<1>4. CASE Reconnecting
  <2>1. UNCHANGED <<worker, received, faults, wire>>
    <3>1. CASE ConnectOk
      BY <3>1 DEF ConnectOk, LinkInv, WireInv
    <3>2. CASE ~ConnectOk
      BY <1>4, <3>2 DEF Reconnecting, ReconnectTop, ConnectFails, ReconnectDelay, ReInitTop,
         InitOk, InitFails, ReInitDelay, Watch, network
    <3>3. QED BY <3>1, <3>2
  <2>2. Written' = Written
    BY <2>1 DEF Written
  <2>3. QED BY <2>1, <2>2, WrittenKept DEF worker
<1>5. CASE UnsafePushOk \/ UnsafePushHalfFails
  BY <1>5, WriteDelivers
<1>6. CASE TakeMessage
  <2>1. /\ wpc = "select" /\ wpc' = "publish" /\ msg' = msg + 1
        /\ UNCHANGED <<published, wire, received, faults>>
    BY <1>6 DEF TakeMessage, network
  <2>2. Written' = Written /\ WrittenSet' = WrittenSet /\ Repeats(Written') = Repeats(Written)
        /\ (NonDecreasing(Written) => NonDecreasing(Written'))
    BY <2>1 DEF Written, WrittenSet
  <2>3. 1..msg \subseteq 1..(msg + 1) /\ msg + 1 \notin 1..msg /\ msg + 1 # 0 /\ (msg + 1) - 1 = msg
    BY WrittenFacts
  <2>4. WorkerInv'
    BY <2>1, <2>2, <2>3 DEF WorkerInv
  <2>5. msg' \notin WrittenSet'
    BY <2>1, <2>2, <2>3 DEF WorkerInv
  <2>6. Repeats(Written') + 0 <= faults'
    BY <2>1, <2>2, WrittenFacts DEF DeliveryInv
  <2>7. QED BY <2>1, <2>2, <2>3, <2>4, <2>5, <2>6 DEF DeliveryInv
<1>7. CASE PushStart \/ Backoff \/ WorkerStops \/ CloseStart \/ CloseChannel \/ CloseConnection \/ Cancel
  <2>1. /\ UNCHANGED <<msg, published, wire, received, faults>>
        /\ cancelled => cancelled'
        /\ wpc' \in Publishing => wpc \in Publishing
        /\ wpc' = "select" => wpc = "select"
    BY <1>7 DEF PushStart, Backoff, WorkerStops, CloseStart, CloseChannel, CloseConnection, Cancel,
       Publishing, session, network
  <2>2. Written' = Written
    BY <2>1 DEF Written
  <2>3. QED BY <2>1, <2>2, WrittenKept
<1>8. CASE UNCHANGED vars
  <2>1. Written' = Written
    BY <1>8 DEF vars, network, Written
  <2>2. QED BY <1>8, <2>1, WrittenKept DEF vars, worker, network
<1>9. QED BY <1>1, <1>2, <1>3, <1>4, <1>5, <1>6, <1>7, <1>8 DEF Next, Working

-----------------------------------------------------------------------------
(* The theorems.                                                           *)

\* The invariant holds when Start has made the session.
LEMMA InitIInv == Init => IInv
<1> SUFFICES ASSUME Init PROVE IInv
  OBVIOUS
<1>1. /\ <<>> \in Seq(1..MaxMsgs) /\ <<>> \o <<>> = <<>> /\ Len(<<>>) = 0
      /\ Elements(<<>>) = {} /\ NonDecreasing(<<>>) /\ Cardinality({}) = 0
  BY FS_EmptySet, ConcatEmptySeq, EmptySeq DEF Elements, NonDecreasing
<1>2. TypeOK
  <2>1. 0 \in 0..MaxMsgs /\ 0 \in 0..MaxFaults
    BY SessionBounds
  <2>2. wire \in Seq(1..MaxMsgs) /\ received \in Seq(1..MaxMsgs)
    BY <1>1 DEF Init
  <2>3. QED BY <2>1, <2>2 DEF Init, TypeOK, LinkStates
<1>3. LinkInv /\ WireInv
  BY DEF Init, LinkInv, WireInv, Closing
<1>4. Written = <<>> /\ WrittenSet = {} /\ msg = 0 /\ faults = 0
  BY <1>1 DEF Init, Written, WrittenSet
<1>5. Repeats(Written) = 0
  BY <1>1, <1>4 DEF Repeats
<1>6. WorkerInv /\ DeliveryInv
  BY <1>1, <1>4, <1>5 DEF Init, WorkerInv, DeliveryInv, Publishing
<1>7. QED BY <1>2, <1>3, <1>6 DEF IInv

\* The invariant is inductive.
LEMMA NextIInv == IInv /\ [Next]_vars => IInv'
BY TypeStep, LinkStep, DeliveryStep DEF IInv

\* The invariant holds in every state.
THEOREM SessionInvariant == Spec => []IInv
BY InitIInv, NextIInv, PTL DEF Spec

\* Every variable of the session keeps its type.
THEOREM SessionTypes == Spec => []TypeOK
<1>1. IInv => TypeOK
  BY DEF IInv
<1>2. QED BY <1>1, SessionInvariant, PTL

\* isReady, which Push reads without a lock, is set only when there is a
\* channel to publish on (init, changeChannel).
THEOREM SessionReadyHasChannel == Spec => []ReadyHasChannel
<1>1. IInv => ReadyHasChannel
  BY DEF IInv, LinkInv, ReadyHasChannel
<1>2. QED BY <1>1, SessionInvariant, PTL

\* The broker gets the messages in order, with at most one repetition for each
\* failure, and without a failure it gets all of them (Push, UnsafePush).
THEOREM SessionFaultsExplainDelivery == Spec => []FaultsExplainDelivery
<1>1. IInv => FaultsExplainDelivery
  <2> SUFFICES ASSUME IInv PROVE FaultsExplainDelivery
    OBVIOUS
  <2>1. Repeats(Written) <= faults
    BY WrittenFacts DEF IInv, DeliveryInv
  <2>2. ~cancelled => wpc \in Publishing \cup {"select"}
    BY DEF IInv, TypeOK, LinkInv, Publishing, Closing
  <2>3. 1..(msg - 1) \subseteq 1..msg
    BY WrittenFacts DEF IInv
  <2>4. faults = 0 /\ ~cancelled => 1..(msg - 1) \subseteq WrittenSet
    BY <2>2, <2>3 DEF IInv, DeliveryInv
  <2>5. QED BY <2>1, <2>4 DEF IInv, DeliveryInv, FaultsExplainDelivery
<1>2. QED BY <1>1, SessionInvariant, PTL

\* Until it is closed a session moves only along the edges of SessionLink, from
\* which WorkerPool is built (handleReconnect, handleReInit).
THEOREM SessionFollowsLink == Spec => FollowsSessionLink
<1>1. IInv /\ [Next]_vars =>
        [wpc' \in {"select", "publish", "backoff", "push"} /\ Link' # Link
            => <<Link, Link'>> \in LinkSteps]_vars
  <2> SUFFICES ASSUME IInv, Next, wpc' \in {"select", "publish", "backoff", "push"}, Link' # Link
               PROVE  <<Link, Link'>> \in LinkSteps
    BY DEF vars
  <2> USE DEF IInv, TypeOK, LinkInv, Link, Hung, LinkSteps
  <2>1. CASE ConnectionDies
    BY <2>1 DEF ConnectionDies
  <2>2. CASE ChannelDies
    BY <2>2 DEF ChannelDies
  <2>3. CASE BrokerReceives
    BY <2>3 DEF BrokerReceives, session
  <2>4. CASE Reconnecting
    <3>1. CASE ReconnectTop
      BY <3>1 DEF ReconnectTop
    <3>2. CASE ConnectOk
      BY <3>2 DEF ConnectOk
    <3>3. CASE ConnectFails \/ ReconnectDelay
      BY <3>3 DEF ConnectFails, ReconnectDelay, worker, Closing
    <3>4. CASE ReInitTop
      BY <3>4 DEF ReInitTop
    <3>5. CASE InitOk
      BY <3>5 DEF InitOk
    <3>6. CASE InitFails \/ ReInitDelay
      BY <3>6 DEF InitFails, ReInitDelay, worker, Closing
    <3>7. CASE Watch
      BY <3>7 DEF Watch, worker, Closing
    <3>8. QED BY <2>4, <3>1, <3>2, <3>3, <3>4, <3>5, <3>6, <3>7 DEF Reconnecting
  <2>5. CASE UnsafePushHalfFails
    BY <2>5 DEF UnsafePushHalfFails
  <2>6. CASE TakeMessage \/ PushStart \/ Backoff \/ UnsafePushOk \/ WorkerStops \/ Cancel
    BY <2>6 DEF TakeMessage, PushStart, Backoff, UnsafePushOk, WorkerStops, Cancel, session
  <2>7. CASE CloseStart \/ CloseChannel \/ CloseConnection
    BY <2>7 DEF CloseStart, CloseChannel, CloseConnection
  <2>8. QED BY <2>1, <2>2, <2>3, <2>4, <2>5, <2>6, <2>7 DEF Next, Working
<1>2. QED BY <1>1, SessionInvariant, PTL DEF Spec, FollowsSessionLink
=============================================================================
