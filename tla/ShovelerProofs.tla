--------------------------- MODULE ShovelerProofs ---------------------------
(***************************************************************************)
(* Proofs about Shoveler for any number of packets, destinations and       *)
(* failures.                                                               *)
(***************************************************************************)
EXTENDS Shoveler, OrderedSeqTheorems

-----------------------------------------------------------------------------
(* The inductive invariant.                                                *)

\* Where the goroutines are tells which of them holds a message.
ControlInv ==
    /\ packet # 0 <=> pc \in {"package", "enqueue"}
    /\ packet # 0 => packet = packets
    /\ rmsg # 0 <=> rpc = "offer"
    /\ spc = "publish" => smsg # 0
    /\ spc = "select" => smsg = 0

\* The messages are in order from the broker back to main; only the one that
\* is being published may be at the broker already.
OrderInv ==
    /\ Increasing(queue)
    /\ NonDecreasing(received)
    /\ Precedes(Elements(received), Elements(queue))
    /\ packet # 0 => Precedes(Elements(received) \cup Elements(queue) \cup {rmsg, smsg}, {packet})
    /\ rmsg # 0 => Precedes(Elements(received), {rmsg}) /\ Precedes({rmsg}, Elements(queue))
    /\ smsg # 0 => /\ \A r \in Elements(received) : r <= smsg
                   /\ Precedes({smsg}, Elements(queue))
    /\ rmsg # 0 /\ smsg # 0 => smsg < rmsg

\* Each repetition at the broker, and the one that the next Send may make, has
\* a failure of its own.
RepeatInv ==
    Repeats(received) + (IF smsg \in Elements(received) THEN 1 ELSE 0) <= faults

IInv == TypeOK /\ ControlInv /\ OrderInv /\ RepeatInv /\ EveryPacketAccounted

-----------------------------------------------------------------------------
(* Types and control.                                                      *)

\* Every step keeps the types and moves the goroutines consistently.
LEMMA TypeStep ==
    ASSUME TypeOK, ControlInv, [Next]_vars
    PROVE  TypeOK' /\ ControlInv'
<1> USE ShovelerAssumption DEF TypeOK, ControlInv
<1>1. CASE Receive
  <2>1. /\ packets' = packets + 1 /\ packets' \in 0..MaxPackets
        /\ packet = 0 /\ pc = "read"
        /\ UNCHANGED <<input, verify, dialled, next, queue, rpc, rmsg, spc, smsg, conn,
                       received, process, faults, lost>>
        /\ \/ failed' = failed \cup {packets + 1} /\ UNCHANGED <<packet, addressed, pc>>
           \/ /\ packet' = packets + 1 /\ pc' = "package" /\ addressed' \in BOOLEAN
              /\ UNCHANGED failed
    BY <1>1 DEF Receive, configVars, readerVars, sessionVars
  <2>2. 1..packets \subseteq 1..packets'
    BY <2>1
  <2>3. queue' \in Seq(1..packets') /\ received' \in Seq(1..packets')
    BY <2>1, <2>2, SeqMonotonic
  <2>4. packet' \in 0..packets' /\ rmsg' \in 0..packets' /\ smsg' \in 0..packets'
    BY <2>1
  <2>5. failed' \subseteq 1..packets' /\ lost' \subseteq 1..packets'
    <3>1. packets + 1 \in 1..packets' /\ failed \subseteq 1..packets' /\ lost \subseteq 1..packets'
      BY <2>1, <2>2
    <3>2. QED BY <2>1, <3>1
  <2>6. TypeOK'
    BY <2>1, <2>3, <2>4, <2>5
  <2>7. ControlInv'
    BY <2>1, <2>4
  <2>8. QED BY <2>6, <2>7
<1>2. CASE Package
  BY <1>2 DEF Package, configVars, readerVars, sessionVars
<1>3. CASE Enqueue
  <2>1. /\ pc = "enqueue" /\ packet \in 1..packets
        /\ pc' \in {"read", "forward"} /\ packet' = 0 /\ next' = 1
        /\ UNCHANGED <<input, verify, dialled, packets, addressed, failed, rpc, rmsg, spc, smsg,
                       conn, received, process>>
        /\ \/ queue' = Append(queue, packet) /\ UNCHANGED <<lost, faults>>
           \/ /\ lost' = lost \cup {packet} /\ UNCHANGED queue
              /\ faults < MaxFaults /\ faults' = faults + 1
    BY <1>3 DEF Enqueue, Fault, configVars, readerVars, sessionVars
  <2>2. queue' \in Seq(1..packets)
    <3>1. queue \in Seq(1..packets) /\ Append(queue, packet) \in Seq(1..packets)
      BY <2>1, AppendProperties
    <3>2. QED BY <2>1, <3>1
  <2>3. lost' \subseteq 1..packets
    BY <2>1
  <2>4. faults' \in 0..MaxFaults
    BY <2>1
  <2>5. 1 \in 1..(DestUdp + 1) /\ 0 \in 0..packets
    OBVIOUS
  <2>6. QED BY <2>1, <2>2, <2>3, <2>4, <2>5
<1>4. CASE Forward
  BY <1>4 DEF Forward, configVars, readerVars, sessionVars
<1>5. CASE FileEnds
  BY <1>5 DEF FileEnds, configVars, mainVars, readerVars, sessionVars
<1>6. CASE Reader
  <2>1. /\ queue # <<>> /\ queue' = Tail(queue) /\ rpc = "dequeue"
        /\ UNCHANGED <<configVars, mainVars, sessionVars, process>>
        /\ \/ rmsg' = Head(queue) /\ rpc' = "offer" /\ UNCHANGED <<faults, lost>>
           \/ /\ lost' = lost \cup {Head(queue)} /\ UNCHANGED readerVars
              /\ faults < MaxFaults /\ faults' = faults + 1
    BY <1>6 DEF Reader, ReaderDequeue, ReaderDequeueError, Fault
  <2>2. Tail(queue) \in Seq(1..packets) /\ Head(queue) \in 1..packets
    BY <2>1, HeadTailProperties
  <2>3. queue' \in Seq(1..packets) /\ rmsg' \in 0..packets /\ lost' \subseteq 1..packets
        /\ faults' \in 0..MaxFaults /\ rpc' \in {"unstarted", "dequeue", "offer"}
        /\ (rmsg' # 0 <=> rpc' = "offer")
    <3>1. CASE rmsg' = Head(queue) /\ rpc' = "offer" /\ UNCHANGED <<faults, lost>>
      BY <2>1, <2>2, <3>1
    <3>2. CASE /\ lost' = lost \cup {Head(queue)} /\ UNCHANGED readerVars
               /\ faults < MaxFaults /\ faults' = faults + 1
      <4>1. UNCHANGED <<rpc, rmsg>>
        BY <3>2 DEF readerVars
      <4>2. lost' \subseteq 1..packets
        BY <2>2, <3>2
      <4>3. faults' \in 0..MaxFaults
        BY <3>2
      <4>4. QED BY <2>1, <2>2, <4>1, <4>2, <4>3
    <3>3. QED BY <2>1, <3>1, <3>2
  <2>4. UNCHANGED <<input, verify, dialled, packets, packet, addressed, pc, next, failed, spc, smsg,
                    conn, received, process>>
    BY <2>1 DEF configVars, mainVars, sessionVars
  <2>5. QED BY <2>3, <2>4
<1>7. CASE Connects \/ ConnectFails \/ Tick \/ TakeMessage \/ ConnectionDies
  <2>1. CASE Connects
    BY <2>1 DEF Connects, configVars, mainVars
  <2>2. CASE ConnectFails
    BY <2>2 DEF ConnectFails, Fault, configVars, mainVars, readerVars, sessionVars
  <2>3. CASE Tick
    BY <2>3 DEF Tick, configVars, mainVars, readerVars
  <2>4. CASE TakeMessage
    BY <2>4 DEF TakeMessage, configVars, mainVars
  <2>5. CASE ConnectionDies
    BY <2>5 DEF ConnectionDies, Fault, configVars, mainVars, readerVars
  <2>6. QED BY <1>7, <2>1, <2>2, <2>3, <2>4, <2>5
<1>8. CASE Publish
  <2>1. /\ spc = "publish" /\ smsg \in 1..packets /\ spc' \in {"select", "connect"}
        /\ conn' \in {"up", "down"}
        /\ UNCHANGED <<configVars, mainVars, queue, readerVars, process, lost>>
        /\ received' = received \/ received' = Append(received, smsg)
        /\ faults' = faults \/ (faults < MaxFaults /\ faults' = faults + 1)
        /\ (smsg' = 0 /\ spc' = "select") \/ (smsg' = smsg /\ spc' = "connect")
    BY <1>8 DEF Publish, PublishOk, PublishFails, SendError, Fault
  <2>2. received' \in Seq(1..packets)
    <3>1. received \in Seq(1..packets) /\ Append(received, smsg) \in Seq(1..packets)
      BY <2>1, AppendProperties
    <3>2. QED BY <2>1, <3>1
  <2>3. QED BY <2>1, <2>2 DEF configVars, mainVars, readerVars
<1>9. CASE UNCHANGED vars
  BY <1>9 DEF vars, configVars, mainVars, readerVars, sessionVars
<1>10. QED BY <1>1, <1>2, <1>3, <1>4, <1>5, <1>6, <1>7, <1>8, <1>9 DEF Next, Main

-----------------------------------------------------------------------------
(* Order, repetitions and the account of the packets.                      *)

DataInv == OrderInv /\ RepeatInv /\ EveryPacketAccounted

\* What is queued, at the broker or in somebody's hands is a packet that came.
LEMMA Numbers ==
    ASSUME TypeOK
    PROVE  /\ packets \in Nat
           /\ Elements(queue) \subseteq 1..packets
           /\ Elements(received) \subseteq 1..packets
           /\ {packet, rmsg, smsg} \subseteq 0..packets
           /\ faults \in Nat /\ Repeats(received) \in Int
<1>1. /\ packets \in Nat /\ faults \in Nat
      /\ queue \in Seq(1..packets) /\ received \in Seq(1..packets)
  BY ShovelerAssumption DEF TypeOK
<1>2. Elements(queue) \subseteq 1..packets /\ Elements(received) \subseteq 1..packets
  BY <1>1 DEF Elements
<1>3. IsFiniteSet(Elements(received)) /\ Len(received) \in Nat
  BY <1>1, ElementsCardinality, LenProperties
<1>4. Repeats(received) \in Int
  BY <1>3, FS_CardinalityType DEF Repeats
<1>5. QED BY <1>1, <1>2, <1>4 DEF TypeOK

\* A step that moves no message: Package, Forward and the end of a file,
\* reconnects and failures without a Send.
LEMMA Frame ==
    ASSUME TypeOK, DataInv, faults' \in Int, faults <= faults',
           UNCHANGED <<packets, packet, failed, queue, rmsg, smsg, received, lost>>
    PROVE  DataInv'
<1>1. OrderInv'
  BY DEF DataInv, OrderInv, Elements, Increasing, NonDecreasing, Precedes
<1>2. RepeatInv'
  <2>1. Elements(received') = Elements(received) /\ Repeats(received') = Repeats(received) /\ smsg' = smsg
    BY DEF Elements, Repeats
  <2>2. QED BY <2>1, Numbers DEF DataInv, RepeatInv
<1>3. EveryPacketAccounted'
  BY DEF DataInv, EveryPacketAccounted, Held, Elements
<1>4. QED BY <1>1, <1>2, <1>3 DEF DataInv

\* A packet that comes has the highest number.
LEMMA ReceiveData ==
    ASSUME TypeOK, ControlInv, DataInv, Receive
    PROVE  DataInv'
<1>1. /\ packet = 0 /\ packets' = packets + 1
      /\ UNCHANGED <<queue, rmsg, smsg, received, faults, lost>>
      /\ \/ failed' = failed \cup {packets + 1} /\ packet' = 0
         \/ failed' = failed /\ packet' = packets + 1
  BY DEF Receive, ControlInv, readerVars, sessionVars
<1>2. Elements(received') = Elements(received) /\ Elements(queue') = Elements(queue)
  BY <1>1 DEF Elements
<1>3. 1..packets' = (1..packets) \cup {packets + 1}
  BY <1>1, Numbers
<1>4. OrderInv'
  <2>1. Increasing(queue') /\ NonDecreasing(received')
    BY <1>1 DEF DataInv, OrderInv, Increasing, NonDecreasing
  <2>2. packet' # 0 => Precedes(Elements(received) \cup Elements(queue) \cup {rmsg, smsg}, {packet'})
    BY <1>1, Numbers DEF Precedes
  <2>3. QED BY <1>1, <1>2, <2>1, <2>2 DEF DataInv, OrderInv, Precedes
<1>5. RepeatInv'
  BY <1>1, <1>2 DEF DataInv, RepeatInv
<1>6. EveryPacketAccounted'
  <2>1. /\ packets + 1 \notin failed /\ packets + 1 \notin lost
        /\ packets + 1 \notin Elements(queue) \cup Elements(received) \cup {rmsg, smsg}
    BY Numbers DEF TypeOK
  <2>2. QED BY <1>1, <1>2, <1>3, <2>1, Numbers DEF DataInv, EveryPacketAccounted, Held
<1>7. QED BY <1>4, <1>5, <1>6 DEF DataInv

\* Main's packet goes behind all others in the queue, or is lost.
LEMMA EnqueueData ==
    ASSUME TypeOK, ControlInv, DataInv, Enqueue
    PROVE  DataInv'
<1>1. /\ packet # 0 /\ packet' = 0
      /\ UNCHANGED <<packets, failed, rmsg, smsg, received>>
      /\ \/ queue' = Append(queue, packet) /\ UNCHANGED <<lost, faults>>
         \/ lost' = lost \cup {packet} /\ UNCHANGED queue /\ faults' = faults + 1
  BY DEF Enqueue, Fault, ControlInv, readerVars, sessionVars
<1>2. packet \in 1..packets /\ queue \in Seq(1..packets)
  BY <1>1 DEF TypeOK
<1>3. Elements(received') = Elements(received) /\ NonDecreasing(received')
  BY <1>1 DEF Elements, DataInv, OrderInv, NonDecreasing
<1>4. RepeatInv'
  BY <1>1, <1>3, Numbers DEF DataInv, RepeatInv
<1>5. CASE queue' = Append(queue, packet) /\ UNCHANGED <<lost, faults>>
  <2>1. Elements(queue') = Elements(queue) \cup {packet}
    <3>1. Elements(Append(queue, packet)) = Elements(queue) \cup {packet}
      BY <1>2 DEF Elements
    <3>2. QED BY <1>5, <3>1
  <2>2. Increasing(queue')
    <3>1. \A y \in Elements(queue) : y < packet
      BY <1>1 DEF DataInv, OrderInv, Precedes
    <3>2. QED BY <1>2, <1>5, <3>1, IncreasingAppend DEF DataInv, OrderInv
  <2>3. OrderInv'
    BY <1>1, <1>3, <2>1, <2>2, Numbers DEF DataInv, OrderInv, Precedes
  <2>4. EveryPacketAccounted'
    BY <1>1, <1>3, <1>5, <2>1, Numbers DEF DataInv, OrderInv, EveryPacketAccounted, Held, Precedes
  <2>5. QED BY <1>4, <2>3, <2>4 DEF DataInv
<1>6. CASE lost' = lost \cup {packet} /\ UNCHANGED queue /\ faults' = faults + 1
  <2>1. Elements(queue') = Elements(queue) /\ Increasing(queue')
    BY <1>6 DEF Elements, DataInv, OrderInv, Increasing
  <2>2. OrderInv'
    BY <1>1, <1>3, <2>1 DEF DataInv, OrderInv, Precedes
  <2>3. EveryPacketAccounted'
    BY <1>1, <1>3, <1>6, <2>1, Numbers DEF DataInv, OrderInv, EveryPacketAccounted, Held, Precedes
  <2>4. QED BY <1>4, <2>2, <2>3 DEF DataInv
<1>7. QED BY <1>1, <1>5, <1>6

\* The reader takes the front of the queue, or an error loses it.
LEMMA ReaderData ==
    ASSUME TypeOK, ControlInv, DataInv, Reader
    PROVE  DataInv'
<1>1. /\ queue # <<>> /\ queue' = Tail(queue) /\ rmsg = 0
      /\ UNCHANGED <<packets, packet, failed, smsg, received>>
      /\ \/ rmsg' = Head(queue) /\ UNCHANGED <<lost, faults>>
         \/ lost' = lost \cup {Head(queue)} /\ UNCHANGED rmsg /\ faults' = faults + 1
  BY DEF Reader, ReaderDequeue, ReaderDequeueError, Fault, ControlInv, mainVars, sessionVars, readerVars
<1>2. /\ Elements(queue) = {Head(queue)} \cup Elements(queue')
      /\ Increasing(queue') /\ Head(queue) \in 1..packets
      /\ \A y \in Elements(queue') : Head(queue) < y
  <2>1. queue \in Seq(1..packets) /\ Increasing(queue) /\ 1..packets \subseteq Int
    BY DEF TypeOK, DataInv, OrderInv
  <2>2. QED BY <1>1, <2>1, ElementsHeadTail, IncreasingTail
<1>3. Elements(received') = Elements(received) /\ NonDecreasing(received')
  BY <1>1 DEF Elements, DataInv, OrderInv, NonDecreasing
<1>4. RepeatInv'
  BY <1>1, <1>3, Numbers DEF DataInv, RepeatInv
<1>5. OrderInv'
  BY <1>1, <1>2, <1>3, Numbers DEF DataInv, OrderInv, Precedes
<1>6. Head(queue) \notin Elements(queue') /\ Head(queue) \notin Elements(received)
      /\ Head(queue) # smsg /\ Head(queue) # packet
  <2>1. \A y \in Elements(queue') : Head(queue) # y
    BY <1>2, Numbers
  <2>2. \A y \in Elements(received) : y < Head(queue)
    BY <1>2 DEF DataInv, OrderInv, Precedes
  <2>3. smsg # 0 => smsg < Head(queue)
    BY <1>2 DEF DataInv, OrderInv, Precedes
  <2>4. packet # 0 => Head(queue) < packet
    BY <1>2 DEF DataInv, OrderInv, Precedes
  <2>5. QED BY <1>2, <2>1, <2>2, <2>3, <2>4, Numbers
<1>7. EveryPacketAccounted'
  BY <1>1, <1>2, <1>3, <1>6, Numbers DEF DataInv, EveryPacketAccounted, Held
<1>8. QED BY <1>4, <1>5, <1>7 DEF DataInv

\* The reader hands its message to StartStomp.
LEMMA TakeMessageData ==
    ASSUME TypeOK, ControlInv, DataInv, TakeMessage
    PROVE  DataInv'
<1>1. /\ smsg = 0 /\ rmsg # 0 /\ smsg' = rmsg /\ rmsg' = 0
      /\ UNCHANGED <<packets, packet, failed, queue, received, lost, faults>>
  BY DEF TakeMessage, ControlInv, mainVars
<1>2. Elements(received') = Elements(received) /\ Elements(queue') = Elements(queue)
      /\ Increasing(queue') /\ NonDecreasing(received')
  BY <1>1 DEF Elements, DataInv, OrderInv, Increasing, NonDecreasing
<1>3. rmsg \notin Elements(received)
  BY <1>1, Numbers DEF DataInv, OrderInv, Precedes
<1>4. OrderInv'
  BY <1>1, <1>2, Numbers DEF DataInv, OrderInv, Precedes
<1>5. RepeatInv'
  BY <1>1, <1>2, <1>3, Numbers DEF DataInv, RepeatInv
<1>6. EveryPacketAccounted'
  BY <1>1, <1>2 DEF DataInv, EveryPacketAccounted, Held
<1>7. QED BY <1>4, <1>5, <1>6 DEF DataInv

\* A Send puts the message behind what the broker has; without a receipt the
\* publisher keeps it, and a failure was counted.
LEMMA PublishData ==
    ASSUME TypeOK, ControlInv, DataInv, Publish
    PROVE  DataInv'
<1>1. /\ smsg # 0
      /\ UNCHANGED <<packets, packet, failed, queue, rmsg, lost>>
      /\ \/ received' = Append(received, smsg) /\ smsg' = 0 /\ faults' = faults
         \/ received' = Append(received, smsg) /\ smsg' = smsg /\ faults' = faults + 1
         \/ received' = received /\ smsg' = smsg /\ faults' \in {faults, faults + 1}
  BY DEF Publish, PublishOk, PublishFails, SendError, Fault, ControlInv, mainVars, readerVars
<1>2. Elements(queue') = Elements(queue) /\ Increasing(queue')
  BY <1>1 DEF Elements, DataInv, OrderInv, Increasing
<1>3. CASE received' = received /\ smsg' = smsg /\ faults' \in {faults, faults + 1}
  BY <1>1, <1>3, Frame, Numbers
<1>4. CASE /\ received' = Append(received, smsg)
           /\ \/ smsg' = 0 /\ faults' = faults
              \/ smsg' = smsg /\ faults' = faults + 1
  <2>1. /\ smsg \in 1..packets /\ received \in Seq(1..packets) /\ 1..packets \in SUBSET Int
        /\ Len(received') = Len(received) + 1
    BY <1>1, <1>4 DEF TypeOK
  <2>2. Elements(received') = Elements(received) \cup {smsg}
    <3>1. Elements(Append(received, smsg)) = Elements(received) \cup {smsg}
      BY <2>1 DEF Elements
    <3>2. QED BY <1>4, <3>1
  <2>3. NonDecreasing(received')
    BY <1>1, <1>4, <2>1, NonDecreasingAppend DEF DataInv, OrderInv
  <2>4. OrderInv'
    BY <1>1, <1>2, <1>4, <2>2, <2>3, Numbers DEF DataInv, OrderInv, Precedes
  <2>5. RepeatInv'
    <3>1. Repeats(Append(received, smsg)) =
             Repeats(received) + (IF smsg \in Elements(received) THEN 1 ELSE 0)
      BY <2>1, RepeatsAppend
    <3>2. smsg' = 0 => smsg' \notin Elements(received')
      BY <2>1, <2>2, Numbers
    <3>3. QED BY <1>4, <3>1, <3>2, Numbers DEF DataInv, RepeatInv
  <2>6. EveryPacketAccounted'
    BY <1>1, <1>2, <1>4, <2>2 DEF DataInv, EveryPacketAccounted, Held
  <2>7. QED BY <2>4, <2>5, <2>6 DEF DataInv
<1>5. QED BY <1>1, <1>3, <1>4

-----------------------------------------------------------------------------
(* The theorems.                                                           *)

\* The invariant holds when runShovelingMode starts.
LEMMA InitIInv == Init => IInv
<1> SUFFICES ASSUME Init PROVE IInv
  OBVIOUS
<1>1. Elements(<<>>) = {} /\ Increasing(<<>>) /\ NonDecreasing(<<>>) /\ Cardinality({}) = 0
  BY FS_EmptySet DEF Elements, Increasing, NonDecreasing
<1>2. TypeOK /\ ControlInv
  BY ShovelerAssumption DEF Init, TypeOK, ControlInv
<1>3. OrderInv
  BY <1>1 DEF Init, OrderInv, Precedes
<1>4. RepeatInv
  <2>1. Len(received) = 0 /\ Elements(received) = {} /\ faults = 0
    BY <1>1 DEF Init
  <2>2. Repeats(received) = 0 /\ smsg \notin Elements(received)
    BY <1>1, <2>1 DEF Repeats
  <2>3. QED BY <2>1, <2>2 DEF RepeatInv
<1>5. EveryPacketAccounted
  BY <1>1 DEF Init, EveryPacketAccounted, Held
<1>6. QED BY <1>2, <1>3, <1>4, <1>5 DEF IInv

\* The invariant is inductive.
LEMMA NextIInv == IInv /\ [Next]_vars => IInv'
<1> SUFFICES ASSUME IInv, [Next]_vars PROVE IInv'
  OBVIOUS
<1>1. TypeOK' /\ ControlInv'
  BY TypeStep DEF IInv
<1>2. TypeOK /\ ControlInv /\ DataInv /\ faults \in Nat
  BY Numbers DEF IInv, DataInv
<1>3. ASSUME \/ Package \/ Forward \/ FileEnds
             \/ Connects \/ ConnectFails \/ Tick \/ ConnectionDies
             \/ UNCHANGED vars
      PROVE  DataInv'
  <2>1. /\ faults' = faults \/ faults' = faults + 1
        /\ UNCHANGED <<packets, packet, failed, queue, rmsg, smsg, received, lost>>
    BY <1>3 DEF Package, Forward, FileEnds, Connects, ConnectFails, Tick, ConnectionDies, Fault,
       vars, configVars, mainVars, readerVars, sessionVars
  <2>2. faults' \in Int /\ faults <= faults'
    BY <1>2, <2>1
  <2>3. QED BY <1>2, <2>1, <2>2, Frame
<1>4. DataInv'
  BY <1>2, <1>3, ReceiveData, EnqueueData, ReaderData, TakeMessageData, PublishData DEF Next, Main
<1>5. QED BY <1>1, <1>4 DEF IInv, DataInv

\* The invariant holds in every state.
THEOREM ShovelerInvariant == Spec => []IInv
BY InitIInv, NextIInv, PTL DEF Spec

\* Every variable of the shoveler keeps its type.
THEOREM ShovelerTypes == Spec => []TypeOK
<1>1. IInv => TypeOK
  BY DEF IInv
<1>2. QED BY <1>1, ShovelerInvariant, PTL

\* The broker gets the messages in the order of their packets, with at most one
\* repetition for each failure (publish, handleReconnect, readMsgStomp).
THEOREM ShovelerInOrder == Spec => []RelayedInOrder
<1>1. IInv => RelayedInOrder
  <2> SUFFICES ASSUME IInv PROVE RelayedInOrder
    OBVIOUS
  <2>1. NonDecreasing(received)
    BY DEF IInv, OrderInv
  <2>2. Repeats(received) <= faults
    BY Numbers DEF IInv, RepeatInv
  <2>3. \A m \in Elements(received), n \in Elements(queue) \cup ({packet, rmsg} \ {0}) : m < n
    BY DEF IInv, OrderInv, Precedes
  <2>4. QED BY <2>1, <2>2, <2>3 DEF RelayedInOrder
<1>2. QED BY <1>1, ShovelerInvariant, PTL

\* Every packet is in exactly one place, rejected, lost to the disk or at the
\* broker (runShovelingModeUDP, readMsgStomp, publish).
THEOREM ShovelerAccounts == Spec => []EveryPacketAccounted
<1>1. IInv => EveryPacketAccounted
  BY DEF IInv
<1>2. QED BY <1>1, ShovelerInvariant, PTL
=============================================================================
