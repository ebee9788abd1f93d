---------------------- MODULE ConfirmationQueueProofs ----------------------
(***************************************************************************)
(* Proofs about ConfirmationQueue for every MaxInMemory, every             *)
(* LowWaterMark below it and any sets of producers and consumers: its      *)
(* invariants, and that it implements LossyFifo, each action being, on     *)
(* Contents, a step of the first-in first-out queue or no step at all.     *)
(* The last part is about QueueRecovery, for any spool.                    *)
(***************************************************************************)
EXTENDS ConfirmationQueue, QueueRecovery, OrderedSeqTheorems

-----------------------------------------------------------------------------
(* The inductive invariant.                                                *)

\* Outside the two loops one store is empty; inside them, what the loop has
\* established so far.
StoresInv ==
    /\ status = "down" => mem = <<>> /\ holder = NoProc /\ waiting = {}
    /\ Free => IF usingDisk THEN mem = <<>> ELSE disk = <<>>
    /\ Spilling => ~usingDisk /\ sent < MaxMsgs
    /\ Refilling => /\ usingDisk
                    /\ status = "up"
                    /\ Len(mem) + Len(disk) > 0
                    /\ Len(mem) + Len(disk) <= LowWaterMark
    /\ Len(mem) < MaxInMemory

OrderInv ==
    /\ Increasing(delivered)
    /\ Increasing(mem)
    /\ Increasing(disk)
    /\ Precedes(Elements(delivered), Elements(mem))
    /\ Precedes(Elements(delivered), Elements(disk))
    /\ Spilling => Precedes(Elements(disk), Elements(mem))
    /\ Refilling => Precedes(Elements(mem), Elements(disk))

AccountInv ==
    /\ 1..sent = Elements(delivered) \cup Elements(mem) \cup Elements(disk) \cup lost
    /\ lost \cap (Elements(delivered) \cup Elements(mem) \cup Elements(disk)) = {}

WakeupInv == status = "up" /\ waiting # {} => mem = <<>> /\ disk = <<>>

IInv == TypeOK /\ StoresInv /\ OrderInv /\ AccountInv /\ WakeupInv

-----------------------------------------------------------------------------
(* Every action preserves it.                                              *)

\* Adding the next number to a store whose elements are all accepted.
LEMMA NextMessage ==
    ASSUME IInv
    PROVE  /\ sent \in Nat
           /\ \A x \in Elements(delivered) \cup Elements(mem) \cup Elements(disk) : x < sent + 1
           /\ sent + 1 \notin lost
           /\ 1..(sent + 1) = (1..sent) \cup {sent + 1}
<1>1. sent \in Nat /\ 1..sent = Elements(delivered) \cup Elements(mem) \cup Elements(disk) \cup lost
  BY DEF IInv, TypeOK, AccountInv
<1>2. QED BY <1>1

\* An enqueue that stays in memory.
LEMMA EnqueueMemoryStep ==
    ASSUME IInv, NEW p \in Producers, EnqueueMemory(p)
    PROVE  IInv'
<1> USE BoundsAssumption, ProcsAssumption
<1>1. sent + 1 \in 1..MaxMsgs /\ mem \in Seq(1..MaxMsgs)
  BY DEF IInv, TypeOK, EnqueueMemory, CanEnqueue
<1>2. Elements(mem') = Elements(mem) \cup {sent + 1}
  BY <1>1, ElementsAppend DEF EnqueueMemory
<1>3. Increasing(mem')
  BY <1>1, NextMessage, IncreasingAppend DEF EnqueueMemory, IInv, OrderInv
<1>4. /\ mem' = Append(mem, sent + 1) /\ sent' = sent + 1 /\ waiting' = {}
      /\ UNCHANGED <<disk, usingDisk, holder, status, delivered, lost>>
      /\ ~usingDisk /\ Free /\ Len(mem) + 1 < MaxInMemory
  BY DEF EnqueueMemory, CanEnqueue, Accept, Broadcast
<1>5. TypeOK'
  BY <1>1, <1>4 DEF IInv, TypeOK
<1>6. StoresInv'
  BY <1>1, <1>4 DEF IInv, TypeOK, StoresInv, Free, Spilling, Refilling
<1>7. OrderInv'
  <2>1. Elements(delivered') = Elements(delivered) /\ Elements(disk') = Elements(disk)
        /\ Increasing(delivered') /\ Increasing(disk')
    BY <1>4 DEF Elements, IInv, OrderInv
  <2>2. QED BY <1>2, <1>3, <1>4, <2>1, NextMessage DEF IInv, OrderInv, Precedes, Free, Spilling, Refilling
<1>8. AccountInv'
  <2>1. Elements(delivered') = Elements(delivered) /\ Elements(disk') = Elements(disk)
    BY <1>4 DEF Elements
  <2>2. QED BY <1>2, <1>4, <2>1, NextMessage DEF IInv, AccountInv
<1>9. WakeupInv'
  BY <1>4 DEF WakeupInv
<1>10. QED BY <1>5, <1>6, <1>7, <1>8, <1>9 DEF IInv

\* The two outcomes of handing a message to the disk queue.
LEMMA DqueEnqueueFacts ==
    ASSUME IInv, NEW m \in 1..MaxMsgs, DqueEnqueue(m),
           \A x \in Elements(disk) : x < m
    PROVE  /\ disk' \in Seq(1..MaxMsgs)
           /\ Increasing(disk')
           /\ lost' \subseteq 1..MaxMsgs
           /\ \/ Elements(disk') = Elements(disk) \cup {m} /\ lost' = lost
              \/ Elements(disk') = Elements(disk) /\ lost' = lost \cup {m}
<1>1. disk \in Seq(1..MaxMsgs) /\ Increasing(disk) /\ lost \subseteq 1..MaxMsgs
  BY DEF IInv, TypeOK, OrderInv
<1>2. CASE disk' = Append(disk, m) /\ lost' = lost
  <2>1. Elements(Append(disk, m)) = Elements(disk) \cup {m}
    BY <1>1 DEF Elements
  <2>2. Increasing(Append(disk, m))
    BY <1>1, IncreasingAppend
  <2>3. QED BY <1>1, <1>2, <2>1, <2>2
<1>3. CASE disk' = disk /\ lost' = lost \cup {m}
  BY <1>1, <1>3
<1>4. QED BY <1>2, <1>3 DEF DqueEnqueue

\* A producer that finds memory full takes the mutex for the spill.
LEMMA SpillStartStep ==
    ASSUME IInv, NEW p \in Producers, SpillStart(p)
    PROVE  IInv'
<1> USE BoundsAssumption, ProcsAssumption
<1>1. /\ holder' = p /\ Free /\ sent < MaxMsgs /\ ~usingDisk
      /\ UNCHANGED <<mem, disk, usingDisk, waiting, status, sent, delivered, lost>>
  BY DEF SpillStart, CanEnqueue
<1>2. disk = <<>>
  BY <1>1 DEF IInv, StoresInv
<1>3. TypeOK'
  BY <1>1 DEF IInv, TypeOK
<1>4. StoresInv'
  BY <1>1 DEF IInv, StoresInv, Free, Spilling, Refilling
<1>5. OrderInv'
  BY <1>1, <1>2 DEF IInv, OrderInv, Precedes, Elements, Increasing, Spilling, Refilling
<1>6. AccountInv' /\ WakeupInv'
  BY <1>1 DEF IInv, AccountInv, WakeupInv, Elements
<1>7. QED BY <1>3, <1>4, <1>5, <1>6 DEF IInv

\* One round of the spilling loop moves the front of memory behind the disk, or loses it.
LEMMA SpillMoveStep ==
    ASSUME IInv, NEW p \in Producers, SpillMove(p)
    PROVE  IInv'
<1> USE BoundsAssumption, ProcsAssumption
<1>1. /\ status # "down" /\ holder = p /\ mem # <<>>
      /\ mem' = Tail(mem)
      /\ DqueEnqueue(Head(mem))
      /\ UNCHANGED <<usingDisk, holder, waiting, status, sent, delivered>>
  BY DEF SpillMove
<1>2. /\ mem \in Seq(1..MaxMsgs) /\ Increasing(mem)
      /\ Precedes(Elements(disk), Elements(mem))
  BY <1>1 DEF IInv, TypeOK, OrderInv, Spilling
<1>3. /\ Elements(mem) = {Head(mem)} \cup Elements(mem')
      /\ Head(mem) \in 1..MaxMsgs
      /\ mem' \in Seq(1..MaxMsgs)
      /\ Len(mem') = Len(mem) - 1
  BY <1>1, <1>2, ElementsHeadTail
<1>4. /\ Increasing(mem')
      /\ \A y \in Elements(mem') : Head(mem) < y
  BY <1>1, <1>2, IncreasingTail
<1>5. /\ disk' \in Seq(1..MaxMsgs)
      /\ Increasing(disk')
      /\ lost' \subseteq 1..MaxMsgs
      /\ \/ Elements(disk') = Elements(disk) \cup {Head(mem)} /\ lost' = lost
         \/ Elements(disk') = Elements(disk) /\ lost' = lost \cup {Head(mem)}
  BY <1>1, <1>2, <1>3, DqueEnqueueFacts DEF Precedes
<1>6. Elements(delivered') = Elements(delivered) /\ Increasing(delivered')
  BY <1>1 DEF Elements, IInv, OrderInv
<1>7. TypeOK'
  BY <1>1, <1>3, <1>5 DEF IInv, TypeOK
<1>8. StoresInv'
  BY <1>1, <1>2, <1>3 DEF IInv, StoresInv, Free, Spilling, Refilling
<1>9. OrderInv'
  BY <1>1, <1>2, <1>3, <1>4, <1>5, <1>6 DEF IInv, OrderInv, Precedes, Spilling, Refilling
<1>10. AccountInv'
  <2>1. /\ Head(mem) \notin Elements(mem')
        /\ Head(mem) \notin Elements(disk)
        /\ Head(mem) \notin Elements(delivered)
    <3>1. /\ Precedes(Elements(delivered), Elements(mem))
          /\ Elements(mem) \subseteq Int
      BY <1>2 DEF IInv, OrderInv, Elements
    <3>2. QED BY <1>2, <1>3, <1>4, <3>1 DEF Precedes
  <2>2. QED BY <1>1, <1>3, <1>5, <1>6, <2>1 DEF IInv, AccountInv
<1>11. WakeupInv'
  BY <1>1 DEF IInv, WakeupInv
<1>12. QED BY <1>7, <1>8, <1>9, <1>10, <1>11 DEF IInv

\* The last step of the spill and an enqueue that finds the queue on disk
\* differ only in where the memory queue was emptied.
LEMMA ToDiskStep ==
    ASSUME IInv, mem = <<>>, status # "down", sent < MaxMsgs,
           DqueEnqueue(sent + 1),
           usingDisk' = TRUE, holder' = NoProc, sent' = sent + 1, waiting' = {},
           UNCHANGED <<mem, status, delivered>>
    PROVE  IInv'
<1> USE BoundsAssumption, ProcsAssumption
<1>1. sent + 1 \in 1..MaxMsgs
  BY DEF IInv, TypeOK
<1>2. /\ disk' \in Seq(1..MaxMsgs)
      /\ Increasing(disk')
      /\ lost' \subseteq 1..MaxMsgs
      /\ \/ Elements(disk') = Elements(disk) \cup {sent + 1} /\ lost' = lost
         \/ Elements(disk') = Elements(disk) /\ lost' = lost \cup {sent + 1}
  BY <1>1, NextMessage, DqueEnqueueFacts
<1>3. /\ Elements(delivered') = Elements(delivered) /\ Increasing(delivered')
      /\ Elements(mem') = Elements(mem) /\ Elements(mem) = {} /\ Increasing(mem')
  BY DEF Elements, IInv, OrderInv
<1>4. TypeOK'
  BY <1>1, <1>2 DEF IInv, TypeOK
<1>5. StoresInv'
  BY DEF IInv, StoresInv, Free, Spilling, Refilling
<1>6. OrderInv'
  BY <1>2, <1>3, NextMessage DEF IInv, OrderInv, Precedes, Spilling, Refilling
<1>7. AccountInv'
  BY <1>2, <1>3, NextMessage DEF IInv, AccountInv
<1>8. WakeupInv'
  BY DEF WakeupInv
<1>9. QED BY <1>4, <1>5, <1>6, <1>7, <1>8 DEF IInv

\* Every branch of EnqueueToExchange.
LEMMA EnqueueStep ==
    ASSUME IInv, NEW p \in Producers, EnqueueToExchange(p)
    PROVE  IInv'
<1>1. CASE EnqueueMemory(p)
  BY <1>1, EnqueueMemoryStep
<1>2. CASE SpillStart(p)
  BY <1>2, SpillStartStep
<1>3. CASE SpillMove(p)
  BY <1>3, SpillMoveStep
<1>4. CASE SpillFinish(p)
  <2>1. sent < MaxMsgs
    BY <1>4 DEF SpillFinish, IInv, StoresInv, Spilling
  <2>2. QED BY <1>4, <2>1, ToDiskStep DEF SpillFinish, Accept, Broadcast
<1>5. CASE EnqueueDisk(p)
  <2>1. mem = <<>> /\ status # "down" /\ holder' = NoProc /\ usingDisk' = TRUE
    BY <1>5 DEF EnqueueDisk, CanEnqueue, Free, IInv, TypeOK, StoresInv
  <2>2. QED BY <1>5, <2>1, ToDiskStep DEF EnqueueDisk, CanEnqueue, Accept, Broadcast
<1>6. QED BY <1>1, <1>2, <1>3, <1>4, <1>5 DEF EnqueueToExchange

\* A process that dies loses its memory queue, which no other store shares.
LEMMA ProcessDiesStep ==
    ASSUME IInv, ProcessDies
    PROVE  IInv'
<1> USE BoundsAssumption, ProcsAssumption
<1>1. /\ status' = "down" /\ mem' = <<>> /\ holder' = NoProc /\ waiting' = {}
      /\ usingDisk' = FALSE
      /\ lost' = lost \cup Elements(mem)
      /\ UNCHANGED <<disk, sent, delivered>>
  BY DEF ProcessDies
<1>2. /\ Elements(mem') = {} /\ Increasing(mem')
      /\ Elements(disk') = Elements(disk) /\ Elements(delivered') = Elements(delivered)
      /\ Increasing(disk') /\ Increasing(delivered')
  BY <1>1 DEF Elements, Increasing, IInv, OrderInv
<1>3. Elements(mem) \subseteq 1..MaxMsgs
  BY DEF IInv, TypeOK, Elements
<1>4. TypeOK'
  <2>1. mem' \in Seq(1..MaxMsgs)
    BY <1>1
  <2>2. lost \subseteq 1..MaxMsgs
    BY DEF IInv, TypeOK
  <2>3. lost' \subseteq 1..MaxMsgs
    BY <1>1, <1>3, <2>2
  <2>4. QED BY <1>1, <2>1, <2>3 DEF IInv, TypeOK
<1>5. StoresInv'
  BY <1>1 DEF IInv, StoresInv, Free, Spilling, Refilling
<1>6. OrderInv'
  BY <1>1, <1>2 DEF IInv, OrderInv, Precedes, Spilling, Refilling
<1>7. AccountInv'
  <2>1. Elements(mem) \cap (Elements(delivered) \cup Elements(disk)) = {}
    <3>1. Elements(mem) \subseteq Int
      BY <1>3
    <3>2. Elements(mem) \cap Elements(delivered) = {}
      BY <3>1 DEF IInv, OrderInv, Precedes
    <3>3. Elements(mem) \cap Elements(disk) = {}
      <4>1. CASE Spilling \/ Refilling
        BY <3>1, <4>1 DEF IInv, OrderInv, Precedes
      <4>2. CASE ~(Spilling \/ Refilling)
        BY <4>2 DEF IInv, TypeOK, StoresInv, Free, Spilling, Refilling, Elements
      <4>3. QED BY <4>1, <4>2
    <3>4. QED BY <3>2, <3>3
  <2>2. QED BY <1>1, <1>2, <2>1 DEF IInv, AccountInv
<1>8. WakeupInv'
  BY <1>1 DEF WakeupInv
<1>9. QED BY <1>4, <1>5, <1>6, <1>7, <1>8 DEF IInv

\* Handing the front of the memory queue to a consumer, from a state in which
\* nothing is on disk.
LEMMA FromMemoryStep ==
    ASSUME IInv, status # "down", disk = <<>>, mem # <<>>,
           mem' = Tail(mem), Deliver(Head(mem)),
           usingDisk' = FALSE, holder' = NoProc, waiting' = waiting,
           UNCHANGED <<disk, status, sent, lost>>
    PROVE  IInv'
<1> USE BoundsAssumption, ProcsAssumption
<1>1. /\ mem \in Seq(1..MaxMsgs) /\ delivered \in Seq(1..MaxMsgs)
      /\ Increasing(mem) /\ Increasing(delivered)
      /\ Precedes(Elements(delivered), Elements(mem))
  BY DEF IInv, TypeOK, OrderInv
<1>2. /\ Elements(mem) = {Head(mem)} \cup Elements(mem')
      /\ Head(mem) \in 1..MaxMsgs
      /\ mem' \in Seq(1..MaxMsgs)
      /\ Len(mem') = Len(mem) - 1
  BY <1>1, ElementsHeadTail
<1>3. /\ Increasing(mem')
      /\ \A y \in Elements(mem') : Head(mem) < y
  BY <1>1, IncreasingTail
<1>4. /\ delivered' \in Seq(1..MaxMsgs)
      /\ Elements(delivered') = Elements(delivered) \cup {Head(mem)}
      /\ Increasing(delivered')
  <2>1. Elements(Append(delivered, Head(mem))) = Elements(delivered) \cup {Head(mem)}
    BY <1>1, <1>2, ElementsAppend
  <2>2. Increasing(Append(delivered, Head(mem)))
    BY <1>1, <1>2, IncreasingAppend DEF Precedes
  <2>3. QED BY <1>1, <1>2, <2>1, <2>2 DEF Deliver
<1>5. Elements(disk) = {} /\ Elements(disk') = {} /\ Increasing(disk')
  BY DEF Elements, Increasing
<1>6. TypeOK'
  BY <1>2, <1>4 DEF IInv, TypeOK
<1>7. StoresInv'
  BY <1>1, <1>2 DEF IInv, StoresInv, Free, Spilling, Refilling
<1>8. OrderInv'
  BY <1>1, <1>2, <1>3, <1>4, <1>5 DEF IInv, OrderInv, Precedes, Spilling, Refilling
<1>9. AccountInv'
  BY <1>2, <1>4, <1>5 DEF IInv, AccountInv
<1>10. WakeupInv'
  BY DEF IInv, WakeupInv
<1>11. QED BY <1>6, <1>7, <1>8, <1>9, <1>10 DEF IInv

\* Taking the front off the disk queue, to deliver it or to lose it.
LEMMA FromDiskStep ==
    ASSUME IInv, Free, usingDisk, disk # <<>>,
           disk' = Tail(disk),
           \/ Deliver(Head(disk)) /\ lost' = lost
           \/ lost' = lost \cup {Head(disk)} /\ delivered' = delivered,
           UNCHANGED <<mem, usingDisk, holder, waiting, status, sent>>
    PROVE  IInv'
<1> USE BoundsAssumption, ProcsAssumption
<1>1. /\ disk \in Seq(1..MaxMsgs) /\ delivered \in Seq(1..MaxMsgs)
      /\ Increasing(disk) /\ Increasing(delivered)
      /\ Precedes(Elements(delivered), Elements(disk))
      /\ mem = <<>> /\ lost \subseteq 1..MaxMsgs
  BY DEF IInv, TypeOK, OrderInv, StoresInv
<1>2. /\ Elements(disk) = {Head(disk)} \cup Elements(disk')
      /\ Head(disk) \in 1..MaxMsgs
      /\ disk' \in Seq(1..MaxMsgs)
  BY <1>1, ElementsHeadTail
<1>3. /\ Increasing(disk')
      /\ \A y \in Elements(disk') : Head(disk) < y
  BY <1>1, IncreasingTail
<1>4. /\ Elements(mem) = {} /\ Elements(mem') = {} /\ Increasing(mem')
  BY <1>1 DEF Elements, Increasing
<1>5. /\ delivered' \in Seq(1..MaxMsgs)
      /\ Increasing(delivered')
      /\ \/ Elements(delivered') = Elements(delivered) \cup {Head(disk)} /\ lost' = lost
         \/ Elements(delivered') = Elements(delivered) /\ lost' = lost \cup {Head(disk)}
  <2>1. Elements(Append(delivered, Head(disk))) = Elements(delivered) \cup {Head(disk)}
    BY <1>1, <1>2, ElementsAppend
  <2>2. Increasing(Append(delivered, Head(disk)))
    BY <1>1, <1>2, IncreasingAppend DEF Precedes
  <2>3. CASE Deliver(Head(disk)) /\ lost' = lost
    BY <1>1, <1>2, <2>1, <2>2, <2>3 DEF Deliver
  <2>4. CASE lost' = lost \cup {Head(disk)} /\ delivered' = delivered
    BY <1>1, <2>4
  <2>5. QED BY <2>3, <2>4
<1>6. TypeOK'
  BY <1>1, <1>2, <1>5 DEF IInv, TypeOK
<1>7. StoresInv'
  BY <1>1 DEF IInv, StoresInv, Free, Spilling, Refilling
<1>8. OrderInv'
  BY <1>1, <1>2, <1>3, <1>4, <1>5 DEF IInv, OrderInv, Precedes, Free, Spilling, Refilling
<1>9. AccountInv'
  <2>1. Head(disk) \notin Elements(disk') /\ Head(disk) \notin Elements(delivered)
    BY <1>1, <1>2, <1>3 DEF Precedes
  <2>2. QED BY <1>2, <1>4, <1>5, <2>1 DEF IInv, AccountInv
<1>10. WakeupInv'
  BY DEF IInv, WakeupInv
<1>11. QED BY <1>6, <1>7, <1>8, <1>9, <1>10 DEF IInv

\* One round of the refilling loop moves the front of the disk behind memory.
LEMMA RefillMoveStep ==
    ASSUME IInv, NEW c \in Consumers, RefillMove(c)
    PROVE  IInv'
<1> USE BoundsAssumption, ProcsAssumption
<1>1. /\ status # "down" /\ holder = c
      /\ mem' = Append(mem, Head(disk)) /\ disk' = Tail(disk)
      /\ UNCHANGED <<usingDisk, holder, waiting, status, sent, delivered, lost>>
  BY DEF RefillMove
<1>2. /\ mem \in Seq(1..MaxMsgs) /\ disk \in Seq(1..MaxMsgs)
      /\ Increasing(mem) /\ Increasing(disk)
      /\ Precedes(Elements(mem), Elements(disk))
      /\ Precedes(Elements(delivered), Elements(disk))
      /\ Len(mem) + Len(disk) <= LowWaterMark
      /\ status = "up" /\ usingDisk
      /\ disk # <<>>
  BY <1>1 DEF RefillMove, DqueSize, IInv, TypeOK, OrderInv, StoresInv, Refilling
<1>3. /\ Elements(disk) = {Head(disk)} \cup Elements(disk')
      /\ Head(disk) \in 1..MaxMsgs
      /\ disk' \in Seq(1..MaxMsgs)
      /\ Len(disk') = Len(disk) - 1
  BY <1>1, <1>2, ElementsHeadTail
<1>4. /\ Increasing(disk')
      /\ \A y \in Elements(disk') : Head(disk) < y
  BY <1>1, <1>2, IncreasingTail
<1>5. /\ mem' \in Seq(1..MaxMsgs)
      /\ Len(mem') = Len(mem) + 1
  BY <1>1, <1>2, <1>3
<1>6. /\ Elements(mem') = Elements(mem) \cup {Head(disk)}
      /\ Increasing(mem')
  <2>1. Elements(Append(mem, Head(disk))) = Elements(mem) \cup {Head(disk)}
    BY <1>2, <1>3, ElementsAppend
  <2>2. Increasing(Append(mem, Head(disk)))
    BY <1>2, <1>3, IncreasingAppend DEF Precedes
  <2>3. QED BY <1>1, <2>1, <2>2
<1>7. Elements(delivered') = Elements(delivered) /\ Increasing(delivered')
  BY <1>1 DEF Elements, IInv, OrderInv
<1>8. TypeOK'
  BY <1>1, <1>3, <1>5 DEF IInv, TypeOK
<1>9. StoresInv'
  <2>1. Len(mem) \in Nat /\ Len(disk) \in Nat /\ Len(disk) > 0
    BY <1>2
  <2>2. QED BY <1>1, <1>2, <1>3, <1>5, <2>1 DEF StoresInv, Free, Spilling, Refilling
<1>10. OrderInv'
  BY <1>1, <1>2, <1>3, <1>4, <1>6, <1>7 DEF IInv, OrderInv, Precedes, Spilling, Refilling
<1>11. AccountInv'
  BY <1>1, <1>3, <1>6, <1>7 DEF IInv, AccountInv
<1>12. WakeupInv'
  BY <1>1, <1>2 DEF IInv, WakeupInv
<1>13. QED BY <1>8, <1>9, <1>10, <1>11, <1>12 DEF IInv

\* Every branch of Dequeue.
LEMMA DequeueStep ==
    ASSUME IInv, NEW c \in Consumers, Dequeue(c)
    PROVE  IInv'
<1> USE BoundsAssumption, ProcsAssumption
<1>1. CASE WaitForMessage(c)
  <2>1. /\ waiting' = waiting \cup {c} /\ Free
        /\ UNCHANGED <<mem, disk, usingDisk, holder, status, sent, delivered, lost>>
    BY <1>1 DEF WaitForMessage, CanDequeue
  <2>2. TypeOK'
    BY <2>1 DEF IInv, TypeOK
  <2>3. StoresInv' /\ OrderInv' /\ AccountInv'
    BY <2>1 DEF IInv, StoresInv, OrderInv, AccountInv, Free, Spilling, Refilling,
                Elements, Increasing, Precedes
  <2>4. status = "up" => mem = <<>> /\ disk = <<>>
    BY <1>1 DEF WaitForMessage, CanDequeue, DqueSize, IInv, TypeOK, StoresInv
  <2>5. WakeupInv'
    BY <2>1, <2>4 DEF WakeupInv
  <2>6. QED BY <2>2, <2>3, <2>5 DEF IInv
<1>2. CASE DequeueMemory(c)
  <2>1. Free /\ usingDisk = FALSE
    BY <1>2 DEF DequeueMemory, CanDequeue, IInv, TypeOK
  <2>2. disk = <<>> /\ holder' = NoProc /\ status # "down" /\ usingDisk' = FALSE
    BY <1>2, <2>1 DEF DequeueMemory, IInv, StoresInv, Free
  <2>3. QED BY <1>2, <2>2, FromMemoryStep DEF DequeueMemory
<1>3. CASE DequeueDisk(c)
  <2>1. disk # <<>>
    BY <1>3 DEF DequeueDisk, DqueSize, IInv, TypeOK
  <2>2. QED BY <1>3, <2>1, FromDiskStep DEF DequeueDisk, CanDequeue
<1>4. CASE DequeueDiskError(c)
  <2>1. disk # <<>>
    BY <1>4 DEF DequeueDiskError, DqueSize, IInv, TypeOK
  <2>2. QED BY <1>4, <2>1, FromDiskStep DEF DequeueDiskError, CanDequeue
<1>5. CASE RefillStart(c)
  <2>1. /\ holder' = c /\ Free /\ usingDisk /\ DqueSize > 0 /\ ~AboveLowWater
        /\ UNCHANGED <<mem, disk, usingDisk, waiting, status, sent, delivered, lost>>
    BY <1>5 DEF RefillStart, CanDequeue
  <2>2. /\ mem = <<>> /\ status = "up"
        /\ Len(disk) > 0 /\ Len(disk) <= LowWaterMark
    BY <2>1 DEF IInv, TypeOK, StoresInv, DqueSize, AboveLowWater
  <2>3. TypeOK'
    BY <2>1 DEF IInv, TypeOK
  <2>4. StoresInv'
    BY <2>1, <2>2 DEF IInv, TypeOK, StoresInv, Free, Spilling, Refilling
  <2>5. OrderInv'
    BY <2>1, <2>2 DEF IInv, OrderInv, Precedes, Elements, Increasing, Spilling, Refilling
  <2>6. AccountInv' /\ WakeupInv'
    BY <2>1 DEF IInv, AccountInv, WakeupInv, Elements
  <2>7. QED BY <2>3, <2>4, <2>5, <2>6 DEF IInv
<1>6. CASE RefillMove(c)
  BY <1>6, RefillMoveStep
<1>7. CASE RefillFinish(c)
  <2>1. /\ status = "up" /\ Len(disk) = 0 /\ Len(mem) + Len(disk) > 0
    BY <1>7 DEF RefillFinish, DqueSize, IInv, StoresInv, Refilling
  <2>2. disk = <<>> /\ mem # <<>>
    BY <2>1 DEF IInv, TypeOK
  <2>3. QED BY <1>7, <2>2, FromMemoryStep DEF RefillFinish
<1>8. CASE DequeuePanics(c)
  BY <1>8, ProcessDiesStep DEF DequeuePanics
<1>9. QED
  BY <1>1, <1>2, <1>3, <1>4, <1>5, <1>6, <1>7, <1>8 DEF Dequeue

\* A restart keeps a contiguous part of what was on disk.
LEMMA ReopenStep ==
    ASSUME IInv, NEW first \in 1..(Len(disk) + 1), NEW last \in (first - 1)..Len(disk),
           Reopen(first, last)
    PROVE  IInv'
<1> USE BoundsAssumption, ProcsAssumption
<1>1. /\ status = "down" /\ status' = "up"
      /\ disk' = SubSeq(disk, first, last)
      /\ lost' = lost \cup (Elements(disk) \ Elements(disk'))
      /\ usingDisk' = (Len(disk') > 0) /\ mem' = <<>>
      /\ UNCHANGED <<holder, waiting, sent, delivered>>
  BY DEF Reopen
<1>2. /\ mem = <<>> /\ holder = NoProc /\ waiting = {}
  BY <1>1 DEF IInv, StoresInv
<1>3. /\ disk \in Seq(1..MaxMsgs) /\ Increasing(disk) /\ lost \subseteq 1..MaxMsgs
      /\ Elements(disk) \subseteq 1..MaxMsgs
  BY DEF IInv, TypeOK, OrderInv, Elements
<1>4. /\ disk' \in Seq(1..MaxMsgs)
      /\ Elements(disk') \subseteq Elements(disk)
      /\ Increasing(disk')
  BY <1>1, <1>3, SubSeqFacts
<1>5. /\ Elements(mem) = {} /\ Elements(mem') = {} /\ Increasing(mem')
      /\ Elements(delivered') = Elements(delivered) /\ Increasing(delivered')
  BY <1>1, <1>2 DEF Elements, Increasing, IInv, OrderInv
<1>6. TypeOK'
  <2>1. lost' \subseteq 1..MaxMsgs
    BY <1>1, <1>3
  <2>2. mem' \in Seq(1..MaxMsgs)
    BY <1>1
  <2>3. usingDisk' \in BOOLEAN
    BY <1>1
  <2>4. QED BY <1>1, <1>4, <2>1, <2>2, <2>3 DEF IInv, TypeOK
<1>7. StoresInv'
  <2>1. usingDisk' \/ disk' = <<>>
    <3>1. CASE Len(disk') > 0
      BY <1>1, <3>1
    <3>2. CASE ~(Len(disk') > 0)
      BY <1>4, <3>2
    <3>3. QED BY <3>1, <3>2
  <2>2. QED BY <1>1, <1>2, <2>1 DEF StoresInv, Free, Spilling, Refilling
<1>8. OrderInv'
  BY <1>1, <1>2, <1>4, <1>5 DEF IInv, OrderInv, Precedes, Spilling, Refilling
<1>9. AccountInv'
  <2>1. Elements(disk) \cap Elements(delivered) = {}
    <3>1. Precedes(Elements(delivered), Elements(disk)) /\ Elements(disk) \subseteq Int
      BY <1>3 DEF IInv, OrderInv
    <3>2. QED BY <3>1 DEF Precedes
  <2>2. QED BY <1>1, <1>4, <1>5, <2>1 DEF IInv, AccountInv
<1>10. WakeupInv'
  BY <1>1, <1>2 DEF WakeupInv
<1>11. QED BY <1>6, <1>7, <1>8, <1>9, <1>10 DEF IInv

\* The invariant holds initially, ...
LEMMA InitIInv == Init => IInv
<1> USE BoundsAssumption, ProcsAssumption
<1>1. SUFFICES ASSUME Init PROVE IInv
  OBVIOUS
<1>2. Elements(mem) = {} /\ Elements(disk) = {} /\ Elements(delivered) = {} /\ lost = {}
  BY <1>1 DEF Init, Elements
<1>3. TypeOK
  <2>1. <<>> \in Seq(1..MaxMsgs)
    OBVIOUS
  <2>2. mem \in Seq(1..MaxMsgs) /\ disk \in Seq(1..MaxMsgs) /\ delivered \in Seq(1..MaxMsgs)
    BY <1>1, <2>1 DEF Init
  <2>3. 0 \in 0..MaxMsgs
    OBVIOUS
  <2>4. lost \subseteq 1..MaxMsgs /\ waiting \subseteq Consumers
    BY <1>1 DEF Init
  <2>5. QED BY <1>1, <2>2, <2>3, <2>4 DEF Init, TypeOK
<1>4. StoresInv
  BY <1>1 DEF Init, StoresInv, Free, Spilling, Refilling
<1>5. OrderInv
  BY <1>1, <1>2 DEF Init, OrderInv, Increasing, Precedes
<1>6. AccountInv /\ WakeupInv
  BY <1>1, <1>2 DEF Init, AccountInv, WakeupInv
<1>7. QED BY <1>3, <1>4, <1>5, <1>6 DEF IInv

\* ... and every step preserves it.
LEMMA NextIInv == IInv /\ [Next]_vars => IInv'
<1>1. SUFFICES ASSUME IInv, [Next]_vars PROVE IInv'
  OBVIOUS
<1>2. ASSUME NEW p \in Producers, EnqueueToExchange(p) PROVE IInv'
  BY <1>1, <1>2, EnqueueStep
<1>3. ASSUME NEW c \in Consumers, Dequeue(c) PROVE IInv'
  BY <1>1, <1>3, DequeueStep
<1>4. CASE Close
  <2>1. /\ Free /\ status' = "closed"
        /\ UNCHANGED <<mem, disk, usingDisk, holder, waiting, sent, delivered, lost>>
    BY <1>4 DEF Close
  <2>2. TypeOK'
    BY <1>1, <2>1 DEF IInv, TypeOK
  <2>3. StoresInv'
    BY <1>1, <2>1, ProcsAssumption DEF IInv, StoresInv, Free, Spilling, Refilling
  <2>4. OrderInv'
    BY <1>1, <2>1 DEF IInv, OrderInv, Spilling, Refilling
  <2>5. AccountInv' /\ WakeupInv'
    BY <1>1, <2>1 DEF IInv, AccountInv, WakeupInv
  <2>6. QED BY <2>2, <2>3, <2>4, <2>5 DEF IInv
<1>5. CASE Crash
  BY <1>1, <1>5, ProcessDiesStep DEF Crash
<1>6. ASSUME NEW first \in 1..(Len(disk) + 1), NEW last \in (first - 1)..Len(disk),
             Reopen(first, last)
      PROVE  IInv'
  BY <1>1, <1>6, ReopenStep
<1>7. CASE UNCHANGED vars
  <2>1. UNCHANGED <<mem, disk, usingDisk, holder, waiting, status, sent, delivered, lost>>
    BY <1>7 DEF vars
  <2>2. TypeOK'
    BY <1>1, <2>1 DEF IInv, TypeOK
  <2>3. StoresInv'
    BY <1>1, <2>1 DEF IInv, StoresInv, Free, Spilling, Refilling
  <2>4. OrderInv'
    BY <1>1, <2>1 DEF IInv, OrderInv, Spilling, Refilling
  <2>5. AccountInv' /\ WakeupInv'
    BY <1>1, <2>1 DEF IInv, AccountInv, WakeupInv
  <2>6. QED BY <2>2, <2>3, <2>4, <2>5 DEF IInv
<1>8. QED BY <1>1, <1>2, <1>3, <1>4, <1>5, <1>6, <1>7 DEF Next

-----------------------------------------------------------------------------
(* The theorems.                                                           *)

\* The inductive invariant holds in every reachable state.
THEOREM Invariance == Spec => []IInv
BY InitIInv, NextIInv, PTL DEF Spec

\* Every variable of the queue keeps its type.
THEOREM TypeCorrect == Spec => []TypeOK
<1>1. IInv => TypeOK
  BY DEF IInv
<1>2. QED BY <1>1, Invariance, PTL

\* Messages leave the queue in the order in which EnqueueToExchange accepted
\* them and none twice, whatever spills, refills, disk errors, crashes and
\* restarts come in between.
THEOREM FifoCorrect == Spec => []FirstInFirstOut
<1>1. IInv => FirstInFirstOut
  <2>1. SUFFICES ASSUME IInv PROVE FirstInFirstOut
    OBVIOUS
  <2>2. /\ mem \in Seq(1..MaxMsgs) /\ disk \in Seq(1..MaxMsgs) /\ delivered \in Seq(1..MaxMsgs)
        /\ OrderInv
    BY <2>1 DEF IInv, TypeOK
  <2>3. /\ Increasing(Contents)
        /\ Contents \in Seq(1..MaxMsgs)
        /\ Elements(Contents) = Elements(mem) \cup Elements(disk)
    <3>1. CASE Spilling
      <4>1. Increasing(disk \o mem)
        BY <2>2, <3>1, IncreasingConcat DEF OrderInv
      <4>2. disk \o mem \in Seq(1..MaxMsgs)
            /\ Elements(disk \o mem) = Elements(disk) \cup Elements(mem)
        BY <2>2, ElementsConcat
      <4>3. QED BY <3>1, <4>1, <4>2 DEF Contents
    <3>2. CASE ~Spilling
      <4>1. Precedes(Elements(mem), Elements(disk))
        <5>1. CASE Refilling
          BY <2>2, <5>1 DEF OrderInv
        <5>2. CASE ~Refilling
          <6>1. mem = <<>> \/ disk = <<>>
            BY <2>1, <3>2, <5>2 DEF IInv, TypeOK, StoresInv, Free, Spilling, Refilling
          <6>2. Elements(mem) = {} \/ Elements(disk) = {}
            BY <6>1 DEF Elements
          <6>3. QED BY <6>2 DEF Precedes
        <5>3. QED BY <5>1, <5>2
      <4>2. Increasing(mem \o disk)
        BY <2>2, <4>1, IncreasingConcat DEF OrderInv
      <4>3. mem \o disk \in Seq(1..MaxMsgs)
            /\ Elements(mem \o disk) = Elements(mem) \cup Elements(disk)
        BY <2>2, ElementsConcat
      <4>4. QED BY <3>2, <4>2, <4>3 DEF Contents
    <3>3. QED BY <3>1, <3>2
  <2>4. Precedes(Elements(delivered), Elements(Contents))
    BY <2>2, <2>3 DEF OrderInv, Precedes
  <2>5. QED
    BY <2>2, <2>3, <2>4, IncreasingConcat DEF OrderInv, FirstInFirstOut
<1>2. QED BY <1>1, Invariance, PTL

\* Every accepted message is delivered, queued or lost, and only one of these.
THEOREM AccountingCorrect == Spec => []Accounted
<1>1. IInv => Accounted
  <2>1. SUFFICES ASSUME IInv PROVE Accounted
    OBVIOUS
  <2>2. mem \in Seq(1..MaxMsgs) /\ disk \in Seq(1..MaxMsgs)
    BY <2>1 DEF IInv, TypeOK
  <2>3. /\ Elements(disk \o mem) = Elements(disk) \cup Elements(mem)
        /\ Elements(mem \o disk) = Elements(mem) \cup Elements(disk)
    BY <2>2, ElementsConcat
  <2>4. Elements(Contents) = Elements(mem) \cup Elements(disk)
    BY <2>3 DEF Contents
  <2>5. QED BY <2>1, <2>4 DEF IInv, AccountInv, Accounted
<1>2. QED BY <1>1, Invariance, PTL

\* A goroutine suspended in Dequeue has nothing to wait for.
THEOREM WakeupCorrect == Spec => []NoLostWakeup
<1>1. IInv => NoLostWakeup
  BY DEF IInv, WakeupInv, NoLostWakeup, Contents
<1>2. QED BY <1>1, Invariance, PTL

\* The queue size metric counts the whole backlog.
THEOREM SizeCorrect == Spec => []SizeCountsEverything
<1>1. IInv => SizeCountsEverything
  <2>1. SUFFICES ASSUME IInv, status = "up", holder = NoProc
                 PROVE  Size = Len(mem) + Len(disk)
    BY DEF SizeCountsEverything
  <2>2. mem \in Seq(1..MaxMsgs) /\ disk \in Seq(1..MaxMsgs)
        /\ IF usingDisk THEN mem = <<>> ELSE disk = <<>>
    BY <2>1 DEF IInv, TypeOK, StoresInv, Free
  <2>3. QED BY <2>1, <2>2 DEF Size, DqueSize
<1>2. QED BY <1>1, Invariance, PTL

\* A process that dies loses fewer than MaxInMemory accepted messages.
THEOREM CrashLossCorrect == Spec => CrashLossBounded
<1>1. IInv /\ [Next]_vars =>
        [status # "down" /\ status' = "down" => Cardinality(lost' \ lost) < MaxInMemory]_vars
  <2>1. SUFFICES ASSUME IInv, Next, status # "down", status' = "down"
                 PROVE  Cardinality(lost' \ lost) < MaxInMemory
    BY DEF vars
  <2>2. ProcessDies
    BY <2>1 DEF Next, EnqueueToExchange, EnqueueMemory, SpillStart, SpillMove, SpillFinish,
       EnqueueDisk, Dequeue, WaitForMessage, DequeueMemory, DequeueDisk, DequeueDiskError,
       RefillStart, RefillMove, RefillFinish, DequeuePanics, Close, Crash, Reopen
  <2>3. /\ IsFiniteSet(Elements(mem)) /\ Cardinality(Elements(mem)) <= Len(mem)
        /\ Len(mem) < MaxInMemory /\ Len(mem) \in Nat
    BY <2>1, ElementsCardinality DEF IInv, TypeOK, StoresInv
  <2>4. lost' \ lost \subseteq Elements(mem)
    BY <2>2 DEF ProcessDies
  <2>5. Cardinality(lost' \ lost) <= Cardinality(Elements(mem))
        /\ IsFiniteSet(lost' \ lost)
    BY <2>3, <2>4, FS_Subset
  <2>6. Cardinality(lost' \ lost) \in Nat /\ Cardinality(Elements(mem)) \in Nat
    BY <2>3, <2>5, FS_CardinalityType
  <2>7. QED BY <2>3, <2>5, <2>6, BoundsAssumption
<1>2. QED BY <1>1, Invariance, PTL DEF Spec, CrashLossBounded

-----------------------------------------------------------------------------
(* Sequences: losing messages in a concatenation.                          *)

\* What precedes and what follows the first k messages of t in s \o t.
LEMMA CutBehind ==
    ASSUME NEW S, NEW s \in Seq(S), NEW t \in Seq(S), NEW k \in 0..Len(t)
    PROVE  /\ SubSeq(s \o t, 1, Len(s)) = s
           /\ SubSeq(s \o t, Len(s) + k + 1, Len(s \o t)) = SubSeq(t, k + 1, Len(t))
           /\ {(s \o t)[n] : n \in (Len(s) + 1)..(Len(s) + k)} = {t[n] : n \in 1..k}
           /\ Len(s \o t) = Len(s) + Len(t)
<1> DEFINE q == s \o t
<1>1. /\ q \in Seq(S) /\ Len(q) = Len(s) + Len(t) /\ Len(s) \in Nat /\ Len(t) \in Nat
      /\ \A i \in 1..(Len(s) + Len(t)) : q[i] = IF i <= Len(s) THEN s[i] ELSE t[i - Len(s)]
  BY ConcatProperties
<1> HIDE DEF q
<1>2. \A m \in 1..Len(t) : q[Len(s) + m] = t[m]
  <2>1. TAKE m \in 1..Len(t)
  <2>2. /\ Len(s) + m \in 1..(Len(s) + Len(t))
        /\ ~(Len(s) + m <= Len(s))
        /\ (Len(s) + m) - Len(s) = m
    BY <1>1
  <2>3. QED BY <1>1, <2>2
<1>3. SubSeq(q, 1, Len(s)) = s
  <2>1. /\ SubSeq(q, 1, Len(s)) \in Seq(S)
        /\ Len(SubSeq(q, 1, Len(s))) = Len(s)
        /\ \A i \in 1..Len(s) : SubSeq(q, 1, Len(s))[i] = q[i]
    BY <1>1
  <2>2. QED BY <1>1, <2>1, SeqEqual
<1>4. SubSeq(q, Len(s) + k + 1, Len(q)) = SubSeq(t, k + 1, Len(t))
  <2>1. /\ SubSeq(t, k + 1, Len(t)) \in Seq(S)
        /\ Len(SubSeq(t, k + 1, Len(t))) = Len(t) - k
        /\ \A i \in 1..(Len(t) - k) : SubSeq(t, k + 1, Len(t))[i] = t[k + i]
    BY <1>1
  <2>2. /\ SubSeq(q, Len(s) + k + 1, Len(q)) \in Seq(S)
        /\ Len(SubSeq(q, Len(s) + k + 1, Len(q))) = Len(t) - k
        /\ \A i \in 1..(Len(t) - k) :
              SubSeq(q, Len(s) + k + 1, Len(q))[i] = q[Len(s) + k + i]
    BY <1>1
  <2>3. \A i \in 1..(Len(t) - k) : q[Len(s) + k + i] = t[k + i]
    <3>1. TAKE i \in 1..(Len(t) - k)
    <3>2. k + i \in 1..Len(t) /\ Len(s) + (k + i) = Len(s) + k + i
      BY <1>1
    <3>3. QED BY <1>2, <3>2
  <2>4. QED BY <2>1, <2>2, <2>3, SeqEqual
<1>5. {q[n] : n \in (Len(s) + 1)..(Len(s) + k)} = {t[n] : n \in 1..k}
  <2>1. ASSUME NEW n \in (Len(s) + 1)..(Len(s) + k)
        PROVE  n - Len(s) \in 1..k /\ q[n] = t[n - Len(s)]
    <3>1. /\ n - Len(s) \in 1..k /\ n - Len(s) \in 1..Len(t)
          /\ Len(s) + (n - Len(s)) = n
      BY <1>1
    <3>2. QED BY <1>2, <3>1
  <2>2. ASSUME NEW n \in 1..k
        PROVE  Len(s) + n \in (Len(s) + 1)..(Len(s) + k) /\ q[Len(s) + n] = t[n]
    <3>1. Len(s) + n \in (Len(s) + 1)..(Len(s) + k) /\ n \in 1..Len(t)
      BY <1>1
    <3>2. QED BY <1>2, <3>1
  <2>3. QED BY <2>1, <2>2
<1>6. QED BY <1>1, <1>3, <1>4, <1>5 DEF q

-----------------------------------------------------------------------------
(* The steps of LossyFifo, seen from the two stores.                       *)

Numbers == 1..MaxMsgs

\* The stores hold message numbers, and Contents is one of their two orders.
LEMMA StoresTyped ==
    ASSUME IInv
    PROVE  /\ mem \in Seq(Numbers) /\ disk \in Seq(Numbers)
           /\ Contents \in Seq(Numbers)
           /\ Spilling => Contents = disk \o mem
           /\ ~Spilling => Contents = mem \o disk
           /\ ~Spilling /\ mem = <<>> => Contents = disk
           /\ ~Spilling /\ disk = <<>> => Contents = mem
           /\ Spilling /\ mem = <<>> => Contents = disk
<1>1. mem \in Seq(Numbers) /\ disk \in Seq(Numbers)
  BY DEF IInv, TypeOK, Numbers
<1>2. /\ mem \o disk \in Seq(Numbers) /\ disk \o mem \in Seq(Numbers)
      /\ mem \o <<>> = mem /\ <<>> \o disk = disk /\ disk \o <<>> = disk
  BY <1>1, ConcatProperties, ConcatEmptySeq
<1>3. QED BY <1>1, <1>2 DEF Contents

\* A disk call that enqueues a message, or loses it, is a Put when the disk
\* queue is the end of the backlog.
LEMMA PutOnDisk ==
    ASSUME DqueEnqueue(sent + 1), Contents = disk, Contents' = disk',
           sent' = sent + 1, UNCHANGED delivered
    PROVE  Fifo!Next
BY DEF DqueEnqueue, Fifo!Next, Fifo!Put

\* Losing the first k messages of the later store is a Drop.
LEMMA DropBehind ==
    ASSUME NEW s \in Seq(Numbers), NEW t \in Seq(Numbers), NEW k \in 0..Len(t),
           Contents = s \o t,
           Contents' = s \o SubSeq(t, k + 1, Len(t)),
           lost' = lost \cup {t[n] : n \in 1..k},
           UNCHANGED <<sent, delivered>>
    PROVE  Fifo!Next
<1> DEFINE i == Len(s) + 1
           j == Len(s) + k
<1>1. Len(s) \in Nat /\ Len(t) \in Nat
  BY LenProperties
<1>2. /\ SubSeq(s \o t, 1, Len(s)) = s
      /\ SubSeq(s \o t, Len(s) + k + 1, Len(s \o t)) = SubSeq(t, k + 1, Len(t))
      /\ {(s \o t)[n] : n \in (Len(s) + 1)..(Len(s) + k)} = {t[n] : n \in 1..k}
      /\ Len(s \o t) = Len(s) + Len(t)
  BY CutBehind
<1>3. i \in 1..(Len(Contents) + 1) /\ j \in (i - 1)..Len(Contents) /\ i - 1 = Len(s)
  BY <1>1, <1>2
<1>4. Fifo!Drop(i, j)
  BY <1>2, <1>3 DEF Fifo!Drop, Fifo!Run
<1> HIDE DEF i, j
<1>5. QED BY <1>3, <1>4 DEF Fifo!Next

-----------------------------------------------------------------------------
(* EnqueueToExchange.                                                      *)

\* Every path of EnqueueToExchange is one Put at its end; the moves of the
\* spill are no step, or the loss of one message.
LEMMA EnqueueRefines ==
    ASSUME IInv, IInv', NEW p \in Producers, EnqueueToExchange(p)
    PROVE  [Fifo!Next]_Fifo!vars
<1> USE ProcsAssumption
<1>1. CASE EnqueueMemory(p)
  <2>1. /\ ~Spilling /\ ~Spilling' /\ disk = <<>> /\ disk' = <<>>
        /\ mem' = Append(mem, sent + 1) /\ sent' = sent + 1 /\ UNCHANGED <<delivered, lost>>
    BY <1>1 DEF EnqueueMemory, CanEnqueue, Free, Accept, IInv, StoresInv, Spilling
  <2>2. Contents = mem /\ Contents' = mem'
    BY <2>1, StoresTyped DEF Contents, IInv, TypeOK
  <2>3. QED BY <2>1, <2>2 DEF Fifo!Next, Fifo!Put
<1>2. CASE SpillStart(p)
  <2>1. /\ ~Spilling /\ Spilling' /\ disk = <<>>
        /\ UNCHANGED <<mem, disk, sent, delivered, lost>>
    BY <1>2 DEF SpillStart, CanEnqueue, Free, IInv, StoresInv, Spilling
  <2>2. Contents = mem
    BY <2>1, StoresTyped
  <2>3. Contents' = mem
    BY <2>1, StoresTyped, ConcatEmptySeq DEF Contents
  <2>4. QED BY <2>1, <2>2, <2>3 DEF Fifo!vars
<1>3. CASE SpillMove(p)
  <2>1. /\ Spilling /\ Spilling' /\ mem # <<>> /\ mem' = Tail(mem)
        /\ DqueEnqueue(Head(mem)) /\ UNCHANGED <<sent, delivered>>
    BY <1>3 DEF SpillMove, Spilling
  <2>2. Contents = disk \o mem /\ Contents' = disk' \o Tail(mem)
    BY <2>1 DEF Contents
  <2>3. CASE disk' = Append(disk, Head(mem)) /\ lost' = lost
    <3>1. Contents' = Contents
      BY <2>1, <2>2, <2>3, StoresTyped, MoveFront
    <3>2. QED BY <2>1, <2>3, <3>1 DEF Fifo!vars
  <2>4. CASE disk' = disk /\ lost' = lost \cup {Head(mem)}
    <3>1. /\ mem \in Seq(Numbers) /\ disk \in Seq(Numbers)
          /\ Tail(mem) = SubSeq(mem, 1 + 1, Len(mem)) /\ Head(mem) = mem[1] /\ 1 \in 0..Len(mem)
      BY <2>1, StoresTyped, TailIsSubSeq, EmptySeq
    <3>2. {mem[n] : n \in 1..1} = {Head(mem)}
      BY <3>1
    <3>3. lost' = lost \cup {mem[n] : n \in 1..1} /\ Contents' = disk \o SubSeq(mem, 1 + 1, Len(mem))
      BY <2>2, <2>4, <3>1, <3>2
    <3>4. Fifo!Next
      BY <2>1, <2>2, <3>1, <3>3, DropBehind
    <3>5. QED BY <3>4
  <2>5. QED BY <2>1, <2>3, <2>4 DEF DqueEnqueue
<1>4. CASE SpillFinish(p)
  <2>1. /\ Spilling /\ ~Spilling' /\ mem = <<>> /\ mem' = <<>>
        /\ DqueEnqueue(sent + 1) /\ sent' = sent + 1 /\ UNCHANGED delivered
    BY <1>4 DEF SpillFinish, Spilling, Accept
  <2>2. Contents = disk /\ Contents' = disk'
    BY <2>1, StoresTyped, ConcatEmptySeq DEF Contents, IInv, TypeOK
  <2>3. QED BY <2>1, <2>2, PutOnDisk
<1>5. CASE EnqueueDisk(p)
  <2>1. /\ ~Spilling /\ ~Spilling' /\ mem = <<>> /\ mem' = <<>>
        /\ DqueEnqueue(sent + 1) /\ sent' = sent + 1 /\ UNCHANGED delivered
    BY <1>5 DEF EnqueueDisk, CanEnqueue, Free, Accept, IInv, StoresInv, Spilling
  <2>2. Contents = disk /\ Contents' = disk'
    BY <2>1, StoresTyped, ConcatEmptySeq DEF Contents, IInv, TypeOK
  <2>3. QED BY <2>1, <2>2, PutOnDisk
<1>6. QED BY <1>1, <1>2, <1>3, <1>4, <1>5 DEF EnqueueToExchange

-----------------------------------------------------------------------------
(* Loss of the process, and Dequeue.                                       *)

\* A process that dies loses the messages in memory, which are neighbours: the
\* end of the backlog during a spill, its beginning otherwise.
LEMMA ProcessDiesRefines ==
    ASSUME IInv, ProcessDies
    PROVE  Fifo!Next
<1> USE ProcsAssumption
<1>1. /\ mem' = <<>> /\ lost' = lost \cup Elements(mem) /\ ~Spilling'
      /\ UNCHANGED <<disk, sent, delivered>>
  BY DEF ProcessDies, Spilling
<1>2. mem \in Seq(Numbers) /\ disk \in Seq(Numbers) /\ Len(mem) \in Nat
  BY StoresTyped, LenProperties
<1>3. Contents' = disk
  BY <1>1, <1>2, ConcatEmptySeq DEF Contents
<1>4. SubSeq(mem, Len(mem) + 1, Len(mem)) = <<>> /\ Len(mem) \in 0..Len(mem)
  BY <1>2, SubSeqEmpty
<1>5. CASE Spilling
  <2>1. Contents = disk \o mem /\ disk \o <<>> = disk
    BY <1>2, <1>5, StoresTyped, ConcatEmptySeq
  <2>2. Contents' = disk \o SubSeq(mem, Len(mem) + 1, Len(mem))
    BY <1>3, <1>4, <2>1
  <2>3. QED BY <1>1, <1>2, <1>4, <2>1, <2>2, DropBehind DEF Elements
<1>6. CASE ~Spilling
  <2>1. Contents = mem \o disk
    BY <1>6, StoresTyped
  <2> DEFINE q == mem \o disk
  <2>2. /\ q \in Seq(Numbers) /\ Len(q) = Len(mem) + Len(disk) /\ Len(disk) \in Nat
        /\ \A n \in 1..Len(mem) : q[n] = mem[n]
    BY <1>2, ConcatProperties, LenProperties
  <2>3. /\ SubSeq(q, Len(mem) + 0 + 1, Len(q)) = SubSeq(disk, 0 + 1, Len(disk))
    BY <1>2, <2>2, CutBehind
  <2>4. SubSeq(q, Len(mem) + 1, Len(q)) = disk
    BY <1>2, <2>3, SubSeqFull
  <2> HIDE DEF q
  <2>5. SubSeq(q, 1, 0) = <<>> /\ <<>> \o disk = disk
    BY <1>2, SubSeqEmpty, ConcatEmptySeq
  <2>6. {q[n] : n \in 1..Len(mem)} = Elements(mem)
    BY <2>2 DEF Elements
  <2>7. 1 \in 1..(Len(q) + 1) /\ Len(mem) \in (1 - 1)..Len(q) /\ 1 - 1 = 0
    BY <1>2, <2>2
  <2>8. Contents = q /\ Contents' = disk
    BY <1>3, <2>1 DEF q
  <2>9. Fifo!Drop(1, Len(mem))
    BY <1>1, <2>4, <2>5, <2>6, <2>7, <2>8 DEF Fifo!Drop, Fifo!Run
  <2>10. QED BY <2>7, <2>8, <2>9 DEF Fifo!Next
<1>7. QED BY <1>5, <1>6

\* Taking the front of the store that holds the whole backlog is a Get.
LEMMA GetFrom ==
    ASSUME NEW q \in Seq(Numbers), q # <<>>, Contents = q, Contents' = Tail(q),
           Deliver(Head(q)), UNCHANGED <<sent, lost>>
    PROVE  Fifo!Next
BY DEF Deliver, Fifo!Next, Fifo!Get

\* Every path of Dequeue is one Get at its end; the moves of the refill are no
\* step, and an error that takes a message away is a Drop.
LEMMA DequeueRefines ==
    ASSUME IInv, IInv', NEW c \in Consumers, Dequeue(c)
    PROVE  [Fifo!Next]_Fifo!vars
<1> USE ProcsAssumption
<1>1. mem \in Seq(Numbers) /\ disk \in Seq(Numbers) /\ Len(disk) \in Nat /\ (Len(disk) > 0 => disk # <<>>)
  BY StoresTyped, LenProperties, EmptySeq
<1>2. CASE WaitForMessage(c)
  BY <1>2 DEF WaitForMessage, Contents, Spilling, Fifo!vars
<1>3. CASE DequeueMemory(c)
  <2>1. /\ ~Spilling /\ ~Spilling' /\ disk = <<>> /\ disk' = <<>> /\ mem # <<>>
        /\ mem' = Tail(mem) /\ Deliver(Head(mem)) /\ UNCHANGED <<sent, lost>>
    BY <1>3 DEF DequeueMemory, CanDequeue, Free, IInv, StoresInv, Spilling
  <2>2. mem' \in Seq(Numbers)
    BY <1>1, <2>1, HeadTailProperties
  <2>3. Contents = mem /\ Contents' = Tail(mem)
    BY <1>1, <2>1, <2>2, StoresTyped, ConcatEmptySeq DEF Contents
  <2>4. QED BY <1>1, <2>1, <2>3, GetFrom
<1>4. CASE DequeueDisk(c)
  <2>1. /\ ~Spilling /\ ~Spilling' /\ mem = <<>> /\ mem' = <<>> /\ disk # <<>>
        /\ disk' = Tail(disk) /\ Deliver(Head(disk)) /\ UNCHANGED <<sent, lost>>
    BY <1>1, <1>4 DEF DequeueDisk, CanDequeue, Free, DqueSize, IInv, StoresInv, Spilling
  <2>2. disk' \in Seq(Numbers)
    BY <1>1, <2>1, HeadTailProperties
  <2>3. Contents = disk /\ Contents' = Tail(disk)
    BY <1>1, <2>1, <2>2, StoresTyped, ConcatEmptySeq DEF Contents
  <2>4. QED BY <1>1, <2>1, <2>3, GetFrom
<1>5. CASE DequeueDiskError(c)
  <2>1. /\ ~Spilling /\ ~Spilling' /\ mem = <<>> /\ mem' = <<>> /\ disk # <<>>
        /\ disk' = Tail(disk) /\ lost' = lost \cup {Head(disk)} /\ UNCHANGED <<sent, delivered>>
    BY <1>1, <1>5 DEF DequeueDiskError, CanDequeue, Free, DqueSize, IInv, StoresInv, Spilling
  <2>2. /\ Tail(disk) = SubSeq(disk, 1 + 1, Len(disk)) /\ Head(disk) = disk[1] /\ 1 \in 0..Len(disk)
        /\ <<>> \in Seq(Numbers)
    BY <1>1, <2>1, TailIsSubSeq, EmptySeq
  <2>3. Contents = <<>> \o disk /\ Contents' = <<>> \o SubSeq(disk, 1 + 1, Len(disk))
    BY <2>1, <2>2 DEF Contents
  <2>4. lost' = lost \cup {disk[n] : n \in 1..1}
    BY <2>1, <2>2
  <2>5. Fifo!Next
    BY <1>1, <2>1, <2>2, <2>3, <2>4, DropBehind
  <2>6. QED BY <2>5
<1>6. CASE RefillStart(c)
  BY <1>6 DEF RefillStart, CanDequeue, Free, Contents, Spilling, Fifo!vars
<1>7. CASE RefillMove(c)
  <2>1. /\ ~Spilling /\ ~Spilling' /\ disk # <<>>
        /\ mem' = Append(mem, Head(disk)) /\ disk' = Tail(disk) /\ UNCHANGED <<sent, delivered, lost>>
    BY <1>1, <1>7 DEF RefillMove, DqueSize, Spilling
  <2>2. Contents' = Contents
    BY <1>1, <2>1, MoveFront DEF Contents
  <2>3. QED BY <2>1, <2>2 DEF Fifo!vars
<1>8. CASE RefillFinish(c)
  <2>1. /\ ~Spilling /\ ~Spilling' /\ Refilling /\ DqueSize = 0
        /\ UNCHANGED <<disk, sent, lost>> /\ mem' = Tail(mem) /\ Deliver(Head(mem))
    BY <1>8 DEF RefillFinish, Spilling, Refilling
  <2>2. Len(disk) = 0 /\ Len(mem) + Len(disk) > 0
    BY <2>1 DEF IInv, StoresInv, DqueSize
  <2>3. disk = <<>> /\ mem # <<>>
    BY <1>1, <2>2, EmptySeq
  <2>4. mem' \in Seq(Numbers)
    BY <1>1, <2>1, <2>3, HeadTailProperties
  <2>5. Contents = mem /\ Contents' = Tail(mem)
    BY <1>1, <2>1, <2>3, <2>4, StoresTyped, ConcatEmptySeq DEF Contents
  <2>6. QED BY <1>1, <2>1, <2>3, <2>5, GetFrom
<1>9. CASE DequeuePanics(c)
  BY <1>9, ProcessDiesRefines DEF DequeuePanics
<1>10. QED BY <1>2, <1>3, <1>4, <1>5, <1>6, <1>7, <1>8, <1>9 DEF Dequeue

-----------------------------------------------------------------------------
(* Init, Close and the restart.                                            *)

\* What openQueue leaves of the disk queue is a run of neighbours.
LEMMA ReopenRefines ==
    ASSUME IInv, NEW first \in 1..(Len(disk) + 1), NEW last \in (first - 1)..Len(disk),
           Reopen(first, last)
    PROVE  Fifo!Next
<1> USE ProcsAssumption
<1>1. /\ ~Spilling /\ ~Spilling' /\ mem = <<>> /\ mem' = <<>>
      /\ disk' = SubSeq(disk, first, last) /\ lost' = lost \cup (Elements(disk) \ Elements(disk'))
      /\ UNCHANGED <<sent, delivered>>
  BY DEF Reopen, IInv, StoresInv, Spilling
<1>2. /\ disk \in Seq(Numbers) /\ disk' \in Seq(Numbers) /\ Len(disk) \in Nat
      /\ Len(disk') = last - first + 1
      /\ \A n \in 1..(last - first + 1) : disk'[n] = disk[first + n - 1]
  BY <1>1, StoresTyped, LenProperties, SubSeqFacts
<1>3. Contents = disk /\ Contents' = disk'
  BY <1>1, <1>2, StoresTyped, ConcatEmptySeq DEF Contents
<1>4. Elements(disk') = {disk[n] : n \in first..last}
  <2>1. ASSUME NEW n \in 1..(last - first + 1)
        PROVE  disk'[n] \in {disk[l] : l \in first..last}
    <3>1. first + n - 1 \in first..last /\ disk'[n] = disk[first + n - 1]
      BY <1>2
    <3>2. QED BY <3>1
  <2>2. ASSUME NEW n \in first..last
        PROVE  disk[n] \in {disk'[l] : l \in 1..(last - first + 1)}
    <3>1. n - first + 1 \in 1..(last - first + 1) /\ first + (n - first + 1) - 1 = n
      OBVIOUS
    <3>2. disk'[n - first + 1] = disk[n]
      BY <1>2, <3>1
    <3>3. QED BY <3>1, <3>2
  <2>3. Elements(disk') = {disk'[l] : l \in 1..(last - first + 1)}
    BY <1>2 DEF Elements
  <2>4. QED BY <2>1, <2>2, <2>3
<1>5. Fifo!Keep(first, last)
  BY <1>1, <1>3, <1>4 DEF Fifo!Keep, Fifo!Run, Elements
<1>6. QED BY <1>3, <1>5 DEF Fifo!Next

\* A queue that was just created is empty.
LEMMA InitRefines == Init => Fifo!Init
BY ProcsAssumption DEF Init, Fifo!Init, Contents, Spilling

\* Every step of the queue is a step of LossyFifo or none.
LEMMA NextRefines == IInv /\ IInv' /\ [Next]_vars => [Fifo!Next]_Fifo!vars
<1> SUFFICES ASSUME IInv, IInv', [Next]_vars PROVE [Fifo!Next]_Fifo!vars
  OBVIOUS
<1>1. CASE Close
  BY <1>1 DEF Close, Contents, Spilling, Fifo!vars
<1>2. CASE Crash
  BY <1>2, ProcessDiesRefines DEF Crash
<1>3. CASE UNCHANGED vars
  BY <1>3 DEF vars, Contents, Spilling, Fifo!vars
<1>4. QED BY <1>1, <1>2, <1>3, EnqueueRefines, DequeueRefines, ReopenRefines DEF Next

\* Spills, refills, disk errors, panics, crashes and restarts are to a caller
\* steps of one first-in first-out queue that may lose runs of neighbours, for
\* any limits and any goroutines (EnqueueToExchange, dequeueLocked, Init).
THEOREM QueueImplementsFifo == Spec => ImplementsFifo
<1>1. Init => Fifo!Init
  BY InitRefines
<1>2. IInv /\ IInv' /\ [Next]_vars => [Fifo!Next]_Fifo!vars
  BY NextRefines
<1>3. QED BY <1>1, <1>2, Invariance, PTL DEF Spec, ImplementsFifo, Fifo!Spec
-----------------------------------------------------------------------------
(* The spool behind the disk queue: what openQueue hands over.  The        *)
(* segments of QueueRecovery hold the messages of disk; neither module     *)
(* looks at the other's variables.                                         *)

SpoolIInv == SpoolTypeOK /\ SpoolSound

\* A spool that is laid out in order is sound before the first start.
LEMMA SpoolStarts ==
    ASSUME SpoolInit
    PROVE  SpoolIInv
<1>1. /\ segs \in Seq(1..MaxSegments) /\ Len(segs) = MaxSegments
      /\ \A i \in 1..MaxSegments : segs[i] = i
  BY RecoveryBounds DEF SpoolInit, Segments
<1>2. Elements(segs) = 1..MaxSegments /\ Increasing(segs)
  BY <1>1 DEF Elements, Increasing
<1>3. QED
  BY <1>1, <1>2, RecoveryBounds DEF SpoolIInv, SpoolTypeOK, SpoolSound, EndsReadable, SegmentsAccounted,
     SpoolInit, Segments
\* The directory without its first or its last segment.
LEMMA OneSegmentLess ==
    ASSUME segs \in Seq(Segments), segs # <<>>, Increasing(segs)
    PROVE  /\ Tail(segs) \in Seq(Segments)
           /\ Increasing(Tail(segs))
           /\ Elements(Tail(segs)) = Elements(segs) \ {segs[1]}
           /\ SubSeq(segs, 1, Len(segs) - 1) \in Seq(Segments)
           /\ Increasing(SubSeq(segs, 1, Len(segs) - 1))
           /\ Elements(SubSeq(segs, 1, Len(segs) - 1)) = Elements(segs) \ {segs[Len(segs)]}
           /\ segs[1] \in Elements(segs) /\ segs[Len(segs)] \in Elements(segs)
           /\ Elements(segs) \subseteq Segments
<1> DEFINE S == Segments
           n == Len(segs)
           front == SubSeq(segs, 1, n - 1)
<1>1. n \in Nat \ {0} /\ Head(segs) = segs[1]
  OBVIOUS
<1>2. \A x \in S : x \in Int
  BY DEF Segments
<1>3. \A i \in 1..n : segs[i] \in S
  OBVIOUS
<1>4. segs[1] \in Elements(segs) /\ segs[n] \in Elements(segs) /\ Elements(segs) \subseteq S
  BY <1>1, <1>3 DEF Elements
<1>5. /\ Tail(segs) \in Seq(S) /\ Increasing(Tail(segs))
      /\ Elements(Tail(segs)) = Elements(segs) \ {segs[1]}
  <2>1. /\ Elements(segs) = {Head(segs)} \cup Elements(Tail(segs))
        /\ Tail(segs) \in Seq(S)
    BY ElementsHeadTail
  <2>2. Increasing(Tail(segs)) /\ \A y \in Elements(Tail(segs)) : Head(segs) < y
    BY IncreasingTail
  <2>3. Head(segs) \notin Elements(Tail(segs))
    BY <1>1, <1>2, <1>3, <2>2
  <2>4. QED
    BY <1>1, <2>1, <2>2, <2>3
<1>6. /\ front \in Seq(S) /\ Len(front) = n - 1
      /\ \A i \in 1..(n - 1) : front[i] = segs[i]
  <2>1. n - 1 \in Int /\ \A i \in 1..(n - 1) : segs[i] \in S
    BY <1>1, <1>3
  <2>2. /\ front \in Seq(S)
        /\ Len(front) = IF 1 <= n - 1 THEN (n - 1) - 1 + 1 ELSE 0
        /\ \A i \in 1..((n - 1) - 1 + 1) : front[i] = segs[1 + i - 1]
    BY <2>1, SubSeqProperties
  <2>3. \A i \in 1..(n - 1) : i \in 1..((n - 1) - 1 + 1) /\ 1 + i - 1 = i
    BY <1>1
  <2>4. Len(front) = n - 1
    <3> HIDE DEF front, n
    <3>1. n = 1 \/ 1 <= n - 1
      BY <1>1
    <3>2. QED
      BY <1>1, <2>2, <3>1
  <2>5. QED
    BY <2>2, <2>3, <2>4
<1>7. Increasing(front)
  BY <1>1, <1>6 DEF Increasing
<1>8. Elements(front) = Elements(segs) \ {segs[n]}
  <2>1. \A i \in 1..(n - 1) : segs[i] # segs[n]
    BY <1>1, <1>2, <1>3 DEF Increasing
  <2>2. \A i \in 1..n : i = n \/ i \in 1..(n - 1)
    BY <1>1
  <2>3. \A i \in 1..(n - 1) : i \in 1..n
    BY <1>1
  <2>4. QED
    BY <1>6, <2>1, <2>2, <2>3 DEF Elements
<1>9. QED
  BY <1>4, <1>5, <1>6, <1>7, <1>8

\* Whatever is torn and however often the process is started, every step keeps
\* the spool sound.
LEMMA SpoolStep ==
    ASSUME SpoolIInv, [SpoolNext]_spoolVars
    PROVE  SpoolIInv'
<1> USE DEF SpoolIInv
<1>1. CASE StartProcess \/ NewOrOpenOk \/ GiveUp \/ OpenError
  <2>1. UNCHANGED <<segs, torn, quarantined, consumed, tears>>
    BY <1>1 DEF StartProcess, NewOrOpenOk, GiveUp, OpenError
  <2>2. SegmentsAccounted'
    BY <2>1 DEF SpoolSound, SegmentsAccounted
  <2>3. SpoolTypeOK'
    BY <1>1, <2>1, RecoveryBounds DEF SpoolTypeOK, StartProcess, NewOrOpenOk, GiveUp, OpenError
  <2>4. EndsReadable'
    BY <1>1, <2>1 DEF StartProcess, NewOrOpenOk, GiveUp, OpenError, EndsReadable,
       CorruptSegments, First, Last
  <2>5. QED
    BY <2>2, <2>3, <2>4 DEF SpoolSound
<1>2. ASSUME NEW s \in Segments, QuarantineSegment(s)
      PROVE  SpoolIInv'
  <2>1. segs # <<>> /\ s \in {segs[1], segs[Len(segs)]} /\ s \in torn
    BY <1>2 DEF QuarantineSegment, CorruptSegments, First, Last
  <2>2. segs \in Seq(Segments) /\ Increasing(segs)
    BY DEF SpoolTypeOK, SpoolSound, SegmentsAccounted
  <2>3. /\ segs' \in Seq(Segments) /\ Increasing(segs')
        /\ Elements(segs') = Elements(segs) \ {s}
        /\ s \in Elements(segs)
    BY <1>2, <2>1, <2>2, OneSegmentLess DEF QuarantineSegment, First
  <2>4. /\ quarantined' = quarantined \cup {s}
        /\ UNCHANGED <<torn, consumed, spoolStatus, tears>>
        /\ spoolStatus = "opening"
        /\ attempt' \in 0..MaxCorruptSegments
    BY <1>2, RecoveryBounds DEF QuarantineSegment, SpoolTypeOK
  <2>5. SegmentsAccounted'
    BY <1>2, <2>1, <2>3, <2>4 DEF SpoolSound, SegmentsAccounted
  <2>6. QED
    BY <2>3, <2>4, <2>5 DEF SpoolTypeOK, SpoolSound, EndsReadable
<1>3. CASE ConsumeFirst
  <2>1. segs # <<>> /\ segs \in Seq(Segments) /\ Increasing(segs)
    BY <1>3 DEF ConsumeFirst, SpoolTypeOK, SpoolSound, SegmentsAccounted
  <2>2. /\ segs' = Tail(segs) /\ consumed' = consumed \cup {segs[1]}
        /\ UNCHANGED <<torn, quarantined, attempt, tears>>
        /\ spoolStatus = "up"
        /\ spoolStatus' = IF Len(segs) > 1 /\ segs[2] \in torn THEN "down" ELSE "up"
    BY <1>3 DEF ConsumeFirst, First
  <2>3. segs[1] \notin torn /\ segs[Len(segs)] \notin torn
    BY <2>1, <2>2 DEF SpoolSound, EndsReadable, First, Last
  <2>4. /\ segs' \in Seq(Segments) /\ Increasing(segs')
        /\ Elements(segs') = Elements(segs) \ {segs[1]}
        /\ segs[1] \in Elements(segs) /\ segs[1] \in Segments
    BY <2>1, <2>2, OneSegmentLess
  <2>5. SegmentsAccounted'
    BY <2>2, <2>3, <2>4 DEF SpoolSound, SegmentsAccounted
  <2>6. EndsReadable'
    <3>1. SUFFICES ASSUME spoolStatus' = "up", segs' # <<>>
                   PROVE  segs'[1] \notin torn /\ segs'[Len(segs')] \notin torn
      BY <2>2 DEF EndsReadable, First, Last
    <3>2. /\ Len(segs) \in Nat /\ Len(segs) > 1 /\ Len(segs') = Len(segs) - 1
          /\ segs'[1] = segs[2] /\ segs'[Len(segs')] = segs[Len(segs)]
      BY <2>1, <2>2, <3>1
    <3>3. QED
      BY <2>2, <2>3, <3>1, <3>2
  <2>7. QED
    BY <2>2, <2>4, <2>5, <2>6 DEF SpoolTypeOK, SpoolSound
<1>4. CASE AbruptExit
  <2>1. segs # <<>> /\ segs \in Seq(Segments) /\ Increasing(segs)
    BY <1>4 DEF AbruptExit, SpoolTypeOK, SpoolSound, SegmentsAccounted
  <2>2. PICK s \in {segs[1], segs[Len(segs)]} : torn' = torn \cup {s}
    BY <1>4 DEF AbruptExit, First, Last
  <2>3. /\ UNCHANGED <<segs, quarantined, consumed, attempt>>
        /\ spoolStatus' = "down"
        /\ tears' \in 0..MaxTears
    BY <1>4, RecoveryBounds DEF AbruptExit, SpoolTypeOK
  <2>4. s \in Elements(segs) /\ s \in Segments
    BY <2>1, <2>2, OneSegmentLess
  <2>5. SegmentsAccounted'
    BY <2>2, <2>3, <2>4 DEF SpoolSound, SegmentsAccounted
  <2>6. QED
    BY <2>2, <2>3, <2>4, <2>5 DEF SpoolTypeOK, SpoolSound, EndsReadable
<1>5. CASE UNCHANGED spoolVars
  BY <1>5 DEF spoolVars, SpoolTypeOK, SpoolSound, EndsReadable, SegmentsAccounted, First,
     Last
<1>6. QED
  BY <1>1, <1>2, <1>3, <1>4, <1>5 DEF SpoolNext

\* For any number of segments, any of them torn, and any number of panics and
\* restarts: a queue that openQueue returns, and as long as it runs, can be read
\* and written at both ends; and every segment is in the directory, used up or
\* moved aside, the last only if it was torn.
THEOREM RecoveryCorrect == SpoolSpec => []SpoolSound
<1>1. SpoolInit => SpoolIInv
  BY SpoolStarts
<1>2. SpoolIInv /\ [SpoolNext]_spoolVars => SpoolIInv'
  BY SpoolStep
<1>3. SpoolIInv => SpoolSound
  BY DEF SpoolIInv
<1>4. QED
  BY <1>1, <1>2, <1>3, PTL DEF SpoolSpec
=============================================================================
