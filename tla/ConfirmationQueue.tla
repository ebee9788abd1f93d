------------------------- MODULE ConfirmationQueue -------------------------
(***************************************************************************)
(* The two-level outgoing queue of queue.go.  Messages wait in memQueue    *)
(* until MaxInMemory is reached, then all of them spill to a dque on disk; *)
(* once the disk queue has drained to LowWaterMark it is read back into    *)
(* memory.  Every method runs under one mutex.  The two loops that move    *)
(* messages between the stores are taken one message at a time, because a  *)
(* process that dies (or a disk call that fails) in the middle of a loop   *)
(* leaves the two stores in a state no whole method call produces.         *)
(*                                                                         *)
(* Messages are numbered in the order in which EnqueueToExchange accepts   *)
(* them, so order and duplication are visible in the numbers.              *)
(***************************************************************************)
EXTENDS Integers, Sequences, FiniteSets, OrderedSeqs

CONSTANTS
    Producers,     \* goroutines that call EnqueueToExchange
    Consumers,     \* goroutines that call Dequeue
    NoProc,        \* nobody holds the mutex
    MaxInMemory,   \* the variable of the same name in queue.go (100)
    LowWaterMark,  \* the variable of the same name in queue.go (50)
    MaxMsgs        \* bound on the messages accepted

ASSUME BoundsAssumption ==
    /\ MaxInMemory \in Nat \ {0}
    /\ LowWaterMark \in Nat
    /\ LowWaterMark < MaxInMemory
    /\ MaxMsgs \in Nat

ASSUME ProcsAssumption ==
    /\ Producers \cap Consumers = {}
    /\ NoProc \notin Producers \cup Consumers

VARIABLES
    mem,        \* cq.memQueue
    disk,       \* what the dque of cq.diskQueue holds, on disk
    usingDisk,  \* cq.usingDisk
    holder,     \* who holds cq.mutex inside one of the two transfer loops
    waiting,    \* the consumers suspended in cq.emptyCond.Wait()
    status,     \* "up", "closed" (Close was called), "down" (no process)
    sent,       \* history: how many messages were accepted
    delivered,  \* history: what Dequeue returned, in order
    lost        \* history: what was dropped

vars == <<mem, disk, usingDisk, holder, waiting, status, sent, delivered, lost>>

\* A producer holds the mutex across the memory-to-disk loop, a consumer
\* across the disk-to-memory loop.
Spilling == holder \in Producers
Refilling == holder \in Consumers

Free == status # "down" /\ holder = NoProc

-----------------------------------------------------------------------------
(* The disk queue: github.com/joncrlsn/dque, as queue.go uses it.          *)

\* Enqueue appends or reports an error; a closed queue always reports one.
\* queue.go logs the error and goes on, which drops the message.
DqueEnqueue(m) ==
    \/ /\ status = "up"
       /\ disk' = Append(disk, m)
       /\ lost' = lost
    \/ /\ disk' = disk
       /\ lost' = lost \cup {m}

\* Size of a closed queue is 0, whatever its files hold.
DqueSize == IF status = "up" THEN Len(disk) ELSE 0

-----------------------------------------------------------------------------
(* Loss of the process: memory goes, the files of the disk queue stay.     *)

ProcessDies ==
    /\ status' = "down"
    /\ mem' = <<>>
    /\ holder' = NoProc
    /\ waiting' = {}
    /\ usingDisk' = FALSE
    /\ lost' = lost \cup Elements(mem)
    /\ UNCHANGED <<disk, sent, delivered>>

Crash == status # "down" /\ ProcessDies

-----------------------------------------------------------------------------
(* EnqueueToExchange.                                                      *)

CanEnqueue == Free /\ sent < MaxMsgs

Accept == sent' = sent + 1

Broadcast == waiting' = {}

\* Mutant: usingDisk is not looked at.
EnqueueMemoryAnyMode(p) ==
    /\ CanEnqueue
    /\ Len(mem) + 1 < MaxInMemory
    /\ mem' = Append(mem, sent + 1)
    /\ Accept
    /\ Broadcast
    /\ UNCHANGED <<disk, usingDisk, holder, status, delivered, lost>>

\* Mutant: one message too many stays in memory.
EnqueueMemoryOffByOne(p) ==
    /\ CanEnqueue
    /\ ~usingDisk
    /\ Len(mem) + 1 <= MaxInMemory
    /\ mem' = Append(mem, sent + 1)
    /\ Accept
    /\ Broadcast
    /\ UNCHANGED <<disk, usingDisk, holder, status, delivered, lost>>

\* Mutant: an early return skips the broadcast.
EnqueueMemorySilent(p) ==
    /\ CanEnqueue
    /\ ~usingDisk
    /\ Len(mem) + 1 < MaxInMemory
    /\ mem' = Append(mem, sent + 1)
    /\ Accept
    /\ UNCHANGED <<disk, usingDisk, holder, waiting, status, delivered, lost>>

EnqueueMemory(p) ==
    /\ CanEnqueue
    /\ ~usingDisk
    /\ Len(mem) + 1 < MaxInMemory
    /\ mem' = Append(mem, sent + 1)
    /\ Accept
    /\ Broadcast
    /\ UNCHANGED <<disk, usingDisk, holder, status, delivered, lost>>

SpillStart(p) ==
    /\ CanEnqueue
    /\ ~usingDisk
    /\ Len(mem) + 1 >= MaxInMemory
    /\ holder' = p
    /\ UNCHANGED <<mem, disk, usingDisk, waiting, status, sent, delivered, lost>>

\* The front leaves memory before the disk call, so an error drops it.
SpillMove(p) ==
    /\ status # "down"
    /\ holder = p
    /\ mem # <<>>
    /\ mem' = Tail(mem)
    /\ DqueEnqueue(Head(mem))
    /\ UNCHANGED <<usingDisk, holder, waiting, status, sent, delivered>>

\* Mutant: the loop runs, the message that triggered it is not enqueued.
SpillFinishForgets(p) ==
    /\ status # "down"
    /\ holder = p
    /\ mem = <<>>
    /\ usingDisk' = TRUE
    /\ holder' = NoProc
    /\ Accept
    /\ Broadcast
    /\ UNCHANGED <<mem, disk, status, delivered, lost>>

SpillFinish(p) ==
    /\ status # "down"
    /\ holder = p
    /\ mem = <<>>
    /\ DqueEnqueue(sent + 1)
    /\ usingDisk' = TRUE
    /\ holder' = NoProc
    /\ Accept
    /\ Broadcast
    /\ UNCHANGED <<mem, status, delivered>>

EnqueueDisk(p) ==
    /\ CanEnqueue
    /\ usingDisk
    /\ DqueEnqueue(sent + 1)
    /\ Accept
    /\ Broadcast
    /\ UNCHANGED <<mem, usingDisk, holder, status, delivered>>

EnqueueToExchange(p) ==
    \/ EnqueueMemory(p)
    \/ SpillStart(p)
    \/ SpillMove(p)
    \/ SpillFinish(p)
    \/ EnqueueDisk(p)

-----------------------------------------------------------------------------
(* Dequeue and dequeueLocked.                                              *)

CanDequeue(c) == Free /\ c \notin waiting

Deliver(m) == delivered' = Append(delivered, m)

\* ErrEmpty: the consumer suspends and, once woken, starts over.
WaitForMessage(c) ==
    /\ CanDequeue(c)
    /\ IF usingDisk THEN DqueSize = 0 ELSE mem = <<>>
    /\ waiting' = waiting \cup {c}
    /\ UNCHANGED <<mem, disk, usingDisk, holder, status, sent, delivered, lost>>

DequeueMemory(c) ==
    /\ CanDequeue(c)
    /\ ~usingDisk
    /\ mem # <<>>
    /\ mem' = Tail(mem)
    /\ Deliver(Head(mem))
    /\ UNCHANGED <<disk, usingDisk, holder, waiting, status, sent, lost>>

AboveLowWater == DqueSize - 1 >= LowWaterMark

DequeueDisk(c) ==
    /\ CanDequeue(c)
    /\ usingDisk
    /\ DqueSize > 0
    /\ AboveLowWater
    /\ disk' = Tail(disk)
    /\ Deliver(Head(disk))
    /\ UNCHANGED <<mem, usingDisk, holder, waiting, status, sent, lost>>

\* dque hands out the message together with an error (it could not delete a
\* used-up segment or open the next one): Dequeue returns only the error.
DequeueDiskError(c) ==
    /\ CanDequeue(c)
    /\ usingDisk
    /\ DqueSize > 0
    /\ AboveLowWater
    /\ disk' = Tail(disk)
    /\ lost' = lost \cup {Head(disk)}
    /\ UNCHANGED <<mem, usingDisk, holder, waiting, status, sent, delivered>>

RefillStart(c) ==
    /\ CanDequeue(c)
    /\ usingDisk
    /\ DqueSize > 0
    /\ ~AboveLowWater
    /\ holder' = c
    /\ UNCHANGED <<mem, disk, usingDisk, waiting, status, sent, delivered, lost>>

\* Here a message that comes with an error is kept all the same.
RefillMove(c) ==
    /\ status # "down"
    /\ holder = c
    /\ DqueSize > 0
    /\ mem' = Append(mem, Head(disk))
    /\ disk' = Tail(disk)
    /\ UNCHANGED <<usingDisk, holder, waiting, status, sent, delivered, lost>>

\* Mutant: the front is returned but stays in memory.
RefillFinishPeeks(c) ==
    /\ status # "down"
    /\ holder = c
    /\ DqueSize = 0
    /\ usingDisk' = FALSE
    /\ Deliver(Head(mem))
    /\ holder' = NoProc
    /\ UNCHANGED <<mem, disk, waiting, status, sent, lost>>

RefillFinish(c) ==
    /\ status # "down"
    /\ holder = c
    /\ DqueSize = 0
    /\ usingDisk' = FALSE
    /\ Deliver(Head(mem))
    /\ mem' = Tail(mem)
    /\ holder' = NoProc
    /\ UNCHANGED <<disk, waiting, status, sent, lost>>

\* dque returns no message at all: the type assertion on nil panics, in the
\* plain path and inside the loop, and nothing recovers from it.
DequeuePanics(c) ==
    /\ status # "down"
    /\ holder \in {NoProc, c}
    /\ c \notin waiting
    /\ usingDisk
    /\ DqueSize > 0
    /\ ProcessDies

Dequeue(c) ==
    \/ WaitForMessage(c)
    \/ DequeueMemory(c)
    \/ DequeueDisk(c)
    \/ DequeueDiskError(c)
    \/ RefillStart(c)
    \/ RefillMove(c)
    \/ RefillFinish(c)
    \/ DequeuePanics(c)

\* Size, which queueMetrics publishes as shoveler_queue_size.
Size == IF usingDisk THEN DqueSize ELSE Len(mem)

-----------------------------------------------------------------------------
(* Close and Init.                                                         *)

\* Closes the disk queue only: what is in memory is not written anywhere.
Close ==
    /\ Free
    /\ status = "up"
    /\ status' = "closed"
    /\ UNCHANGED <<mem, disk, usingDisk, holder, waiting, sent, delivered, lost>>

\* Mutant: Init does not look at what the disk queue already holds.
ReopenInMemory(first, last) ==
    /\ status = "down"
    /\ disk' = SubSeq(disk, first, last)
    /\ lost' = lost \cup (Elements(disk) \ Elements(disk'))
    /\ usingDisk' = FALSE
    /\ mem' = <<>>
    /\ status' = "up"
    /\ UNCHANGED <<holder, waiting, sent, delivered>>

\* openQueue may have to move torn segments aside.  NewOrOpen reads the first
\* and the last segment, so what is moved is a prefix and a suffix of the
\* queue; segment boundaries are not tracked, any cut is allowed.
Reopen(first, last) ==
    /\ status = "down"
    /\ disk' = SubSeq(disk, first, last)
    /\ lost' = lost \cup (Elements(disk) \ Elements(disk'))
    /\ usingDisk' = (Len(disk') > 0)
    /\ mem' = <<>>
    /\ status' = "up"
    /\ UNCHANGED <<holder, waiting, sent, delivered>>

Init ==
    /\ mem = <<>>
    /\ disk = <<>>
    /\ usingDisk = FALSE
    /\ holder = NoProc
    /\ waiting = {}
    /\ status = "up"
    /\ sent = 0
    /\ delivered = <<>>
    /\ lost = {}

Next ==
    \/ \E p \in Producers : EnqueueToExchange(p)
    \/ \E c \in Consumers : Dequeue(c)
    \/ Close
    \/ Crash
    \/ \E first \in 1..(Len(disk) + 1) : \E last \in (first - 1)..Len(disk) :
           Reopen(first, last)

Spec == Init /\ [][Next]_vars

\* Goroutines are scheduled, sync.Mutex hands itself over to starving waiters
\* and the consumer loops call Dequeue again after every return.
FairSpec ==
    /\ Spec
    /\ \A p \in Producers : WF_vars(SpillMove(p) \/ SpillFinish(p))
    /\ \A c \in Consumers : WF_vars(Dequeue(c))

-----------------------------------------------------------------------------
(* Properties.                                                             *)

TypeOK ==
    /\ mem \in Seq(1..MaxMsgs)
    /\ disk \in Seq(1..MaxMsgs)
    /\ usingDisk \in BOOLEAN
    /\ holder \in Producers \cup Consumers \cup {NoProc}
    /\ waiting \subseteq Consumers
    /\ status \in {"up", "closed", "down"}
    /\ sent \in 0..MaxMsgs
    /\ delivered \in Seq(1..MaxMsgs)
    /\ lost \subseteq 1..MaxMsgs

\* The backlog, oldest first: while a producer spills, the part already on
\* disk precedes the part still in memory; while a consumer reads the disk
\* back, it is the other way round.
Contents == IF Spilling THEN disk \o mem ELSE mem \o disk

\* The queue as its callers see it.
Fifo == INSTANCE LossyFifo WITH queue <- Contents, accepted <- sent

\* Spills, refills, disk errors, crashes and restarts are, to a caller, steps
\* of one first-in first-out queue that may lose runs of messages: moving a
\* message between the stores is no step at all.
ImplementsFifo == Fifo!Spec

\* Everything delivered so far, followed by everything still queued, is in
\* the order of acceptance and free of duplicates, through spills, refills,
\* disk errors, crashes and restarts.
FirstInFirstOut == Increasing(delivered \o Contents)

\* Every accepted message is delivered, queued or lost, and only one of them:
\* no branch of the two transfer loops forgets or resurrects a message.
Accounted ==
    /\ 1..sent = Elements(delivered) \cup Elements(Contents) \cup lost
    /\ lost \cap (Elements(delivered) \cup Elements(Contents)) = {}

\* The lock-protected Size, although it looks at one store only, counts the
\* whole backlog of an open queue.
SizeCountsEverything == status = "up" /\ holder = NoProc => Size = Len(mem) + Len(disk)

\* A consumer suspended in emptyCond.Wait() has no message to wait for: every
\* path that makes one available broadcasts.
NoLostWakeup == status = "up" /\ waiting # {} => Contents = <<>>

\* A dying process takes at most MaxInMemory - 1 accepted messages with it,
\* also in the middle of a spill or of a refill.
CrashLossBounded ==
    [][status # "down" /\ status' = "down"
          => Cardinality(lost' \ lost) < MaxInMemory]_vars

\* While the process stays up, a queued message is eventually handed to a
\* consumer (or dropped by a disk error).
EventuallyDequeued ==
    \A m \in 1..MaxMsgs :
        (status = "up" /\ m \in Elements(Contents))
            ~> (status # "up" \/ m \notin Elements(Contents))
=============================================================================
