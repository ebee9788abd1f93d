------------------------------ MODULE Shoveler ------------------------------
(***************************************************************************)
(* The shoveler with the STOMP publisher.  Three goroutines: main reads a  *)
(* packet, verifies, packages and enqueues it and copies the message to    *)
(* the UDP destinations (cmd/shoveler/main.go); readMsgStomp takes the     *)
(* messages out of the ConfirmationQueue; StartStomp publishes them one by *)
(* one and reconnects (stomp.go).                                          *)
(*                                                                         *)
(* A message is the number of the packet it was made of, in the order they *)
(* came.  The queue does what LossyFifo.tla allows and ConfirmationQueue   *)
(* is checked to do; a disk error loses one message.                       *)
(***************************************************************************)
EXTENDS Integers, Sequences, FiniteSets, OrderedSeqs

CONSTANTS
    MaxPackets, \* bound on the packets received
    DestUdp,    \* how many UDP destinations are configured
    MaxFaults   \* bound on failures of the broker, its connection and the disk

ASSUME ShovelerAssumption ==
    /\ MaxPackets \in Nat
    /\ DestUdp \in Nat
    /\ MaxFaults \in Nat

VARIABLES
    input,      \* Input.Type
    verify,     \* config.Verify
    dialled,    \* the UDP destinations for which net.Dial returned a connection
    packets,    \* how many packets main has received
    packet,     \* the one main works on, 0 if none
    addressed,  \* its remote address is known
    pc,         \* where main is
    next,       \* the UDP destination that comes next
    queue,      \* the ConfirmationQueue
    rpc, rmsg,  \* readMsgStomp and the message it holds
    spc, smsg,  \* StartStomp and the message it publishes
    conn,       \* session.conn: "none", "up", "down"
    process,    \* "running", "panicked", "exited"
    faults,
    failed,     \* history: packets that failed the verification
    lost,       \* history: messages the queue lost
    received    \* history: what reached the broker

configVars == <<input, verify, dialled>>
mainVars == <<packets, packet, addressed, pc, next, failed>>
readerVars == <<rpc, rmsg>>
sessionVars == <<spc, smsg, conn, received>>
vars == <<configVars, mainVars, queue, readerVars, sessionVars, process, faults, lost>>

Running == process = "running"
Fault == faults < MaxFaults /\ faults' = faults + 1

\* net.Dial fails for a destination that does not parse or resolve; the loop
\* over DestUdp appends its nil connection like any other.
Init ==
    /\ input \in {"udp", "file"}
    /\ verify \in BOOLEAN
    /\ dialled \in IF input = "udp" THEN SUBSET (1..DestUdp) ELSE {{}}
    /\ packets = 0
    /\ packet = 0
    /\ addressed = TRUE
    /\ pc = "read"
    /\ next = 1
    /\ queue = <<>>
    /\ rpc = "unstarted"
    /\ rmsg = 0
    /\ spc = "connect"
    /\ smsg = 0
    /\ conn = "none"
    /\ process = "running"
    /\ faults = 0
    /\ failed = {}
    /\ lost = {}
    /\ received = <<>>

-----------------------------------------------------------------------------
(* main: runShovelingModeUDP and runShovelingModeFile.                     *)

\* What may arrive: a summary in XML, a packet whose header states its length
\* or does not, and something too short for a header.
Kinds == {"xml", "binary", "misfit", "short"}
VerifyPacket(kind) == kind \in {"xml", "binary"}

\* A packet is checked here if packets are verified.  A line of a file may
\* hold no address, or one that does not resolve.
Receive ==
    /\ Running
    /\ pc = "read"
    /\ packets < MaxPackets
    /\ packets' = packets + 1
    /\ \E kind \in Kinds, known \in BOOLEAN :
        /\ input = "udp" => known
        /\ IF verify /\ ~VerifyPacket(kind)
           THEN /\ failed' = failed \cup {packets + 1}
                /\ UNCHANGED <<packet, addressed, pc>>
           ELSE /\ packet' = packets + 1
                /\ addressed' = known
                /\ pc' = "package"
                /\ UNCHANGED failed
    /\ UNCHANGED <<configVars, next, queue, readerVars, sessionVars, process, faults, lost>>

\* PackageUdp and mapIp dereference the address, also a nil one.
Package ==
    /\ Running
    /\ pc = "package"
    /\ IF addressed THEN pc' = "enqueue" /\ UNCHANGED process
       ELSE process' = "panicked" /\ UNCHANGED pc
    /\ UNCHANGED <<configVars, packets, packet, addressed, next, failed, queue, readerVars,
                   sessionVars, faults, lost>>

\* The queue loses the message if the disk fails.
Enqueue ==
    /\ Running
    /\ pc = "enqueue"
    /\ \/ queue' = Append(queue, packet) /\ UNCHANGED <<lost, faults>>
       \/ Fault /\ lost' = lost \cup {packet} /\ UNCHANGED queue
    /\ packet' = 0
    /\ next' = 1
    /\ pc' = IF input = "udp" THEN "forward" ELSE "read"
    /\ UNCHANGED <<configVars, packets, addressed, failed, readerVars, sessionVars, process>>

\* The copy to the next destination; an error of Write is logged, a nil
\* connection is called all the same.
Forward ==
    /\ Running
    /\ pc = "forward"
    /\ IF next > DestUdp THEN pc' = "read" /\ UNCHANGED <<next, process>>
       ELSE IF next \in dialled THEN next' = next + 1 /\ UNCHANGED <<pc, process>>
       ELSE process' = "panicked" /\ UNCHANGED <<pc, next>>
    /\ UNCHANGED <<configVars, packets, packet, addressed, failed, queue, readerVars, sessionVars,
                   faults, lost>>

\* The end of the file is the end of main: nobody waits for the publisher.
FileEnds ==
    /\ Running
    /\ input = "file"
    /\ pc = "read"
    /\ process' = "exited"
    /\ UNCHANGED <<configVars, mainVars, queue, readerVars, sessionVars, faults, lost>>

-----------------------------------------------------------------------------
(* readMsgStomp.                                                           *)

ReaderDequeue ==
    /\ Running
    /\ rpc = "dequeue"
    /\ queue # <<>>
    /\ queue' = Tail(queue)
    /\ rmsg' = Head(queue)
    /\ rpc' = "offer"
    /\ UNCHANGED <<configVars, mainVars, sessionVars, process, faults, lost>>

\* An error of Dequeue is logged; the message it stands for is gone.
ReaderDequeueError ==
    /\ Running
    /\ rpc = "dequeue"
    /\ queue # <<>>
    /\ Fault
    /\ queue' = Tail(queue)
    /\ lost' = lost \cup {Head(queue)}
    /\ UNCHANGED <<configVars, mainVars, readerVars, sessionVars, process>>

-----------------------------------------------------------------------------
(* StartStomp.                                                             *)

\* handleReconnect got a connection and returns to its caller: StartStomp,
\* which then starts the reader, the select, or publish.
Connects ==
    /\ Running
    /\ spc = "connect"
    /\ conn' = "up"
    /\ spc' = IF smsg = 0 THEN "select" ELSE "publish"
    /\ rpc' = IF rpc = "unstarted" THEN "dequeue" ELSE rpc
    /\ UNCHANGED <<configVars, mainVars, queue, rmsg, smsg, received, process, faults, lost>>

\* Mutant: a connection that fails at once ends the session.
ConnectFailsForGood ==
    /\ Running
    /\ spc = "connect"
    /\ Fault
    /\ spc' = "done"
    /\ UNCHANGED <<configVars, mainVars, queue, readerVars, smsg, conn, received, process, lost>>

\* GetStompConnection fails: after reconnectDelay the loop tries again.
ConnectFails ==
    /\ Running
    /\ spc = "connect"
    /\ Fault
    /\ UNCHANGED <<configVars, mainVars, queue, readerVars, sessionVars, process, lost>>

\* case <-ticker.C: the connection is closed and replaced every hour.
Tick ==
    /\ Running
    /\ spc = "select"
    /\ spc' = "connect"
    /\ conn' = "down"
    /\ UNCHANGED <<configVars, mainVars, queue, readerVars, smsg, received, process, faults, lost>>

\* case msgStruct := <-messagesQueue: the channel has no room, the reader
\* hands the message over.
TakeMessage ==
    /\ Running
    /\ spc = "select"
    /\ rpc = "offer"
    /\ smsg' = rmsg
    /\ rmsg' = 0
    /\ rpc' = "dequeue"
    /\ spc' = "publish"
    /\ UNCHANGED <<configVars, mainVars, queue, conn, received, process, faults, lost>>

\* Send returns with the receipt of the broker.
PublishOk ==
    /\ Running
    /\ spc = "publish"
    /\ conn = "up"
    /\ received' = Append(received, smsg)
    /\ smsg' = 0
    /\ spc' = "select"
    /\ UNCHANGED <<configVars, mainVars, queue, readerVars, conn, process, faults, lost>>

\* Send fails on a connection that is gone, or on one that fails now, before
\* or after the broker has the message.
SendError ==
    \/ conn = "down" /\ UNCHANGED <<received, faults>>
    \/ /\ conn = "up"
       /\ Fault
       /\ \/ received' = Append(received, smsg)
          \/ UNCHANGED received

\* Mutant: the message goes back to the queue.
PublishFailsRequeues ==
    /\ Running
    /\ spc = "publish"
    /\ SendError
    /\ conn' = "down"
    /\ spc' = "connect"
    /\ queue' = Append(queue, smsg)
    /\ smsg' = 0
    /\ UNCHANGED <<configVars, mainVars, readerVars, process, lost>>

\* Mutant: publish reconnects and returns.
PublishFailsDrops ==
    /\ Running
    /\ spc = "publish"
    /\ SendError
    /\ conn' = "down"
    /\ spc' = "connect"
    /\ smsg' = 0
    /\ UNCHANGED <<configVars, mainVars, queue, readerVars, process, lost>>

\* publish reconnects and sends the same message again.
PublishFails ==
    /\ Running
    /\ spc = "publish"
    /\ SendError
    /\ conn' = "down"
    /\ spc' = "connect"
    /\ UNCHANGED <<configVars, mainVars, queue, readerVars, smsg, process, lost>>

ConnectionDies ==
    /\ Running
    /\ conn = "up"
    /\ Fault
    /\ conn' = "down"
    /\ UNCHANGED <<configVars, mainVars, queue, readerVars, spc, smsg, received, process, lost>>

-----------------------------------------------------------------------------

Main == Package \/ Enqueue \/ Forward
Reader == ReaderDequeue \/ ReaderDequeueError
Publish == PublishOk \/ PublishFails

Next ==
    \/ Receive \/ Main \/ FileEnds
    \/ Reader
    \/ Connects \/ ConnectFails \/ Tick \/ TakeMessage \/ Publish
    \/ ConnectionDies

Spec == Init /\ [][Next]_vars

\* The three goroutines run, the broker can be reached once the faults are
\* over, and the select does not always prefer its ticker.  No packet has to
\* come.
FairSpec ==
    /\ Spec
    /\ WF_vars(Main)
    /\ WF_vars(Reader)
    /\ WF_vars(Connects)
    /\ WF_vars(Publish)
    /\ SF_vars(TakeMessage)

-----------------------------------------------------------------------------
(* Properties.                                                             *)

Held == {packet, rmsg, smsg} \ {0}

TypeOK ==
    /\ input \in {"udp", "file"}
    /\ verify \in BOOLEAN
    /\ dialled \subseteq 1..DestUdp
    /\ packets \in 0..MaxPackets
    /\ packet \in 0..packets
    /\ addressed \in BOOLEAN
    /\ pc \in {"read", "package", "enqueue", "forward"}
    /\ next \in 1..(DestUdp + 1)
    /\ queue \in Seq(1..packets)
    /\ rpc \in {"unstarted", "dequeue", "offer"}
    /\ rmsg \in 0..packets
    /\ spc \in {"connect", "select", "publish"}
    /\ smsg \in 0..packets
    /\ conn \in {"none", "up", "down"}
    /\ process \in {"running", "panicked", "exited"}
    /\ faults \in 0..MaxFaults
    /\ failed \subseteq 1..packets
    /\ lost \subseteq 1..packets
    /\ received \in Seq(1..packets)

\* The broker gets the messages in the order in which their packets came, and
\* again only those behind a Send whose receipt did not arrive; nothing that
\* is still waiting can overtake (publish, handleReconnect, readMsgStomp).
RelayedInOrder ==
    /\ NonDecreasing(received)
    /\ Repeats(received) <= faults
    /\ \A m \in Elements(received), n \in Elements(queue) \cup ({packet, rmsg} \ {0}) : m < n

\* Every packet that was received is verified and in exactly one place: in
\* main, in the queue, between the two STOMP goroutines or at the broker,
\* unless it failed the verification or a disk error lost it.  Only a message
\* that is being published may be at the broker already (runShovelingModeUDP,
\* readMsgStomp, publish).
EveryPacketAccounted ==
    /\ 1..packets = failed \cup lost \cup Held \cup Elements(queue) \cup Elements(received)
    /\ failed \cap (lost \cup Held \cup Elements(queue) \cup Elements(received)) = {}
    /\ lost \cap (Held \cup Elements(queue) \cup Elements(received)) = {}
    /\ Held \cap Elements(queue) = {}
    /\ packet \notin ({rmsg, smsg} \ {0})
    /\ rmsg = smsg => rmsg = 0

\* A shoveler on UDP whose destinations could all be dialled relays every
\* packet it enqueued: nothing that happens to the broker's connection, before
\* the first message or after, ends it or makes it stop (StartStomp).
EventuallyRelayed ==
    \A m \in 1..MaxPackets :
        m \in Elements(queue) /\ input = "udp" /\ dialled = 1..DestUdp
            ~> m \in Elements(received) \cup lost
=============================================================================
