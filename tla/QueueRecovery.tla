--------------------------- MODULE QueueRecovery ---------------------------
(***************************************************************************)
(* Startup of the on-disk queue (openQueue and SpoolInit of queue.go) over the  *)
(* life of the spool directory: torn segments are moved aside one by one,  *)
(* SpoolInit panics when openQueue gives up, and a supervisor starts the        *)
(* process again.  A segment is a number; its messages are not looked at.  *)
(***************************************************************************)
EXTENDS Integers, Sequences, OrderedSeqs

CONSTANTS
    MaxSegments,         \* bound on the segments in the directory
    MaxCorruptSegments,  \* maxCorruptSegments of queue.go (10)
    MaxTears             \* bound on the segments torn by an abrupt exit

ASSUME RecoveryBounds ==
    /\ MaxSegments \in Nat
    /\ MaxCorruptSegments \in Nat \ {0}
    /\ MaxTears \in Nat

Segments == 1..MaxSegments

VARIABLES
    segs,         \* the segment files in the directory, oldest first
    torn,         \* the segments that cannot be read
    quarantined,  \* the segments renamed to *.corrupt-<timestamp>
    consumed,     \* the segments whose messages were all dequeued
    spoolStatus,  \* "down", "opening", "up"
    attempt,      \* the loop counter of openQueue
    tears         \* segments torn so far

spoolVars == <<segs, torn, quarantined, consumed, spoolStatus, attempt, tears>>

First == segs[1]
Last == segs[Len(segs)]

\* The supervisor starts the process again.
StartProcess ==
    /\ spoolStatus = "down"
    /\ spoolStatus' = "opening"
    /\ attempt' = 0
    /\ UNCHANGED <<segs, torn, quarantined, consumed, tears>>

\* dque.NewOrOpen reads the first and the last segment and names a torn one.
CorruptSegments == IF segs = <<>> THEN {} ELSE {First, Last} \cap torn

\* Mutant: after one segment was moved aside the queue is taken to be fine.
NewOrOpenUnchecked ==
    /\ spoolStatus = "opening"
    /\ CorruptSegments = {} \/ attempt > 0
    /\ spoolStatus' = "up"
    /\ UNCHANGED <<segs, torn, quarantined, consumed, attempt, tears>>

NewOrOpenOk ==
    /\ spoolStatus = "opening"
    /\ CorruptSegments = {}
    /\ spoolStatus' = "up"
    /\ UNCHANGED <<segs, torn, quarantined, consumed, attempt, tears>>

\* Mutant: the segment is copied, and stays where it was.
QuarantineCopies(s) ==
    /\ spoolStatus = "opening"
    /\ s \in CorruptSegments
    /\ attempt < MaxCorruptSegments
    /\ attempt' = attempt + 1
    /\ UNCHANGED <<segs, torn, quarantined, consumed, spoolStatus, tears>>

QuarantineSegment(s) ==
    /\ spoolStatus = "opening"
    /\ s \in CorruptSegments
    /\ attempt < MaxCorruptSegments
    /\ segs' = IF s = First THEN Tail(segs) ELSE SubSeq(segs, 1, Len(segs) - 1)
    /\ quarantined' = quarantined \cup {s}
    /\ attempt' = attempt + 1
    /\ UNCHANGED <<torn, consumed, spoolStatus, tears>>

\* Too many torn segments, a rename that fails or any other error: openQueue
\* returns it and SpoolInit panics.
GiveUp ==
    /\ spoolStatus = "opening"
    /\ CorruptSegments # {}
    /\ attempt >= MaxCorruptSegments
    /\ spoolStatus' = "down"
    /\ UNCHANGED <<segs, torn, quarantined, consumed, attempt, tears>>

OpenError ==
    /\ spoolStatus = "opening"
    /\ spoolStatus' = "down"
    /\ UNCHANGED <<segs, torn, quarantined, consumed, attempt, tears>>

\* The first segment is used up: dque deletes it and opens the next one.  When
\* that is torn, Dequeue first returns an error and then panics.
ConsumeFirst ==
    /\ spoolStatus = "up"
    /\ segs # <<>>
    /\ segs' = Tail(segs)
    /\ consumed' = consumed \cup {First}
    /\ spoolStatus' = IF Len(segs) > 1 /\ segs[2] \in torn THEN "down" ELSE "up"
    /\ UNCHANGED <<torn, quarantined, attempt, tears>>

\* An abrupt exit tears the segment being read or the one being written.
AbruptExit ==
    /\ spoolStatus = "up"
    /\ segs # <<>>
    /\ tears < MaxTears
    /\ \E s \in {First, Last} : torn' = torn \cup {s}
    /\ tears' = tears + 1
    /\ spoolStatus' = "down"
    /\ UNCHANGED <<segs, quarantined, consumed, attempt>>

SpoolInit ==
    /\ segs = [i \in Segments |-> i]
    /\ torn \in SUBSET Segments
    /\ quarantined = {}
    /\ consumed = {}
    /\ spoolStatus = "down"
    /\ attempt = 0
    /\ tears = 0

SpoolNext ==
    \/ StartProcess
    \/ NewOrOpenOk
    \/ \E s \in Segments : QuarantineSegment(s)
    \/ GiveUp
    \/ OpenError
    \/ ConsumeFirst
    \/ AbruptExit

SpoolSpec == SpoolInit /\ [][SpoolNext]_spoolVars

\* The process is restarted when it exits, errors other than torn segments
\* (a full or read-only disk) pass, and consumers go on consuming.
FairSpoolSpec ==
    /\ SpoolSpec
    /\ WF_spoolVars(StartProcess)
    /\ SF_spoolVars(NewOrOpenOk)
    /\ SF_spoolVars(\E s \in Segments : QuarantineSegment(s))
    /\ WF_spoolVars(GiveUp)
    /\ WF_spoolVars(ConsumeFirst)

-----------------------------------------------------------------------------
(* Properties.                                                             *)

SpoolTypeOK ==
    /\ segs \in Seq(Segments)
    /\ torn \subseteq Segments /\ quarantined \subseteq Segments /\ consumed \subseteq Segments
    /\ spoolStatus \in {"down", "opening", "up"}
    /\ attempt \in 0..MaxCorruptSegments
    /\ tears \in 0..MaxTears

\* A running queue never has a torn segment at either end, so neither end is
\* read from or written to in a corrupt state.
EndsReadable == spoolStatus = "up" /\ segs # <<>> => {First, Last} \cap torn = {}

\* Every segment is in the directory, moved aside or used up, and only one of
\* them; what is in the directory stays in order; only a torn segment is ever
\* moved aside, and none that is torn counts as used up (openQueue renames the
\* segment that the error names, and only that one).
SegmentsAccounted ==
    /\ Increasing(segs)
    /\ Segments = Elements(segs) \cup quarantined \cup consumed
    /\ Elements(segs) \cap (quarantined \cup consumed) = {}
    /\ quarantined \cap consumed = {}
    /\ quarantined \subseteq torn
    /\ consumed \cap torn = {}

\* What openQueue promises of the spool it hands over: both ends can be read,
\* and no message that can be read was given up for it.
SpoolSound == EndsReadable /\ SegmentsAccounted

\* However many segments are torn, the process gets past them: every readable
\* segment is eventually consumed (or torn later), over as many panics and
\* restarts as it takes.
SpoolDrains ==
    \A s \in Segments : (s \notin torn) ~> (s \in consumed \/ s \in torn)
=============================================================================
