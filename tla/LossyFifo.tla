----------------------------- MODULE LossyFifo -----------------------------
(***************************************************************************)
(* What a ConfirmationQueue promises to the goroutines around it: a single *)
(* first-in first-out queue.  It may lose messages, but only whole runs of *)
(* neighbours, and it never reorders, duplicates or invents one.           *)
(***************************************************************************)
EXTENDS Integers, Sequences

VARIABLES queue, accepted, delivered, lost

vars == <<queue, accepted, delivered, lost>>

Init ==
    /\ queue = <<>>
    /\ accepted = 0
    /\ delivered = <<>>
    /\ lost = {}

Put ==
    /\ accepted' = accepted + 1
    /\ \/ queue' = Append(queue, accepted + 1) /\ UNCHANGED lost
       \/ lost' = lost \cup {accepted + 1} /\ UNCHANGED queue
    /\ UNCHANGED delivered

Get ==
    /\ queue # <<>>
    /\ delivered' = Append(delivered, Head(queue))
    /\ queue' = Tail(queue)
    /\ UNCHANGED <<accepted, lost>>

Run(i, j) == {queue[k] : k \in i..j}

\* A run of neighbours is lost ...
Drop(i, j) ==
    /\ queue' = SubSeq(queue, 1, i - 1) \o SubSeq(queue, j + 1, Len(queue))
    /\ lost' = lost \cup Run(i, j)
    /\ UNCHANGED <<accepted, delivered>>

\* ... or only a run of neighbours survives.
Keep(i, j) ==
    /\ queue' = SubSeq(queue, i, j)
    /\ lost' = lost \cup (Run(1, Len(queue)) \ Run(i, j))
    /\ UNCHANGED <<accepted, delivered>>

Next ==
    \/ Put
    \/ Get
    \/ \E i \in 1..(Len(queue) + 1) : \E j \in (i - 1)..Len(queue) : Drop(i, j) \/ Keep(i, j)

Spec == Init /\ [][Next]_vars
=============================================================================
