----------------------------- MODULE WorkerPool -----------------------------
(***************************************************************************)
(* The AMQP publisher of amqp.go: the feeder goroutine that moves messages *)
(* from the ConfirmationQueue to a shared channel, the publishing workers, *)
(* the token watcher that replaces all workers when the token file         *)
(* changes (Restart), and the goroutine of StartAMQP, which waits on the   *)
(* first context and then calls Stop.  Contexts are numbered: Restart      *)
(* replaces context g by g + 1.  p.ctx, p.cancel and p.workers are read by *)
(* the feeder and by Stop without the mutex that Restart holds.            *)
(*                                                                         *)
(* A write to a ready session reaches the broker at once or is lost with   *)
(* the connection; AmqpSession has the details.                            *)
(***************************************************************************)
EXTENDS Integers, Sequences, FiniteSets, OrderedSeqs, SessionLink

CONSTANTS
    Ids,        \* worker ids; one of them in shoveler mode
    ChanCap,    \* capacity of messagesQueue (1000)
    MaxMsgs,    \* bound on the messages enqueued
    MaxTokens,  \* bound on the token updates
    MaxFaults   \* bound on the failures of connections and of the disk queue

ASSUME PoolAssumption ==
    /\ Ids # {} /\ IsFiniteSet(Ids)
    /\ ChanCap \in Nat \ {0}
    /\ MaxMsgs \in Nat
    /\ MaxTokens \in Nat
    /\ MaxFaults \in Nat

Gens == 0..MaxTokens
Workers == Gens \X Ids
Msgs == 1..MaxMsgs

\* p.useToken; with a password in the URL there is no token watcher.
UseToken == MaxTokens > 0

VARIABLES
    queue,      \* what waits in the ConfirmationQueue, see that module
    sent,       \* history: how many messages were enqueued
    chan,       \* p.messagesQueue
    chanClosed, \* p.messagesQueue is closed
    ctx,        \* the number of p.ctx and p.cancel
    cancelled,  \* the contexts that are cancelled
    listed,     \* p.workers
    fpc,        \* where the feeder is
    fmsg,       \* the message it holds
    fctx,       \* the context its select waits on
    wpc,        \* where each worker is
    wmsg,       \* the message it holds
    link,       \* the state of its session
    cpc,        \* where the token watcher is
    tokenFile,  \* the version of the token file
    tokenAge,   \* p.tokenAge
    cred,       \* the token the workers of a generation log in with
    expired,    \* the tokens the broker refuses
    mpc,        \* where the goroutine of StartAMQP is
    mlist,      \* the workers it waits for in Stop
    crashed,    \* a goroutine panicked or called log.Fatalln
    faults,     \* failures so far
    received,   \* history: what reached the broker, in order
    diskLost,   \* history: taken off the disk queue by a Dequeue that failed
    dropped,    \* history: messages given up by the feeder or a worker
    wireLost    \* history: written to a connection that then died

queueVars == <<queue, sent>>
chanVars == <<chan, chanClosed>>
ctxVars == <<ctx, cancelled, listed>>
feederVars == <<fpc, fmsg, fctx>>
workerVars == <<wpc, wmsg, link>>
tokenVars == <<cpc, tokenFile, tokenAge, cred, expired>>
mainVars == <<mpc, mlist, crashed>>
brokerVars == <<faults, received, diskLost, dropped, wireLost>>
vars == <<queueVars, chanVars, ctxVars, feederVars, workerVars, tokenVars, mainVars, brokerVars>>

\* A panic or log.Fatalln in any goroutine ends the process.
Running == ~crashed

Gen(w) == w[1]
Cancelled(w) == Gen(w) \in cancelled
Alive(w) == wpc[w] \notin {"none", "exited"}
Holding(w) == wpc[w] \in {"publish", "backoff", "push"}
Goto(w, pc) == wpc' = [wpc EXCEPT ![w] = pc]

\* publishMessage returns.
BackToSelect(w) ==
    /\ Goto(w, "select")
    /\ wmsg' = [wmsg EXCEPT ![w] = 0]

\* A worker gives up the message it holds and goes back to its select.
GiveUp(w) ==
    /\ dropped' = dropped \cup {wmsg[w]}
    /\ BackToSelect(w)

-----------------------------------------------------------------------------
(* Environment: producers, the token file, the broker.                     *)

Enqueue ==
    /\ Running
    /\ sent < MaxMsgs
    /\ sent' = sent + 1
    /\ queue' = Append(queue, sent + 1)
    /\ UNCHANGED <<chanVars, ctxVars, feederVars, workerVars, tokenVars, mainVars, brokerVars>>

TokenWritten ==
    /\ Running
    /\ tokenFile < MaxTokens
    /\ tokenFile' = tokenFile + 1
    /\ UNCHANGED <<cpc, tokenAge, cred, expired, queueVars, chanVars, ctxVars, feederVars,
                   workerVars, mainVars, brokerVars>>

\* A token does not expire before its successor is in the file.
TokenExpires(t) ==
    /\ Running
    /\ t < tokenFile
    /\ expired' = expired \cup {t}
    /\ UNCHANGED <<cpc, tokenFile, tokenAge, cred, queueVars, chanVars, ctxVars, feederVars,
                   workerVars, mainVars, brokerVars>>

\* The session of a worker changes state; logging in takes a valid token.
LinkChanges(w, to) ==
    /\ Running
    /\ Alive(w)
    /\ <<link[w], to>> \in LinkSteps
    /\ to = "ready" => cred[Gen(w)] \notin expired
    /\ IF to \in {"broken", "hung"}
       THEN faults < MaxFaults /\ faults' = faults + 1
       ELSE UNCHANGED faults
    /\ link' = [link EXCEPT ![w] = to]
    /\ UNCHANGED <<wpc, wmsg, queueVars, chanVars, ctxVars, feederVars, tokenVars, mainVars,
                   received, diskLost, dropped, wireLost>>

-----------------------------------------------------------------------------
(* feedMessages.                                                           *)

FeedCheck ==
    /\ Running
    /\ fpc = "check"
    /\ fpc' = IF ctx \in cancelled THEN "dead" ELSE "dequeue"
    /\ UNCHANGED <<fmsg, fctx, queueVars, chanVars, ctxVars, workerVars, tokenVars, mainVars,
                   brokerVars>>

FeedDequeue ==
    /\ Running
    /\ fpc = "dequeue"
    /\ queue # <<>>
    /\ fmsg' = Head(queue)
    /\ queue' = Tail(queue)
    /\ fctx' = ctx
    /\ fpc' = "send"
    /\ UNCHANGED <<sent, chanVars, ctxVars, workerVars, tokenVars, mainVars, brokerVars>>

\* The disk queue fails to give back the message that it removed.
DequeueFails ==
    /\ Running
    /\ fpc = "dequeue"
    /\ queue # <<>>
    /\ faults < MaxFaults
    /\ faults' = faults + 1
    /\ queue' = Tail(queue)
    /\ diskLost' = diskLost \cup {Head(queue)}

\* Mutant: the first error of Dequeue ends the feeder.
FeedDequeueErrorEnds ==
    /\ DequeueFails
    /\ fpc' = "dead"
    /\ UNCHANGED <<sent, fmsg, fctx, chanVars, ctxVars, workerVars, tokenVars, mainVars, received,
                   dropped, wireLost>>

\* Dequeue throws the message away and reports the error: the feeder sleeps
\* and goes on with the next one.
FeedDequeueError ==
    /\ DequeueFails
    /\ fpc' = "check"
    /\ UNCHANGED <<sent, fmsg, fctx, chanVars, ctxVars, workerVars, tokenVars, mainVars, received,
                   dropped, wireLost>>

\* The disk queue returns nil with its error: the type assertion panics.
FeedDequeuePanics ==
    /\ DequeueFails
    /\ crashed' = TRUE
    /\ UNCHANGED <<sent, feederVars, chanVars, ctxVars, workerVars, tokenVars, mpc, mlist,
                   received, dropped, wireLost>>

\* Sending on a closed channel would panic.
FeedSend ==
    /\ Running
    /\ fpc = "send"
    /\ chanClosed \/ Len(chan) < ChanCap
    /\ crashed' = chanClosed
    /\ chan' = IF chanClosed THEN chan ELSE Append(chan, fmsg)
    /\ fpc' = "check"
    /\ fmsg' = 0
    /\ fctx' = 0
    /\ UNCHANGED <<chanClosed, mpc, mlist, queueVars, ctxVars, workerVars,
                   tokenVars, brokerVars>>

FeedAbandon ==
    /\ Running
    /\ fpc = "send"
    /\ fctx \in cancelled
    /\ dropped' = dropped \cup {fmsg}
    /\ fpc' = "dead"
    /\ fmsg' = 0
    /\ fctx' = 0
    /\ UNCHANGED <<faults, received, diskLost, wireLost, queueVars, chanVars, ctxVars,
                   workerVars, tokenVars, mainVars>>

Feed ==
    \/ FeedCheck
    \/ FeedDequeue
    \/ FeedDequeueError
    \/ FeedDequeuePanics
    \/ FeedSend
    \/ FeedAbandon

-----------------------------------------------------------------------------
(* PublishWorker.run and publishMessage.                                   *)

\* A select with both cases ready takes either of them.
TakeMessage(w) ==
    /\ Running
    /\ wpc[w] = "select"
    /\ chan # <<>>
    /\ wmsg' = [wmsg EXCEPT ![w] = Head(chan)]
    /\ chan' = Tail(chan)
    /\ Goto(w, "publish")
    /\ UNCHANGED <<link, chanClosed, queueVars, ctxVars, feederVars, tokenVars, mainVars,
                   brokerVars>>

\* A closed channel yields nil, which publishMessage dereferences.
TakeNil(w) ==
    /\ Running
    /\ wpc[w] = "select"
    /\ chanClosed
    /\ chan = <<>>
    /\ crashed' = TRUE
    /\ UNCHANGED <<mpc, mlist, queueVars, chanVars, ctxVars, feederVars, workerVars, tokenVars,
                   brokerVars>>

\* Mutant: an idle worker does not look at its context.
WorkerExitNever(w) ==
    /\ Running
    /\ wpc[w] = "select"
    /\ Cancelled(w)
    /\ chanClosed
    /\ Goto(w, "exited")
    /\ link' = [link EXCEPT ![w] = "connecting"]
    /\ UNCHANGED <<wmsg, queueVars, chanVars, ctxVars, feederVars, tokenVars, mainVars,
                   brokerVars>>

\* run returns: the session is closed and w.wg is done.
WorkerExit(w) ==
    /\ Running
    /\ wpc[w] = "select"
    /\ Cancelled(w)
    /\ Goto(w, "exited")
    /\ link' = [link EXCEPT ![w] = "connecting"]
    /\ UNCHANGED <<wmsg, queueVars, chanVars, ctxVars, feederVars, tokenVars, mainVars,
                   brokerVars>>

\* The top of the loop of publishMessage, with Push's look at isReady.
PublishTop(w) ==
    /\ Running
    /\ wpc[w] = "publish"
    /\ \/ /\ Cancelled(w)
          /\ GiveUp(w)
       \/ /\ ~Cancelled(w)
          /\ Goto(w, IF link[w] \in {"ready", "broken"} THEN "push" ELSE "backoff")
          /\ UNCHANGED <<wmsg, dropped>>
    /\ UNCHANGED <<link, queueVars, chanVars, ctxVars, feederVars, tokenVars, mainVars,
                   faults, received, diskLost, wireLost>>

Backoff(w) ==
    /\ Running
    /\ wpc[w] = "backoff"
    /\ \/ Cancelled(w) /\ GiveUp(w)
       \/ Goto(w, "publish") /\ UNCHANGED <<wmsg, dropped>>
    /\ UNCHANGED <<link, queueVars, chanVars, ctxVars, feederVars, tokenVars, mainVars,
                   faults, received, diskLost, wireLost>>

\* Inside Push the context is not looked at; a failed write is repeated.
PushOk(w) ==
    /\ Running
    /\ wpc[w] = "push"
    /\ link[w] = "ready"
    /\ received' = Append(received, wmsg[w])
    /\ BackToSelect(w)
    /\ UNCHANGED <<link, queueVars, chanVars, ctxVars, feederVars, tokenVars, mainVars,
                   faults, diskLost, dropped, wireLost>>

\* The connection dies under a write: Push may have returned, and the message
\* is gone; or it reports an error, and sends again what the broker has.
PushFails(w) ==
    /\ Running
    /\ wpc[w] = "push"
    /\ link[w] = "ready"
    /\ faults < MaxFaults
    /\ faults' = faults + 1
    /\ link' = [link EXCEPT ![w] = "broken"]
    /\ \/ /\ wireLost' = wireLost \cup {wmsg[w]}
          /\ BackToSelect(w)
          /\ UNCHANGED received
       \/ /\ received' = Append(received, wmsg[w])
          /\ UNCHANGED <<wpc, wmsg, wireLost>>
    /\ UNCHANGED <<queueVars, chanVars, ctxVars, feederVars, tokenVars, mainVars, diskLost,
                   dropped>>

Work(w) ==
    \/ TakeMessage(w)
    \/ TakeNil(w)
    \/ WorkerExit(w)
    \/ PublishTop(w)
    \/ Backoff(w)
    \/ PushOk(w)
    \/ PushFails(w)

-----------------------------------------------------------------------------
(* CheckTokenFile and Restart.                                             *)

WatcherReturns ==
    /\ Running
    /\ cpc = "watch"
    /\ ctx \in cancelled
    /\ cpc' = "gone"
    /\ UNCHANGED <<tokenFile, tokenAge, cred, expired, queueVars, chanVars, ctxVars, feederVars,
                   workerVars, mainVars, brokerVars>>

\* The token file cannot be examined or read: log.Fatalln ends the process.
TokenFileFatal ==
    /\ Running
    /\ cpc = "watch"
    /\ crashed' = TRUE
    /\ UNCHANGED <<mpc, mlist, queueVars, chanVars, ctxVars, feederVars, workerVars, tokenVars,
                   brokerVars>>

\* The file is newer and is read: Restart takes p.mu and cancels the workers' context.
TokenTick ==
    /\ Running
    /\ cpc = "watch"
    /\ tokenFile > tokenAge
    /\ tokenAge' = tokenFile
    /\ cancelled' = cancelled \cup {ctx}
    /\ cpc' = "wait"
    /\ UNCHANGED <<ctx, listed, tokenFile, cred, expired, queueVars, chanVars, feederVars,
                   workerVars, mainVars, brokerVars>>

\* Mutant: Restart does not wait for the old workers.
RestartSwapEager ==
    /\ Running
    /\ cpc = "wait"
    /\ ctx' = ctx + 1
    /\ cred' = [cred EXCEPT ![ctx + 1] = tokenAge]
    /\ listed' = {}
    /\ cpc' = "start"
    /\ UNCHANGED <<cancelled, tokenFile, tokenAge, expired, queueVars, chanVars, feederVars,
                   workerVars, mainVars, brokerVars>>

\* Mutant: Restart makes a new messagesQueue.
RestartSwapFreshChannel ==
    /\ Running
    /\ cpc = "wait"
    /\ \A w \in listed : ~Alive(w)
    /\ ctx' = ctx + 1
    /\ cred' = [cred EXCEPT ![ctx + 1] = tokenAge]
    /\ listed' = {}
    /\ chan' = <<>>
    /\ cpc' = "start"
    /\ UNCHANGED <<cancelled, chanClosed, tokenFile, tokenAge, expired, queueVars, feederVars,
                   workerVars, mainVars, brokerVars>>

\* All workers are gone: new URL, new context, empty worker list.
RestartSwap ==
    /\ Running
    /\ cpc = "wait"
    /\ \A w \in listed : ~Alive(w)
    /\ ctx' = ctx + 1
    /\ cred' = [cred EXCEPT ![ctx + 1] = tokenAge]
    /\ listed' = {}
    /\ cpc' = "start"
    /\ UNCHANGED <<cancelled, tokenFile, tokenAge, expired, queueVars, chanVars, feederVars,
                   workerVars, mainVars, brokerVars>>

\* The new workers are appended and started one by one.
RestartWorker(i) ==
    /\ Running
    /\ cpc = "start"
    /\ <<ctx, i>> \notin listed
    /\ listed' = listed \cup {<<ctx, i>>}
    /\ Goto(<<ctx, i>>, "select")
    /\ cpc' = IF Cardinality(listed') = Cardinality(Ids) THEN "watch" ELSE "start"
    /\ UNCHANGED <<ctx, cancelled, wmsg, link, tokenFile, tokenAge, cred, expired, queueVars,
                   chanVars, feederVars, mainVars, brokerVars>>

Rotate ==
    \/ WatcherReturns
    \/ TokenTick
    \/ RestartSwap
    \/ \E i \in Ids : RestartWorker(i)

CheckTokenFile == Rotate \/ TokenFileFatal

-----------------------------------------------------------------------------
(* The end of StartAMQP, and Stop.                                         *)

\* <-pool.ctx.Done() was evaluated once, on the first context.
MainWakes ==
    /\ Running
    /\ mpc = "wait"
    /\ 0 \in cancelled
    /\ mpc' = "stop"
    /\ UNCHANGED <<mlist, crashed, queueVars, chanVars, ctxVars, feederVars, workerVars,
                   tokenVars, brokerVars>>

StopCancel ==
    /\ Running
    /\ mpc = "stop"
    /\ cancelled' = cancelled \cup {ctx}
    /\ mpc' = "list"
    /\ UNCHANGED <<ctx, listed, mlist, crashed, queueVars, chanVars, feederVars, workerVars,
                   tokenVars, brokerVars>>

\* range p.workers copies the slice.  While Restart replaces it, the copy may
\* pair the new array with the old length, and nil workers are dereferenced.
StopList ==
    /\ Running
    /\ mpc = "list"
    /\ \/ mlist' = listed /\ UNCHANGED crashed
       \/ cpc = "start" /\ crashed' = TRUE /\ UNCHANGED mlist
    /\ mpc' = "workers"
    /\ UNCHANGED <<queueVars, chanVars, ctxVars, feederVars, workerVars, tokenVars, brokerVars>>

StopWorkers ==
    /\ Running
    /\ mpc = "workers"
    /\ \A w \in mlist : ~Alive(w)
    /\ mpc' = "feeder"
    /\ UNCHANGED <<mlist, crashed, queueVars, chanVars, ctxVars, feederVars, workerVars,
                   tokenVars, brokerVars>>

\* Mutant: no p.wg.Wait() before the close.
StopCloseEager ==
    /\ Running
    /\ mpc = "feeder"
    /\ chanClosed' = TRUE
    /\ mpc' = "stopped"
    /\ UNCHANGED <<chan, mlist, crashed, queueVars, ctxVars, feederVars, workerVars, tokenVars,
                   brokerVars>>

StopClose ==
    /\ Running
    /\ mpc = "feeder"
    /\ fpc = "dead"
    /\ chanClosed' = TRUE
    /\ mpc' = "stopped"
    /\ UNCHANGED <<chan, mlist, crashed, queueVars, ctxVars, feederVars, workerVars, tokenVars,
                   brokerVars>>

Stop ==
    \/ MainWakes
    \/ StopCancel
    \/ StopList
    \/ StopWorkers
    \/ StopClose

-----------------------------------------------------------------------------
\* StartAMQP and Start: the first context, its workers, the feeder.
Init ==
    /\ queue = <<>> /\ sent = 0
    /\ chan = <<>> /\ chanClosed = FALSE
    /\ ctx = 0 /\ cancelled = {} /\ listed = {0} \X Ids
    /\ fpc = "check" /\ fmsg = 0 /\ fctx = 0
    /\ wpc = [w \in Workers |-> IF Gen(w) = 0 THEN "select" ELSE "none"]
    /\ wmsg = [w \in Workers |-> 0]
    /\ link = [w \in Workers |-> "connecting"]
    /\ cpc = (IF UseToken THEN "watch" ELSE "gone") /\ tokenFile = 0 /\ tokenAge = 0
    /\ cred = [g \in Gens |-> 0] /\ expired = {}
    /\ mpc = "wait" /\ mlist = {} /\ crashed = FALSE
    /\ faults = 0 /\ received = <<>> /\ diskLost = {} /\ dropped = {} /\ wireLost = {}

Next ==
    \/ Enqueue
    \/ TokenWritten
    \/ \E t \in Gens : TokenExpires(t)
    \/ \E w \in Workers, to \in Links : LinkChanges(w, to)
    \/ Feed
    \/ \E w \in Workers : Work(w)
    \/ CheckTokenFile
    \/ Stop

Spec == Init /\ [][Next]_vars

\* Every goroutine that can run does; a session whose token is valid gets
\* connected, a broken one is noticed, and a worker whose session keeps coming
\* back completes its write.
FairSpec ==
    /\ Spec
    /\ WF_vars(Feed)
    /\ \A w \in Workers :
          /\ WF_vars(Work(w))
          /\ WF_vars(LinkChanges(w, "ready"))
          /\ WF_vars(LinkChanges(w, "connecting"))
          /\ SF_vars(PushOk(w))
    /\ WF_vars(Rotate)
    /\ WF_vars(Stop)

-----------------------------------------------------------------------------
(* Properties.                                                             *)

TypeOK ==
    /\ queue \in Seq(Msgs) /\ chan \in Seq(Msgs) /\ received \in Seq(Msgs)
    /\ sent \in 0..MaxMsgs
    /\ chanClosed \in BOOLEAN /\ crashed \in BOOLEAN
    /\ ctx \in Gens /\ fctx \in Gens /\ cancelled \subseteq Gens
    /\ listed \subseteq Workers /\ mlist \subseteq Workers
    /\ fpc \in {"check", "dequeue", "send", "dead"}
    /\ fmsg \in 0..MaxMsgs
    /\ wpc \in [Workers -> {"none", "select", "publish", "backoff", "push", "exited"}]
    /\ wmsg \in [Workers -> 0..MaxMsgs]
    /\ link \in [Workers -> Links]
    /\ cpc \in {"watch", "wait", "start", "gone"}
    /\ tokenFile \in Gens /\ tokenAge \in Gens
    /\ cred \in [Gens -> Gens] /\ expired \subseteq Gens
    /\ mpc \in {"wait", "stop", "list", "workers", "feeder", "stopped"}
    /\ faults \in 0..MaxFaults
    /\ diskLost \subseteq Msgs /\ dropped \subseteq Msgs /\ wireLost \subseteq Msgs

Received == Elements(received)

\* "Single worker guarantees messages are published in the exact order
\* received": with one worker id the broker sees the messages in order, some
\* perhaps twice, also across token rotations and reconnects.
PublishedInOrder ==
    Cardinality(Ids) = 1 => NonDecreasing(received)

\* Workers of two generations never publish side by side: Restart waits.
OneGeneration ==
    \A v, w \in Workers : Alive(v) /\ Alive(w) => Gen(v) = Gen(w)

\* The feeder never sends on the closed channel: Stop waits for it.
NoSendOnClosed == chanClosed => fpc = "dead"

\* A message that the queue holds is on its way to the broker until it is
\* published.  It is forgotten only where the code loses it: in a Dequeue that
\* failed, on the wire of a connection that died, or in the hand of a goroutine
\* whose context was cancelled; never because a session fails or reconnects, and
\* a rotation forgets nothing that is in the channel (feedMessages,
\* publishMessage, Restart).
NothingForgotten ==
    \A m \in 1..sent :
        \/ m \in Elements(queue) \cup Elements(chan)
        \/ fpc = "send" /\ fmsg = m
        \/ \E w \in Workers : Holding(w) /\ wmsg[w] = m
        \/ m \in Received \cup wireLost \cup diskLost
        \/ m \in dropped /\ cancelled # {}

Hung == \E w \in Workers : link[w] = "hung"

\* Until a token rotation every message that the queue holds reaches the broker,
\* unless a failing Dequeue or a dying connection takes that very message or a
\* session hangs: neither stops the messages behind it (feedMessages,
\* publishMessage).
EventuallyPublished ==
    \A m \in Msgs :
        sent >= m ~> \/ m \in Received \cup wireLost \cup diskLost
                     \/ cancelled # {} \/ crashed \/ Hung

\* A Restart gets past its wait for the old workers, unless one of them is
\* inside Push, which does not look at the context, and its session hangs or
\* cannot log in any more.
RotationCompletes ==
    cpc = "wait" ~> \/ cpc # "wait"
                    \/ crashed
                    \/ Hung
                    \/ \E w \in Workers : wpc[w] = "push" /\ cred[Gen(w)] \in expired

\* "Message publishing resumes seamlessly": in a process that goes on running,
\* whatever is in the queue is taken out of it, token rotations notwithstanding.
PublishingResumes == (queue # <<>>) ~> (queue = <<>> \/ crashed)

\* "Stop gracefully shuts down all workers": when Stop closes the shared
\* channel no worker is left to read a nil message from it.
StopLeavesNoWorker == chanClosed => \A w \in Workers : ~Alive(w)
=============================================================================
