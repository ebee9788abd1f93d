-------------------------- MODULE WorkerPoolProofs --------------------------
(***************************************************************************)
(* Proofs about WorkerPool for any worker ids, channel capacity and number *)
(* of messages, token updates and connection failures.                     *)
(***************************************************************************)
EXTENDS WorkerPool, OrderedSeqTheorems

-----------------------------------------------------------------------------
(* The inductive invariant.                                                *)

\* A context is replaced only for a token that is newer than its own.
RotationInv ==
    /\ ctx <= tokenAge
    /\ tokenAge <= tokenFile
    /\ cpc = "wait" => ctx < tokenAge

\* The workers that are alive are listed, and the listed ones belong to the
\* current context.
ListedInv ==
    /\ \A w \in listed : Gen(w) = ctx
    /\ \A w \in Workers : Alive(w) => w \in listed

\* The messages between the queue and the workers.
Waiting == Elements(chan) \cup Elements(queue) \cup (IF fpc = "send" THEN {fmsg} ELSE {})

\* Every message that is anywhere was enqueued.
SentInv ==
    /\ Waiting \cup Received \subseteq 1..sent
    /\ \A w \in Workers : Holding(w) => wmsg[w] \in 1..sent

\* On their way to the workers the messages keep their order.
FeedOrderInv ==
    /\ Increasing(queue)
    /\ Increasing(chan)
    /\ Precedes(Elements(chan), Elements(queue))
    /\ fpc = "send" => Precedes(Elements(chan), {fmsg}) /\ Precedes({fmsg}, Elements(queue))

\* With one worker the message it holds is between the broker's and those
\* that wait.
WorkerOrderInv ==
    Cardinality(Ids) = 1 =>
        /\ NonDecreasing(received)
        /\ Precedes(Received, Waiting)
        /\ \A w \in Workers : Holding(w) =>
            /\ Precedes({wmsg[w]}, Waiting)
            /\ \A r \in Received : r <= wmsg[w]

FlowInv == SentInv /\ FeedOrderInv /\ WorkerOrderInv /\ NothingForgotten

IInv == TypeOK /\ RotationInv /\ ListedInv /\ NoSendOnClosed /\ FlowInv

-----------------------------------------------------------------------------
(* Types.                                                                  *)

\* A message that is held is one that was enqueued.
LEMMA HeldMessages ==
    ASSUME TypeOK, SentInv
    PROVE  /\ 1..sent \subseteq Msgs
           /\ fpc = "send" => fmsg \in Msgs
           /\ \A w \in Workers : Holding(w) => wmsg[w] \in Msgs
<1>1. 1..sent \subseteq Msgs
  BY PoolAssumption DEF TypeOK, Msgs
<1>2. fpc = "send" => fmsg \in 1..sent
  BY DEF SentInv, Waiting
<1>3. QED
  BY <1>1, <1>2 DEF SentInv

\* No step of a goroutine of the pool leaves the types: the queue and the
\* publish channels hold message numbers, every worker has one of its states.
LEMMA TypeStep ==
    ASSUME TypeOK, RotationInv, SentInv, [Next]_vars
    PROVE  TypeOK'
<1> USE DEF TypeOK
<1>1. CASE Enqueue
  <2>1. sent + 1 \in Msgs /\ sent + 1 \in 0..MaxMsgs
    BY <1>1, PoolAssumption DEF Enqueue, Msgs
  <2>2. Append(queue, sent + 1) \in Seq(Msgs)
    BY <2>1
  <2>3. QED
    BY <1>1, <2>1, <2>2 DEF Enqueue, chanVars, ctxVars, feederVars, workerVars, tokenVars,
                            mainVars, brokerVars
<1>2. CASE TokenWritten
  <2>1. tokenFile + 1 \in Gens
    BY <1>2, PoolAssumption DEF TokenWritten, Gens
  <2>2. QED
    BY <1>2, <2>1 DEF TokenWritten, queueVars, chanVars, ctxVars, feederVars, workerVars, mainVars,
                      brokerVars
<1>3. ASSUME NEW t \in Gens, TokenExpires(t)
      PROVE  TypeOK'
  BY <1>3 DEF TokenExpires, queueVars, chanVars, ctxVars, feederVars, workerVars, mainVars,
              brokerVars
<1>4. ASSUME NEW w \in Workers, NEW to \in Links, LinkChanges(w, to)
      PROVE  TypeOK'
  <2>1. faults' \in 0..MaxFaults
    BY <1>4, PoolAssumption DEF LinkChanges
  <2>2. QED
    BY <1>4, <2>1 DEF LinkChanges, queueVars, chanVars, ctxVars, feederVars, tokenVars, mainVars
<1>5. CASE FeedCheck \/ FeedDequeueError \/ FeedDequeuePanics
  <2>1. CASE FeedCheck
    BY <2>1 DEF FeedCheck, queueVars, chanVars, ctxVars, workerVars, tokenVars, mainVars,
                brokerVars
  <2>2. CASE FeedDequeueError \/ FeedDequeuePanics
    <3>1. DequeueFails
      BY <2>2 DEF FeedDequeueError, FeedDequeuePanics
    <3>2. Head(queue) \in Msgs /\ Tail(queue) \in Seq(Msgs)
      BY <3>1, ElementsHeadTail DEF DequeueFails
    <3>3. queue' \in Seq(Msgs) /\ diskLost' \subseteq Msgs /\ faults' \in 0..MaxFaults
      BY <3>1, <3>2, PoolAssumption DEF DequeueFails
    <3>4. QED
      BY <2>2, <3>3 DEF FeedDequeueError, FeedDequeuePanics, chanVars, ctxVars, feederVars,
                        workerVars, tokenVars, mainVars
  <2>3. QED
    BY <1>5, <2>1, <2>2
<1>6. CASE FeedDequeue
  <2>1. Head(queue) \in Msgs /\ Tail(queue) \in Seq(Msgs)
    BY <1>6, ElementsHeadTail DEF FeedDequeue
  <2>2. Head(queue) \in 0..MaxMsgs
    BY <2>1 DEF Msgs
  <2>3. QED
    BY <1>6, <2>1, <2>2 DEF FeedDequeue, chanVars, ctxVars, workerVars, tokenVars, mainVars,
                            brokerVars
<1>7. CASE FeedSend
  <2>1. fmsg \in Msgs
    BY <1>7, HeldMessages DEF FeedSend
  <2>2. Append(chan, fmsg) \in Seq(Msgs) /\ 0 \in 0..MaxMsgs /\ 0 \in Gens
    BY <2>1, PoolAssumption DEF Gens
  <2>3. QED
    BY <1>7, <2>2 DEF FeedSend, queueVars, ctxVars, workerVars, tokenVars, brokerVars
<1>8. CASE FeedAbandon
  <2>1. fmsg \in Msgs
    BY <1>8, HeldMessages DEF FeedAbandon
  <2>2. 0 \in 0..MaxMsgs /\ 0 \in Gens
    BY PoolAssumption DEF Gens
  <2>3. QED
    BY <1>8, <2>1, <2>2 DEF FeedAbandon, queueVars, chanVars, ctxVars, workerVars, tokenVars,
                            mainVars
<1>9. ASSUME NEW w \in Workers, TakeMessage(w)
      PROVE  TypeOK'
  <2>1. Head(chan) \in Msgs /\ Tail(chan) \in Seq(Msgs)
    BY <1>9, ElementsHeadTail DEF TakeMessage
  <2>2. Head(chan) \in 0..MaxMsgs
    BY <2>1 DEF Msgs
  <2>3. QED
    BY <1>9, <2>1, <2>2 DEF TakeMessage, Goto, queueVars, ctxVars, feederVars, tokenVars,
                            mainVars, brokerVars
<1>10. ASSUME NEW w \in Workers, TakeNil(w) \/ WorkerExit(w)
       PROVE  TypeOK'
  <2>1. CASE TakeNil(w)
    BY <1>10, <2>1 DEF TakeNil, queueVars, chanVars, ctxVars, feederVars, workerVars, tokenVars,
                       mainVars, brokerVars
  <2>2. CASE WorkerExit(w)
    BY <1>10, <2>2 DEF WorkerExit, Goto, Links, queueVars, chanVars, ctxVars, feederVars,
                       tokenVars, mainVars, brokerVars
  <2>3. QED
    BY <1>10, <2>1, <2>2
<1>11. ASSUME NEW w \in Workers, PublishTop(w) \/ Backoff(w)
       PROVE  TypeOK'
  <2>1. wmsg[w] \in Msgs /\ 0 \in 0..MaxMsgs
    BY <1>11, HeldMessages, PoolAssumption DEF PublishTop, Backoff, Holding
  <2>2. /\ wpc' \in [Workers -> {"none", "select", "publish", "backoff", "push", "exited"}]
        /\ wmsg' \in [Workers -> 0..MaxMsgs]
        /\ dropped' \subseteq Msgs
    BY <1>11, <2>1 DEF PublishTop, Backoff, GiveUp, BackToSelect, Goto
  <2>3. QED
    BY <1>11, <2>2 DEF PublishTop, Backoff, queueVars, chanVars, ctxVars, feederVars, tokenVars,
                       mainVars
<1>12. ASSUME NEW w \in Workers, PushOk(w) \/ PushFails(w)
       PROVE  TypeOK'
  <2>1. wmsg[w] \in Msgs /\ 0 \in 0..MaxMsgs
    BY <1>12, HeldMessages, PoolAssumption DEF PushOk, PushFails, Holding
  <2>2. Append(received, wmsg[w]) \in Seq(Msgs)
    BY <2>1
  <2>3. CASE PushOk(w)
    BY <2>1, <2>2, <2>3 DEF PushOk, BackToSelect, Goto, queueVars, chanVars, ctxVars,
                            feederVars, tokenVars, mainVars
  <2>4. CASE PushFails(w)
    <3>1. faults' \in 0..MaxFaults /\ link' \in [Workers -> Links]
      BY <2>4, PoolAssumption DEF PushFails, Links
    <3>2. received' \in Seq(Msgs) /\ wireLost' \subseteq Msgs
      BY <2>1, <2>2, <2>4 DEF PushFails
    <3>3. /\ wpc' \in [Workers -> {"none", "select", "publish", "backoff", "push", "exited"}]
          /\ wmsg' \in [Workers -> 0..MaxMsgs]
      BY <2>1, <2>4 DEF PushFails, BackToSelect, Goto
    <3>4. QED
      BY <2>4, <3>1, <3>2, <3>3 DEF PushFails, queueVars, chanVars, ctxVars, feederVars,
                                    tokenVars, mainVars
  <2>5. QED
    BY <1>12, <2>3, <2>4
<1>13. CASE WatcherReturns \/ TokenTick \/ TokenFileFatal
  BY <1>13 DEF WatcherReturns, TokenTick, TokenFileFatal, queueVars, chanVars, ctxVars,
               feederVars, workerVars, tokenVars, mainVars, brokerVars
<1>14. CASE RestartSwap
  <2>1. ctx + 1 \in Gens
    BY <1>14, PoolAssumption DEF RestartSwap, RotationInv, Gens
  <2>2. QED
    BY <1>14, <2>1 DEF RestartSwap, queueVars, chanVars, feederVars, workerVars, mainVars,
                       brokerVars
<1>15. ASSUME NEW i \in Ids, RestartWorker(i)
       PROVE  TypeOK'
  <2>1. <<ctx, i>> \in Workers
    BY DEF Workers
  <2>2. QED
    BY <1>15, <2>1 DEF RestartWorker, Goto, queueVars, chanVars, feederVars, mainVars, brokerVars
<1>16. CASE Stop
  BY <1>16 DEF Stop, MainWakes, StopCancel, StopList, StopWorkers, StopClose, queueVars, chanVars,
               ctxVars, feederVars, workerVars, tokenVars, brokerVars
<1>17. CASE UNCHANGED vars
  BY <1>17 DEF vars, queueVars, chanVars, ctxVars, feederVars, workerVars, tokenVars, mainVars,
               brokerVars
<1>18. QED
  BY <1>1, <1>2, <1>3, <1>4, <1>5, <1>6, <1>7, <1>8, <1>9, <1>10, <1>11, <1>12, <1>13, <1>14,
     <1>15, <1>16, <1>17 DEF Next, Feed, Work, CheckTokenFile, Rotate

-----------------------------------------------------------------------------
(* Contexts and the workers that belong to them.                           *)

LEMMA RotationStep ==
    ASSUME TypeOK, RotationInv, [Next]_vars
    PROVE  RotationInv'
<1> USE DEF RotationInv
<1>1. ctx \in Int /\ tokenAge \in Int /\ tokenFile \in Int
  BY PoolAssumption DEF TypeOK, Gens
<1>2. CASE TokenWritten
  BY <1>1, <1>2 DEF TokenWritten, ctxVars
<1>3. CASE TokenTick
  BY <1>1, <1>3 DEF TokenTick
<1>4. CASE RestartSwap
  BY <1>1, <1>4 DEF RestartSwap
<1>5. ASSUME NEW i \in Ids, RestartWorker(i)
      PROVE  RotationInv'
  BY <1>5 DEF RestartWorker
<1>6. CASE WatcherReturns
  BY <1>6 DEF WatcherReturns, ctxVars
<1>7. CASE UNCHANGED <<ctx, tokenAge, tokenFile, cpc>>
  BY <1>7
<1>8. CASE Enqueue \/ Feed \/ Stop \/ TokenFileFatal \/ UNCHANGED vars
  BY <1>7, <1>8 DEF Enqueue, Feed, FeedCheck, FeedDequeue, FeedDequeueError, FeedDequeuePanics,
                    DequeueFails, FeedSend, FeedAbandon, feederVars, Stop, MainWakes, StopCancel, StopList, StopWorkers, StopClose, TokenFileFatal,
                    vars, ctxVars, tokenVars
<1>9. ASSUME NEW w \in Workers, NEW to \in Links, Work(w) \/ LinkChanges(w, to)
      PROVE  RotationInv'
  BY <1>7, <1>9 DEF Work, TakeMessage, TakeNil, WorkerExit, PublishTop, Backoff, PushOk, PushFails,
                    LinkChanges, ctxVars, tokenVars
<1>10. ASSUME NEW t \in Gens, TokenExpires(t)
       PROVE  RotationInv'
  BY <1>7, <1>10 DEF TokenExpires, ctxVars
<1>11. QED
  BY <1>2, <1>3, <1>4, <1>5, <1>6, <1>8, <1>9, <1>10 DEF Next, CheckTokenFile, Rotate, Links

\* Restart replaces the context when all listed workers are gone, and lists the
\* new ones as it starts them; everybody else at most leaves.
LEMMA ListedStep ==
    ASSUME TypeOK, ListedInv, [Next]_vars
    PROVE  ListedInv'
<1> USE DEF ListedInv, Gen
<1>1. CASE RestartSwap
  BY <1>1 DEF RestartSwap, workerVars, Alive
<1>2. ASSUME NEW i \in Ids, RestartWorker(i)
      PROVE  ListedInv'
  BY <1>2 DEF RestartWorker, Goto, Alive, TypeOK
<1>3. ASSUME UNCHANGED <<ctx, listed>>, \A w \in Workers : Alive(w)' => Alive(w)
      PROVE  ListedInv'
  BY <1>3
<1>4. ASSUME NEW w \in Workers, Work(w)
      PROVE  ListedInv'
  <2>1. UNCHANGED <<ctx, listed>>
    BY <1>4 DEF Work, TakeMessage, TakeNil, WorkerExit, PublishTop, Backoff, PushOk, PushFails,
                ctxVars
  <2>2. Alive(w)
    BY <1>4 DEF Work, TakeMessage, TakeNil, WorkerExit, PublishTop, Backoff, PushOk, PushFails,
                Alive
  <2>3. \A v \in Workers : v # w => wpc'[v] = wpc[v]
    BY <1>4 DEF Work, TakeMessage, TakeNil, WorkerExit, PublishTop, Backoff, PushOk, PushFails,
                GiveUp, BackToSelect, Goto, workerVars, TypeOK
  <2>4. QED
    BY <1>3, <2>1, <2>2, <2>3 DEF Alive
<1>5. CASE UNCHANGED <<ctx, listed, wpc>>
  BY <1>3, <1>5 DEF Alive
<1>6. CASE Enqueue \/ Feed \/ Stop \/ UNCHANGED vars
  BY <1>5, <1>6 DEF Enqueue, Feed, FeedCheck, FeedDequeue, FeedDequeueError, FeedDequeuePanics,
                    DequeueFails, FeedSend, FeedAbandon, feederVars, Stop, MainWakes, StopCancel, StopList, StopWorkers, StopClose,
                    vars, ctxVars, workerVars
<1>7. CASE TokenWritten \/ TokenTick \/ WatcherReturns \/ TokenFileFatal
  BY <1>5, <1>7 DEF TokenWritten, TokenTick, WatcherReturns, TokenFileFatal, ctxVars, workerVars
<1>8. ASSUME NEW w \in Workers, NEW to \in Links, LinkChanges(w, to)
      PROVE  ListedInv'
  BY <1>5, <1>8 DEF LinkChanges, ctxVars
<1>9. ASSUME NEW t \in Gens, TokenExpires(t)
      PROVE  ListedInv'
  BY <1>5, <1>9 DEF TokenExpires, ctxVars, workerVars
<1>10. QED
  BY <1>1, <1>2, <1>4, <1>6, <1>7, <1>8, <1>9 DEF Next, CheckTokenFile, Rotate

\* Stop closes the channel when the feeder has ended, and it stays ended.
LEMMA ClosedStep ==
    ASSUME NoSendOnClosed, [Next]_vars
    PROVE  NoSendOnClosed'
<1> USE DEF NoSendOnClosed
<1>1. CASE StopClose
  BY <1>1 DEF StopClose, feederVars
<1>2. CASE Feed
  BY <1>2 DEF Feed, FeedCheck, FeedDequeue, FeedDequeueError, FeedDequeuePanics,
              DequeueFails, FeedSend, FeedAbandon, chanVars, feederVars
<1>3. CASE UNCHANGED <<chanClosed, fpc>>
  BY <1>3
<1>4. CASE \/ Enqueue \/ TokenWritten \/ CheckTokenFile \/ UNCHANGED vars
           \/ MainWakes \/ StopCancel \/ StopList \/ StopWorkers
  BY <1>3, <1>4 DEF Enqueue, TokenWritten, CheckTokenFile, Rotate, WatcherReturns, TokenTick,
                    TokenFileFatal, RestartSwap, RestartWorker, MainWakes, StopCancel, StopList,
                    StopWorkers, vars, chanVars, feederVars
<1>5. ASSUME NEW w \in Workers, NEW to \in Links, Work(w) \/ LinkChanges(w, to)
      PROVE  NoSendOnClosed'
  BY <1>3, <1>5 DEF Work, TakeMessage, TakeNil, WorkerExit, PublishTop, Backoff, PushOk, PushFails,
                    LinkChanges, chanVars, feederVars
<1>6. ASSUME NEW t \in Gens, TokenExpires(t)
      PROVE  NoSendOnClosed'
  BY <1>3, <1>6 DEF TokenExpires, chanVars, feederVars
<1>7. QED
  BY <1>1, <1>2, <1>4, <1>5, <1>6 DEF Next, Stop, Links

-----------------------------------------------------------------------------
(* The way of the messages.                                                *)

\* With one worker id two workers that are alive are the same.
LEMMA OneWorker ==
    ASSUME ListedInv, Cardinality(Ids) = 1,
           NEW v \in Workers, NEW w \in Workers, Alive(v), Alive(w)
    PROVE  v = w
<1>1. PICK i \in Ids : Ids = {i}
  BY PoolAssumption, FS_Singleton
<1>2. v = <<Gen(v), i>> /\ w = <<Gen(w), i>>
  BY <1>1 DEF Workers, Gen
<1>3. QED
  BY <1>2 DEF ListedInv

\* A step that moves no message.
LEMMA FlowFrame ==
    ASSUME FlowInv,
           UNCHANGED <<queue, sent, chan, fmsg, wmsg, received, diskLost, dropped, wireLost>>,
           fpc' = "send" <=> fpc = "send",
           \A w \in Workers : Holding(w)' <=> Holding(w),
           cancelled \subseteq cancelled'
    PROVE  FlowInv'
<1>1. Waiting' = Waiting /\ Received' = Received
  BY DEF Waiting, Received
<1>2. SentInv'
  BY <1>1 DEF FlowInv, SentInv
<1>3. FeedOrderInv'
  BY DEF FlowInv, FeedOrderInv
<1>4. WorkerOrderInv'
  BY <1>1 DEF FlowInv, WorkerOrderInv
<1>5. NothingForgotten'
  BY <1>1 DEF FlowInv, NothingForgotten
<1>6. QED
  BY <1>2, <1>3, <1>4, <1>5 DEF FlowInv

\* The numbers are numbers.
LEMMA FlowNumbers ==
    ASSUME TypeOK, SentInv
    PROVE  /\ sent \in Nat
           /\ Elements(chan) \subseteq 1..sent
           /\ Elements(queue) \subseteq 1..sent
           /\ Received \subseteq 1..sent
           /\ Waiting \subseteq 1..sent
BY PoolAssumption DEF TypeOK, SentInv, Waiting

\* The caller's EnqueueToExchange puts a fresh number behind all others.
LEMMA EnqueueFlow ==
    ASSUME TypeOK, FlowInv, Enqueue
    PROVE  FlowInv'
<1> USE DEF FlowInv
<1>1. sent + 1 \in Msgs /\ queue \in Seq(Msgs)
  BY PoolAssumption DEF Enqueue, Msgs, TypeOK
<1>2. Elements(queue') = Elements(queue) \cup {sent + 1}
  BY <1>1, ElementsAppend DEF Enqueue
<1>3. UNCHANGED <<chan, fpc, fmsg, fctx, wpc, wmsg, received, diskLost, dropped, wireLost, cancelled>>
      /\ sent' = sent + 1
  BY DEF Enqueue, chanVars, feederVars, workerVars, brokerVars, ctxVars
<1>4. Waiting' = Waiting \cup {sent + 1} /\ Received' = Received
  BY <1>2, <1>3 DEF Waiting, Received
<1>5. SentInv'
  BY <1>3, <1>4, FlowNumbers DEF SentInv, Holding
<1>6. FeedOrderInv'
  <2>1. Increasing(queue')
    BY <1>1, FlowNumbers, IncreasingAppend DEF Enqueue, FeedOrderInv
  <2>2. fpc = "send" => fmsg \in 1..sent
    BY DEF SentInv, Waiting
  <2>3. QED
    BY <1>2, <1>3, <2>1, <2>2, FlowNumbers DEF FeedOrderInv, Precedes
<1>7. WorkerOrderInv'
  <2>1. \A w \in Workers : Holding(w)' <=> Holding(w)
    BY <1>3 DEF Holding
  <2>2. QED
    BY <1>3, <1>4, <2>1, FlowNumbers DEF WorkerOrderInv, SentInv, Precedes
<1>8. NothingForgotten'
  BY <1>2, <1>3, <1>4, FlowNumbers DEF NothingForgotten, Holding
<1>9. QED
  BY <1>5, <1>6, <1>7, <1>8

\* The feeder's Dequeue moves the front of the queue into its hand.
LEMMA FeedDequeueFlow ==
    ASSUME TypeOK, FlowInv, FeedDequeue
    PROVE  FlowInv'
<1> USE DEF FlowInv
<1>1. /\ Elements(queue) = {Head(queue)} \cup Elements(Tail(queue))
      /\ Increasing(Tail(queue))
      /\ \A y \in Elements(Tail(queue)) : Head(queue) < y
  BY ElementsHeadTail, IncreasingTail DEF FeedDequeue, TypeOK, FeedOrderInv
<1>2. /\ queue' = Tail(queue) /\ fmsg' = Head(queue) /\ fpc' = "send" /\ fpc = "dequeue"
      /\ UNCHANGED <<sent, chan, wpc, wmsg, received, diskLost, dropped, wireLost, cancelled>>
  BY DEF FeedDequeue, chanVars, workerVars, brokerVars, ctxVars
<1>3. Waiting' = Waiting /\ Received' = Received
  BY <1>1, <1>2 DEF Waiting, Received
<1>4. SentInv' /\ WorkerOrderInv'
  <2>1. \A w \in Workers : Holding(w)' <=> Holding(w)
    BY <1>2 DEF Holding
  <2>2. QED
    BY <1>2, <1>3, <2>1 DEF SentInv, WorkerOrderInv
<1>5. FeedOrderInv'
  BY <1>1, <1>2 DEF FeedOrderInv, Precedes
<1>6. NothingForgotten'
  BY <1>1, <1>2, <1>3 DEF NothingForgotten, Holding
<1>7. QED
  BY <1>4, <1>5, <1>6

\* A Dequeue that fails takes the front of the queue away; the order of the
\* others stays.
LEMMA DequeueFailsFlow ==
    ASSUME TypeOK, FlowInv, FeedDequeueError \/ FeedDequeuePanics
    PROVE  FlowInv'
<1> USE DEF FlowInv
<1>1. DequeueFails
  BY DEF FeedDequeueError, FeedDequeuePanics
<1>2. /\ Elements(queue) = {Head(queue)} \cup Elements(Tail(queue))
      /\ Increasing(Tail(queue))
  BY <1>1, ElementsHeadTail, IncreasingTail DEF DequeueFails, TypeOK, FeedOrderInv
<1>3. /\ queue' = Tail(queue) /\ diskLost' = diskLost \cup {Head(queue)}
      /\ fpc # "send" /\ fpc' # "send"
      /\ UNCHANGED <<sent, chan, fmsg, wpc, wmsg, received, dropped, wireLost, cancelled>>
  BY <1>1 DEF DequeueFails, FeedDequeueError, FeedDequeuePanics, feederVars, chanVars, workerVars,
              ctxVars
<1>4. Waiting' \subseteq Waiting /\ Received' = Received
  BY <1>2, <1>3 DEF Waiting, Received
<1>5. SentInv' /\ WorkerOrderInv'
  <2>1. \A w \in Workers : Holding(w)' <=> Holding(w)
    BY <1>3 DEF Holding
  <2>2. QED
    BY <1>3, <1>4, <2>1 DEF SentInv, WorkerOrderInv, Precedes
<1>6. FeedOrderInv'
  BY <1>2, <1>3 DEF FeedOrderInv, Precedes
<1>7. NothingForgotten'
  BY <1>2, <1>3, <1>4 DEF NothingForgotten, Holding
<1>8. QED
  BY <1>5, <1>6, <1>7

\* Handing the message to the channel of the current generation keeps it
\* behind everything handed over before.
LEMMA FeedSendFlow ==
    ASSUME TypeOK, NoSendOnClosed, FlowInv, FeedSend
    PROVE  FlowInv'
<1> USE DEF FlowInv
<1>1. ~chanClosed
  BY DEF NoSendOnClosed, FeedSend
<1>2. fmsg \in Msgs /\ chan \in Seq(Msgs)
  BY HeldMessages DEF FeedSend, TypeOK
<1>3. /\ chan' = Append(chan, fmsg) /\ fpc = "send" /\ fpc' = "check"
      /\ UNCHANGED <<queue, sent, wpc, wmsg, received, diskLost, dropped, wireLost, cancelled>>
  BY <1>1 DEF FeedSend, queueVars, workerVars, brokerVars, ctxVars
<1>4. Elements(chan') = Elements(chan) \cup {fmsg} /\ Increasing(chan')
  BY <1>2, <1>3, ElementsAppend, IncreasingAppend DEF FeedOrderInv, Precedes
<1>5. Waiting' = Waiting /\ Received' = Received
  BY <1>3, <1>4 DEF Waiting, Received
<1>6. SentInv' /\ WorkerOrderInv'
  <2>1. \A w \in Workers : Holding(w)' <=> Holding(w)
    BY <1>3 DEF Holding
  <2>2. QED
    BY <1>3, <1>5, <2>1 DEF SentInv, WorkerOrderInv
<1>7. FeedOrderInv'
  BY <1>3, <1>4 DEF FeedOrderInv, Precedes
<1>8. NothingForgotten'
  BY <1>3, <1>4, <1>5 DEF NothingForgotten, Holding
<1>9. QED
  BY <1>6, <1>7, <1>8

\* A feeder cancelled in its select gives the message in its hand up.
LEMMA FeedAbandonFlow ==
    ASSUME FlowInv, FeedAbandon
    PROVE  FlowInv'
<1> USE DEF FlowInv
<1>1. /\ fpc = "send" /\ fpc' = "dead" /\ dropped' = dropped \cup {fmsg} /\ cancelled # {}
      /\ UNCHANGED <<queue, sent, chan, wpc, wmsg, received, diskLost, wireLost, cancelled>>
  BY DEF FeedAbandon, queueVars, chanVars, workerVars, brokerVars, ctxVars
<1>2. Waiting' \subseteq Waiting /\ Received' = Received
  BY <1>1 DEF Waiting, Received
<1>3. SentInv'
  BY <1>1, <1>2 DEF SentInv, Holding
<1>4. FeedOrderInv'
  BY <1>1 DEF FeedOrderInv
<1>5. WorkerOrderInv'
  BY <1>1, <1>2 DEF WorkerOrderInv, Precedes, Holding
<1>6. NothingForgotten'
  BY <1>1, <1>2 DEF NothingForgotten, Holding
<1>7. QED
  BY <1>3, <1>4, <1>5, <1>6

\* A worker's receive moves the front of its channel into its hand.
LEMMA TakeMessageFlow ==
    ASSUME TypeOK, ListedInv, FlowInv, NEW w \in Workers, TakeMessage(w)
    PROVE  FlowInv'
<1> USE DEF FlowInv
<1>1. /\ Elements(chan) = {Head(chan)} \cup Elements(Tail(chan))
      /\ Increasing(Tail(chan))
      /\ \A y \in Elements(Tail(chan)) : Head(chan) < y
  BY ElementsHeadTail, IncreasingTail DEF TakeMessage, TypeOK, FeedOrderInv
<1>2. /\ wpc[w] = "select" /\ wpc'[w] = "publish" /\ wmsg'[w] = Head(chan)
      /\ \A v \in Workers : v # w => wpc'[v] = wpc[v] /\ wmsg'[v] = wmsg[v]
      /\ chan' = Tail(chan)
      /\ UNCHANGED <<queue, sent, fpc, fmsg, received, diskLost, dropped, wireLost, cancelled>>
  BY DEF TakeMessage, Goto, TypeOK, queueVars, feederVars, brokerVars, ctxVars
<1>3. Holding(w)' /\ \A v \in Workers : v # w => (Holding(v)' <=> Holding(v))
  BY <1>2 DEF Holding
<1>4. Waiting = Waiting' \cup {Head(chan)} /\ Received' = Received
  BY <1>1, <1>2 DEF Waiting, Received
<1>5. SentInv'
  BY <1>2, <1>3, <1>4 DEF SentInv
<1>6. FeedOrderInv'
  BY <1>1, <1>2 DEF FeedOrderInv, Precedes
<1>7. WorkerOrderInv'
  <2>1. \A y \in Waiting' : Head(chan) < y
    BY <1>1, <1>2 DEF Waiting, FeedOrderInv, Precedes
  <2>2. SUFFICES ASSUME Cardinality(Ids) = 1 PROVE WorkerOrderInv'
    BY <1>2 DEF WorkerOrderInv
  <2>3. \A v \in Workers : Holding(v)' => v = w
    BY <1>2, <1>3, <2>2, OneWorker DEF Holding, Alive
  <2>4. \A r \in Received : r <= Head(chan)
    BY <1>4, <2>2, FlowNumbers DEF WorkerOrderInv, Precedes
  <2>5. QED
    BY <1>2, <1>4, <2>1, <2>2, <2>3, <2>4 DEF WorkerOrderInv, Precedes
<1>8. NothingForgotten'
  <2>1. SUFFICES ASSUME NEW m \in 1..sent,
                        m \in Elements(chan) \/ \E v \in Workers : Holding(v) /\ wmsg[v] = m
                 PROVE  \/ m \in Elements(chan')
                        \/ \E v \in Workers : Holding(v)' /\ wmsg'[v] = m
    BY <1>2, <1>4 DEF NothingForgotten
  <2>2. CASE m \in Elements(chan)
    BY <1>1, <1>2, <1>3, <2>2
  <2>3. ASSUME NEW v \in Workers, Holding(v), wmsg[v] = m
        PROVE  Holding(v)' /\ wmsg'[v] = m
    <3>1. v # w
      BY <1>2, <2>3 DEF Holding
    <3>2. QED
      BY <1>2, <1>3, <2>3, <3>1
  <2>4. QED
    BY <2>1, <2>2, <2>3
<1>9. QED
  BY <1>5, <1>6, <1>7, <1>8

\* A worker gives up its message: its context is cancelled.
LEMMA GiveUpFlow ==
    ASSUME TypeOK, FlowInv, NEW w \in Workers, Cancelled(w), Holding(w), GiveUp(w),
           UNCHANGED <<queueVars, chanVars, ctxVars, feederVars, faults, received, diskLost, wireLost>>
    PROVE  FlowInv'
<1> USE DEF FlowInv
<1>1. /\ wpc'[w] = "select" /\ dropped' = dropped \cup {wmsg[w]} /\ cancelled # {}
      /\ \A v \in Workers : v # w => wpc'[v] = wpc[v] /\ wmsg'[v] = wmsg[v]
      /\ UNCHANGED <<queue, sent, chan, fpc, fmsg, received, diskLost, wireLost, cancelled>>
  BY DEF GiveUp, BackToSelect, Goto, Cancelled, TypeOK, queueVars, chanVars, ctxVars, feederVars
<1>2. ~Holding(w)' /\ \A v \in Workers : v # w => (Holding(v)' <=> Holding(v))
  BY <1>1 DEF Holding
<1>3. Waiting' = Waiting /\ Received' = Received
  BY <1>1 DEF Waiting, Received
<1>4. SentInv'
  BY <1>1, <1>2, <1>3 DEF SentInv
<1>5. FeedOrderInv'
  BY <1>1 DEF FeedOrderInv
<1>6. WorkerOrderInv'
  BY <1>1, <1>2, <1>3 DEF WorkerOrderInv
<1>7. NothingForgotten'
  BY <1>1, <1>2, <1>3 DEF NothingForgotten
<1>8. QED
  BY <1>4, <1>5, <1>6, <1>7

\* The broker receives the message of a worker, who may keep it.
LEMMA ReceivedFlow ==
    ASSUME TypeOK, FlowInv, NEW w \in Workers, Holding(w),
           received' = Append(received, wmsg[w]),
           \A v \in Workers : Holding(v)' => Holding(v) /\ wmsg'[v] = wmsg[v],
           \A v \in Workers : v # w /\ Holding(v) => Holding(v)',
           ListedInv,
           UNCHANGED <<queueVars, chanVars, ctxVars, feederVars, diskLost, dropped, wireLost>>
    PROVE  FlowInv'
<1> USE DEF FlowInv
<1>1. UNCHANGED <<queue, sent, chan, fpc, fmsg, diskLost, dropped, wireLost, cancelled>>
  BY DEF queueVars, chanVars, ctxVars, feederVars
<1>2. wmsg[w] \in Msgs /\ wmsg[w] \in 1..sent /\ received \in Seq(Msgs)
  BY HeldMessages DEF SentInv, TypeOK
<1>3. Waiting' = Waiting /\ Received' = Received \cup {wmsg[w]}
  BY <1>1, <1>2, ElementsAppend DEF Waiting, Received
<1>4. SentInv'
  BY <1>1, <1>2, <1>3 DEF SentInv
<1>5. FeedOrderInv'
  BY <1>1 DEF FeedOrderInv
<1>6. WorkerOrderInv'
  <2>1. SUFFICES ASSUME Cardinality(Ids) = 1 PROVE WorkerOrderInv'
    BY DEF WorkerOrderInv
  <2>2. NonDecreasing(received')
    <3>1. Msgs \in SUBSET Int
      BY DEF Msgs
    <3>2. QED
      BY <1>2, <2>1, <3>1, NonDecreasingAppend DEF WorkerOrderInv, Received
  <2>3. \A v \in Workers : Holding(v)' => v = w
    BY <2>1, OneWorker DEF Holding, Alive
  <2>4. QED
    BY <1>2, <1>3, <2>1, <2>2, <2>3 DEF WorkerOrderInv, Precedes
<1>7. NothingForgotten'
  <2>1. \A v \in Workers : v # w /\ Holding(v) => Holding(v)' /\ wmsg'[v] = wmsg[v]
    OBVIOUS
  <2>2. QED
    BY <1>1, <1>3, <2>1 DEF NothingForgotten
<1>8. QED
  BY <1>4, <1>5, <1>6, <1>7

\* A Push that the broker confirms makes the worker's message received.
LEMMA PushFlow ==
    ASSUME TypeOK, ListedInv, FlowInv, NEW w \in Workers, PushOk(w) \/ PushFails(w)
    PROVE  FlowInv'
<1>1. /\ Holding(w)
      /\ UNCHANGED <<queueVars, chanVars, ctxVars, feederVars, diskLost, dropped>>
  BY DEF PushOk, PushFails, Holding
<1>2. ASSUME BackToSelect(w)
      PROVE  /\ ~Holding(w)'
             /\ \A v \in Workers : v # w => (Holding(v)' <=> Holding(v)) /\ wmsg'[v] = wmsg[v]
  BY <1>2 DEF BackToSelect, Goto, Holding, TypeOK
<1>3. CASE PushOk(w)
  BY <1>1, <1>2, <1>3, ReceivedFlow DEF PushOk
<1>4. CASE PushFails(w) /\ UNCHANGED received
  <2>1. wireLost' = wireLost \cup {wmsg[w]} /\ BackToSelect(w)
    <3>1. received # Append(received, wmsg[w])
      BY <1>1, HeldMessages DEF TypeOK, FlowInv
    <3>2. QED
      BY <1>4, <3>1 DEF PushFails
  <2>2. UNCHANGED <<queue, sent, chan, fpc, fmsg, received, diskLost, dropped, cancelled>>
    BY <1>1, <1>4 DEF queueVars, chanVars, ctxVars, feederVars
  <2>3. Waiting' = Waiting /\ Received' = Received
    BY <2>2 DEF Waiting, Received
  <2>4. SentInv'
    BY <1>2, <2>1, <2>2, <2>3 DEF SentInv, FlowInv
  <2>5. FeedOrderInv'
    BY <2>2 DEF FeedOrderInv, FlowInv
  <2>6. WorkerOrderInv'
    BY <1>2, <2>1, <2>2, <2>3 DEF WorkerOrderInv, FlowInv
  <2>7. NothingForgotten'
    BY <1>2, <2>1, <2>2, <2>3 DEF NothingForgotten, FlowInv
  <2>8. QED
    BY <2>4, <2>5, <2>6, <2>7 DEF FlowInv
<1>5. CASE PushFails(w) /\ received' = Append(received, wmsg[w])
  <2>1. UNCHANGED <<wpc, wmsg, wireLost>>
    <3>1. received # Append(received, wmsg[w])
      BY <1>1, HeldMessages DEF TypeOK, FlowInv
    <3>2. QED
      BY <1>5, <3>1 DEF PushFails
  <2>2. \A v \in Workers : Holding(v)' <=> Holding(v)
    BY <2>1 DEF Holding
  <2>3. QED
    BY <1>1, <1>5, <2>1, <2>2, ReceivedFlow
<1>6. QED
  BY <1>3, <1>4, <1>5 DEF PushFails

-----------------------------------------------------------------------------
(* All steps.                                                              *)

\* The messages under every other step.
LEMMA FlowStep ==
    ASSUME TypeOK, ListedInv, NoSendOnClosed, FlowInv, [Next]_vars
    PROVE  FlowInv'
<1>1. CASE Enqueue
  BY <1>1, EnqueueFlow
<1>2. CASE \/ FeedDequeue \/ FeedDequeueError \/ FeedDequeuePanics
           \/ FeedSend \/ FeedAbandon
  BY <1>2, FeedDequeueFlow, DequeueFailsFlow, FeedSendFlow, FeedAbandonFlow
<1>3. CASE FeedCheck
  BY <1>3, FlowFrame DEF FeedCheck, Holding, queueVars, chanVars, ctxVars, workerVars, brokerVars
<1>4. ASSUME NEW w \in Workers, TakeMessage(w)
      PROVE  FlowInv'
  BY <1>4, TakeMessageFlow
<1>5. ASSUME NEW w \in Workers, TakeNil(w) \/ WorkerExit(w)
      PROVE  FlowInv'
  <2>1. \A v \in Workers : Holding(v)' <=> Holding(v)
    BY <1>5 DEF TakeNil, WorkerExit, Goto, Holding, TypeOK, workerVars
  <2>2. QED
    BY <1>5, <2>1, FlowFrame DEF TakeNil, WorkerExit, queueVars, chanVars, ctxVars, feederVars,
                                 workerVars, brokerVars
<1>6. ASSUME NEW w \in Workers, PublishTop(w) \/ Backoff(w)
      PROVE  FlowInv'
  <2>1. /\ Holding(w)
        /\ UNCHANGED <<queueVars, chanVars, ctxVars, feederVars, faults, received, diskLost, wireLost>>
    BY <1>6 DEF PublishTop, Backoff, Holding
  <2>2. CASE Cancelled(w) /\ GiveUp(w)
    BY <2>1, <2>2, GiveUpFlow
  <2>3. CASE UNCHANGED <<wmsg, dropped>> /\ \E l \in {"push", "backoff", "publish"} : Goto(w, l)
    <3>1. \A v \in Workers : Holding(v)' <=> Holding(v)
      BY <2>1, <2>3 DEF Holding, Goto, TypeOK
    <3>2. QED
      BY <2>1, <2>3, <3>1, FlowFrame DEF queueVars, chanVars, ctxVars, feederVars
  <2>4. QED
    BY <1>6, <2>2, <2>3 DEF PublishTop, Backoff
<1>7. ASSUME NEW w \in Workers, PushOk(w) \/ PushFails(w)
      PROVE  FlowInv'
  BY <1>7, PushFlow
<1>8. CASE TokenWritten \/ CheckTokenFile
  <2>1. CASE TokenWritten \/ WatcherReturns \/ TokenTick \/ TokenFileFatal \/ RestartSwap
    BY <2>1, FlowFrame DEF TokenWritten, WatcherReturns, TokenTick, TokenFileFatal, RestartSwap,
                           Holding, queueVars, chanVars, ctxVars, feederVars, workerVars,
                           brokerVars
  <2>2. ASSUME NEW i \in Ids, RestartWorker(i)
        PROVE  FlowInv'
    <3>1. <<ctx, i>> \in Workers /\ ~Alive(<<ctx, i>>)
      BY <2>2 DEF Workers, TypeOK, RestartWorker, ListedInv
    <3>2. \A v \in Workers : Holding(v)' <=> Holding(v)
      BY <2>2, <3>1 DEF RestartWorker, Goto, Holding, Alive, TypeOK
    <3>3. QED
      BY <2>2, <3>2, FlowFrame DEF RestartWorker, queueVars, chanVars, feederVars, brokerVars
  <2>3. QED
    BY <1>8, <2>1, <2>2 DEF CheckTokenFile, Rotate
<1>9. CASE Stop \/ UNCHANGED vars
  BY <1>9, FlowFrame DEF Stop, MainWakes, StopCancel, StopList, StopWorkers, StopClose, Holding,
                         vars, queueVars, chanVars, ctxVars, feederVars, workerVars, brokerVars
<1>10. ASSUME NEW w \in Workers, NEW to \in Links, LinkChanges(w, to)
       PROVE  FlowInv'
  BY <1>10, FlowFrame DEF LinkChanges, Holding, queueVars, chanVars, ctxVars, feederVars
<1>11. ASSUME NEW t \in Gens, TokenExpires(t)
       PROVE  FlowInv'
  BY <1>11, FlowFrame DEF TokenExpires, Holding, queueVars, chanVars, ctxVars, feederVars,
                          workerVars, brokerVars
<1>12. QED
  BY <1>1, <1>2, <1>3, <1>4, <1>5, <1>6, <1>7, <1>8, <1>9, <1>10, <1>11 DEF Next, Feed, Work

\* The invariant holds when StartAMQPPool returns for the first time.
LEMMA InitIInv == Init => IInv
<1> SUFFICES ASSUME Init PROVE IInv
  OBVIOUS
<1>1. <<>> \in Seq(Msgs) /\ Elements(<<>>) = {} /\ Increasing(<<>>) /\ NonDecreasing(<<>>)
  BY DEF Elements, Increasing, NonDecreasing
<1>2. TypeOK
  <2>1. 0 \in Gens /\ 0 \in 0..MaxMsgs /\ 0 \in 0..MaxFaults /\ {0} \X Ids \subseteq Workers
    BY PoolAssumption DEF Gens, Workers
  <2>2. QED
    BY <1>1, <2>1 DEF Init, TypeOK, Links
<1>3. RotationInv /\ NoSendOnClosed
  BY DEF Init, RotationInv, NoSendOnClosed
<1>4. ListedInv
  BY DEF Init, ListedInv, Alive, Gen, Workers
<1>5. FlowInv
  <2>1. Waiting = {} /\ Received = {} /\ \A w \in Workers : ~Holding(w)
    BY <1>1 DEF Init, Waiting, Received, Holding
  <2>2. QED
    BY <1>1, <2>1 DEF Init, FlowInv, SentInv, FeedOrderInv, WorkerOrderInv, NothingForgotten,
                      Precedes
<1>6. QED
  BY <1>2, <1>3, <1>4, <1>5 DEF IInv

\* The invariant is inductive.
LEMMA NextIInv == IInv /\ [Next]_vars => IInv'
<1> SUFFICES ASSUME IInv, [Next]_vars PROVE IInv'
  OBVIOUS
<1> USE DEF IInv
<1>1. TypeOK'
  BY TypeStep DEF FlowInv
<1>2. RotationInv'
  BY RotationStep
<1>3. ListedInv'
  BY ListedStep
<1>4. NoSendOnClosed'
  BY ClosedStep
<1>5. FlowInv'
  BY FlowStep
<1>6. QED
  BY <1>1, <1>2, <1>3, <1>4, <1>5

-----------------------------------------------------------------------------
(* The theorems.                                                           *)

\* The invariant holds in every state.
THEOREM PoolInvariant == Spec => []IInv
BY InitIInv, NextIInv, PTL DEF Spec

\* Every variable of the pool keeps its type; in particular there is a context
\* for every token that Restart can meet.
THEOREM PoolTypes == Spec => []TypeOK
<1>1. IInv => TypeOK
  BY DEF IInv
<1>2. QED
  BY <1>1, PoolInvariant, PTL

\* Two workers that are alive belong to the same context, however often Restart
\* runs and whatever Stop does beside it (Restart's wait for the old workers).
THEOREM PoolOneGeneration == Spec => []OneGeneration
<1>1. IInv => OneGeneration
  BY DEF IInv, ListedInv, OneGeneration
<1>2. QED
  BY <1>1, PoolInvariant, PTL

\* The feeder has ended when Stop closes the channel, and stays so (Stop's
\* p.wg.Wait).
THEOREM PoolNoSendOnClosed == Spec => []NoSendOnClosed
<1>1. IInv => NoSendOnClosed
  BY DEF IInv
<1>2. QED
  BY <1>1, PoolInvariant, PTL

\* No message disappears between the queue and the broker, with any number of
\* workers (feedMessages, publishMessage, Restart).
THEOREM PoolNothingForgotten == Spec => []NothingForgotten
<1>1. IInv => NothingForgotten
  BY DEF IInv, FlowInv
<1>2. QED
  BY <1>1, PoolInvariant, PTL

\* With one worker id the broker receives the messages in order, over any
\* number of rotations and failures (StartAMQP's note on a single worker).
THEOREM PoolPublishedInOrder == Spec => []PublishedInOrder
<1>1. IInv => PublishedInOrder
  BY DEF IInv, FlowInv, WorkerOrderInv, PublishedInOrder
<1>2. QED
  BY <1>1, PoolInvariant, PTL
=============================================================================
