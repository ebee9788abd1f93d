---------------------------- MODULE AmqpSession ----------------------------
(***************************************************************************)
(* One AMQP session of amqp.go: the goroutine of handleReconnect and       *)
(* handleReInit that keeps a connection and a channel open, and the        *)
(* publishing worker that calls Push and finally Close.  They share        *)
(* isReady and the channel done without a lock.                            *)
(*                                                                         *)
(* The library github.com/streadway/amqp is modelled by what the session   *)
(* sees of it: a connection or a channel is open, has died ("dead") or was *)
(* closed on request ("shut"), and its close notification stays pending    *)
(* until somebody receives it.                                             *)
(***************************************************************************)
EXTENDS Integers, Sequences, FiniteSets, OrderedSeqs, SessionLink

CONSTANTS
    MaxMsgs,    \* bound on the messages the worker publishes
    MaxFaults   \* bound on the connection and channel failures

ASSUME SessionBounds == MaxMsgs \in Nat /\ MaxFaults \in Nat

VARIABLES
    rpc,        \* where the goroutine of handleReconnect is
    isReady,    \* session.isReady
    done,       \* session.done is closed
    conn,       \* session.connection
    chan,       \* session.channel
    connNote,   \* notifyConnClose has something to receive
    chanNote,   \* notifyChanClose has something to receive
    wpc,        \* where the worker is
    msg,        \* the message the worker publishes (0: none yet)
    cancelled,  \* the worker's context is cancelled
    wire,       \* written to the connection, not yet at the broker
    published,  \* history: Push returned nil for these
    received,   \* history: what the broker got, in order
    faults      \* failures so far

session == <<rpc, isReady, done, conn, chan, connNote, chanNote>>
worker == <<wpc, msg, cancelled, published>>
network == <<wire, received, faults>>
vars == <<session, worker, network>>

LinkStates == {"none", "open", "dead", "shut"}

-----------------------------------------------------------------------------
(* The broker and the library (external).                                  *)

\* The connection is lost; what was still on the wire is lost with it.
ConnectionDies ==
    /\ conn = "open"
    /\ faults < MaxFaults
    /\ faults' = faults + 1
    /\ conn' = "dead"
    /\ chan' = IF chan = "open" THEN "dead" ELSE chan
    /\ connNote' = TRUE
    /\ wire' = <<>>
    /\ UNCHANGED <<rpc, isReady, done, chanNote, worker, received>>

\* The broker closes the channel (an unknown exchange, say).
ChannelDies ==
    /\ chan = "open"
    /\ conn = "open"
    /\ faults < MaxFaults
    /\ faults' = faults + 1
    /\ chan' = "dead"
    /\ chanNote' = TRUE
    /\ wire' = <<>>
    /\ UNCHANGED <<rpc, isReady, done, conn, connNote, worker, received>>

BrokerReceives ==
    /\ conn = "open"
    /\ wire # <<>>
    /\ received' = Append(received, Head(wire))
    /\ wire' = Tail(wire)
    /\ UNCHANGED <<session, worker, faults>>

-----------------------------------------------------------------------------
(* handleReconnect, connect, handleReInit and init.                        *)

ReconnectTop ==
    /\ rpc = "top"
    /\ isReady' = FALSE
    /\ rpc' = "dial"
    /\ UNCHANGED <<done, conn, chan, connNote, chanNote, worker, network>>

\* connect and changeConnection: a new connection with its own notification.
ConnectOk ==
    /\ rpc = "dial"
    /\ conn' = "open"
    /\ connNote' = FALSE
    /\ wire' = <<>>
    /\ rpc' = "reinit"
    /\ UNCHANGED <<isReady, done, chan, chanNote, worker, received, faults>>

\* Mutant: a failed dial ends the goroutine.
ConnectFailsForGood ==
    /\ rpc = "dial"
    /\ rpc' = "returned"
    /\ UNCHANGED <<isReady, done, conn, chan, connNote, chanNote, worker, network>>

ConnectFails ==
    /\ rpc = "dial"
    /\ rpc' = "dialwait"
    /\ UNCHANGED <<isReady, done, conn, chan, connNote, chanNote, worker, network>>

ReconnectDelay ==
    /\ rpc = "dialwait"
    /\ \/ rpc' = "top"
       \/ done /\ rpc' = "returned"
    /\ UNCHANGED <<isReady, done, conn, chan, connNote, chanNote, worker, network>>

\* Mutant: isReady keeps its value while the channel is replaced.
ReInitTopStillReady ==
    /\ rpc = "reinit"
    /\ rpc' = "init"
    /\ UNCHANGED <<isReady, done, conn, chan, connNote, chanNote, worker, network>>

ReInitTop ==
    /\ rpc = "reinit"
    /\ isReady' = FALSE
    /\ rpc' = "init"
    /\ UNCHANGED <<done, conn, chan, connNote, chanNote, worker, network>>

\* conn.Channel() and Confirm succeed only on a live connection;
\* changeChannel installs the new channel before isReady is set.
InitOk ==
    /\ rpc = "init"
    /\ conn = "open"
    /\ chan' = "open"
    /\ chanNote' = FALSE
    /\ isReady' = TRUE
    /\ rpc' = "watch"
    /\ UNCHANGED <<done, conn, connNote, worker, network>>

InitFails ==
    /\ rpc = "init"
    /\ rpc' = "initwait"
    /\ UNCHANGED <<isReady, done, conn, chan, connNote, chanNote, worker, network>>

ReInitDelay ==
    /\ rpc = "initwait"
    /\ \/ rpc' = "reinit"
       \/ done /\ rpc' = "returned"
    /\ UNCHANGED <<isReady, done, conn, chan, connNote, chanNote, worker, network>>

\* Mutant: the connection's notification is not listened to.
WatchChannelOnly ==
    /\ rpc = "watch"
    /\ \/ done /\ rpc' = "returned" /\ UNCHANGED chanNote
       \/ chanNote /\ rpc' = "reinit" /\ chanNote' = FALSE
    /\ UNCHANGED <<isReady, done, conn, chan, connNote, worker, network>>

\* The select over done, notifyConnClose and notifyChanClose.
Watch ==
    /\ rpc = "watch"
    /\ \/ done /\ rpc' = "returned" /\ UNCHANGED <<connNote, chanNote>>
       \/ connNote /\ rpc' = "top" /\ connNote' = FALSE /\ UNCHANGED chanNote
       \/ chanNote /\ rpc' = "reinit" /\ chanNote' = FALSE /\ UNCHANGED connNote
    /\ UNCHANGED <<isReady, done, conn, chan, worker, network>>

Reconnecting ==
    \/ ReconnectTop
    \/ ConnectOk
    \/ ConnectFails
    \/ ReconnectDelay
    \/ ReInitTop
    \/ InitOk
    \/ InitFails
    \/ ReInitDelay
    \/ Watch

-----------------------------------------------------------------------------
(* PublishWorker.run and publishMessage around Push.                       *)

TakeMessage ==
    /\ wpc = "select"
    /\ msg < MaxMsgs
    /\ msg' = msg + 1
    /\ wpc' = "publish"
    /\ UNCHANGED <<cancelled, published, session, network>>

\* Push starts with a look at isReady, publishMessage with one at the context.
PushStart ==
    /\ wpc = "publish"
    /\ ~cancelled
    /\ wpc' = IF isReady THEN "push" ELSE "backoff"
    /\ UNCHANGED <<msg, cancelled, published, session, network>>

Backoff ==
    /\ wpc = "backoff"
    /\ wpc' = "publish"
    /\ UNCHANGED <<msg, cancelled, published, session, network>>

\* Mutant: the loop of Push is not left after a success.
UnsafePushAgain ==
    /\ wpc = "push"
    /\ isReady
    /\ chan = "open"
    /\ conn = "open"
    /\ wire' = Append(wire, msg)
    /\ published' = published \cup {msg}
    /\ Len(wire) + Len(received) < 4
    /\ UNCHANGED <<wpc, msg, cancelled, session, received, faults>>

\* UnsafePush writes to the connection; no confirmation is awaited.
UnsafePushOk ==
    /\ wpc = "push"
    /\ isReady
    /\ chan = "open"
    /\ conn = "open"
    /\ wire' = Append(wire, msg)
    /\ published' = published \cup {msg}
    /\ wpc' = "select"
    /\ UNCHANGED <<msg, cancelled, session, received, faults>>

\* The write fails although the broker has the message: Push sends it again.
UnsafePushHalfFails ==
    /\ wpc = "push"
    /\ isReady
    /\ chan = "open"
    /\ conn = "open"
    /\ faults < MaxFaults
    /\ faults' = faults + 1
    /\ conn' = "dead"
    /\ chan' = "dead"
    /\ connNote' = TRUE
    /\ received' = received \o wire \o <<msg>>
    /\ wire' = <<>>
    /\ UNCHANGED <<rpc, isReady, done, chanNote, worker>>

Cancel ==
    /\ ~cancelled
    /\ cancelled' = TRUE
    /\ UNCHANGED <<wpc, msg, published, session, network>>

\* The context is looked at between attempts, not inside Push.
WorkerStops ==
    /\ cancelled
    /\ wpc \in {"select", "publish", "backoff"}
    /\ wpc' = "close"
    /\ UNCHANGED <<msg, cancelled, published, session, network>>

-----------------------------------------------------------------------------
(* Close, deferred by run.                                                 *)

\* A session that is not ready is left as it is, done stays open.
CloseStart ==
    /\ wpc = "close"
    /\ IF isReady
       THEN done' = TRUE /\ wpc' = "closechan"
       ELSE done' = done /\ wpc' = "exited"
    /\ UNCHANGED <<msg, cancelled, published, rpc, isReady, conn, chan, connNote,
                   chanNote, network>>

\* channel.Close() waits for the broker, which by then has read the wire.
CloseChannel ==
    /\ wpc = "closechan"
    /\ \/ /\ chan = "open" /\ conn = "open" /\ wire = <<>>
          /\ chan' = "shut"
          /\ chanNote' = TRUE
          /\ wpc' = "closeconn"
       \/ /\ chan # "open" \/ conn # "open"
          /\ wpc' = "exited"
          /\ UNCHANGED <<chan, chanNote>>
    /\ UNCHANGED <<msg, cancelled, published, rpc, isReady, done, conn, connNote, network>>

CloseConnection ==
    /\ wpc = "closeconn"
    /\ \/ /\ conn = "open"
          /\ conn' = "shut"
          /\ chan' = IF chan = "open" THEN "shut" ELSE chan
          /\ connNote' = TRUE
          /\ isReady' = FALSE
       \/ /\ conn # "open"
          /\ UNCHANGED <<conn, chan, connNote, isReady>>
    /\ wpc' = "exited"
    /\ UNCHANGED <<msg, cancelled, published, rpc, done, chanNote, network>>

Working ==
    \/ TakeMessage
    \/ PushStart
    \/ Backoff
    \/ UnsafePushOk
    \/ UnsafePushHalfFails
    \/ WorkerStops
    \/ CloseStart
    \/ CloseChannel
    \/ CloseConnection

-----------------------------------------------------------------------------
Init ==
    /\ rpc = "top" /\ isReady = FALSE /\ done = FALSE
    /\ conn = "none" /\ chan = "none"
    /\ connNote = FALSE /\ chanNote = FALSE
    /\ wpc = "select" /\ msg = 0 /\ cancelled = FALSE
    /\ wire = <<>> /\ published = {} /\ received = <<>> /\ faults = 0

Next ==
    \/ ConnectionDies
    \/ ChannelDies
    \/ BrokerReceives
    \/ Reconnecting
    \/ Working
    \/ Cancel

Spec == Init /\ [][Next]_vars

\* The goroutines run; a broker that is asked often enough answers; what it
\* has been sent it reads.
FairSpec ==
    /\ Spec
    /\ WF_vars(Reconnecting)
    /\ SF_vars(ConnectOk)
    /\ SF_vars(InitOk)
    /\ WF_vars(BrokerReceives)
    /\ WF_vars(Working)
    /\ SF_vars(UnsafePushOk)

-----------------------------------------------------------------------------
(* Properties.                                                             *)

TypeOK ==
    /\ rpc \in {"top", "dial", "dialwait", "reinit", "init", "initwait", "watch", "returned"}
    /\ isReady \in BOOLEAN /\ done \in BOOLEAN /\ cancelled \in BOOLEAN
    /\ connNote \in BOOLEAN /\ chanNote \in BOOLEAN
    /\ conn \in LinkStates /\ chan \in LinkStates
    /\ wpc \in {"select", "publish", "backoff", "push", "close", "closechan", "closeconn", "exited"}
    /\ msg \in 0..MaxMsgs
    /\ wire \in Seq(1..MaxMsgs) /\ received \in Seq(1..MaxMsgs)
    /\ published \subseteq 1..MaxMsgs
    /\ faults \in 0..MaxFaults

Written == received \o wire
WrittenSet == Elements(Written)

\* Push asks for no confirmation, so messages get lost and repeated; but it
\* takes a failure for each repetition, and without any every message that the
\* worker is done with is at the broker or on its way, in order.
FaultsExplainDelivery ==
    /\ Repeats(Written) <= faults
    /\ NonDecreasing(Written)
    /\ faults = 0 /\ ~cancelled => 1..(msg - 1) \subseteq WrittenSet
    /\ faults = 0 => published \subseteq WrittenSet

\* handleReInit works on a connection that is gone: opening a channel on it
\* fails for ever, and the close notification is not listened to here.
Hung == rpc \in {"reinit", "init", "initwait"} /\ conn # "open"

\* Publish is never called on a nil channel: isReady, read by the worker
\* without a lock, is set only after a channel was installed.
ReadyHasChannel == isReady => chan # "none"

\* A session that is not ready becomes ready again, unless it was closed or
\* hangs in handleReInit: there is no other way to stay disconnected.
RecoversUnlessHung ==
    ~isReady ~> (isReady \/ Hung \/ (done /\ rpc = "returned"))

Link ==
    CASE Hung -> "hung"
      [] ~Hung /\ ~isReady -> "connecting"
      [] ~Hung /\ isReady /\ chan = "open" /\ conn = "open" -> "ready"
      [] OTHER -> "broken"

\* Until it is closed, a session moves only along the edges of SessionLink:
\* it never becomes usable without passing through a fresh connection attempt,
\* and a hung session stays hung.
FollowsSessionLink ==
    [][wpc' \in {"select", "publish", "backoff", "push"} /\ Link' # Link
          => <<Link, Link'>> \in LinkSteps]_vars

\* Push, which does not look at the context, returns unless the session hangs.
PushReturnsUnlessHung == wpc = "push" ~> (wpc # "push" \/ Hung)
=============================================================================
