---------------------------- MODULE SessionLink ----------------------------
(***************************************************************************)
(* A session as the worker that owns it sees it: still connecting, ready,  *)
(* broken (isReady still says ready, but publishing fails) or hung in      *)
(* handleReInit on a dead connection.  AmqpSession is checked to move only *)
(* along these edges, WorkerPool uses nothing else of a session.           *)
(***************************************************************************)

Links == {"connecting", "ready", "broken", "hung"}

LinkSteps ==
    { <<"connecting", "ready">>, <<"connecting", "hung">>,
      <<"ready", "broken">>,
      <<"broken", "connecting">>, <<"broken", "hung">> }
=============================================================================
