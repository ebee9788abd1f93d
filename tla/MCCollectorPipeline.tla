------------------------ MODULE MCCollectorPipeline ------------------------
(***************************************************************************)
(* One packet of every kind, and file closes for every route.              *)
(***************************************************************************)
EXTENDS CollectorPipeline

MCFeed ==
    << [kind |-> "close", vo |-> "cms", path |-> "/other"],
       [kind |-> "cache", vo |-> "", path |-> "/store"],
       [kind |-> "close", vo |-> "atlas", path |-> "/other"],
       [kind |-> "tpc", vo |-> "", path |-> "/other"],
       [kind |-> "close", vo |-> "test", path |-> "/store"],
       [kind |-> "malformed", vo |-> "", path |-> ""],
       [kind |-> "state", vo |-> "", path |-> ""] >>
=============================================================================
