---------------------------- MODULE MCCorrelator ----------------------------
(***************************************************************************)
(* Two servers that give the same ids to different users.  On s1 the       *)
(* correlator's own parser reads doe as john with pid 0, which nobody is,  *)
(* and the key of a user writes wrapped, a john whose pid is 2^32, as pid  *)
(* 0 too.  Of the users of s2 it knows alice and cannot read bob.          *)
(***************************************************************************)
EXTENDS Correlator, TLC

Text == INSTANCE InfoText

CONSTANTS s1, s2, alice, bob, doe, john, wrapped, v1, v2

\* alice.1:1@h, bob@lab.1:1@h, john.doe.1:1@h and so on; the two digits of wrapped
\* stand for its pid of 33 bits.
Spelling ==
    LET spell(name, pid) == [protocol |-> <<>>, username |-> name, pid |-> pid,
                             sid |-> <<"1">>, host |-> <<"h">>]
    IN  alice :> spell(<<"alice">>, <<"1">>)
        @@ bob :> spell(<<"bob", "@", "lab">>, <<"1">>)
        @@ doe :> spell(<<"john", ".", "doe">>, <<"1">>)
        @@ john :> spell(<<"john">>, <<"0">>)
        @@ wrapped :> spell(<<"john">>, <<"1", "0">>)

MCReadAs == [u \in UserInfos |-> IF u = bob THEN None ELSE IF u = doe THEN john ELSE u]

ASSUME ReadAsTheSimpleParserDoes ==
    \A u \in UserInfos :
        Text!ParseUserInfoSimple(Text!UserText(Spelling[u])) =
            IF MCReadAs[u] = None THEN Text!NoUser ELSE Spelling[MCReadAs[u]]

MCKeyInfo == [u \in UserInfos |-> IF u = wrapped THEN john ELSE u]

MCOwner ==
    [s \in Servers |->
        [i \in 1..3 |-> IF s = s1 THEN (IF i = 2 THEN wrapped ELSE doe)
                        ELSE (IF i = 2 THEN bob ELSE alice)]]

\* What packets say of a user is compared and nothing else.
Symmetry == Permutations(Values)
=============================================================================
