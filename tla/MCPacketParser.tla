--------------------------- MODULE MCPacketParser ---------------------------
(* Datagrams for PacketParser: f-streams as an XRootD server lays them out, *)
(* f-streams of arbitrary bytes, 'u' packets of regular users, and packets  *)
(* of every type and of short, right and wrong length.                      *)
EXTENDS PacketParser

CONSTANTS MaxRecords, MaxWords

Plain(code, len, plen) ==
    [code |-> code, len |-> len, plen |-> plen, text |-> <<>>, json |-> TRUE,
     at |-> <<>>, regular |-> FALSE, sent |-> <<>>]

\* What a server writes: an open with or without user and name, a close with
\* or without operations and sums of squares, the rest.
ServerRecords ==
    {[type |-> "open", size |-> 4, flag |-> FALSE, lfn |-> 0]}
    \cup {[type |-> "open", size |-> 5 + n, flag |-> TRUE, lfn |-> n] : n \in 1..2}
    \cup {[type |-> "close", size |-> n, flag |-> n > 8, lfn |-> 0] : n \in {8, 20, 28}}
    \cup {[type |-> t, size |-> n, flag |-> FALSE, lfn |-> 0] :
            <<t, n>> \in {<<"disc", 2>>, <<"xfr", 8>>, <<"time", 6>>}}

TOD == [type |-> "time", size |-> 6, flag |-> FALSE, lfn |-> 0]
Offset(recs, i) == FoldLeft(+, 0, [j \in 1..(i - 1) |-> recs[j].size])

FStream(recs) ==
    LET all == <<TOD>> \o recs
        len == 2 + Offset(all, Len(all) + 1)
        index == [p \in {Offset(all, i) : i \in DOMAIN all} |->
                    CHOOSE i \in DOMAIN all : Offset(all, i) = p]
        Found(i) == [type |-> all[i].type, at |-> Offset(all, i), size |-> all[i].size,
                     ops |-> all[i].type = "close" /\ all[i].flag,
                     user |-> all[i].type = "open" /\ all[i].flag, lfn |-> all[i].lfn]
    IN  [Plain("f", len, len) EXCEPT
            !.at = [p \in DOMAIN index |->
                     [type |-> all[index[p]].type, size |-> all[index[p]].size,
                      flag |-> all[index[p]].flag]],
            !.regular = TRUE,
            !.sent = [p \in {Offset(all, i) : i \in 2..(Len(all) + 1)} |->
                        LET kept == SelectSeq([i \in DOMAIN all |-> i],
                                LAMBDA i : i > 1 /\ all[i].type # "xfr" /\ Offset(all, i) < p)
                        IN  [i \in DOMAIN kept |-> Found(kept[i])]]]

FStreams == {FStream(r) : r \in UNION {[1..n -> ServerRecords] : n \in 0..MaxRecords}}

Pairs == {<<k, v>> : k \in {"n", "o", "unknown"}, v \in {<<>>, <<"a">>, <<"a", "=", "1">>}}

\* A user as the server names it, with the fields behind.
UserPacket(code, user, pairs) ==
    LET texts == [i \in DOMAIN pairs |-> <<"&", pairs[i][1], "=">> \o pairs[i][2]]
        Starts(i) == Len(FlattenSeq(SubSeq(texts, 1, i - 1))) + 2
        index == [p \in {Starts(i) : i \in DOMAIN pairs} |->
                    CHOOSE i \in DOMAIN pairs : Starts(i) = p]
    IN  [Plain(code, 9, 9) EXCEPT
            !.text = UserText(user) \o <<Newline>> \o FlattenSeq(texts),
            !.regular = TRUE,
            !.sent = [user |-> user,
                      fields |-> [p \in DOMAIN index |->
                                    [key |-> pairs[index[p]][1], value |-> pairs[index[p]][2]]]]]

Users == [protocol : {<<>>, <<"x">>}, username : {<<"a">>, <<"a", ".", "b">>, <<"a", "@", "b">>},
          pid : {<<"1">>, <<"1", "0">>}, sid : {<<"0">>},
          host : {<<"h">>, <<"h", ".", "h">>, <<"[", ":", ":", "]">>}]

Somebody == CHOOSE u \in Users : u.username = <<"a">>

UserPackets == {UserPacket("u", u, p) : u \in Users, p \in {<<>>, <<<<"n", <<"a">>>>>>}}
               \cup {UserPacket(c, Somebody, p) :
                        c \in {"u", "T"}, p \in UNION {[1..n -> Pairs] : n \in 0..2}}

ArbitraryFStreams == {Plain("f", 2 + n, 2 + n) : n \in 0..MaxWords}

Others == {[Plain(c, l, l + e) EXCEPT !.json = j] :
            c \in Codes \ {"f"}, l \in 0..7, e \in 0..1, j \in BOOLEAN}
          \cup {Plain("f", l, l + 1) : l \in 0..3}

MCDatagrams == FStreams \cup ArbitraryFStreams \cup UserPackets \cup Others

MCHeaders == [type : RecTypes, size : {0, 1, 2, 4, 8}, flag : BOOLEAN]
=============================================================================
