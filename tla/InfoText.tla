------------------------------ MODULE InfoText ------------------------------
(***************************************************************************)
(* The text fields of the dictionary packets: "userInfo\ninfo" with        *)
(*     userInfo = [protocol/]username.pid:sid@host                         *)
(*     info     = &key=value&key=value...                                  *)
(* A text is a sequence of symbols: the separators and letters or digits.  *)
(* The repository has two parsers of a userInfo, one in xrootd_parser.go   *)
(* for 'u' and 'T' packets and one in correlator.go for 'd', 'i' and 'U'   *)
(* packets; both must name the same user.                                  *)
(***************************************************************************)
EXTENDS Naturals, Sequences, SequencesExt

Digits == {"0", "1"}
Newline == "\n"

\* bytesIndexByte and bytesLastIndexByte; zero stands for none.
FirstOf(text, c) == SelectInSeq(text, LAMBDA x : x = c)
LastOf(text, c) == SelectLastInSeq(text, LAMBDA x : x = c)

BeforePos(text, i) == SubSeq(text, 1, i - 1)
AfterPos(text, i) == SubSeq(text, i + 1, Len(text))

\* bytes.SplitN(text, sep, 2): the part before the first separator and the
\* part after it, empty where there is none.
Cut(text, c) ==
    LET i == FirstOf(text, c)
    IN  IF i = 0 THEN <<text, <<>>>> ELSE <<BeforePos(text, i), AfterPos(text, i)>>

\* fmt.Sscanf(text, "%d"): the digits it begins with; none is an error.
LeadingDigits(text) ==
    LET i == SelectInSeq(text, LAMBDA x : x \notin Digits)
    IN  IF i = 0 THEN text ELSE BeforePos(text, i)

\* strconv.Atoi with the error ignored: anything but a number is zero.
Atoi(text) == IF text # <<>> /\ LeadingDigits(text) = text THEN text ELSE <<"0">>

NoUser == [protocol |-> <<>>, username |-> <<>>, pid |-> <<>>, sid |-> <<>>, host |-> <<>>]

\* What is left of the first '/'.
Protocol(text) == IF FirstOf(text, "/") = 0 THEN <<>> ELSE BeforePos(text, FirstOf(text, "/"))
Unprefixed(text) == AfterPos(text, FirstOf(text, "/"))

\* parseUserInfo of xrootd_parser.go: the host after the last '@', the sid
\* after the first ':' before it, the pid after the last '.' before that.
ParseUserInfo(text) ==
    LET rest == Unprefixed(text)
        at == LastOf(rest, "@")
        login == BeforePos(rest, at)
        colon == FirstOf(login, ":")
        name == BeforePos(login, colon)
        dot == LastOf(name, ".")
        user == [protocol |-> Protocol(text),
                 username |-> BeforePos(name, dot),
                 pid |-> LeadingDigits(AfterPos(name, dot)),
                 sid |-> LeadingDigits(AfterPos(login, colon)),
                 host |-> AfterPos(rest, at)]
    IN  IF at = 0 \/ colon = 0 \/ dot = 0 \/ user.pid = <<>> \/ user.sid = <<>>
        THEN NoUser ELSE user

\* parseUserInfo of correlator.go: the host after the first '@', the username
\* up to the first '.', pid and sid around the first ':' of what follows.
ParseUserInfoSimple(text) ==
    LET at == FirstOf(text, "@")
        login == Unprefixed(BeforePos(text, at))
        dot == FirstOf(login, ".")
        numbers == AfterPos(login, dot)
        colon == FirstOf(numbers, ":")
    IN  IF at = 0 \/ dot = 0 THEN NoUser
        ELSE [protocol |-> Protocol(BeforePos(text, at)),
              username |-> BeforePos(login, dot),
              pid |-> IF colon = 0 THEN <<"0">> ELSE Atoi(BeforePos(numbers, colon)),
              sid |-> IF colon = 0 THEN <<"0">> ELSE Atoi(AfterPos(numbers, colon)),
              host |-> AfterPos(text, at)]

Lacks(text, symbols) == \A i \in 1..Len(text) : text[i] \notin symbols

\* The users a server tells of: the separators stand where the format has them,
\* but a username may contain '.' and '@' and a host '.' and ':'.
ServerUser(u) ==
    /\ u \in [protocol : Seq(STRING), username : Seq(STRING), pid : Seq(STRING),
              sid : Seq(STRING), host : Seq(STRING)]
    /\ Lacks(u.protocol, {"/", "@", Newline})
    /\ Lacks(u.username, {"/", ":", Newline})
    /\ Lacks(u.host, {"/", "@", Newline})
    /\ \A n \in {u.pid, u.sid} : n # <<>> /\ n \in Seq(Digits)

\* The userInfo of a user as a server writes it.
Login(u) == u.username \o <<".">> \o u.pid \o <<":">> \o u.sid
UserText(u) ==
    (IF u.protocol = <<>> THEN <<>> ELSE u.protocol \o <<"/">>)
    \o (Login(u) \o <<"@">> \o u.host)

\* bytesplit: the pieces between separators; nothing after a trailing one.
Pieces(text, c) ==
    LET cuts == {0} \cup {i \in 1..Len(text) : text[i] = c}
        ends == {i \in 1..Len(text) : text[i] = c} \cup {Len(text) + 1}
        NextEnd(i) == CHOOSE e \in ends : e > i /\ \A f \in ends : f > i => e <= f
    IN  {<<i + 1, SubSeq(text, i + 1, NextEnd(i) - 1)>> : i \in cuts}

\* A piece key=value; the value may contain '=' but is not empty.
IsPair(piece) == LET eq == FirstOf(piece, "=") IN eq # 0 /\ eq < Len(piece)
Key(piece) == BeforePos(piece, FirstOf(piece, "="))
Value(piece) == AfterPos(piece, FirstOf(piece, "="))

\* parseAuthInfo, parseTokenInfo, parseServerInfo: the last value given for
\* each key that is known, empty where there is none.
KeyValues(text, keys) ==
    [k \in keys |->
        LET found == {p \in Pieces(text, "&") : IsPair(p[2]) /\ Key(p[2]) = <<k>>}
        IN  IF found = {} THEN <<>>
            ELSE Value((CHOOSE p \in found : \A q \in found : q[1] <= p[1])[2])]

\* The fields behind a user as a server writes them, "&key=value" one after the
\* other: fields maps the position of each key to the key and its value, which
\* may contain '=' and may be empty.
HasFields(text, fields) ==
    /\ text # <<>> => text[1] = "&"
    /\ DOMAIN fields = {i \in 2..(Len(text) + 1) : text[i - 1] = "&"}
    /\ \A i \in DOMAIN fields :
          LET k == fields[i].key
              v == fields[i].value
              last == i + Len(v) + 1
          IN  /\ k \in STRING /\ v \in Seq(STRING)
              /\ k \notin {"&", "="} /\ Lacks(v, {"&"})
              /\ SubSeq(text, i, last) = <<k>> \o <<"=">> \o v
              /\ last = Len(text) \/ last + 2 \in DOMAIN fields

\* What such fields say of a key: the last value given, empty ones left out.
LastValue(fields, k) ==
    LET given == {i \in DOMAIN fields : fields[i].key = k /\ fields[i].value # <<>>}
    IN  IF given = {} THEN <<>> ELSE fields[Max(given)].value
=============================================================================
