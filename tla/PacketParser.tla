---------------------------- MODULE PacketParser ----------------------------
(***************************************************************************)
(* ParsePacket of parser/xrootd_parser.go as a machine over one datagram,  *)
(* with the record walk of parseFileRecords taken record by record.        *)
(*                                                                         *)
(* Lengths, sizes and offsets are in words of four bytes; a length that is *)
(* not a multiple is rounded up for 1 to 7 bytes, which hold no header,    *)
(* and down otherwise.  Offsets count from the end of the packet header.   *)
(* A datagram tells which record header stands at which offset where its   *)
(* sender put one; anywhere else the walk may meet any header, and meets   *)
(* the same one again when it reads the same place twice.                  *)
(***************************************************************************)
EXTENDS Integers, Sequences, InfoText

CONSTANTS
    Datagrams,  \* what may arrive
    Headers,    \* the record headers that arbitrary bytes may look like
    MaxRecSize  \* the largest size of a record (16384 bytes)

RecTypes == {"close", "open", "time", "xfr", "disc"}
Codes == {"<", "=", "d", "i", "U", "u", "T", "f", "t", "g", "x", "p", "r", "unknown"}

\* flag: the bit of RecFlag that the type looks at, hasOPS or hasLFN.
Header == [type : RecTypes, size : Nat, flag : BOOLEAN]

\* Sizes in words.
HeaderWords == 2     \* the packet header, and the header of a record
MapWords == 3        \* packet header and dictionary id
GStreamWords == 6    \* packet header, begin, end and ident
TimeWords == 6       \* a whole FileTOD
CloseWords == 8      \* a close record without operation statistics
OpsWords == 12       \* the operation statistics
OpenWords == 4       \* an open record without user and name

\* The words a type is read with, whatever the record's size.
FixedWords(type) ==
    CASE type = "time" -> TimeWords
      [] type = "close" -> CloseWords
      [] type = "open" -> OpenWords
      [] OTHER -> HeaderWords

\* The words of the optional fields that a sender announces by the flag.
OptionalWords(h) ==
    CASE h.type = "close" /\ h.flag -> OpsWords
      [] h.type = "open" /\ h.flag -> 1
      [] OTHER -> 0

\* A record as a server writes it: long enough for its fields.  Behind those of
\* an open there is the name, and nothing behind those of a time.
SentRecord(h) ==
    /\ h.size >= FixedWords(h.type) + OptionalWords(h)
    /\ h.size <= MaxRecSize
    /\ h.type = "time" => h.size = TimeWords

\* What a server put into the record it wrote at p.
SentAt(h, p) ==
    [type |-> h.type, at |-> p, size |-> h.size,
     ops |-> h.type = "close" /\ h.flag, user |-> h.type = "open" /\ h.flag,
     lfn |-> IF h.type = "open" THEN h.size - OpenWords - OptionalWords(h) ELSE 0]

\* An f-stream as a server lays it out: a time record, then record after record
\* up to the end.  Here sent maps the offset of each of them, and the end, to
\* what was put in before, 'xfr' records left out.
LaidOut(d) ==
    LET end == d.len - HeaderWords IN
    /\ d.len = d.plen
    /\ DOMAIN d.at \subseteq 0..(end - 1)
    /\ 0 \in DOMAIN d.at /\ d.at[0].type = "time" /\ SentRecord(d.at[0])
    /\ DOMAIN d.sent = (DOMAIN d.at \ {0}) \cup {end}
    /\ TimeWords \in DOMAIN d.sent /\ d.sent[TimeWords] = <<>>
    /\ \A p \in DOMAIN d.at \ {0} :
          LET h == d.at[p] IN
          /\ SentRecord(h)
          /\ p + h.size \in DOMAIN d.sent
          /\ d.sent[p + h.size] = IF h.type = "xfr" THEN d.sent[p]
                                  ELSE Append(d.sent[p], SentAt(h, p))

\* A user packet as a server writes it: the user, and fields behind.
Names(d) ==
    LET t == UserText(d.sent.user)
        f == AfterPos(d.text, Len(t) + 1)
    IN  /\ ServerUser(d.sent.user)
        /\ d.text \in Seq(STRING)
        /\ d.text = t \o <<Newline>> \o f
        /\ HasFields(f, d.sent.fields)
        /\ d.len = d.plen /\ d.len >= MapWords

\* code, len and plen are the first byte, the length and the length the packet
\* header states; text is what follows the dictionary id; json says that the
\* events of a 'g' packet are JSON; at maps offsets to record headers; sent is
\* what the sender of a regular packet put in, and nothing for any other.
DatagramOK(d) ==
    /\ d.code \in Codes
    /\ d.len \in Nat
    /\ d.plen \in Nat
    /\ d.json \in BOOLEAN
    /\ \A p \in DOMAIN d.at : d.at[p] \in Header
    /\ d.regular \in BOOLEAN
    /\ d.regular /\ d.code = "f" => LaidOut(d)
    /\ d.regular /\ d.code \in {"u", "T"} => Names(d)

ASSUME ParserAssumption ==
    /\ \A d \in Datagrams : DatagramOK(d)
    /\ Headers \subseteq Header
    /\ MaxRecSize \in Nat

VARIABLES
    datagram,   \* what arrived
    pc,         \* "start", "first", "loop", "done"
    pos,        \* the offset of the reader
    peeked,     \* the header read last and where
    records,    \* the records found so far
    result      \* what ParsePacket returns

parserVars == <<datagram, pc, pos, peeked, records, result>>

ParserInit ==
    /\ datagram \in Datagrams
    /\ pc = "start"
    /\ pos = 0
    /\ peeked = [pos |-> -1, header |-> [type |-> "disc", size |-> 0, flag |-> FALSE]]
    /\ records = <<>>
    /\ result = "none"

Finish(r) ==
    /\ pc' = "done"
    /\ result' = r
    /\ UNCHANGED <<datagram, pos, peeked>>

-----------------------------------------------------------------------------
(* ParsePacket: lengths, then the packet type.                             *)

\* parseUserRecord and parseTokenRecord: who, and what else is known of them.
AuthKeys == {"p", "n", "h", "o", "r", "g", "m", "x", "y", "I"}
TokenKeys == {"Uc", "s", "n", "o", "r", "g"}
Texts == {d.text : d \in Datagrams}
UserOf == [t \in Texts |-> ParseUserInfo(Cut(t, Newline)[1])]
AuthOf == [t \in Texts |-> KeyValues(Cut(t, Newline)[2], AuthKeys)]
TokenOf == [t \in Texts |-> KeyValues(Cut(t, Newline)[2], TokenKeys)]

\* What ParsePacket returns for a datagram without file records.
Parsed(d) ==
    CASE d.code \in {"=", "d", "i", "U"} -> IF d.len < MapWords THEN "error" ELSE "map"
      [] d.code \in {"u", "T"} -> IF d.len < MapWords \/ UserOf[d.text] = NoUser
                                   THEN "error" ELSE "user"
      [] d.code = "g" -> IF d.len < GStreamWords \/ ~d.json THEN "error" ELSE "gstream"
      [] d.code \in {"t", "x", "p", "r"} -> "header"
      [] d.code = "unknown" -> "error"

\* The checks on the length of the whole datagram.
BadLength(d) ==
    \/ d.len < 1
    \/ d.code # "<" /\ (d.len < HeaderWords \/ d.len # d.plen)

ParsePacket ==
    /\ pc = "start"
    /\ LET d == datagram IN
       IF BadLength(d) THEN Finish("badLength")
       ELSE IF d.code = "<" THEN Finish("xml")
       ELSE IF d.code # "f" THEN Finish(Parsed(d))
       ELSE pc' = "first" /\ UNCHANGED <<datagram, pos, peeked, result>>
    /\ UNCHANGED records

-----------------------------------------------------------------------------
(* parseFileRecords.                                                       *)

Words == datagram.len - HeaderWords
Remaining == IF pos < Words THEN Words - pos ELSE 0

\* The headers the reader may find where it is.
HeadersHere ==
    IF pos \in DOMAIN datagram.at THEN {datagram.at[pos]}
    ELSE IF peeked.pos = pos THEN {peeked.header}
    ELSE Headers

\* A FileTOD at the start is skipped by the size it states.
SkipFirstTime ==
    /\ pc = "first"
    /\ pc' = "loop"
    /\ IF Remaining < HeaderWords THEN UNCHANGED <<pos, peeked>>
       ELSE \E h \in HeadersHere :
            /\ peeked' = [pos |-> pos, header |-> h]
            /\ pos' = IF h.type = "time" THEN pos + h.size ELSE pos
    /\ UNCHANGED <<datagram, records, result>>

\* Mutant: the record may reach behind the end of the datagram.
UsableBeyond(h) ==
    /\ h.size >= HeaderWords
    /\ h.size <= MaxRecSize

\* Mutant: the record may be smaller than its header.
UsableAnySize(h) ==
    /\ h.size <= MaxRecSize
    /\ h.size <= Remaining

\* A record header that the walk goes on with.
Usable(h) ==
    /\ h.size >= HeaderWords
    /\ h.size <= MaxRecSize
    /\ h.size <= Remaining

\* The record as parsed: ops and user tell whether those fields were read,
\* lfn how many words the name has.
Record(h) ==
    LET after == Remaining - FixedWords(h.type)
        user == h.type = "open" /\ h.flag /\ after >= 1
        name == h.size - OpenWords - (IF user THEN 1 ELSE 0)
    IN  [type |-> h.type, at |-> pos, size |-> h.size,
         ops |-> h.type = "close" /\ h.flag /\ after >= OpsWords,
         user |-> user,
         lfn |-> IF h.type = "open" /\ name > 0 THEN name ELSE 0]

\* Mutant: no seek to the end of a record that was read field by field.
NextPosUnseeked(h) ==
    pos + (IF h.type = "close" THEN CloseWords + (IF h.flag THEN OpsWords ELSE 0) ELSE h.size)

\* A time record leaves the reader after its fixed fields, any other record
\* where its size says.
NextPos(h) == pos + (IF h.type = "time" THEN TimeWords ELSE h.size)

\* One turn of the loop that reads a record; 'xfr' and unknown types are
\* skipped.
ReadRecord ==
    /\ pc = "loop"
    /\ Remaining >= HeaderWords
    /\ \E h \in HeadersHere :
        /\ Usable(h)
        /\ FixedWords(h.type) <= Remaining
        /\ records' = IF h.type = "xfr" THEN records ELSE Append(records, Record(h))
        /\ pos' = NextPos(h)
        /\ peeked' = [pos |-> pos, header |-> h]
    /\ UNCHANGED <<datagram, pc, result>>

\* The record is cut off by the end of the datagram in its fixed fields: all
\* records are given up, the packet is not.
RecordError ==
    /\ pc = "loop"
    /\ Remaining >= HeaderWords
    /\ \E h \in HeadersHere : Usable(h) /\ FixedWords(h.type) > Remaining
    /\ records' = <<>>
    /\ Finish("files")

\* The end of the datagram, or a header that is cut off or unusable.
LoopEnds ==
    /\ pc = "loop"
    /\ Remaining < HeaderWords \/ \E h \in HeadersHere : ~Usable(h)
    /\ Finish("files")
    /\ UNCHANGED records

ParserNext == ParsePacket \/ SkipFirstTime \/ ReadRecord \/ RecordError \/ LoopEnds

ParserSpec == ParserInit /\ [][ParserNext]_parserVars

\* The parser is a function that keeps running.
FairParserSpec == ParserSpec /\ WF_parserVars(ParserNext)

-----------------------------------------------------------------------------
(* Properties.                                                             *)

ParsedRecord ==
    [type : RecTypes, at : Nat, size : Nat, ops : BOOLEAN, user : BOOLEAN, lfn : Nat]

ParserTypeOK ==
    /\ datagram \in Datagrams
    /\ pc \in {"start", "first", "loop", "done"}
    /\ pos \in Nat
    /\ peeked \in [pos : Int, header : Header]
    /\ records \in Seq(ParsedRecord)
    /\ result \in {"none", "badLength", "error", "xml", "map", "user", "gstream", "header",
                   "files"}

\* Whatever the datagram contains, each record found lies inside it with its
\* whole size and its fixed fields, and begins behind the header of the one
\* before: no record is invented from what follows the datagram, and none is
\* read twice (the size checks of parseFileRecords).
RecordsInside ==
    \A i \in 1..Len(records) :
        /\ records[i].at + records[i].size <= Words
        /\ records[i].at + FixedWords(records[i].type) <= Words
        /\ i < Len(records) => records[i].at + HeaderWords <= records[i + 1].at

\* From a regular f-stream packet the walk returns the records it was sent, in
\* order and with the optional fields that were in them, also when a record is
\* longer than the part the parser reads (parseFileRecords).
ParsesWhatWasSent ==
    pc = "done" /\ datagram.regular /\ datagram.code = "f" =>
        result = "files" /\ records = datagram.sent[Words]

\* parseUserInfo of correlator.go for the same texts.
SimpleUserOf == [t \in Texts |-> ParseUserInfoSimple(Cut(t, Newline)[1])]

\* A regular 'u' or 'T' packet is parsed to the user and the fields it was sent
\* with.  The correlator's own parser, used for the packets that refer to the
\* same user, names that user too exactly when the username has no '.' and no
\* '@' (parseUserInfo of xrootd_parser.go and of correlator.go).
UsersNamedAlike ==
    pc = "done" /\ datagram.regular /\ datagram.code \in {"u", "T"} =>
        LET who == datagram.sent.user
            keys == IF datagram.code = "u" THEN AuthKeys ELSE TokenKeys
            found == IF datagram.code = "u" THEN AuthOf[datagram.text] ELSE TokenOf[datagram.text]
        IN  /\ result = "user" /\ UserOf[datagram.text] = who
            /\ found = [k \in keys |-> LastValue(datagram.sent.fields, k)]
            /\ SimpleUserOf[datagram.text] = who <=> Lacks(who.username, {".", "@"})

\* The walk ends, whatever sizes the records state (the test for a record
\* smaller than its own header).
Terminates == <>(pc = "done")
=============================================================================
