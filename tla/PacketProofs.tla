---------------------------- MODULE PacketProofs ----------------------------
(***************************************************************************)
(* Proofs about the path of a monitoring packet through the collector: the *)
(* parser, for every set of datagrams and whatever headers their bytes     *)
(* look like, and the correlator, for any servers, users and files and any *)
(* number of packets.                                                      *)
(*                                                                         *)
(* RecordsInside is not inductive: that a record begins behind the one     *)
(* before needs BehindReader, which says that every record found so far    *)
(* has its header before the reader.                                       *)
(*                                                                         *)
(* What a server sent is found again: SentInv follows the reader through   *)
(* an f-stream, and the lemmas on texts take a user packet apart.          *)
(*                                                                         *)
(* The properties of the correlator speak of the last record or of one     *)
(* step; they follow from invariants of the four maps, CorrelatorInv.      *)
(***************************************************************************)
EXTENDS PacketParser, Correlator, SequenceTheorems, FiniteSetTheorems,
        WellFoundedInduction, TLAPS

\* The reader is past the header of every record it has found.
BehindReader ==
    \A i \in 1..Len(records) : records[i].at + HeaderWords <= pos

ParserInv == ParserTypeOK /\ RecordsInside /\ BehindReader

-----------------------------------------------------------------------------

\* A record found so far is one that ParsedRecord describes.
LEMMA RecordsTyped ==
    ASSUME ParserTypeOK, NEW i \in 1..Len(records)
    PROVE  /\ records[i] \in ParsedRecord
           /\ records[i].at \in Nat
<1>1. records \in Seq(ParsedRecord)
  BY DEF ParserTypeOK
<1>2. records[i] \in ParsedRecord
  BY <1>1, ElementOfSeq
<1>3. QED
  BY <1>2 DEF ParsedRecord

\* What the reader finds is a header, with a size and a number of words that
\* are at least those of a header.
LEMMA HeadersHereTypes ==
    ASSUME ParserTypeOK
    PROVE  HeadersHere \subseteq Header
<1>1. DatagramOK(datagram) /\ Headers \subseteq Header
  BY ParserAssumption DEF ParserTypeOK
<1>2. peeked.header \in Header
  BY DEF ParserTypeOK
<1>3. CASE pos \in DOMAIN datagram.at
  BY <1>1, <1>3 DEF HeadersHere, DatagramOK
<1>4. CASE pos \notin DOMAIN datagram.at
  BY <1>1, <1>2, <1>4 DEF HeadersHere
<1>5. QED
  BY <1>3, <1>4

\* The fixed part of a record holds at least its header.
LEMMA FixedWordsTypes ==
    ASSUME NEW h \in Header
    PROVE  FixedWords(h.type) \in Nat /\ FixedWords(h.type) >= HeaderWords
BY DEF Header, RecTypes, FixedWords, TimeWords, CloseWords, OpenWords, HeaderWords

\* The words of the datagram and those the reader has left are numbers.
LEMMA WordsTypes ==
    ASSUME ParserTypeOK
    PROVE  /\ Words \in Int
           /\ Remaining \in Nat
           /\ Remaining >= HeaderWords => Remaining = Words - pos
<1>1. datagram.len \in Nat /\ pos \in Nat
  BY ParserAssumption DEF ParserTypeOK, DatagramOK
<1>2. QED
  BY <1>1 DEF Words, Remaining, HeaderWords

\* A record that is read is typed, lies where the reader is and has the size
\* its header states; the reader moves past its header.
LEMMA RecordTypes ==
    ASSUME ParserTypeOK, NEW h \in Header, Usable(h)
    PROVE  /\ Record(h) \in ParsedRecord
           /\ Record(h).at = pos
           /\ Record(h).size = h.size
           /\ Record(h).type = h.type
           /\ NextPos(h) \in Nat
           /\ NextPos(h) >= pos + HeaderWords
<1>1. pos \in Nat /\ h.size \in Nat /\ h.type \in RecTypes /\ h.flag \in BOOLEAN
  BY DEF ParserTypeOK, Header
<1>2. /\ Record(h).at = pos /\ Record(h).size = h.size /\ Record(h).type = h.type
  BY DEF Record
<1>3. Record(h) \in ParsedRecord
  <2> DEFINE user == h.type = "open" /\ h.flag /\ Remaining - FixedWords(h.type) >= 1
             name == h.size - OpenWords - (IF user THEN 1 ELSE 0)
  <2>1. (IF h.type = "open" /\ name > 0 THEN name ELSE 0) \in Nat
    BY <1>1 DEF OpenWords
  <2>2. QED
    BY <1>1, <2>1 DEF Record, ParsedRecord
<1>4. NextPos(h) \in Nat /\ NextPos(h) >= pos + HeaderWords
  BY <1>1 DEF NextPos, TimeWords, HeaderWords, Usable
<1>5. QED
  BY <1>2, <1>3, <1>4

\* The initial states satisfy the invariant.
LEMMA InitParserInv == ParserInit => ParserInv
<1> SUFFICES ASSUME ParserInit PROVE ParserInv
  OBVIOUS
<1>1. records = <<>> /\ Len(records) = 0
  BY DEF ParserInit
<1>2. peeked \in [pos : Int, header : Header]
  <2>1. [type |-> "disc", size |-> 0, flag |-> FALSE] \in Header
    BY DEF Header, RecTypes
  <2>2. QED
    BY <2>1 DEF ParserInit
<1>3. records \in Seq(ParsedRecord)
  BY <1>1
<1>4. ParserTypeOK
  BY <1>2, <1>3 DEF ParserInit, ParserTypeOK
<1>5. QED
  BY <1>1, <1>4 DEF ParserInv, RecordsInside, BehindReader

\* Nothing that leaves the records alone disturbs where they lie, if the
\* reader does not move back.
LEMMA SameRecords ==
    ASSUME ParserInv, ParserTypeOK', UNCHANGED <<datagram, records>>, pos' >= pos
    PROVE  ParserInv'
<1>1. \A i \in 1..Len(records) : records[i].at \in Nat
  BY RecordsTyped DEF ParserInv
<1>2. pos \in Nat /\ pos' \in Nat
  BY DEF ParserInv, ParserTypeOK
<1>3. BehindReader'
  BY <1>1, <1>2 DEF ParserInv, BehindReader, HeaderWords
<1>4. RecordsInside'
  BY DEF ParserInv, RecordsInside, Words
<1>5. QED
  BY <1>3, <1>4 DEF ParserInv

\* Reading a record appends one that lies inside the datagram and behind the
\* header of the one before.
LEMMA ReadRecordInv ==
    ASSUME ParserInv, ReadRecord
    PROVE  ParserInv'
<1>1. PICK h \in HeadersHere :
        /\ Usable(h)
        /\ FixedWords(h.type) <= Remaining
        /\ records' = IF h.type = "xfr" THEN records ELSE Append(records, Record(h))
        /\ pos' = NextPos(h)
        /\ peeked' = [pos |-> pos, header |-> h]
  BY DEF ReadRecord
<1>2. h \in Header
  BY HeadersHereTypes DEF ParserInv
<1> DEFINE r == Record(h)
<1>3. /\ r \in ParsedRecord
      /\ r.at = pos /\ r.size = h.size /\ r.type = h.type
      /\ pos' \in Nat /\ pos' >= pos + HeaderWords
  BY <1>1, <1>2, RecordTypes DEF ParserInv
<1>4. records \in Seq(ParsedRecord) /\ pos \in Nat
  BY DEF ParserInv, ParserTypeOK
<1>5. ParserTypeOK'
  <2>1. records' \in Seq(ParsedRecord)
    BY <1>1, <1>3, <1>4, AppendProperties
  <2>2. QED
    BY <1>1, <1>2, <1>3, <2>1 DEF ParserInv, ParserTypeOK, ReadRecord
<1>6. CASE h.type = "xfr"
  BY <1>1, <1>3, <1>4, <1>5, <1>6, SameRecords DEF ReadRecord, HeaderWords
<1>7. CASE h.type # "xfr"
  <2>1. /\ Len(records') = Len(records) + 1
        /\ records'[Len(records) + 1] = r
        /\ \A i \in 1..Len(records) : records'[i] = records[i]
    BY <1>1, <1>3, <1>4, <1>7, AppendProperties
  <2>2. Len(records) \in Nat
    BY <1>4
  <2>3. Words' = Words
    BY DEF ReadRecord, Words
  <2>4. r.at + r.size <= Words /\ r.at + FixedWords(r.type) <= Words
    <3>1. Remaining = Words - pos /\ Words \in Int
      BY WordsTypes DEF ParserInv, ReadRecord
    <3>2. h.size \in Nat /\ FixedWords(h.type) \in Nat
      BY <1>2, FixedWordsTypes DEF Header
    <3>3. QED
      BY <1>1, <1>3, <1>4, <3>1, <3>2 DEF Usable
  <2>5. \A i \in 1..Len(records) : records[i].at \in Nat /\ records[i].at + HeaderWords <= pos
    BY RecordsTyped DEF ParserInv, BehindReader
  <2>6. RecordsInside'
    <3> SUFFICES ASSUME NEW i \in 1..Len(records')
                 PROVE  /\ records'[i].at + records'[i].size <= Words
                        /\ records'[i].at + FixedWords(records'[i].type) <= Words
                        /\ i < Len(records') => records'[i].at + HeaderWords <= records'[i + 1].at
      BY <2>3 DEF RecordsInside, FixedWords, TimeWords, CloseWords, OpenWords, HeaderWords
    <3>1. CASE i = Len(records) + 1
      BY <2>1, <2>2, <2>4, <3>1
    <3>2. CASE i = Len(records)
      BY <1>3, <2>1, <2>2, <2>5, <3>2 DEF ParserInv, RecordsInside
    <3>3. CASE i < Len(records)
      BY <2>1, <2>2, <3>3 DEF ParserInv, RecordsInside
    <3>4. QED
      BY <2>1, <2>2, <3>1, <3>2, <3>3
  <2>7. BehindReader'
    <3> SUFFICES ASSUME NEW i \in 1..Len(records')
                 PROVE  records'[i].at + HeaderWords <= pos'
      BY DEF BehindReader, HeaderWords
    <3>1. CASE i = Len(records) + 1
      BY <1>3, <1>4, <2>1, <3>1
    <3>2. CASE i \in 1..Len(records)
      BY <1>3, <1>4, <2>1, <2>5, <3>2 DEF HeaderWords
    <3>3. QED
      BY <2>1, <2>2, <3>1, <3>2
  <2>8. QED
    BY <1>5, <2>6, <2>7 DEF ParserInv
<1>8. QED
  BY <1>6, <1>7

\* Every step keeps the invariant.
LEMMA NextParserInv == ParserInv /\ [ParserNext]_parserVars => ParserInv'
<1> SUFFICES ASSUME ParserInv, [ParserNext]_parserVars PROVE ParserInv'
  OBVIOUS
<1>1. ParserTypeOK /\ pos \in Nat
  BY DEF ParserInv, ParserTypeOK
<1>2. CASE ParsePacket
  <2>code. datagram.code \in Codes
    BY <1>1, ParserAssumption DEF ParserTypeOK, DatagramOK
  <2>other. ASSUME datagram.code \notin {"<", "f"}
        PROVE  Parsed(datagram) \in {"error", "map", "user", "gstream", "header"}
    BY <2>code, <2>other DEF Codes, Parsed
  <2>1. ParserTypeOK'
    <3>1. CASE BadLength(datagram)
      BY <1>1, <1>2, <3>1 DEF ParsePacket, Finish, ParserTypeOK
    <3>2. CASE ~BadLength(datagram) /\ datagram.code = "<"
      BY <1>1, <1>2, <3>2 DEF ParsePacket, Finish, ParserTypeOK
    <3>3. CASE ~BadLength(datagram) /\ datagram.code = "f"
      BY <1>1, <1>2, <3>3 DEF ParsePacket, ParserTypeOK
    <3>4. CASE ~BadLength(datagram) /\ datagram.code \notin {"<", "f"}
      BY <1>1, <1>2, <2>other, <3>4 DEF ParsePacket, Finish, ParserTypeOK
    <3>5. QED
      BY <3>1, <3>2, <3>3, <3>4
  <2>2. pos' = pos
    BY <1>2 DEF ParsePacket, Finish
  <2>3. QED
    BY <1>1, <1>2, <2>1, <2>2, SameRecords DEF ParsePacket, Finish
<1>3. CASE SkipFirstTime
  <2>1. CASE Remaining < HeaderWords
    BY <1>1, <1>3, <2>1, SameRecords DEF SkipFirstTime, ParserTypeOK
  <2>2. CASE ~(Remaining < HeaderWords)
    <3>1. PICK h \in HeadersHere :
            /\ peeked' = [pos |-> pos, header |-> h]
            /\ pos' = IF h.type = "time" THEN pos + h.size ELSE pos
      BY <1>3, <2>2 DEF SkipFirstTime
    <3>2. h \in Header /\ h.size \in Nat
      BY <1>1, HeadersHereTypes DEF Header
    <3>3. pos' \in Nat /\ pos' >= pos
      BY <1>1, <3>1, <3>2
    <3>4. ParserTypeOK'
      BY <1>1, <1>3, <3>1, <3>2, <3>3 DEF SkipFirstTime, ParserTypeOK
    <3>5. QED
      BY <1>3, <3>3, <3>4, SameRecords DEF SkipFirstTime
  <2>3. QED
    BY <2>1, <2>2
<1>4. CASE ReadRecord
  BY <1>4, ReadRecordInv
<1>5. CASE RecordError
  <2>1. records' = <<>> /\ Len(records') = 0 /\ records' \in Seq(ParsedRecord)
    BY <1>5 DEF RecordError
  <2>2. ParserTypeOK'
    BY <1>1, <1>5, <2>1 DEF RecordError, Finish, ParserTypeOK
  <2>3. QED
    BY <2>1, <2>2 DEF ParserInv, RecordsInside, BehindReader
<1>6. CASE LoopEnds
  <2>1. ParserTypeOK'
    BY <1>1, <1>6 DEF LoopEnds, Finish, ParserTypeOK
  <2>2. QED
    BY <1>1, <1>6, <2>1, SameRecords DEF LoopEnds, Finish
<1>7. CASE UNCHANGED parserVars
  <2>1. ParserTypeOK'
    BY <1>1, <1>7 DEF parserVars, ParserTypeOK
  <2>2. QED
    BY <1>1, <1>7, <2>1, SameRecords DEF parserVars
<1>8. QED
  BY <1>2, <1>3, <1>4, <1>5, <1>6, <1>7 DEF ParserNext

-----------------------------------------------------------------------------

\* The inductive invariant holds throughout.
THEOREM ParserInvariant == ParserSpec => []ParserInv
BY InitParserInv, NextParserInv, PTL DEF ParserSpec

\* Whatever datagram arrives, the parser's position, records and result have
\* their types; no offset is ever negative.
THEOREM ParserTypes == ParserSpec => []ParserTypeOK
BY ParserInvariant, PTL DEF ParserInv

\* Whatever bytes a datagram consists of, every record the walk returns lies
\* inside it and no two begin within the same header (parseFileRecords).
THEOREM RecordsStayInside == ParserSpec => []RecordsInside
BY ParserInvariant, PTL DEF ParserInv

\* Every record found took at least the words of a header, and what was read
\* for records is inside the datagram.
CountInv ==
    /\ pc \in {"start", "first"} => records = <<>>
    /\ HeaderWords * Len(records) <= pos
    /\ records # <<>> => pos <= Words

LEMMA CountInvStep ==
    ASSUME ParserTypeOK, CountInv, [ParserNext]_parserVars
    PROVE  CountInv'
<1>1. /\ UNCHANGED datagram /\ Words' = Words /\ Words \in Int /\ pos \in Nat
      /\ records \in Seq(ParsedRecord) /\ Len(records) \in Nat
  <2>1. UNCHANGED datagram
    BY DEF ParserNext, ParsePacket, SkipFirstTime, ReadRecord, RecordError, LoopEnds, Finish,
           parserVars
  <2>2. QED
    BY <2>1, WordsTypes, LenProperties DEF Words, ParserTypeOK
<1>2. CASE ParsePacket
  BY <1>1, <1>2 DEF CountInv, ParsePacket, Finish
<1>3. CASE SkipFirstTime
  <2>1. records = <<>> /\ records' = <<>> /\ pc' = "loop"
    BY <1>3 DEF CountInv, SkipFirstTime
  <2>2. pos' \in Nat
    BY <1>1, <1>3, HeadersHereTypes DEF SkipFirstTime, Header
  <2>3. QED
    BY <2>1, <2>2 DEF CountInv, HeaderWords
<1>4. CASE ReadRecord
  <2>1. PICK h \in HeadersHere :
          /\ Usable(h) /\ FixedWords(h.type) <= Remaining
          /\ records' = IF h.type = "xfr" THEN records ELSE Append(records, Record(h))
          /\ pos' = NextPos(h)
    BY <1>4 DEF ReadRecord
  <2>2. h \in Header /\ h.size \in Nat /\ Remaining \in Nat /\ Remaining = Words - pos
    BY <1>4, HeadersHereTypes, WordsTypes DEF ReadRecord, Header
  <2>3. pos' >= pos + HeaderWords /\ pos' <= Words /\ pos' \in Nat
    <3>1. CASE h.type = "time"
      BY <1>1, <2>1, <2>2, <3>1 DEF NextPos, FixedWords, TimeWords, HeaderWords
    <3>2. CASE h.type # "time"
      BY <1>1, <2>1, <2>2, <3>2 DEF NextPos, Usable, HeaderWords
    <3>3. QED
      BY <3>1, <3>2
  <2>4. Len(records') <= Len(records) + 1 /\ Len(records') \in Nat
    BY <1>1, <2>1
  <2>5. pc' = "loop"
    BY <1>4 DEF ReadRecord
  <2>6. QED
    BY <1>1, <2>3, <2>4, <2>5 DEF CountInv, HeaderWords
<1>5. CASE RecordError
  BY <1>1, <1>5 DEF CountInv, RecordError, Finish, HeaderWords
<1>6. CASE LoopEnds \/ UNCHANGED parserVars
  BY <1>1, <1>6 DEF CountInv, LoopEnds, Finish, parserVars
<1>7. QED
  BY <1>2, <1>3, <1>4, <1>5, <1>6 DEF ParserNext

\* Whatever bytes arrive, a datagram of n words yields at most n / 2 records:
\* what the parser stores is bounded by what it was sent, since every turn of
\* the loop moves the reader past a header (parseFileRecords).
THEOREM RecordsBoundedBySize == ParserSpec => [](HeaderWords * Len(records) <= datagram.len)
<1>1. ParserInit => CountInv
  BY DEF ParserInit, CountInv, HeaderWords
<1>2. ParserTypeOK /\ CountInv => HeaderWords * Len(records) <= datagram.len
  <2> SUFFICES ASSUME ParserTypeOK, CountInv
               PROVE  HeaderWords * Len(records) <= datagram.len
    OBVIOUS
  <2>1. datagram.len \in Nat /\ pos \in Nat /\ Len(records) \in Nat
    BY ParserAssumption, LenProperties DEF ParserTypeOK, DatagramOK
  <2>2. CASE records = <<>>
    BY <2>1, <2>2 DEF HeaderWords
  <2>3. CASE records # <<>>
    BY <2>1, <2>3 DEF CountInv, Words, HeaderWords
  <2>4. QED
    BY <2>2, <2>3
<1>3. ParserTypeOK /\ CountInv /\ [ParserNext]_parserVars => CountInv'
  BY CountInvStep
<1>4. QED
  BY <1>1, <1>2, <1>3, ParserTypes, PTL DEF ParserSpec

-----------------------------------------------------------------------------
(* A packet that was sent.                                                 *)

\* What arrived is an f-stream as a server lays it out.
FromServer == datagram.regular /\ datagram.code = "f"

\* The reader stands where the sender began a record, or at the end, and has
\* found what the sender had put in before.
SentInv ==
    FromServer =>
        /\ pc \in {"start", "first"} => pos = 0 /\ records = <<>>
        /\ pc = "loop" => pos \in DOMAIN datagram.sent /\ records = datagram.sent[pos]
        /\ pc = "done" => result = "files" /\ records = datagram.sent[Words]

\* The layout in terms of the words of the datagram.
LEMMA LayoutFacts ==
    ASSUME ParserTypeOK, FromServer
    PROVE  /\ LaidOut(datagram)
           /\ Words \in Nat
           /\ DOMAIN datagram.at \subseteq 0..(Words - 1)
           /\ DOMAIN datagram.sent = (DOMAIN datagram.at \ {0}) \cup {Words}
           /\ \A p \in DOMAIN datagram.at : datagram.at[p] \in Header
<1>1. DatagramOK(datagram)
  BY ParserAssumption DEF ParserTypeOK
<1>2. LaidOut(datagram)
  BY <1>1 DEF DatagramOK, FromServer
<1>3. /\ DOMAIN datagram.at \subseteq 0..(Words - 1)
      /\ DOMAIN datagram.sent = (DOMAIN datagram.at \ {0}) \cup {Words}
      /\ 0 \in DOMAIN datagram.at
  BY <1>2 DEF LaidOut, Words
<1>4. Words \in Nat
  BY <1>3, WordsTypes
<1>5. QED
  BY <1>1, <1>2, <1>3, <1>4 DEF DatagramOK

\* Where the sender began a record the reader finds its header, goes on with it
\* and reads what was put in, up to where the next one begins.
LEMMA ReadsWhatWasSent ==
    ASSUME ParserTypeOK, FromServer, pos \in DOMAIN datagram.at \ {0}, NEW h \in HeadersHere
    PROVE  /\ Remaining >= HeaderWords
           /\ Usable(h)
           /\ FixedWords(h.type) <= Remaining
           /\ Record(h) = SentAt(h, pos)
           /\ NextPos(h) \in DOMAIN datagram.sent
           /\ datagram.sent[NextPos(h)] = IF h.type = "xfr" THEN datagram.sent[pos]
                                          ELSE Append(datagram.sent[pos], SentAt(h, pos))
<1>1. h = datagram.at[pos]
  BY DEF HeadersHere
<1>2. /\ SentRecord(h)
      /\ pos + h.size \in DOMAIN datagram.sent
      /\ datagram.sent[pos + h.size] = IF h.type = "xfr" THEN datagram.sent[pos]
                                       ELSE Append(datagram.sent[pos], SentAt(h, pos))
  BY <1>1, LayoutFacts DEF LaidOut
<1>3. /\ h \in Header /\ h.size \in Nat /\ h.type \in RecTypes /\ h.flag \in BOOLEAN
      /\ pos \in Nat /\ Words \in Nat
  BY <1>1, LayoutFacts DEF Header, ParserTypeOK
<1>4. FixedWords(h.type) \in Nat /\ FixedWords(h.type) >= HeaderWords /\ OptionalWords(h) \in Nat
  BY <1>3, FixedWordsTypes DEF OptionalWords, OpsWords
<1>5. pos < Words /\ pos + h.size <= Words
  BY <1>2, <1>3, LayoutFacts
<1>6. Remaining = Words - pos /\ h.size <= Remaining
  BY <1>3, <1>5 DEF Remaining
<1>7. h.size >= FixedWords(h.type) + OptionalWords(h) /\ h.size <= MaxRecSize
  BY <1>2 DEF SentRecord
<1>8. Usable(h) /\ FixedWords(h.type) <= Remaining /\ Remaining >= HeaderWords
  BY <1>3, <1>4, <1>6, <1>7 DEF Usable, HeaderWords
<1>9. Record(h) = SentAt(h, pos)
  <2>1. CASE h.type = "close"
    <3>1. h.flag => Remaining - FixedWords(h.type) >= OpsWords
      BY <1>3, <1>4, <1>6, <1>7, <2>1 DEF OptionalWords, OpsWords
    <3>2. QED
      BY <2>1, <3>1 DEF Record, SentAt
  <2>2. CASE h.type = "open"
    <3>1. h.flag => Remaining - FixedWords(h.type) >= 1
      BY <1>3, <1>4, <1>6, <1>7, <2>2 DEF OptionalWords
    <3>2. OptionalWords(h) = IF h.flag THEN 1 ELSE 0
      BY <2>2 DEF OptionalWords
    <3>3. h.size - OpenWords - OptionalWords(h) \in Nat
      BY <1>3, <1>4, <1>7, <2>2 DEF FixedWords, OpenWords
    <3>4. QED
      BY <2>2, <3>1, <3>2, <3>3 DEF Record, SentAt
  <2>3. CASE h.type \notin {"close", "open"}
    BY <2>3 DEF Record, SentAt
  <2>4. QED
    BY <2>1, <2>2, <2>3
<1>10. NextPos(h) = pos + h.size
  BY <1>2 DEF NextPos, SentRecord
<1>11. QED
  BY <1>2, <1>8, <1>9, <1>10

\* The leading time record is skipped, which leaves nothing found.
LEMMA SkipsTheTime ==
    ASSUME ParserTypeOK, SentInv, FromServer, SkipFirstTime
    PROVE  pos' \in DOMAIN datagram.sent /\ datagram.sent[pos'] = <<>> /\ records' = <<>>
<1>1. pos = 0 /\ records = <<>>
  BY DEF SentInv, SkipFirstTime
<1>2. /\ 0 \in DOMAIN datagram.at /\ datagram.at[0].type = "time" /\ datagram.at[0].size = TimeWords
      /\ TimeWords \in DOMAIN datagram.sent /\ datagram.sent[TimeWords] = <<>>
  BY LayoutFacts DEF LaidOut, SentRecord
<1>3. Words \in Nat /\ TimeWords <= Words
  BY <1>2, LayoutFacts DEF TimeWords
<1>4. ~(Remaining < HeaderWords)
  BY <1>1, <1>3 DEF Remaining, TimeWords, HeaderWords
<1>5. HeadersHere = {datagram.at[0]}
  BY <1>1, <1>2 DEF HeadersHere
<1>6. pos' = TimeWords
  BY <1>1, <1>2, <1>4, <1>5 DEF SkipFirstTime, TimeWords
<1>7. QED
  BY <1>1, <1>2, <1>6 DEF SkipFirstTime

\* Every step keeps what was found equal to what was sent.
LEMMA SentInvStep ==
    ASSUME ParserTypeOK, SentInv, [ParserNext]_parserVars
    PROVE  SentInv'
<1>1. UNCHANGED datagram
  BY DEF ParserNext, ParsePacket, SkipFirstTime, ReadRecord, RecordError, LoopEnds, Finish,
         parserVars
<1>2. Words' = Words /\ (FromServer' <=> FromServer)
  BY <1>1 DEF Words, FromServer
<1> SUFFICES ASSUME FromServer
             PROVE  SentInv'
  BY <1>2 DEF SentInv
<1>3. CASE ParsePacket
  <2>1. ~BadLength(datagram)
    <3>1. datagram.len = datagram.plen /\ datagram.len - HeaderWords \in Nat /\ datagram.len \in Nat
      BY LayoutFacts, ParserAssumption DEF LaidOut, Words, ParserTypeOK, DatagramOK
    <3>2. QED
      BY <3>1 DEF BadLength, HeaderWords
  <2>2. pc = "start" /\ pc' = "first" /\ UNCHANGED <<pos, records>>
    BY <1>3, <2>1 DEF ParsePacket, FromServer
  <2>3. QED
    BY <2>2 DEF SentInv
<1>4. CASE SkipFirstTime
  BY <1>1, <1>4, SkipsTheTime DEF SentInv, SkipFirstTime
<1>5. ASSUME pc = "loop"
      PROVE  /\ pos \in DOMAIN datagram.sent /\ records = datagram.sent[pos]
             /\ pos = Words \/ pos \in DOMAIN datagram.at \ {0}
  BY <1>5, LayoutFacts DEF SentInv
<1>6. Remaining >= HeaderWords => pos # Words
  BY LayoutFacts DEF Remaining, HeaderWords
<1>7. CASE ReadRecord
  <2>1. pos \in DOMAIN datagram.at \ {0} /\ records = datagram.sent[pos]
    BY <1>5, <1>6, <1>7 DEF ReadRecord
  <2>2. PICK h \in HeadersHere :
          /\ records' = IF h.type = "xfr" THEN records ELSE Append(records, Record(h))
          /\ pos' = NextPos(h)
    BY <1>7 DEF ReadRecord
  <2>3. pos' \in DOMAIN datagram.sent /\ records' = datagram.sent[pos']
    BY <2>1, <2>2, ReadsWhatWasSent
  <2>4. QED
    BY <1>1, <1>7, <2>3 DEF SentInv, ReadRecord
<1>8. CASE RecordError
  <2>1. pos \in DOMAIN datagram.at \ {0}
    BY <1>5, <1>6, <1>8 DEF RecordError
  <2>2. PICK h \in HeadersHere : FixedWords(h.type) > Remaining
    BY <1>8 DEF RecordError
  <2>3. /\ FixedWords(h.type) <= Remaining /\ FixedWords(h.type) \in Nat /\ Remaining \in Nat
    BY <2>1, ReadsWhatWasSent, HeadersHereTypes, FixedWordsTypes, WordsTypes
  <2>4. QED
    BY <2>2, <2>3
<1>9. CASE LoopEnds
  <2>1. pos = Words
    <3> SUFFICES ASSUME pos \in DOMAIN datagram.at \ {0}
                 PROVE  FALSE
      BY <1>5, <1>9 DEF LoopEnds
    <3>1. HeadersHere = {datagram.at[pos]}
      BY DEF HeadersHere
    <3>2. Remaining >= HeaderWords /\ \A h \in HeadersHere : Usable(h)
      BY <3>1, ReadsWhatWasSent
    <3>3. Remaining \in Nat
      BY WordsTypes
    <3>4. QED
      BY <1>9, <3>2, <3>3 DEF LoopEnds, HeaderWords
  <2>2. /\ pc' = "done" /\ result' = "files" /\ records' = records
        /\ records = datagram.sent[pos]
    BY <1>5, <1>9 DEF LoopEnds, Finish
  <2>3. QED
    BY <1>1, <1>2, <2>1, <2>2 DEF SentInv
<1>10. CASE UNCHANGED parserVars
  BY <1>2, <1>10 DEF SentInv, parserVars
<1>11. QED
  BY <1>3, <1>4, <1>7, <1>8, <1>9, <1>10 DEF ParserNext

\* From every f-stream that is laid out as a server does it, however many
\* records it has and of whatever sizes, the walk returns the records that were
\* put in, in order and with their optional fields (parseFileRecords).
THEOREM ParsesEveryPacketSent == ParserSpec => []ParsesWhatWasSent
<1>1. ParserInit => SentInv
  BY DEF ParserInit, SentInv
<1>2. SentInv => ParsesWhatWasSent
  BY DEF SentInv, FromServer, ParsesWhatWasSent
<1>3. ParserTypeOK /\ SentInv /\ [ParserNext]_parserVars => SentInv'
  BY SentInvStep
<1>4. QED
  BY <1>1, <1>2, <1>3, ParserTypes, PTL DEF ParserSpec

-----------------------------------------------------------------------------
(* Texts: where a symbol stands, and what is before and behind it.         *)

\* The place of a symbol is where it stands first, or last.
LEMMA FirstOfIs ==
    ASSUME NEW S, NEW w \in Seq(S), NEW c, NEW i \in 1..Len(w), w[i] = c,
           \A j \in 1..(i - 1) : w[j] # c
    PROVE  FirstOf(w, c) = i
<1> DEFINE I == {j \in 1..Len(w) : w[j] = c}
<1>1. FirstOf(w, c) = IF I # {} THEN Min(I) ELSE 0
  BY DEF FirstOf, SelectInSeq
<1>2. i \in I /\ \A j \in I : i <= j
  OBVIOUS
<1>3. \A j \in I : (\A k \in I : j <= k) => j = i
  BY <1>2
<1> HIDE DEF I
<1>4. QED
  BY <1>1, <1>2, <1>3 DEF Min

LEMMA FirstOfNone ==
    ASSUME NEW S, NEW w \in Seq(S), NEW c, \A j \in 1..Len(w) : w[j] # c
    PROVE  FirstOf(w, c) = 0
BY DEF FirstOf, SelectInSeq

LEMMA LastOfIs ==
    ASSUME NEW S, NEW w \in Seq(S), NEW c, NEW i \in 1..Len(w), w[i] = c,
           \A j \in (i + 1)..Len(w) : w[j] # c
    PROVE  LastOf(w, c) = i
<1> DEFINE I == {j \in 1..Len(w) : w[j] = c}
<1>1. LastOf(w, c) = IF I # {} THEN Max(I) ELSE 0
  BY DEF LastOf, SelectLastInSeq
<1>2. i \in I /\ \A j \in I : i >= j
  OBVIOUS
<1>3. \A j \in I : (\A k \in I : j >= k) => j = i
  BY <1>2
<1> HIDE DEF I
<1>4. QED
  BY <1>1, <1>2, <1>3 DEF Max

\* What is before and behind a symbol between two texts.
LEMMA SplitFacts ==
    ASSUME NEW S, NEW s \in Seq(S), NEW t \in Seq(S), NEW c \in S
    PROVE  LET w == s \o <<c>> \o t
               p == Len(s) + 1
           IN  /\ w \in Seq(S)
               /\ Len(w) = p + Len(t)
               /\ p \in 1..Len(w) /\ w[p] = c
               /\ \A i \in 1..(p - 1) : w[i] = s[i]
               /\ \A i \in (p + 1)..Len(w) : w[i] = t[i - p]
               /\ BeforePos(w, p) = s
               /\ AfterPos(w, p) = t
<1> DEFINE w == s \o <<c>> \o t
           p == Len(s) + 1
<1>1. <<c>> \in Seq(S) /\ Len(<<c>>) = 1 /\ <<c>>[1] = c /\ Len(s) \in Nat /\ Len(t) \in Nat
  OBVIOUS
<1>2. /\ s \o <<c>> \in Seq(S) /\ Len(s \o <<c>>) = p
      /\ \A i \in 1..Len(s) : (s \o <<c>>)[i] = s[i]
      /\ (s \o <<c>>)[p] = c
  BY <1>1, ConcatProperties
<1>3. /\ w \in Seq(S) /\ Len(w) = p + Len(t)
      /\ \A i \in 1..p : w[i] = (s \o <<c>>)[i]
      /\ \A i \in (p + 1)..Len(w) : w[i] = t[i - p]
  BY <1>1, <1>2, ConcatProperties
<1> HIDE DEF w
<1>4. BeforePos(w, p) = s
  <2>1. SubSeq(w, 1, Len(s)) \in Seq(S) /\ Len(SubSeq(w, 1, Len(s))) = Len(s)
        /\ \A i \in 1..Len(s) : SubSeq(w, 1, Len(s))[i] = w[i]
    BY <1>1, <1>3, SubSeqProperties
  <2>2. SubSeq(w, 1, Len(s)) = s
    BY <1>1, <1>2, <1>3, <2>1, SeqEqual
  <2>3. QED
    BY <1>1, <2>2 DEF BeforePos
<1>5. AfterPos(w, p) = t
  <2>1. SubSeq(w, p + 1, Len(w)) \in Seq(S) /\ Len(SubSeq(w, p + 1, Len(w))) = Len(t)
        /\ \A i \in 1..Len(t) : SubSeq(w, p + 1, Len(w))[i] = w[p + i]
    BY <1>1, <1>3, SubSeqProperties
  <2>2. SubSeq(w, p + 1, Len(w)) = t
    BY <1>1, <1>3, <2>1, SeqEqual
  <2>3. QED
    BY <2>2 DEF AfterPos
<1>6. QED
  BY <1>1, <1>2, <1>3, <1>4, <1>5 DEF w

\* A set of numbers has a smallest one.
LEMMA NatMin ==
    ASSUME NEW I \in SUBSET Nat, NEW i \in I
    PROVE  \E x \in I : \A y \in I : x <= y
<1> DEFINE R == {ss \in Nat \X Nat : ss[1] < ss[2]}
<1>1. IsWellFoundedOn(R, Nat)
  BY NatLessThanWellFounded, Zenon DEF OpToRel
<1>2. PICK x \in I : \A y \in I : ~(<<y, x>> \in R)
  <2> HIDE DEF R
  <2>1. QED
    BY <1>1, WFMin
<1>4. ASSUME NEW y \in I
      PROVE  x <= y
  <2>1. x \in Nat /\ y \in Nat
    OBVIOUS
  <2>2. y < x => <<y, x>> \in R
    BY <2>1, Zenon
  <2>3. QED
    BY <1>2, <2>1, <2>2
<1>5. QED BY <1>4

\* A symbol that is there is found, no later than there.
LEMMA FirstOfWithin ==
    ASSUME NEW S, NEW w \in Seq(S), NEW c, NEW i \in 1..Len(w), w[i] = c
    PROVE  FirstOf(w, c) \in 1..i
<1> DEFINE I == {j \in 1..Len(w) : w[j] = c}
<1>1. FirstOf(w, c) = IF I # {} THEN Min(I) ELSE 0
  BY DEF FirstOf, SelectInSeq
<1>2. i \in I /\ I \subseteq Nat /\ \A j \in I : j >= 1
  OBVIOUS
<1> HIDE DEF I
<1>3. PICK x \in I : \A y \in I : x <= y
  BY <1>2, NatMin
<1>5. Min(I) \in I /\ \A y \in I : Min(I) <= y
  BY <1>3 DEF Min
<1>6. FirstOf(w, c) = Min(I)
  BY <1>1, <1>2
<1>7. Min(I) \in Nat /\ Min(I) >= 1 /\ Min(I) <= i /\ i \in Nat
  BY <1>2, <1>5
<1>8. QED
  BY <1>6, <1>7

\* A text is cut at the first separator where the part before has none, and at
\* the last where the part behind has none.
LEMMA CutFirst ==
    ASSUME NEW S, NEW s \in Seq(S), NEW t \in Seq(S), NEW c \in S,
           \A i \in 1..Len(s) : s[i] # c
    PROVE  LET w == s \o <<c>> \o t
           IN  /\ FirstOf(w, c) = Len(s) + 1
               /\ BeforePos(w, FirstOf(w, c)) = s
               /\ AfterPos(w, FirstOf(w, c)) = t
<1> DEFINE w == s \o <<c>> \o t
           p == Len(s) + 1
<1>1. /\ w \in Seq(S) /\ p \in 1..Len(w) /\ w[p] = c
      /\ \A i \in 1..(p - 1) : w[i] = s[i]
      /\ BeforePos(w, p) = s /\ AfterPos(w, p) = t
  BY SplitFacts
<1> HIDE DEF w
<1>2. \A i \in 1..(p - 1) : w[i] # c
  BY <1>1 DEF Lacks
<1>3. FirstOf(w, c) = p
  BY <1>1, <1>2, FirstOfIs
<1>4. QED
  BY <1>1, <1>3 DEF w

LEMMA CutLast ==
    ASSUME NEW S, NEW s \in Seq(S), NEW t \in Seq(S), NEW c \in S,
           \A i \in 1..Len(t) : t[i] # c
    PROVE  LET w == s \o <<c>> \o t
           IN  /\ LastOf(w, c) = Len(s) + 1
               /\ BeforePos(w, LastOf(w, c)) = s
               /\ AfterPos(w, LastOf(w, c)) = t
<1> DEFINE w == s \o <<c>> \o t
           p == Len(s) + 1
<1>1. /\ w \in Seq(S) /\ p \in 1..Len(w) /\ w[p] = c /\ Len(w) = p + Len(t)
      /\ \A i \in (p + 1)..Len(w) : w[i] = t[i - p]
      /\ BeforePos(w, p) = s /\ AfterPos(w, p) = t
  BY SplitFacts
<1> HIDE DEF w
<1>2. \A i \in (p + 1)..Len(w) : w[i] # c
  BY <1>1 DEF Lacks
<1>3. LastOf(w, c) = p
  BY <1>1, <1>2, LastOfIs
<1>4. QED
  BY <1>1, <1>3 DEF w

\* What both parts and the separator lack, the text lacks.
LEMMA LacksSplit ==
    ASSUME NEW S, NEW s \in Seq(S), NEW t \in Seq(S), NEW c \in S, NEW C, c \notin C,
           Lacks(s, C), Lacks(t, C)
    PROVE  Lacks(s \o <<c>> \o t, C)
<1> DEFINE w == s \o <<c>> \o t
           p == Len(s) + 1
<1>1. /\ w[p] = c /\ Len(w) = p + Len(t) /\ Len(s) \in Nat /\ Len(t) \in Nat
      /\ \A i \in 1..(p - 1) : w[i] = s[i]
      /\ \A i \in (p + 1)..Len(w) : w[i] = t[i - p]
  BY SplitFacts
<1> HIDE DEF w
<1>2. ASSUME NEW i \in 1..Len(w)
      PROVE  w[i] \notin C
  <2>1. CASE i < p
    BY <1>1, <2>1 DEF Lacks
  <2>2. CASE i = p
    BY <1>1, <2>2
  <2>3. CASE i > p
    <3>1. i - p \in 1..Len(t) /\ w[i] = t[i - p]
      BY <1>1, <2>3
    <3>2. QED
      BY <3>1 DEF Lacks
  <2>4. QED
    BY <1>1, <2>1, <2>2, <2>3
<1>3. QED
  BY <1>2 DEF Lacks, w

\* A number is read whole and holds no separator.
LEMMA DigitsText ==
    ASSUME NEW n \in Seq(Digits)
    PROVE  /\ LeadingDigits(n) = n
           /\ n # <<>> => Atoi(n) = n
           /\ Lacks(n, {"/", "@", ".", ":", Newline})
<1>1. \A i \in 1..Len(n) : n[i] \in {"0", "1"}
  BY ElementOfSeq DEF Digits
<1>2. LeadingDigits(n) = n
  BY <1>1 DEF LeadingDigits, SelectInSeq, Digits
<1>3. Lacks(n, {"/", "@", ".", ":", Newline})
  BY <1>1 DEF Lacks, Newline
<1>4. QED
  BY <1>2, <1>3 DEF Atoi

\* The symbols of a text: the separators are named, they are symbols too.
Symbols == STRING \cup {".", ":", "@", "/", "&", "=", Newline}

LEMMA SeparatorsAreSymbols ==
    \A c \in {".", ":", "@", "/", "&", "=", Newline} : c \in Symbols
BY DEF Symbols

\* The fields of a user are texts.
LEMMA UserFields ==
    ASSUME NEW u, ServerUser(u)
    PROVE  /\ u.protocol \in Seq(Symbols) /\ u.username \in Seq(Symbols)
           /\ u.pid \in Seq(Symbols) /\ u.sid \in Seq(Symbols) /\ u.host \in Seq(Symbols)
           /\ u.pid \in Seq(Digits) /\ u.sid \in Seq(Digits) /\ u.pid # <<>> /\ u.sid # <<>>
           /\ u = [protocol |-> u.protocol, username |-> u.username, pid |-> u.pid,
                   sid |-> u.sid, host |-> u.host]
<1>1. u \in [protocol : Seq(STRING), username : Seq(STRING), pid : Seq(STRING),
            sid : Seq(STRING), host : Seq(STRING)]
  BY DEF ServerUser
<1>2. \A n \in Seq(STRING) : n \in Seq(Symbols)
  BY SeqMonotonic DEF Symbols
<1>3. u.pid \in Seq(Digits) /\ u.sid \in Seq(Digits) /\ u.pid # <<>> /\ u.sid # <<>>
  BY DEF ServerUser
<1>4. QED
  BY <1>1, <1>2, <1>3

\* What stands before the first '/' is the protocol, if there is one.
Prefixed(p, r) == (IF p = <<>> THEN <<>> ELSE p \o <<"/">>) \o r

\* Protocol and Unprefixed take such a text apart.
LEMMA PrefixFacts ==
    ASSUME NEW p \in Seq(Symbols), NEW r \in Seq(Symbols),
           \A i \in 1..Len(p) : p[i] # "/", \A i \in 1..Len(r) : r[i] # "/"
    PROVE  /\ Prefixed(p, r) \in Seq(Symbols)
           /\ Protocol(Prefixed(p, r)) = p
           /\ Unprefixed(Prefixed(p, r)) = r
<1> DEFINE text == Prefixed(p, r)
<1>1. CASE p = <<>>
  <2>1. text = r
    BY <1>1, ConcatEmptySeq DEF Prefixed
  <2> HIDE DEF text
  <2>2. FirstOf(text, "/") = 0
    BY <2>1, FirstOfNone
  <2>3. Protocol(text) = p
    BY <1>1, <2>2 DEF Protocol
  <2>4. Unprefixed(text) = SubSeq(r, 1, Len(r))
    BY <2>1, <2>2 DEF Unprefixed, AfterPos
  <2>5. Unprefixed(text) = r
    BY <2>4, SubSeqFull
  <2>6. QED
    BY <2>1, <2>3, <2>5 DEF text
<1>2. CASE p # <<>>
  <2>1. text = p \o <<"/">> \o r
    BY <1>2 DEF Prefixed
  <2>2. "/" \in Symbols /\ Len(p) \in Nat
    BY SeparatorsAreSymbols
  <2> HIDE DEF text
  <2>3. /\ FirstOf(text, "/") = Len(p) + 1
        /\ BeforePos(text, FirstOf(text, "/")) = p
        /\ AfterPos(text, FirstOf(text, "/")) = r
    <3>1. /\ FirstOf(p \o <<"/">> \o r, "/") = Len(p) + 1
          /\ BeforePos(p \o <<"/">> \o r, FirstOf(p \o <<"/">> \o r, "/")) = p
          /\ AfterPos(p \o <<"/">> \o r, FirstOf(p \o <<"/">> \o r, "/")) = r
      BY <2>2, CutFirst
    <3>2. QED
      BY <2>1, <3>1
  <2>4. text \in Seq(Symbols)
    BY <2>1, <2>2, SplitFacts
  <2>5. Protocol(text) = p /\ Unprefixed(text) = r
    BY <2>2, <2>3 DEF Protocol, Unprefixed
  <2>6. QED
    BY <2>4, <2>5 DEF text
<1>3. QED
  BY <1>1, <1>2

\* The parts of the text of a user, and the symbols they lack.
LEMMA TextParts ==
    ASSUME NEW u, ServerUser(u)
    PROVE  LET name == u.username \o <<".">> \o u.pid
               rest == Login(u) \o <<"@">> \o u.host
           IN  /\ name \in Seq(Symbols) /\ Lacks(name, {"/", ":", Newline})
               /\ Login(u) = name \o <<":">> \o u.sid
               /\ Login(u) \in Seq(Symbols) /\ Lacks(Login(u), {"/", Newline})
               /\ rest \in Seq(Symbols) /\ Lacks(rest, {"/", Newline})
               /\ Protocol(UserText(u)) = u.protocol
               /\ Unprefixed(UserText(u)) = rest
               /\ UserText(u) \in Seq(Symbols) /\ Lacks(UserText(u), {Newline})
<1> DEFINE name == u.username \o <<".">> \o u.pid
           rest == Login(u) \o <<"@">> \o u.host
           text == UserText(u)
<1>1. name \in Seq(Symbols) /\ Lacks(name, {"/", ":", Newline})
  <2>1. Lacks(u.username, {"/", ":", Newline}) /\ Lacks(u.pid, {"/", ":", Newline})
    BY UserFields, DigitsText DEF ServerUser, Lacks
  <2>2. "." \notin {"/", ":", Newline}
    BY DEF Newline
  <2>3. u.username \in Seq(Symbols) /\ u.pid \in Seq(Symbols) /\ "." \in Symbols
    BY UserFields, SeparatorsAreSymbols
  <2>4. name \in Seq(Symbols)
    BY <2>3, SplitFacts
  <2>5. Lacks(name, {"/", ":", Newline})
    BY <2>1, <2>2, <2>3, LacksSplit
  <2>6. QED
    BY <2>4, <2>5
<1>2. Login(u) = name \o <<":">> \o u.sid
  BY DEF Login
<1> HIDE DEF name
<1>3. Login(u) \in Seq(Symbols) /\ Lacks(Login(u), {"/", Newline})
  <2>1. Lacks(name, {"/", Newline}) /\ Lacks(u.sid, {"/", Newline})
    BY <1>1, UserFields, DigitsText DEF Lacks
  <2>2. ":" \notin {"/", Newline}
    BY DEF Newline
  <2>3. QED
    <3>1. name \o <<":">> \o u.sid \in Seq(Symbols)
      BY <1>1, UserFields, SeparatorsAreSymbols, SplitFacts
    <3>2. Lacks(name \o <<":">> \o u.sid, {"/", Newline})
      BY <1>1, <2>1, <2>2, UserFields, SeparatorsAreSymbols, LacksSplit
    <3>3. QED
      BY <1>2, <3>1, <3>2
<1>4. rest \in Seq(Symbols) /\ Lacks(rest, {"/", Newline})
  <2>1. Lacks(u.host, {"/", Newline})
    BY DEF ServerUser, Lacks
  <2>2. "@" \notin {"/", Newline}
    BY DEF Newline
  <2>3. QED
    BY <1>3, <2>1, <2>2, UserFields, SeparatorsAreSymbols, SplitFacts, LacksSplit
<1>5. text = Prefixed(u.protocol, rest)
  BY DEF UserText, Prefixed
<1> HIDE DEF rest, text
<1>6. /\ text \in Seq(Symbols)
      /\ Protocol(text) = u.protocol
      /\ Unprefixed(text) = rest
  <2>1. u.protocol \in Seq(Symbols)
    BY UserFields
  <2>2. \A i \in 1..Len(u.protocol) : u.protocol[i] # "/"
    BY DEF ServerUser, Lacks
  <2>3. \A i \in 1..Len(rest) : rest[i] # "/"
    BY <1>4 DEF Lacks
  <2>4. QED
    BY <1>4, <1>5, <2>1, <2>2, <2>3, PrefixFacts
<1>7. Lacks(text, {Newline})
  <2>1. Lacks(rest, {Newline}) /\ Lacks(u.protocol, {Newline}) /\ "/" \notin {Newline}
    BY <1>4 DEF ServerUser, Lacks, Newline
  <2>2. u.protocol \in Seq(Symbols) /\ "/" \in Symbols
    BY UserFields, SeparatorsAreSymbols
  <2>3. CASE u.protocol = <<>>
    BY <1>4, <1>5, <2>1, <2>3, ConcatEmptySeq DEF Prefixed
  <2>4. CASE u.protocol # <<>>
    <3>1. text = u.protocol \o <<"/">> \o rest
      BY <1>5, <2>4 DEF Prefixed
    <3>2. QED
      BY <1>4, <2>1, <2>2, <3>1, LacksSplit
  <2>5. QED
    BY <2>3, <2>4
<1>8. QED
  BY <1>1, <1>2, <1>3, <1>4, <1>6, <1>7 DEF name, rest, text

\* The parser of the 'u' and 'T' packets names every user that a server writes.
LEMMA ParsesUser ==
    ASSUME NEW u, ServerUser(u)
    PROVE  ParseUserInfo(UserText(u)) = u
<1> DEFINE username == u.username
           pid == u.pid
           sid == u.sid
           host == u.host
           name == username \o <<".">> \o pid
           login == Login(u)
           rest == login \o <<"@">> \o host
           text == UserText(u)
<1>1. /\ name \in Seq(Symbols) /\ Lacks(name, {"/", ":", Newline})
      /\ login \in Seq(Symbols) /\ login = name \o <<":">> \o sid
      /\ Protocol(text) = u.protocol /\ Unprefixed(text) = rest
  BY TextParts
<1>2. /\ username \in Seq(Symbols) /\ pid \in Seq(Symbols) /\ sid \in Seq(Symbols)
      /\ host \in Seq(Symbols)
      /\ "." \in Symbols /\ ":" \in Symbols /\ "@" \in Symbols
  BY UserFields, SeparatorsAreSymbols
<1>3. /\ \A i \in 1..Len(host) : host[i] # "@"
      /\ \A i \in 1..Len(pid) : pid[i] # "."
  BY UserFields, DigitsText DEF ServerUser, Lacks
<1>4. LeadingDigits(pid) = pid /\ LeadingDigits(sid) = sid /\ pid # <<>> /\ sid # <<>>
  BY UserFields, DigitsText
<1> HIDE DEF username, pid, sid, host, name, login, text
<1>5. /\ LastOf(rest, "@") = Len(login) + 1
      /\ BeforePos(rest, LastOf(rest, "@")) = login
      /\ AfterPos(rest, LastOf(rest, "@")) = host
  <2>1. login \in Seq(Symbols) /\ host \in Seq(Symbols) /\ "@" \in Symbols
    BY <1>1, <1>2
  <2>2. \A i \in 1..Len(host) : host[i] # "@"
    BY <1>3
  <2>3. QED
    BY <2>1, <2>2, CutLast
<1>6. /\ FirstOf(login, ":") = Len(name) + 1
      /\ BeforePos(login, FirstOf(login, ":")) = name
      /\ AfterPos(login, FirstOf(login, ":")) = sid
  <2>1. \A i \in 1..Len(name) : name[i] # ":"
    BY <1>1 DEF Lacks
  <2> DEFINE joined == name \o <<":">> \o sid
  <2>2. /\ FirstOf(joined, ":") = Len(name) + 1
        /\ BeforePos(joined, FirstOf(joined, ":")) = name
        /\ AfterPos(joined, FirstOf(joined, ":")) = sid
    <3>1. name \in Seq(Symbols) /\ sid \in Seq(Symbols) /\ ":" \in Symbols
      BY <1>1, <1>2
    <3>2. QED
      BY <2>1, <3>1, CutFirst
  <2> HIDE DEF joined
  <2>3. login = joined
    BY <1>1 DEF joined
  <2>4. QED
    BY <2>2, <2>3
<1>7. /\ LastOf(name, ".") = Len(username) + 1
      /\ BeforePos(name, LastOf(name, ".")) = username
      /\ AfterPos(name, LastOf(name, ".")) = pid
  <2>1. username \in Seq(Symbols) /\ pid \in Seq(Symbols) /\ "." \in Symbols
    BY <1>2
  <2>2. \A i \in 1..Len(pid) : pid[i] # "."
    BY <1>3
  <2>3. QED
    BY <2>1, <2>2, CutLast DEF name
<1>8. LastOf(rest, "@") # 0 /\ FirstOf(login, ":") # 0 /\ LastOf(name, ".") # 0
  <2>1. Len(login) \in Nat /\ Len(name) \in Nat /\ Len(username) \in Nat
    BY <1>1, <1>2, LenProperties
  <2>2. QED
    BY <1>5, <1>6, <1>7, <2>1
<1> HIDE DEF rest
<1>9. ParseUserInfo(text) = [protocol |-> u.protocol, username |-> username, pid |-> pid,
                             sid |-> sid, host |-> host]
  BY <1>1, <1>4, <1>5, <1>6, <1>7, <1>8 DEF ParseUserInfo
<1>10. QED
  BY <1>9, UserFields DEF username, pid, sid, host, text

\* The text again, split where the correlator's parser splits it.
LEMMA TextHeads ==
    ASSUME NEW u, ServerUser(u)
    PROVE  LET head == Prefixed(u.protocol, Login(u))
               numbers == u.pid \o <<":">> \o u.sid
           IN  /\ head \in Seq(Symbols)
               /\ Protocol(head) = u.protocol
               /\ Unprefixed(head) = Login(u)
               /\ Login(u) \in Seq(Symbols)
               /\ UserText(u) = head \o <<"@">> \o u.host
               /\ numbers \in Seq(Symbols)
               /\ Login(u) = u.username \o <<".">> \o numbers
<1> DEFINE protocol == u.protocol
           host == u.host
           pid == u.pid
           sid == u.sid
           login == Login(u)
           pre == IF protocol = <<>> THEN <<>> ELSE protocol \o <<"/">>
           head == Prefixed(protocol, login)
           numbers == pid \o <<":">> \o sid
           name == u.username \o <<".">>
<1>1. /\ protocol \in Seq(Symbols) /\ host \in Seq(Symbols) /\ pid \in Seq(Symbols)
      /\ sid \in Seq(Symbols) /\ u.username \in Seq(Symbols)
  BY UserFields
<1>2. <<":">> \in Seq(Symbols) /\ <<"@">> \in Seq(Symbols) /\ <<"/">> \in Seq(Symbols)
      /\ <<".">> \in Seq(Symbols) /\ <<>> \in Seq(Symbols)
  BY SeparatorsAreSymbols
<1>3. login \in Seq(Symbols) /\ Lacks(login, {"/", Newline})
  BY TextParts
<1>4. /\ UserText(u) = pre \o ((login \o <<"@">>) \o host)
      /\ head = pre \o login
  BY DEF UserText, Prefixed
<1>5. login = ((name \o pid) \o <<":">>) \o sid
  BY DEF Login
<1>6. \A i \in 1..Len(protocol) : protocol[i] # "/"
  BY DEF ServerUser, Lacks
<1>7. name \in Seq(Symbols) /\ pre \in Seq(Symbols) /\ numbers \in Seq(Symbols)
  BY <1>1, <1>2, ConcatProperties
<1>8. u.username \o <<".">> \o numbers = name \o numbers
  OBVIOUS
<1> HIDE DEF protocol, host, pid, sid, login, pre, name
<1>9. UserText(u) = ((pre \o login) \o <<"@">>) \o host
  <2> DEFINE at == <<"@">>
             m == login \o at
  <2>1. pre \in Seq(Symbols) /\ login \in Seq(Symbols) /\ at \in Seq(Symbols)
    BY <1>2, <1>3, <1>7
  <2>2. m \in Seq(Symbols)
    BY <2>1, ConcatProperties
  <2>3. pre \in Seq(Symbols) /\ m \in Seq(Symbols) /\ host \in Seq(Symbols)
    BY <1>1, <2>1, <2>2
  <2>4. UserText(u) = pre \o (m \o host)
    BY <1>4
  <2> HIDE DEF at
  <2>5. (pre \o login) \o at = pre \o m
    BY <2>1, ConcatAssociative
  <2> HIDE DEF m
  <2>6. (pre \o m) \o host = pre \o (m \o host)
    BY <2>3, ConcatAssociative
  <2>7. QED
    BY <2>4, <2>5, <2>6 DEF at
<1>10. login = name \o ((pid \o <<":">>) \o sid)
  <2> DEFINE colon == <<":">>
             m == pid \o colon
  <2>1. name \in Seq(Symbols) /\ pid \in Seq(Symbols) /\ colon \in Seq(Symbols)
    BY <1>1, <1>2, <1>7
  <2>2. m \in Seq(Symbols)
    BY <2>1, ConcatProperties
  <2>3. name \in Seq(Symbols) /\ m \in Seq(Symbols) /\ sid \in Seq(Symbols)
    BY <1>1, <2>1, <2>2
  <2> HIDE DEF colon
  <2>4. (name \o pid) \o colon = name \o m
    BY <2>1, ConcatAssociative
  <2> HIDE DEF m
  <2>5. (name \o m) \o sid = name \o (m \o sid)
    BY <2>3, ConcatAssociative
  <2>6. QED
    BY <1>5, <2>4, <2>5 DEF m, colon
<1>11. head \in Seq(Symbols) /\ Protocol(head) = protocol /\ Unprefixed(head) = login
  <2>1. \A i \in 1..Len(login) : login[i] # "/"
    BY <1>3 DEF Lacks
  <2>2. QED
    BY <1>1, <1>3, <1>6, <2>1, PrefixFacts
<1>12. QED
  BY <1>3, <1>4, <1>7, <1>8, <1>9, <1>10, <1>11 DEF protocol, host, pid, sid, login

\* Without a '@' in the username there is none before the host.
LEMMA LoginLacks ==
    ASSUME NEW u, ServerUser(u), Lacks(u.username, {"@"})
    PROVE  Lacks(Prefixed(u.protocol, Login(u)), {"@"})
<1> DEFINE protocol == u.protocol
           username == u.username
           pid == u.pid
           sid == u.sid
           name == username \o <<".">> \o pid
           login == Login(u)
<1>1. /\ protocol \in Seq(Symbols) /\ username \in Seq(Symbols) /\ pid \in Seq(Symbols)
      /\ sid \in Seq(Symbols)
      /\ "." \in Symbols /\ ":" \in Symbols /\ "/" \in Symbols
  BY UserFields, SeparatorsAreSymbols
<1>2. name \in Seq(Symbols) /\ login \in Seq(Symbols) /\ login = name \o <<":">> \o sid
  BY TextParts
<1>3. Lacks(pid, {"@"}) /\ Lacks(sid, {"@"})
  BY UserFields, DigitsText DEF Lacks
<1>4. Lacks(username, {"@"}) /\ Lacks(protocol, {"@"})
  BY DEF ServerUser, Lacks
<1> HIDE DEF protocol, username, pid, sid, login
<1>5. Lacks(name, {"@"})
  <2>1. username \in Seq(Symbols) /\ pid \in Seq(Symbols) /\ "." \in Symbols
    BY <1>1
  <2>2. QED
    BY <1>3, <1>4, <2>1, LacksSplit
<1> HIDE DEF name
<1>6. Lacks(login, {"@"})
  <2>1. name \in Seq(Symbols) /\ sid \in Seq(Symbols) /\ ":" \in Symbols
    BY <1>1, <1>2
  <2>2. Lacks(name \o <<":">> \o sid, {"@"})
    BY <1>3, <1>5, <2>1, LacksSplit
  <2>3. QED
    BY <1>2, <2>2
<1>7. Lacks(Prefixed(protocol, login), {"@"})
  <2>1. protocol \in Seq(Symbols) /\ login \in Seq(Symbols) /\ "/" \in Symbols
    BY <1>1, <1>2
  <2>2. CASE protocol = <<>>
    BY <1>6, <2>1, <2>2, ConcatEmptySeq DEF Prefixed
  <2>3. CASE protocol # <<>>
    <3>1. Lacks(protocol \o <<"/">> \o login, {"@"})
      BY <1>4, <1>6, <2>1, LacksSplit
    <3>2. QED
      BY <2>3, <3>1 DEF Prefixed
  <2>4. QED
    BY <2>2, <2>3
<1>8. QED
  BY <1>7 DEF protocol, login

\* Where the username has no '@', the correlator's parser cuts the host off
\* where the other one does.
LEMMA SimpleCutsHost ==
    ASSUME NEW u, ServerUser(u), Lacks(u.username, {"@"})
    PROVE  LET text == UserText(u)
               at == FirstOf(text, "@")
           IN  /\ at # 0
               /\ Protocol(BeforePos(text, at)) = u.protocol
               /\ Unprefixed(BeforePos(text, at)) = Login(u)
               /\ AfterPos(text, at) = u.host
<1> DEFINE head == Prefixed(u.protocol, Login(u))
           host == u.host
           text == UserText(u)
<1>1. /\ head \in Seq(Symbols) /\ Protocol(head) = u.protocol /\ Unprefixed(head) = Login(u)
      /\ text = head \o <<"@">> \o host
  BY TextHeads
<1>2. host \in Seq(Symbols) /\ "@" \in Symbols
  BY UserFields, SeparatorsAreSymbols
<1>3. Lacks(head, {"@"})
  BY LoginLacks
<1> HIDE DEF head, host, text
<1>4. \A i \in 1..Len(head) : head[i] # "@"
  BY <1>3 DEF Lacks
<1>5. /\ FirstOf(text, "@") = Len(head) + 1
      /\ BeforePos(text, FirstOf(text, "@")) = head
      /\ AfterPos(text, FirstOf(text, "@")) = host
  <2> DEFINE joined == head \o <<"@">> \o host
  <2>1. /\ FirstOf(joined, "@") = Len(head) + 1
        /\ BeforePos(joined, FirstOf(joined, "@")) = head
        /\ AfterPos(joined, FirstOf(joined, "@")) = host
    <3>1. head \in Seq(Symbols)
      BY <1>1
    <3>2. QED
      BY <1>2, <1>4, <3>1, CutFirst
  <2> HIDE DEF joined
  <2>2. text = joined
    BY <1>1 DEF joined
  <2>3. QED
    BY <2>1, <2>2
<1>6. Len(head) \in Nat
  BY <1>1, LenProperties
<1>7. QED
  BY <1>1, <1>5, <1>6 DEF host, text

\* A username without '.' and '@' is found by the correlator's parser too.
LEMMA SimpleParsesUser ==
    ASSUME NEW u, ServerUser(u), Lacks(u.username, {".", "@"})
    PROVE  ParseUserInfoSimple(UserText(u)) = u
<1> DEFINE text == UserText(u)
           at == FirstOf(text, "@")
           username == u.username
           pid == u.pid
           sid == u.sid
           login == Login(u)
           numbers == pid \o <<":">> \o sid
<1>1. /\ at # 0
      /\ Protocol(BeforePos(text, at)) = u.protocol
      /\ Unprefixed(BeforePos(text, at)) = login
      /\ AfterPos(text, at) = u.host
  <2>1. Lacks(u.username, {"@"})
    BY DEF Lacks
  <2>2. QED
    BY <2>1, SimpleCutsHost
<1>2. numbers \in Seq(Symbols) /\ login = username \o <<".">> \o numbers
  BY TextHeads
<1>3. /\ username \in Seq(Symbols) /\ pid \in Seq(Symbols) /\ sid \in Seq(Symbols)
      /\ "." \in Symbols /\ ":" \in Symbols
  BY UserFields, SeparatorsAreSymbols
<1>4. Atoi(pid) = pid /\ Atoi(sid) = sid /\ Lacks(pid, {":"})
  BY UserFields, DigitsText DEF Lacks
<1>5. \A i \in 1..Len(username) : username[i] # "."
  BY DEF Lacks
<1> HIDE DEF text, at, username, pid, sid, login
<1>6. /\ FirstOf(numbers, ":") = Len(pid) + 1
      /\ BeforePos(numbers, FirstOf(numbers, ":")) = pid
      /\ AfterPos(numbers, FirstOf(numbers, ":")) = sid
  <2>1. pid \in Seq(Symbols) /\ sid \in Seq(Symbols) /\ ":" \in Symbols
    BY <1>3
  <2>2. \A i \in 1..Len(pid) : pid[i] # ":"
    BY <1>4 DEF Lacks
  <2>3. QED
    BY <2>1, <2>2, CutFirst
<1> HIDE DEF numbers
<1>7. /\ FirstOf(login, ".") = Len(username) + 1
      /\ BeforePos(login, FirstOf(login, ".")) = username
      /\ AfterPos(login, FirstOf(login, ".")) = numbers
  <2> DEFINE joined == username \o <<".">> \o numbers
  <2>1. /\ FirstOf(joined, ".") = Len(username) + 1
        /\ BeforePos(joined, FirstOf(joined, ".")) = username
        /\ AfterPos(joined, FirstOf(joined, ".")) = numbers
    <3>1. username \in Seq(Symbols) /\ numbers \in Seq(Symbols) /\ "." \in Symbols
      BY <1>2, <1>3
    <3>2. QED
      BY <1>5, <3>1, CutFirst
  <2> HIDE DEF joined
  <2>2. login = joined
    BY <1>2 DEF joined
  <2>3. QED
    BY <2>1, <2>2
<1>8. FirstOf(login, ".") # 0 /\ FirstOf(numbers, ":") # 0
  <2>1. Len(username) \in Nat /\ Len(pid) \in Nat
    BY <1>3, LenProperties
  <2>2. QED
    BY <1>6, <1>7, <2>1
<1>9. ParseUserInfoSimple(text) = [protocol |-> u.protocol, username |-> username, pid |-> pid,
                                   sid |-> sid, host |-> u.host]
  BY <1>1, <1>4, <1>6, <1>7, <1>8 DEF ParseUserInfoSimple, at
<1>10. QED
  BY <1>9, UserFields DEF username, pid, sid, text

\* A '@' in the username: the host of the correlator's parser begins there.
LEMMA SimpleCutsEarly ==
    ASSUME NEW u, ServerUser(u), NEW i \in 1..Len(u.username), u.username[i] = "@"
    PROVE  ParseUserInfoSimple(UserText(u)) # u
<1> DEFINE protocol == u.protocol
           username == u.username
           host == u.host
           login == Login(u)
           head == Prefixed(protocol, login)
           numbers == u.pid \o <<":">> \o u.sid
           text == UserText(u)
           at == FirstOf(text, "@")
<1>1. /\ head \in Seq(Symbols) /\ login \in Seq(Symbols) /\ numbers \in Seq(Symbols)
      /\ text = head \o <<"@">> \o host
      /\ login = username \o <<".">> \o numbers
  BY TextHeads
<1>2. /\ protocol \in Seq(Symbols) /\ username \in Seq(Symbols) /\ host \in Seq(Symbols)
      /\ "@" \in Symbols /\ "." \in Symbols /\ "/" \in Symbols
  BY UserFields, SeparatorsAreSymbols
<1>3. i \in 1..Len(username) /\ username[i] = "@" /\ u.pid # <<>> /\ NoUser.pid = <<>>
  BY UserFields DEF NoUser
<1> HIDE DEF protocol, username, host, login, head, numbers, text
<1>4. i \in 1..Len(login) /\ login[i] = "@"
  <2> DEFINE joined == username \o <<".">> \o numbers
  <2>1. username \in Seq(Symbols) /\ numbers \in Seq(Symbols) /\ "." \in Symbols
    BY <1>1, <1>2
  <2>2. /\ Len(joined) = Len(username) + 1 + Len(numbers)
        /\ \A k \in 1..(Len(username) + 1 - 1) : joined[k] = username[k]
        /\ Len(username) \in Nat /\ Len(numbers) \in Nat
    BY <2>1, SplitFacts
  <2> HIDE DEF joined
  <2>3. i \in 1..Len(joined) /\ joined[i] = "@"
    BY <1>3, <2>2
  <2>4. QED
    BY <1>1, <2>3 DEF joined
<1>5. PICK k \in 1..Len(head) : head[k] = "@"
  <2>1. CASE protocol = <<>>
    <3>1. head = login
      BY <1>1, <2>1, ConcatEmptySeq DEF head, Prefixed
    <3>2. QED
      BY <1>4, <3>1
  <2>2. CASE protocol # <<>>
    <3> DEFINE joined == protocol \o <<"/">> \o login
               p == Len(protocol) + 1
    <3>1. protocol \in Seq(Symbols) /\ login \in Seq(Symbols) /\ "/" \in Symbols
      BY <1>1, <1>2
    <3>2. /\ Len(joined) = p + Len(login)
          /\ \A n \in (p + 1)..Len(joined) : joined[n] = login[n - p]
          /\ Len(protocol) \in Nat /\ Len(login) \in Nat
      BY <3>1, SplitFacts
    <3>3. head = joined
      BY <2>2 DEF head, Prefixed
    <3> HIDE DEF joined
    <3>4. p + i \in 1..Len(joined) /\ joined[p + i] = login[i]
      <4>1. p \in Nat /\ i \in Nat /\ i >= 1 /\ i <= Len(login)
        BY <1>4, <3>2
      <4> HIDE DEF p
      <4>2. p + i \in (p + 1)..Len(joined) /\ p + i \in 1..Len(joined) /\ (p + i) - p = i
        BY <3>2, <4>1
      <4>3. QED
        BY <3>2, <4>2
    <3>5. QED
      BY <1>4, <3>3, <3>4
  <2>3. QED
    BY <2>1, <2>2
<1>6. /\ text \in Seq(Symbols) /\ Len(text) = Len(head) + 1 + Len(host)
      /\ Len(head) \in Nat /\ Len(host) \in Nat
      /\ k \in 1..Len(text) /\ text[k] = "@"
  <2> DEFINE joined == head \o <<"@">> \o host
  <2>1. head \in Seq(Symbols) /\ host \in Seq(Symbols) /\ "@" \in Symbols
    BY <1>1, <1>2
  <2>2. /\ joined \in Seq(Symbols) /\ Len(joined) = Len(head) + 1 + Len(host)
        /\ \A n \in 1..(Len(head) + 1 - 1) : joined[n] = head[n]
        /\ Len(head) \in Nat /\ Len(host) \in Nat
    BY <2>1, SplitFacts
  <2> HIDE DEF joined
  <2>3. k \in 1..Len(joined) /\ joined[k] = "@"
    BY <1>5, <2>2
  <2>4. QED
    BY <1>1, <2>2, <2>3 DEF joined
<1>7. at \in 1..k
  BY <1>6, FirstOfWithin
<1> HIDE DEF at
<1>8. AfterPos(text, at) # host
  <2>1. at \in Nat /\ at + 1 \in 1..(Len(text) + 1) /\ Len(text) \in Nat
        /\ Len(text) - at > Len(host)
    BY <1>5, <1>6, <1>7
  <2>2. Len(SubSeq(text, at + 1, Len(text))) = Len(text) - at
    BY <1>6, <2>1, SubSeqProperties
  <2>3. QED
    BY <2>1, <2>2 DEF AfterPos
<1>9. \/ ParseUserInfoSimple(text) = NoUser
      \/ ParseUserInfoSimple(text).host = AfterPos(text, at)
  BY DEF ParseUserInfoSimple, at
<1>10. QED
  BY <1>3, <1>8, <1>9 DEF text, host

\* A '.' in the username: the username of the correlator's parser ends there.
LEMMA SimpleCutsName ==
    ASSUME NEW u, ServerUser(u), Lacks(u.username, {"@"}),
           NEW i \in 1..Len(u.username), u.username[i] = "."
    PROVE  ParseUserInfoSimple(UserText(u)) # u
<1> DEFINE username == u.username
           login == Login(u)
           numbers == u.pid \o <<":">> \o u.sid
           text == UserText(u)
           at == FirstOf(text, "@")
           dot == FirstOf(login, ".")
<1>1. at # 0 /\ Unprefixed(BeforePos(text, at)) = login
  BY SimpleCutsHost
<1>2. /\ login \in Seq(Symbols) /\ numbers \in Seq(Symbols)
      /\ login = username \o <<".">> \o numbers
  BY TextHeads
<1>3. username \in Seq(Symbols) /\ "." \in Symbols
  BY UserFields, SeparatorsAreSymbols
<1>4. i \in 1..Len(username) /\ username[i] = "." /\ u.pid # <<>> /\ NoUser.pid = <<>>
  BY UserFields DEF NoUser
<1> HIDE DEF username, login, numbers, text, at
<1>5. /\ i \in 1..Len(login) /\ login[i] = "."
      /\ Len(username) \in Nat /\ Len(username) < Len(login)
  <2> DEFINE joined == username \o <<".">> \o numbers
  <2>1. username \in Seq(Symbols) /\ numbers \in Seq(Symbols) /\ "." \in Symbols
    BY <1>2, <1>3
  <2>2. /\ Len(joined) = Len(username) + 1 + Len(numbers)
        /\ \A k \in 1..(Len(username) + 1 - 1) : joined[k] = username[k]
        /\ Len(username) \in Nat /\ Len(numbers) \in Nat
    BY <2>1, SplitFacts
  <2> HIDE DEF joined
  <2>3. i \in 1..Len(joined) /\ joined[i] = "." /\ Len(username) < Len(joined)
    BY <1>4, <2>2
  <2>4. QED
    BY <1>2, <2>2, <2>3 DEF joined
<1>6. dot \in 1..i
  BY <1>2, <1>5, FirstOfWithin
<1> HIDE DEF dot
<1>7. BeforePos(login, dot) # username
  <2>1. dot - 1 \in 0..(Len(username) - 1) /\ dot - 1 \in 0..Len(login) /\ Len(login) \in Nat
    BY <1>2, <1>4, <1>5, <1>6, LenProperties
  <2>2. Len(SubSeq(login, 1, dot - 1)) = dot - 1
    BY <1>2, <2>1, SubSeqProperties
  <2>3. QED
    BY <1>5, <2>1, <2>2 DEF BeforePos
<1>8. \/ ParseUserInfoSimple(text) = NoUser
      \/ ParseUserInfoSimple(text).username = BeforePos(login, dot)
  BY <1>1 DEF ParseUserInfoSimple, at, dot
<1>9. QED
  BY <1>4, <1>7, <1>8 DEF text, username

\* The correlator's parser names a user exactly when the username has none of
\* the separators it looks for first.
LEMMA SimpleNamesUser ==
    ASSUME NEW u, ServerUser(u)
    PROVE  ParseUserInfoSimple(UserText(u)) = u <=> Lacks(u.username, {".", "@"})
<1>1. CASE Lacks(u.username, {".", "@"})
  BY <1>1, SimpleParsesUser
<1>2. CASE ~Lacks(u.username, {"@"})
  <2>1. PICK i \in 1..Len(u.username) : u.username[i] = "@"
    BY <1>2 DEF Lacks
  <2>2. ~Lacks(u.username, {".", "@"})
    BY <2>1 DEF Lacks
  <2>3. QED
    BY <2>1, <2>2, SimpleCutsEarly
<1>3. CASE Lacks(u.username, {"@"}) /\ ~Lacks(u.username, {".", "@"})
  <2>1. PICK i \in 1..Len(u.username) : u.username[i] \in {".", "@"}
    BY <1>3 DEF Lacks
  <2>2. u.username[i] = "."
    BY <1>3, <2>1 DEF Lacks
  <2>3. QED
    BY <1>3, <2>1, <2>2, SimpleCutsName
<1>4. QED
  BY <1>1, <1>2, <1>3

\* A bounded set of numbers has a largest one.
LEMMA NatMax ==
    ASSUME NEW n \in Nat, NEW I \in SUBSET (0..n), NEW i \in I
    PROVE  Max(I) \in I /\ \A j \in I : Max(I) >= j
<1> DEFINE R == {n - j : j \in I}
<1>1. R \in SUBSET Nat /\ n - i \in R
  OBVIOUS
<1>2. PICK r \in R : \A s \in R : r <= s
  BY <1>1, NatMin
<1>3. PICK x \in I : r = n - x
  BY <1>2
<1>4. \A j \in I : n - j \in R
  OBVIOUS
<1> HIDE DEF R
<1>5. \A j \in I : x >= j
  BY <1>2, <1>3, <1>4
<1>6. QED
  BY <1>3, <1>5 DEF Max

\* Where a field of the text stands and what is in it.
LEMMA FieldFacts ==
    ASSUME NEW f \in Seq(Symbols), NEW fields, HasFields(f, fields), NEW p \in DOMAIN fields
    PROVE  LET k == fields[p].key
               v == fields[p].value
               last == p + Len(v) + 1
           IN  /\ k \in STRING /\ v \in Seq(STRING) /\ k \notin {"&", "="}
               /\ p \in 2..(Len(f) + 1)
               /\ last \in (p + 1)..Len(f)
               /\ last = Len(f) \/ f[last + 1] = "&"
               /\ SubSeq(f, p, last) = <<k>> \o <<"=">> \o v
               /\ \A g \in p..last : f[g] # "&"
<1> DEFINE k == fields[p].key
           v == fields[p].value
           n == Len(v)
           l == Len(f)
           last == p + n + 1
           piece == <<k>> \o <<"=">> \o v
<1>1. DOMAIN fields = {i \in 2..(l + 1) : f[i - 1] = "&"} /\ l \in Nat
  BY LenProperties DEF HasFields
<1>2. /\ k \in STRING /\ v \in Seq(STRING) /\ k \notin {"&", "="} /\ Lacks(v, {"&"})
      /\ SubSeq(f, p, last) = piece
      /\ last = l \/ last + 2 \in DOMAIN fields
  BY DEF HasFields
<1>3. p \in Nat /\ p >= 2 /\ p <= l + 1
  BY <1>1
<1> HIDE DEF k, v
<1>4. n \in Nat
  BY <1>2, LenProperties
<1>5. \A j \in 1..(n + 2) : piece[j] # "&"
  <2>1. /\ piece[1] = k /\ piece[2] = "="
        /\ \A j \in 3..(n + 2) : piece[j] = v[j - 2]
    BY <1>2, <1>4
  <2> HIDE DEF piece
  <2>2. ASSUME NEW j \in 3..(n + 2)
        PROVE  piece[j] # "&"
    <3>1. j - 2 \in 1..Len(v)
      BY <1>4
    <3>2. v[j - 2] # "&"
      BY <1>2, <3>1 DEF Lacks
    <3>3. QED
      BY <2>1, <3>2
  <2>3. QED
    BY <1>2, <1>4, <2>1, <2>2
<1> HIDE DEF n, piece
<1>6. last \in Nat /\ last >= p + 1 /\ last - p + 1 = n + 2
  BY <1>3, <1>4
<1> HIDE DEF last
<1>7. last <= l /\ (last = l \/ f[last + 1] = "&")
  <2>1. CASE last = l
    BY <1>1, <2>1
  <2>2. CASE last + 2 \in DOMAIN fields
    <3>1. last + 2 \in 2..(l + 1) /\ f[(last + 2) - 1] = "&"
      BY <1>1, <2>2
    <3> HIDE DEF l
    <3>2. (last + 2) - 1 = last + 1 /\ last <= l
      BY <1>1, <1>6, <3>1
    <3>3. QED
      BY <3>1, <3>2
  <2>3. QED
    BY <1>2, <2>1, <2>2
<1>8. \A j \in 1..(last - p + 1) : SubSeq(f, p, last)[j] = f[p + j - 1]
  <2>1. p \in 1..(Len(f) + 1) /\ last \in (p - 1)..Len(f)
    BY <1>1, <1>3, <1>6, <1>7
  <2>2. QED
    BY <2>1, SubSeqProperties
<1>9. ASSUME NEW g \in p..last
      PROVE  f[g] # "&"
  <2>1. g \in Nat /\ p <= g /\ g <= last
    BY <1>3, <1>6
  <2>2. g - p + 1 \in 1..(last - p + 1) /\ p + (g - p + 1) - 1 = g
    BY <1>3, <1>6, <2>1
  <2>3. SubSeq(f, p, last)[g - p + 1] = f[g]
    BY <1>8, <2>2
  <2>4. SubSeq(f, p, last)[g - p + 1] # "&"
    BY <1>2, <1>5, <1>6, <2>2
  <2>5. QED
    BY <2>3, <2>4
<1>10. p \in 2..(l + 1) /\ last \in (p + 1)..l
  BY <1>1, <1>3, <1>6, <1>7
<1>11. QED
  BY <1>2, <1>7, <1>9, <1>10 DEF k, v, n, l, last, piece

\* The pieces between the '&' of a text are empty or one field each.
LEMMA PieceFacts ==
    ASSUME NEW f \in Seq(Symbols), NEW fields, HasFields(f, fields)
    PROVE  Pieces(f, "&") = {<<1, <<>>>>} \cup
             {<<i, <<fields[i].key>> \o <<"=">> \o fields[i].value>> : i \in DOMAIN fields}
<1> DEFINE amps == {i \in 1..Len(f) : f[i] = "&"}
           cuts == {0} \cup amps
           ends == amps \cup {Len(f) + 1}
           NextEnd(i) == CHOOSE e \in ends : e > i /\ \A g \in ends : g > i => e <= g
           Piece(i) == <<fields[i].key>> \o <<"=">> \o fields[i].value
<1>1. Pieces(f, "&") = {<<i + 1, SubSeq(f, i + 1, NextEnd(i) - 1)>> : i \in cuts}
  BY DEF Pieces
<1>2. Len(f) \in Nat /\ amps \subseteq 1..Len(f) /\ ends \subseteq 1..(Len(f) + 1)
  OBVIOUS
<1>3. ASSUME NEW i \in cuts, NEW e \in ends, e > i, \A g \in ends : g > i => e <= g
      PROVE  NextEnd(i) = e
  <2>1. \A x \in ends : (x > i /\ \A g \in ends : g > i => x <= g) => x = e
    BY <1>2, <1>3
  <2> HIDE DEF ends
  <2>2. QED
    BY <1>3, <2>1
<1>4. <<1, SubSeq(f, 1, NextEnd(0) - 1)>> = <<1, <<>>>>
  <2>1. 1 \in ends
    BY <1>2 DEF HasFields
  <2>2. NextEnd(0) = 1
    BY <1>2, <1>3, <2>1
  <2>3. SubSeq(f, 1, 0) = <<>>
    BY SubSeqEmpty
  <2>4. NextEnd(0) - 1 = 0
    BY <2>2
  <2>5. QED
    BY <2>3, <2>4
<1>5. ASSUME NEW i \in amps
      PROVE  i + 1 \in DOMAIN fields /\ SubSeq(f, i + 1, NextEnd(i) - 1) = Piece(i + 1)
  <2> DEFINE p == i + 1
             last == p + Len(fields[p].value) + 1
  <2>1. p \in DOMAIN fields /\ i \in Nat /\ p = i + 1
    BY <1>2 DEF HasFields
  <2> HIDE DEF p
  <2>2. /\ p \in 2..(Len(f) + 1)
        /\ last \in (p + 1)..Len(f)
        /\ last = Len(f) \/ f[last + 1] = "&"
        /\ SubSeq(f, p, last) = Piece(p)
        /\ \A g \in p..last : f[g] # "&"
    BY <2>1, FieldFacts, Zenon
  <2> HIDE DEF last
  <2>3. last \in Nat /\ last + 1 > i /\ last + 1 \in 1..(Len(f) + 1) /\ p \in Nat
    BY <1>2, <2>1, <2>2
  <2>4. last + 1 \in ends
    <3>1. CASE last = Len(f)
      BY <3>1
    <3>2. CASE f[last + 1] = "&" /\ last # Len(f)
      <4>1. last + 1 \in 1..Len(f)
        BY <1>2, <2>3, <3>2
      <4>2. QED
        BY <3>2, <4>1
    <3>3. QED
      BY <2>2, <3>1, <3>2
  <2>5. ASSUME NEW g \in ends, g > i
        PROVE  last + 1 <= g
    <3>1. g \in Nat /\ g >= p /\ g <= Len(f) + 1
      BY <1>2, <2>1, <2>5
    <3>2. CASE g = Len(f) + 1
      BY <1>2, <2>3, <3>2
    <3>3. CASE f[g] = "&"
      BY <2>2, <2>3, <3>1, <3>3
    <3>4. QED
      BY <3>2, <3>3
  <2>6. NextEnd(i) = last + 1
    BY <1>3, <2>3, <2>4, <2>5
  <2> HIDE DEF NextEnd
  <2>7. NextEnd(i) - 1 = last
    BY <2>3, <2>6
  <2>8. QED
    BY <2>1, <2>2, <2>7 DEF p
<1>6. \A p \in DOMAIN fields : p - 1 \in amps /\ p = (p - 1) + 1
  BY <1>2 DEF HasFields
<1> HIDE DEF amps, NextEnd, Piece
<1>7. {<<i + 1, SubSeq(f, i + 1, NextEnd(i) - 1)>> : i \in cuts}
        = {<<1, <<>>>>} \cup {<<i, Piece(i)>> : i \in DOMAIN fields}
  <2>1. ASSUME NEW i \in cuts
        PROVE  <<i + 1, SubSeq(f, i + 1, NextEnd(i) - 1)>>
                 \in {<<1, <<>>>>} \cup {<<p, Piece(p)>> : p \in DOMAIN fields}
    <3>1. CASE i = 0
      BY <1>4, <3>1
    <3>2. CASE i \in amps
      BY <1>5, <3>2
    <3>3. QED
      BY <3>1, <3>2
  <2>2. <<1, <<>>>> \in {<<i + 1, SubSeq(f, i + 1, NextEnd(i) - 1)>> : i \in cuts}
    <3>1. 0 \in cuts /\ 0 + 1 = 1
      OBVIOUS
    <3>2. <<0 + 1, SubSeq(f, 0 + 1, NextEnd(0) - 1)>> = <<1, <<>>>>
      BY <1>4, <3>1
    <3>3. QED
      BY <3>1, <3>2
  <2>3. ASSUME NEW p \in DOMAIN fields
        PROVE  <<p, Piece(p)>> \in {<<i + 1, SubSeq(f, i + 1, NextEnd(i) - 1)>> : i \in cuts}
    <3>1. p - 1 \in amps /\ p = (p - 1) + 1
      BY <1>6
    <3>2. <<(p - 1) + 1, SubSeq(f, (p - 1) + 1, NextEnd(p - 1) - 1)>> = <<p, Piece(p)>>
      BY <1>5, <3>1
    <3>3. QED
      BY <3>1, <3>2
  <2>4. QED
    BY <2>1, <2>2, <2>3
<1>8. QED
  BY <1>1, <1>7 DEF Piece

\* What the parser finds for a key is the last value that was sent for it.
LEMMA FieldsFound ==
    ASSUME NEW f \in Seq(Symbols), NEW fields, HasFields(f, fields), NEW keys
    PROVE  KeyValues(f, keys) = [k \in keys |-> LastValue(fields, k)]
<1> DEFINE Piece(i) == <<fields[i].key>> \o <<"=">> \o fields[i].value
           Found(k) == {p \in Pieces(f, "&") : IsPair(p[2]) /\ Key(p[2]) = <<k>>}
           Given(k) == {i \in DOMAIN fields : fields[i].key = k /\ fields[i].value # <<>>}
<1>1. Pieces(f, "&") = {<<1, <<>>>>} \cup {<<i, Piece(i)>> : i \in DOMAIN fields}
  BY PieceFacts
<1>2. ~IsPair(<<>>)
  <2>1. FirstOf(<<>>, "=") = 0
    BY DEF FirstOf, SelectInSeq
  <2>2. QED
    BY <2>1 DEF IsPair
<1>3. ASSUME NEW i \in DOMAIN fields
      PROVE  /\ IsPair(Piece(i)) <=> fields[i].value # <<>>
             /\ Key(Piece(i)) = <<fields[i].key>>
             /\ Value(Piece(i)) = fields[i].value
             /\ i \in 0..(Len(f) + 1)
  <2> DEFINE k == fields[i].key
             v == fields[i].value
             s == <<k>>
             w == s \o <<"=">> \o v
  <2>1. k \in STRING /\ v \in Seq(STRING) /\ k # "=" /\ i \in 2..(Len(f) + 1)
    BY FieldFacts, Zenon
  <2> HIDE DEF k, v
  <2>2. s \in Seq(Symbols) /\ v \in Seq(Symbols) /\ "=" \in Symbols
    BY <2>1, SeqMonotonic, SeparatorsAreSymbols DEF Symbols
  <2>3. \A j \in 1..Len(s) : s[j] # "="
    BY <2>1
  <2>4. Len(s) = 1 /\ Len(v) \in Nat /\ (v = <<>> <=> Len(v) = 0) /\ Len(f) \in Nat
    BY <2>1, LenProperties, EmptySeq
  <2> HIDE DEF s
  <2>5. /\ FirstOf(w, "=") = Len(s) + 1
        /\ BeforePos(w, FirstOf(w, "=")) = s
        /\ AfterPos(w, FirstOf(w, "=")) = v
    BY <2>2, <2>3, CutFirst
  <2>6. Len(w) = Len(s) + 1 + Len(v)
    BY <2>2, SplitFacts
  <2> HIDE DEF w
  <2>7. IsPair(w) <=> v # <<>>
    BY <2>4, <2>5, <2>6 DEF IsPair
  <2>8. Key(w) = s /\ Value(w) = v
    BY <2>5 DEF Key, Value
  <2>9. i \in 0..(Len(f) + 1)
    BY <2>1, <2>4
  <2>10. QED
    BY <2>7, <2>8, <2>9 DEF k, v, s, w
<1> HIDE DEF Piece
<1>4. ASSUME NEW k
      PROVE  Found(k) = {<<i, Piece(i)>> : i \in Given(k)}
  <2>1. ASSUME NEW p \in Found(k)
        PROVE  p \in {<<i, Piece(i)>> : i \in Given(k)}
    <3>1. p # <<1, <<>>>>
      BY <1>2
    <3>2. PICK i \in DOMAIN fields : p = <<i, Piece(i)>>
      BY <1>1, <3>1
    <3>3. i \in Given(k)
      BY <1>3, <3>2
    <3>4. QED
      BY <3>2, <3>3
  <2>2. ASSUME NEW i \in Given(k)
        PROVE  <<i, Piece(i)>> \in Found(k)
    BY <1>1, <1>3
  <2>3. QED
    BY <2>1, <2>2
<1>5. ASSUME NEW k
      PROVE  (IF Found(k) = {} THEN <<>>
              ELSE Value((CHOOSE p \in Found(k) : \A q \in Found(k) : q[1] <= p[1])[2]))
             = LastValue(fields, k)
  <2>1. LastValue(fields, k) = IF Given(k) = {} THEN <<>> ELSE fields[Max(Given(k))].value
    BY DEF LastValue
  <2>2. Given(k) \subseteq DOMAIN fields /\ Given(k) \in SUBSET (0..(Len(f) + 1))
    BY <1>3
  <2> HIDE DEF Given, Found
  <2>3. CASE Given(k) = {}
    BY <1>4, <2>1, <2>3
  <2>4. CASE Given(k) # {}
    <3>1. PICK i \in Given(k) : TRUE
      BY <2>4
    <3>2. Len(f) + 1 \in Nat
      BY LenProperties
    <3>3. Max(Given(k)) \in Given(k) /\ \A j \in Given(k) : Max(Given(k)) >= j
      BY <2>2, <3>2, NatMax
    <3> DEFINE m == Max(Given(k))
               Greatest(p) == p \in Found(k) /\ \A q \in Found(k) : q[1] <= p[1]
    <3> HIDE DEF m
    <3>4. \A j \in Given(k) : j \in Nat /\ m \in Given(k) /\ m \in Nat /\ m >= j
      BY <2>2, <3>2, <3>3 DEF m
    <3>5. Greatest(<<m, Piece(m)>>)
      BY <1>4, <3>1, <3>4
    <3>6. ASSUME NEW p, Greatest(p)
          PROVE  p = <<m, Piece(m)>>
      <4>1. PICK j \in Given(k) : p = <<j, Piece(j)>>
        BY <1>4, <3>6
      <4>2. <<m, Piece(m)>> \in Found(k)
        BY <3>5
      <4>3. m <= j
        BY <3>6, <4>1, <4>2
      <4>4. m = j
        BY <3>4, <4>3
      <4>5. QED
        BY <4>1, <4>4
    <3> DEFINE c == CHOOSE p \in Found(k) : \A q \in Found(k) : q[1] <= p[1]
    <3>7. c[2] = Piece(m)
      <4>1. c = <<m, Piece(m)>>
        BY <3>5, <3>6
      <4> HIDE DEF c
      <4>2. QED
        BY <4>1
    <3> HIDE DEF c
    <3>8. Found(k) # {} /\ m \in DOMAIN fields
      BY <2>2, <3>1, <3>4, <3>5
    <3>9. Value(Piece(m)) = fields[m].value
      BY <1>3, <3>8
    <3>10. QED
      <4>1. LastValue(fields, k) = fields[m].value
        BY <2>1, <2>4 DEF m
      <4>2. (IF Found(k) = {} THEN <<>> ELSE Value(c[2])) = fields[m].value
        BY <3>7, <3>8, <3>9
      <4>3. QED
        BY <4>1, <4>2 DEF c
  <2>5. QED
    BY <2>3, <2>4
<1> HIDE DEF Given
<1>6. KeyValues(f, keys) =
        [k \in keys |->
           IF Found(k) = {} THEN <<>>
           ELSE Value((CHOOSE p \in Found(k) : \A q \in Found(k) : q[1] <= p[1])[2])]
  BY DEF KeyValues
<1> HIDE DEF Found
<1>7. QED
  BY <1>5, <1>6

-----------------------------------------------------------------------------
(* A packet that names a user.                                             *)

\* What the two parsers make of the text of a packet that names a user.
LEMMA UserPacketFacts ==
    ASSUME NEW d \in Datagrams, d.regular, d.code \in {"u", "T"}
    PROVE  LET u == d.sent.user IN
           /\ ~BadLength(d) /\ Parsed(d) = "user"
           /\ UserOf[d.text] = u
           /\ AuthOf[d.text] = [k \in AuthKeys |-> LastValue(d.sent.fields, k)]
           /\ TokenOf[d.text] = [k \in TokenKeys |-> LastValue(d.sent.fields, k)]
           /\ SimpleUserOf[d.text] = u <=> Lacks(u.username, {".", "@"})
<1> DEFINE u == d.sent.user
           t == UserText(u)
           f == AfterPos(d.text, Len(t) + 1)
           fields == d.sent.fields
<1>1. /\ ServerUser(u) /\ d.text \in Seq(STRING)
      /\ d.text = t \o <<Newline>> \o f
      /\ HasFields(f, fields)
      /\ d.len = d.plen /\ d.len >= MapWords /\ d.len \in Nat
  BY ParserAssumption DEF DatagramOK, Names
<1>2. t \in Seq(Symbols) /\ Lacks(t, {Newline})
  BY <1>1, TextParts
<1>3. f \in Seq(Symbols)
  <2>1. Len(t) \in Nat /\ Len(d.text) \in Nat /\ d.text \in Seq(STRING)
    BY <1>1, <1>2, LenProperties
  <2>2. Len(t) + 1 + 1 \in Nat \ {0}
    BY <2>1
  <2> HIDE DEF t
  <2>3. SubSeq(d.text, Len(t) + 1 + 1, Len(d.text)) \in Seq(STRING)
    BY <2>1, <2>2, SubSeqProperties
  <2>4. QED
    BY <2>3, SeqMonotonic DEF AfterPos, Symbols
<1> HIDE DEF t, f, u, fields
<1>4. Cut(d.text, Newline) = <<t, f>>
  <2> DEFINE w == t \o <<Newline>> \o f
  <2>1. \A i \in 1..Len(t) : t[i] # Newline
    BY <1>2 DEF Lacks
  <2>2. t \in Seq(Symbols) /\ f \in Seq(Symbols) /\ Newline \in Symbols /\ Len(t) \in Nat
    BY <1>2, <1>3, SeparatorsAreSymbols, LenProperties
  <2>3. /\ FirstOf(w, Newline) = Len(t) + 1
        /\ BeforePos(w, FirstOf(w, Newline)) = t
        /\ AfterPos(w, FirstOf(w, Newline)) = f
    BY <2>1, <2>2, CutFirst
  <2> HIDE DEF w
  <2>4. Cut(w, Newline) = <<t, f>>
    BY <2>2, <2>3 DEF Cut
  <2>5. d.text = w
    BY <1>1 DEF w
  <2>6. QED
    BY <2>4, <2>5
<1>5. d.text \in Texts
  BY DEF Texts
<1>6. UserOf[d.text] = u
  BY <1>1, <1>4, <1>5, ParsesUser DEF UserOf, t
<1>7. SimpleUserOf[d.text] = u <=> Lacks(u.username, {".", "@"})
  BY <1>1, <1>4, <1>5, SimpleNamesUser DEF SimpleUserOf, t
<1>8. AuthOf[d.text] = [k \in AuthKeys |-> LastValue(fields, k)]
  <2>1. AuthOf[d.text] = KeyValues(f, AuthKeys)
    BY <1>4, <1>5 DEF AuthOf
  <2>2. QED
    BY <1>1, <1>3, <2>1, FieldsFound
<1>9. TokenOf[d.text] = [k \in TokenKeys |-> LastValue(fields, k)]
  <2>1. TokenOf[d.text] = KeyValues(f, TokenKeys)
    BY <1>4, <1>5 DEF TokenOf
  <2>2. QED
    BY <1>1, <1>3, <2>1, FieldsFound
<1>10. u # NoUser
  BY <1>1, UserFields DEF NoUser
<1>11. ~BadLength(d)
  BY <1>1 DEF BadLength, MapWords, HeaderWords
<1>12. Parsed(d) = "user"
  <2>1. ~(d.len < MapWords)
    BY <1>1 DEF MapWords
  <2>2. CASE d.code = "u"
    BY <1>6, <1>10, <2>1, <2>2 DEF Parsed
  <2>3. CASE d.code = "T"
    BY <1>6, <1>10, <2>1, <2>3 DEF Parsed
  <2>4. QED
    BY <2>2, <2>3
<1>13. QED
  BY <1>6, <1>7, <1>8, <1>9, <1>11, <1>12 DEF u, fields

\* A packet that names a user is parsed in one step, without an error.
NamedInv ==
    datagram.regular /\ datagram.code \in {"u", "T"} =>
        /\ pc \in {"start", "done"}
        /\ pc = "done" => result = "user"

LEMMA NamedInvStep ==
    ASSUME ParserTypeOK, NamedInv, [ParserNext]_parserVars
    PROVE  NamedInv'
<1>1. UNCHANGED datagram
  BY DEF ParserNext, ParsePacket, SkipFirstTime, ReadRecord, RecordError, LoopEnds, Finish,
         parserVars
<1> SUFFICES ASSUME datagram.regular, datagram.code \in {"u", "T"}
             PROVE  NamedInv'
  BY <1>1 DEF NamedInv
<1>2. CASE ParsePacket
  <2>1. ~BadLength(datagram) /\ Parsed(datagram) = "user"
    BY UserPacketFacts DEF ParserTypeOK
  <2>2. Finish("user")
    BY <1>2, <2>1 DEF ParsePacket
  <2>3. QED
    BY <2>2 DEF NamedInv, Finish
<1>3. CASE SkipFirstTime \/ ReadRecord \/ RecordError \/ LoopEnds
  BY <1>3 DEF NamedInv, SkipFirstTime, ReadRecord, RecordError, LoopEnds
<1>4. CASE UNCHANGED parserVars
  BY <1>4 DEF NamedInv, parserVars
<1>5. QED
  BY <1>2, <1>3, <1>4 DEF ParserNext

\* From every 'u' and 'T' packet of a server, whatever the username and however
\* many fields, the parser takes the user and the last value of each key; the
\* correlator's parser finds the same user exactly when there is no '.' and no
\* '@' in the username (parseUserInfo of xrootd_parser.go and of correlator.go).
THEOREM UsersAreNamed == ParserSpec => []UsersNamedAlike
<1>1. ParserInit => NamedInv
  BY DEF ParserInit, NamedInv
<1>2. ParserTypeOK /\ NamedInv => UsersNamedAlike
  <2> SUFFICES ASSUME ParserTypeOK, NamedInv, pc = "done", datagram.regular,
                      datagram.code \in {"u", "T"}
               PROVE  UsersNamedAlike
    BY DEF UsersNamedAlike
  <2>1. datagram \in Datagrams /\ result = "user"
    BY DEF ParserTypeOK, NamedInv
  <2>2. /\ UserOf[datagram.text] = datagram.sent.user
        /\ AuthOf[datagram.text] = [k \in AuthKeys |-> LastValue(datagram.sent.fields, k)]
        /\ TokenOf[datagram.text] = [k \in TokenKeys |-> LastValue(datagram.sent.fields, k)]
        /\ SimpleUserOf[datagram.text] = datagram.sent.user
              <=> Lacks(datagram.sent.user.username, {".", "@"})
    BY <2>1, UserPacketFacts
  <2>3. CASE datagram.code = "u"
    BY <2>1, <2>2, <2>3 DEF UsersNamedAlike
  <2>4. CASE datagram.code = "T"
    BY <2>1, <2>2, <2>4 DEF UsersNamedAlike
  <2>5. QED
    BY <2>3, <2>4
<1>3. ParserTypeOK /\ NamedInv /\ [ParserNext]_parserVars => NamedInv'
  BY NamedInvStep
<1>4. QED
  BY <1>1, <1>2, <1>3, ParserTypes, PTL DEF ParserSpec

-----------------------------------------------------------------------------
(***************************************************************************)
(* The correlator.                                                         *)
(***************************************************************************)
-----------------------------------------------------------------------------
(* Maps: what Set, Delete and Cleanup do to the entries.                   *)

\* A smaller map agrees with m where it is defined.
SubMap(small, m) ==
    /\ DOMAIN small \subseteq DOMAIN m
    /\ \A k \in DOMAIN small : small[k] = m[k]

\* Set stores the entry when there is room for it, and touches no other.
LEMMA SetFacts ==
    ASSUME NEW m, NEW k, NEW v, NEW t
    PROVE  /\ \A x \in DOMAIN Set(m, k, v, t) :
                  \/ x = k /\ Set(m, k, v, t)[x] = [value |-> v, expiresAt |-> t + TTL]
                  \/ x # k /\ x \in DOMAIN m /\ Set(m, k, v, t)[x] = m[x]
           /\ DOMAIN m \subseteq DOMAIN Set(m, k, v, t)
           /\ Accepts(m, k) => k \in DOMAIN Set(m, k, v, t)
           /\ ~Accepts(m, k) => Set(m, k, v, t) = m /\ k \notin DOMAIN m
<1>1. CASE Accepts(m, k)
  <2> DEFINE s == [x \in DOMAIN m \cup {k} |->
                     IF x = k THEN [value |-> v, expiresAt |-> t + TTL] ELSE m[x]]
  <2>1. Set(m, k, v, t) = s
    BY <1>1 DEF Set
  <2>2. DOMAIN s = DOMAIN m \cup {k}
    OBVIOUS
  <2>3. \A x \in DOMAIN m \cup {k} :
           s[x] = IF x = k THEN [value |-> v, expiresAt |-> t + TTL] ELSE m[x]
    OBVIOUS
  <2> HIDE DEF s
  <2>4. QED
    BY <1>1, <2>1, <2>2, <2>3
<1>2. CASE ~Accepts(m, k)
  <2>1. Set(m, k, v, t) = m /\ k \notin DOMAIN m
    BY <1>2 DEF Set, Accepts
  <2>2. QED
    BY <1>2, <2>1
<1>3. QED
  BY <1>1, <1>2

\* Delete takes one entry away.
LEMMA DeleteFacts ==
    ASSUME NEW m, NEW k
    PROVE  SubMap(Delete(m, k), m) /\ DOMAIN Delete(m, k) = DOMAIN m \ {k}
BY DEF SubMap, Delete

\* The janitor takes away the entries that have expired.
LEMMA CleanupFacts ==
    ASSUME NEW m, NEW t
    PROVE  SubMap(Cleanup(m, t), m) /\ DOMAIN Cleanup(m, t) = {x \in DOMAIN m : Has(m, x, t)}
BY DEF SubMap, Cleanup, Has

\* The keys of different kinds differ, and so do the keys of one kind for
\* different servers or ids.
LEMMA KeysDiffer ==
    /\ \A s, t, i, j : DictKey(s, i) = DictKey(t, j) <=> s = t /\ i = j
    /\ \A s, t, i, j : DictIDKey(s, i) = DictIDKey(t, j) <=> s = t /\ i = j
    /\ \A s, t, i, j : DictKey(s, i) # DictIDKey(t, j)
    /\ \A s, t, i, j : FileKey(s, i) = FileKey(t, j) <=> s = t /\ i = j
    /\ \A s, t, i, j : FileKey(s, i) # TimeKey(t, j)
    /\ \A s, t, i, j : TimeKey(s, i) = TimeKey(t, j) <=> s = t /\ i = j
<1>1. "dict" # "dictid" /\ "file" # "time"
  OBVIOUS
<1>2. QED
  BY <1>1 DEF DictKey, DictIDKey, FileKey, TimeKey

\* The state of a user is kept under the name that the key gives the user.
StateKey(s, n) == <<"userinfo", s, n>>

LEMMA StateKeys ==
    /\ \A s, ui : UserInfoKey(s, ui) = StateKey(s, KeyInfo[ui])
    /\ \A s, t, n, o : StateKey(s, n) = StateKey(t, o) <=> s = t /\ n = o
BY DEF UserInfoKey, StateKey

-----------------------------------------------------------------------------
(* The inductive invariant: each map says of a key only what the server    *)
(* that is part of the key said of somebody who goes by the rest of it.    *)

\* The users of a server.
UsersOf(s) == {Owner[s][i] : i \in Ids}

OwnEntry(s, i, e) ==
    \/ e = RawEntry(s, i)
    \/ e = PathEntry(s, i) /\ ReadAs[Owner[s][i]] # None

OwnEntries(m) ==
    /\ \A s \in Servers, i \in Ids :
          DictIDKey(s, i) \in DOMAIN m =>
             \E p \in Readings(Owner[s][i]) : m[DictIDKey(s, i)].value = UserEntry(p)
    /\ \A s \in Servers, i \in Ids :
          DictKey(s, i) \in DOMAIN m => OwnEntry(s, i, m[DictKey(s, i)].value)

DictInv == OwnEntries(dictMap)

\* What may be known on server s under the name n.
OwnInfo(s, n) == {p \in UserInfos : KeyInfo[p] = n /\ \E o \in UsersOf(s) : p \in Readings(o)}
OwnFact(s, n) ==
    {x \in Claims : x.server = s /\ x.user \in UsersOf(s) /\ n \in KnownAs(x.user)} \cup {None}
OwnState(s, n) ==
    [info : OwnInfo(s, n), auth : OwnFact(s, n), token : OwnFact(s, n), app : OwnFact(s, n),
     scitags : OwnFact(s, n)]

OwnStates(m) ==
    \A s \in Servers, n \in UserInfos :
       StateKey(s, n) \in DOMAIN m => m[StateKey(s, n)].value \in OwnState(s, n)

UserInv == OwnStates(userMap)

\* What an open of file f of server s may say.
OwnFile(s, f, state) ==
    /\ state \in [user : Users \cup {0}, path : {None, PathOf(s, f), TextOf(s, f)}]
    /\ state.user # 0 => Owner[s][state.user] = Owner[s][f]

OwnFiles(m) ==
    \A s \in Servers, f \in Files :
       FileKey(s, f) \in DOMAIN m => OwnFile(s, f, m[FileKey(s, f)].value)

FileInv == OwnFiles(stateMap)

SiteInv ==
    DOMAIN serverMap \subseteq Servers /\ \A s \in DOMAIN serverMap : serverMap[s].value = s

\* The history opened tells what the map has: an open is there from when it was
\* stored until it is joined or has expired, whatever is stored beside it.
OpenInv ==
    \A s \in Servers, f \in Files :
       /\ FileKey(s, f) \in DOMAIN stateMap =>
             /\ opened[<<s, f>>] # None
             /\ stateMap[FileKey(s, f)].expiresAt = opened[<<s, f>>] + TTL
       /\ opened[<<s, f>>] # None /\ now <= opened[<<s, f>>] + TTL =>
             FileKey(s, f) \in DOMAIN stateMap

ClockInv ==
    /\ now \in 0..MaxTime /\ packets \in 0..MaxPackets
    /\ opened \in [Servers \X Files -> 0..MaxTime \cup {None}]

\* Ids belong to users, a user has a name, and what the info of a user is read
\* as is a user info that goes by a name of the user.
LEMMA OwnerTypes ==
    ASSUME NEW s \in Servers, NEW i \in Ids
    PROVE  /\ Owner[s][i] \in UserInfos
           /\ Owner[s][i] \in Readings(Owner[s][i])
           /\ ReadAs[Owner[s][i]] # None => ReadAs[Owner[s][i]] \in Readings(Owner[s][i])
           /\ \A p \in Readings(Owner[s][i]) :
                 /\ p \in UserInfos
                 /\ p # None
                 /\ KeyInfo[p] \in UserInfos
                 /\ KeyInfo[p] \in KnownAs(Owner[s][i])
                 /\ p \in OwnInfo(s, KeyInfo[p])
<1>1. Owner[s][i] \in UserInfos
  BY CorrelatorAssumption
<1>2. None \notin UserInfos /\ ReadAs[Owner[s][i]] \in UserInfos \cup {None}
  BY <1>1, CorrelatorAssumption
<1>3. ASSUME NEW p \in Readings(Owner[s][i])
      PROVE  /\ p \in UserInfos
             /\ p # None
             /\ KeyInfo[p] \in UserInfos
             /\ KeyInfo[p] \in KnownAs(Owner[s][i])
             /\ p \in OwnInfo(s, KeyInfo[p])
  <2>1. p \in UserInfos /\ p # None
    BY <1>1, <1>2 DEF Readings
  <2>2. KeyInfo[p] \in UserInfos
    BY <2>1, CorrelatorAssumption
  <2>3. KeyInfo[p] \in KnownAs(Owner[s][i])
    BY DEF KnownAs
  <2>4. p \in OwnInfo(s, KeyInfo[p])
    BY <2>1 DEF OwnInfo, UsersOf
  <2>5. QED
    BY <2>1, <2>2, <2>3, <2>4
<1>4. Owner[s][i] \in Readings(Owner[s][i])
  BY <1>1, <1>2 DEF Readings
<1>5. ReadAs[Owner[s][i]] # None => ReadAs[Owner[s][i]] \in Readings(Owner[s][i])
  BY DEF Readings
<1>6. QED
  BY <1>1, <1>3, <1>4, <1>5

-----------------------------------------------------------------------------
(* What a step does to each map.                                           *)

\* The dictionary gets entries that say what the server said of the id.
LEMMA DictSteps ==
    ASSUME [Next]_vars
    PROVE  \/ UNCHANGED dictMap
           \/ dictMap' = Cleanup(dictMap, now)
           \/ \E s \in Servers, i \in Users :
                 HandleDisconnect(s, i) /\ dictMap' = Delete(dictMap, DictIDKey(s, i))
           \/ \E s \in Servers, i \in Ids : \E p \in Readings(Owner[s][i]) :
                 dictMap' = Set(dictMap, DictIDKey(s, i), UserEntry(p), now)
           \/ \E s \in Servers, i \in Ids :
                 dictMap' = Set(dictMap, DictKey(s, i), RawEntry(s, i), now)
           \/ \E s \in Servers, f \in Files :
                 /\ ReadAs[Owner[s][f]] # None
                 /\ dictMap' = Set(Set(dictMap, DictKey(s, f), PathEntry(s, f), now),
                                   DictIDKey(s, f), UserEntry(ReadAs[Owner[s][f]]), now)
<1>1. \A i \in Users \cup Files : i \in Ids
  BY DEF Ids
<1>2. ASSUME NEW s \in Servers, NEW i \in Users, NEW v \in Values, HandleUserRecord(s, i, v)
      PROVE  \E p \in Readings(Owner[s][i]) :
                dictMap' = Set(dictMap, DictIDKey(s, i), UserEntry(p), now)
  BY <1>1, <1>2, OwnerTypes DEF HandleUserRecord
<1>3. ASSUME NEW s \in Servers, NEW i \in Users, NEW v \in Values,
             HandleAppInfo(s, i, v) \/ HandleEAInfo(s, i, v)
      PROVE  \/ UNCHANGED dictMap
             \/ \E p \in Readings(Owner[s][i]) :
                   dictMap' = Set(dictMap, DictIDKey(s, i), UserEntry(p), now)
  <2>1. ReadAs[Owner[s][i]] # None
    BY <1>3 DEF HandleAppInfo, HandleEAInfo
  <2>2. \/ UNCHANGED dictMap
        \/ dictMap' = Set(dictMap, DictIDKey(s, i), UserEntry(ReadAs[Owner[s][i]]), now)
    BY <1>3 DEF HandleAppInfo, HandleEAInfo
  <2>3. QED
    BY <1>1, <2>1, <2>2, OwnerTypes
<1>4. ASSUME NEW s \in Servers, NEW i \in Users, HandleDisconnect(s, i)
      PROVE  UNCHANGED dictMap \/ dictMap' = Delete(dictMap, DictIDKey(s, i))
  BY <1>4 DEF HandleDisconnect
<1>5. ASSUME NEW s \in Servers, NEW i \in Ids, HandleRawRecord(s, i)
      PROVE  dictMap' = Set(dictMap, DictKey(s, i), RawEntry(s, i), now)
  BY <1>5 DEF HandleRawRecord
<1>6. ASSUME NEW s \in Servers, NEW f \in Files, NEW b \in BOOLEAN, HandlePathRecord(s, f, b)
      PROVE  /\ ReadAs[Owner[s][f]] # None
             /\ \/ dictMap' = Set(dictMap, DictIDKey(s, f), UserEntry(ReadAs[Owner[s][f]]), now)
                \/ dictMap' = Set(Set(dictMap, DictKey(s, f), PathEntry(s, f), now),
                                  DictIDKey(s, f), UserEntry(ReadAs[Owner[s][f]]), now)
  BY <1>6 DEF HandlePathRecord
<1>7. CASE Janitor
  BY <1>7 DEF Janitor
<1>8. ASSUME NEW s \in Servers,
             \/ HandleServerInfo(s)
             \/ \E i \in Users, v \in Values : HandleTokenRecord(s, i, v)
             \/ \E f \in Files : \/ \E uid \in Users \cup {0} : HandleFileOpen(s, f, uid)
                                 \/ HandleTimeRecord(s, f)
                                 \/ HandleFileClose(s, f)
      PROVE  UNCHANGED dictMap
  BY <1>8 DEF HandleServerInfo, HandleTokenRecord, HandleFileOpen, HandleTimeRecord,
              HandleFileClose
<1>9. CASE Tick \/ UNCHANGED vars
  BY <1>9 DEF Tick, vars, maps
<1>10. CASE \E s \in Servers : ProcessPacket(s)
  <2>1. PICK s \in Servers : ProcessPacket(s)
    BY <1>10
  <2>2. CASE \E i \in Users, v \in Values : HandleUserRecord(s, i, v)
    BY <1>1, <1>2, <2>2
  <2>3. CASE \E i \in Users, v \in Values : HandleAppInfo(s, i, v) \/ HandleEAInfo(s, i, v)
    BY <1>1, <1>3, <2>3
  <2>4. CASE \E i \in Users : HandleDisconnect(s, i)
    BY <1>4, <2>4
  <2>5. CASE \E i \in Ids : HandleRawRecord(s, i)
    BY <1>5, <2>5
  <2>6. CASE \E f \in Files, b \in BOOLEAN : HandlePathRecord(s, f, b)
    BY <1>1, <1>6, <2>6, OwnerTypes
  <2>7. QED
    BY <1>8, <2>1, <2>2, <2>3, <2>4, <2>5, <2>6 DEF ProcessPacket
<1>11. QED
  BY <1>7, <1>9, <1>10 DEF Next

\* What is known under the key of the user info p after a packet that augments
\* it by the claim x.
Augmented(s, p, x) ==
    {[KnownUser(s, p) EXCEPT !.token = x],
     [KnownUser(s, p) EXCEPT !.app = x],
     [KnownUser(s, p) EXCEPT !.scitags = x]}

\* A user is set anew by a login; every other packet keeps what is known and
\* adds what it says of the user to whom the id belongs.
LEMMA UserSteps ==
    ASSUME DictInv, [Next]_vars
    PROVE  \/ UNCHANGED userMap
           \/ userMap' = Cleanup(userMap, now)
           \/ \E s \in Servers, i \in Users :
                 /\ HandleDisconnect(s, i)
                 /\ DictIDKey(s, i) \in DOMAIN dictMap
                 /\ userMap' = Delete(userMap, UserInfoKey(s, dictMap[DictIDKey(s, i)].value.user))
           \/ \E s \in Servers, i \in Users, v \in Values :
                 /\ HandleUserRecord(s, i, v)
                 /\ userMap' = Set(userMap, UserInfoKey(s, Owner[s][i]),
                       [NewUser(Owner[s][i]) EXCEPT !.auth = Claim(s, i, v)], now)
           \/ \E s \in Servers, i \in Users, v \in Values : \E p \in Readings(Owner[s][i]) :
                 \E u \in Augmented(s, p, Claim(s, i, v)) :
                    userMap' = Set(userMap, UserInfoKey(s, p), u, now)
<1>1. \A i \in Users : i \in Ids
  BY DEF Ids
<1>2. ASSUME NEW s \in Servers, NEW i \in Users, Has(dictMap, DictIDKey(s, i), now)
      PROVE  dictMap[DictIDKey(s, i)].value.user \in Readings(Owner[s][i])
  <2>1. PICK p \in Readings(Owner[s][i]) : dictMap[DictIDKey(s, i)].value = UserEntry(p)
    BY <1>1, <1>2 DEF DictInv, OwnEntries, Has
  <2>2. UserEntry(p).user = p
    BY DEF UserEntry
  <2>3. QED
    BY <2>1, <2>2
<1>3. ASSUME NEW s \in Servers, NEW i \in Users, NEW v \in Values, HandleTokenRecord(s, i, v)
      PROVE  \/ UNCHANGED userMap
             \/ \E p \in Readings(Owner[s][i]) : \E u \in Augmented(s, p, Claim(s, i, v)) :
                   userMap' = Set(userMap, UserInfoKey(s, p), u, now)
  <2>1. CASE UNCHANGED userMap
    BY <2>1
  <2>2. CASE ~UNCHANGED userMap
    <3> DEFINE ui == dictMap[DictIDKey(s, i)].value.user
               k == UserInfoKey(s, ui)
    <3>1. /\ Has(dictMap, DictIDKey(s, i), now) /\ Has(userMap, k, now)
          /\ userMap' = Set(userMap, k, [userMap[k].value EXCEPT !.token = Claim(s, i, v)], now)
      BY <1>3, <2>2 DEF HandleTokenRecord
    <3>2. ui \in Readings(Owner[s][i])
      BY <1>2, <3>1
    <3>3. userMap[k].value = KnownUser(s, ui)
      BY <3>1 DEF KnownUser
    <3> HIDE DEF ui
    <3>4. userMap' = Set(userMap, UserInfoKey(s, ui),
                         [KnownUser(s, ui) EXCEPT !.token = Claim(s, i, v)], now)
      BY <3>1, <3>3
    <3>5. QED
      BY <3>2, <3>4 DEF Augmented
  <2>3. QED
    BY <2>1, <2>2
<1>4. ASSUME NEW s \in Servers, NEW i \in Users, NEW v \in Values, HandleAppInfo(s, i, v)
      PROVE  \E p \in Readings(Owner[s][i]) : \E u \in Augmented(s, p, Claim(s, i, v)) :
                userMap' = Set(userMap, UserInfoKey(s, p), u, now)
  <2> DEFINE p == ReadAs[Owner[s][i]]
  <2>1. p \in Readings(Owner[s][i])
    BY <1>1, <1>4, OwnerTypes DEF HandleAppInfo
  <2>2. userMap' = Set(userMap, UserInfoKey(s, p),
                       [KnownUser(s, p) EXCEPT !.app = Claim(s, i, v)], now)
    BY <1>4 DEF HandleAppInfo
  <2> HIDE DEF p
  <2>3. QED
    BY <2>1, <2>2 DEF Augmented
<1>5. ASSUME NEW s \in Servers, NEW i \in Users, NEW v \in Values, HandleEAInfo(s, i, v)
      PROVE  \E p \in Readings(Owner[s][i]) : \E u \in Augmented(s, p, Claim(s, i, v)) :
                userMap' = Set(userMap, UserInfoKey(s, p), u, now)
  <2> DEFINE p == IF Has(dictMap, DictIDKey(s, i), now)
                  THEN dictMap[DictIDKey(s, i)].value.user ELSE ReadAs[Owner[s][i]]
  <2>1. p \in Readings(Owner[s][i])
    BY <1>1, <1>2, <1>5, OwnerTypes DEF HandleEAInfo
  <2>2. userMap' = Set(userMap, UserInfoKey(s, p),
                       [KnownUser(s, p) EXCEPT !.scitags = Claim(s, i, v)], now)
    BY <1>5 DEF HandleEAInfo
  <2> HIDE DEF p
  <2>3. QED
    BY <2>1, <2>2 DEF Augmented
<1>6. ASSUME NEW s \in Servers, NEW i \in Users, NEW v \in Values, HandleUserRecord(s, i, v)
      PROVE  userMap' = Set(userMap, UserInfoKey(s, Owner[s][i]),
                            [NewUser(Owner[s][i]) EXCEPT !.auth = Claim(s, i, v)], now)
  BY <1>6 DEF HandleUserRecord
<1>7. ASSUME NEW s \in Servers, NEW i \in Users, HandleDisconnect(s, i)
      PROVE  \/ UNCHANGED userMap
             \/ /\ DictIDKey(s, i) \in DOMAIN dictMap
                /\ userMap' = Delete(userMap, UserInfoKey(s, dictMap[DictIDKey(s, i)].value.user))
  BY <1>7 DEF HandleDisconnect, Has
<1>8. CASE Janitor
  BY <1>8 DEF Janitor
<1>9. CASE Tick \/ UNCHANGED vars
  BY <1>9 DEF Tick, vars, maps
<1>10. ASSUME NEW s \in Servers,
              \/ HandleServerInfo(s)
              \/ \E i \in Ids : HandleRawRecord(s, i)
              \/ \E f \in Files : \/ \E b \in BOOLEAN : HandlePathRecord(s, f, b)
                                  \/ \E uid \in Users \cup {0} : HandleFileOpen(s, f, uid)
                                  \/ HandleTimeRecord(s, f)
                                  \/ HandleFileClose(s, f)
       PROVE  UNCHANGED userMap
  BY <1>10 DEF HandleServerInfo, HandleRawRecord, HandlePathRecord, HandleFileOpen,
               HandleTimeRecord, HandleFileClose
<1>11. CASE \E s \in Servers : ProcessPacket(s)
  <2>1. PICK s \in Servers : ProcessPacket(s)
    BY <1>11
  <2>2. CASE \E i \in Users, v \in Values : HandleUserRecord(s, i, v)
    BY <1>6, <2>2
  <2>3. CASE \E i \in Users, v \in Values : HandleTokenRecord(s, i, v)
    BY <1>3, <2>3
  <2>4. CASE \E i \in Users, v \in Values : HandleAppInfo(s, i, v)
    BY <1>4, <2>4
  <2>5. CASE \E i \in Users, v \in Values : HandleEAInfo(s, i, v)
    BY <1>5, <2>5
  <2>6. CASE \E i \in Users : HandleDisconnect(s, i)
    BY <1>7, <2>6
  <2>7. QED
    BY <1>10, <2>1, <2>2, <2>3, <2>4, <2>5, <2>6 DEF ProcessPacket
<1>12. QED
  BY <1>8, <1>9, <1>11 DEF Next

\* Opens and time records go into one map; an open leaves it when it is joined
\* or has expired, and the history follows.
LEMMA FileSteps ==
    ASSUME [Next]_vars
    PROVE  \/ UNCHANGED <<stateMap, opened, now>>
           \/ UNCHANGED <<stateMap, opened>> /\ now' = now + 1 /\ now < MaxTime
           \/ \E s \in Servers, f \in Files, uid \in Users \cup {0} : HandleFileOpen(s, f, uid)
           \/ \E s \in Servers, f \in Files :
                 /\ stateMap' = Set(stateMap, TimeKey(s, f), [user |-> 0, path |-> None], now)
                 /\ UNCHANGED <<opened, now>>
           \/ \E s \in Servers, f \in Files :
                 /\ stateMap' = Delete(stateMap, FileKey(s, f))
                 /\ opened' = [opened EXCEPT ![<<s, f>>] = None]
                 /\ UNCHANGED now
           \/ stateMap' = Cleanup(stateMap, now) /\ UNCHANGED <<opened, now>>
<1>1. ASSUME NEW s \in Servers, NEW f \in Files, HandleFileClose(s, f)
      PROVE  \/ UNCHANGED <<stateMap, opened, now>>
             \/ /\ stateMap' = Delete(stateMap, FileKey(s, f))
                /\ opened' = [opened EXCEPT ![<<s, f>>] = None]
                /\ UNCHANGED now
  BY <1>1 DEF HandleFileClose, HandlePacket
<1>2. ASSUME NEW s \in Servers, NEW f \in Files, HandleTimeRecord(s, f)
      PROVE  /\ stateMap' = Set(stateMap, TimeKey(s, f), [user |-> 0, path |-> None], now)
             /\ UNCHANGED <<opened, now>>
  BY <1>2 DEF HandleTimeRecord, HandlePacket
<1>3. ASSUME NEW s \in Servers,
             \/ HandleServerInfo(s)
             \/ \E i \in Users, v \in Values : \/ HandleUserRecord(s, i, v)
                                               \/ HandleTokenRecord(s, i, v)
                                               \/ HandleAppInfo(s, i, v)
                                               \/ HandleEAInfo(s, i, v)
             \/ \E i \in Users : HandleDisconnect(s, i)
             \/ \E i \in Ids : HandleRawRecord(s, i)
             \/ \E f \in Files, b \in BOOLEAN : HandlePathRecord(s, f, b)
      PROVE  UNCHANGED <<stateMap, opened, now>>
  BY <1>3 DEF HandleServerInfo, HandleUserRecord, HandleTokenRecord, HandleAppInfo,
              HandleEAInfo, HandleDisconnect, HandleRawRecord, HandlePathRecord, HandlePacket
<1>4. CASE Janitor
  BY <1>4 DEF Janitor
<1>5. CASE Tick
  BY <1>5 DEF Tick, maps
<1>6. CASE UNCHANGED vars
  BY <1>6 DEF vars, maps
<1>7. CASE \E s \in Servers : ProcessPacket(s)
  <2>1. PICK s \in Servers : ProcessPacket(s)
    BY <1>7
  <2>2. CASE \E f \in Files : HandleFileClose(s, f)
    BY <1>1, <2>2
  <2>3. CASE \E f \in Files : HandleTimeRecord(s, f)
    BY <1>2, <2>3
  <2>4. QED
    BY <1>3, <2>1, <2>2, <2>3 DEF ProcessPacket
<1>8. QED
  BY <1>4, <1>5, <1>6, <1>7 DEF Next

-----------------------------------------------------------------------------
(* Each map keeps its part of the invariant.                               *)

\* A smaller map says nothing new.
LEMMA SubMapOwn ==
    ASSUME NEW m, NEW small, SubMap(small, m)
    PROVE  /\ OwnEntries(m) => OwnEntries(small)
           /\ OwnStates(m) => OwnStates(small)
           /\ OwnFiles(m) => OwnFiles(small)
<1>1. OwnEntries(m) => OwnEntries(small)
  BY DEF SubMap, OwnEntries
<1>2. OwnStates(m) => OwnStates(small)
  BY DEF SubMap, OwnStates
<1>3. OwnFiles(m) => OwnFiles(small)
  BY DEF SubMap, OwnFiles
<1>4. QED
  BY <1>1, <1>2, <1>3

\* A user info read for an id may be stored under that id.
LEMMA SetUserEntry ==
    ASSUME NEW m, OwnEntries(m), NEW t, NEW s \in Servers, NEW i \in Ids,
           NEW p \in Readings(Owner[s][i])
    PROVE  OwnEntries(Set(m, DictIDKey(s, i), UserEntry(p), t))
<1> DEFINE e == UserEntry(p)
           n == Set(m, DictIDKey(s, i), e, t)
<1>1. \A x \in DOMAIN n : \/ x = DictIDKey(s, i) /\ n[x].value = e
                          \/ x # DictIDKey(s, i) /\ x \in DOMAIN m /\ n[x] = m[x]
  BY SetFacts
<1>2. ASSUME NEW r \in Servers, NEW j \in Ids, DictIDKey(r, j) \in DOMAIN n
      PROVE  \E q \in Readings(Owner[r][j]) : n[DictIDKey(r, j)].value = UserEntry(q)
  <2> HIDE DEF n
  <2>1. CASE DictIDKey(r, j) = DictIDKey(s, i)
    <3>1. r = s /\ j = i
      BY <2>1, KeysDiffer
    <3>2. QED
      BY <1>1, <1>2, <3>1
  <2>2. CASE DictIDKey(r, j) # DictIDKey(s, i)
    BY <1>1, <1>2, <2>2 DEF OwnEntries
  <2>3. QED
    BY <2>1, <2>2
<1>3. ASSUME NEW r \in Servers, NEW j \in Ids, DictKey(r, j) \in DOMAIN n
      PROVE  OwnEntry(r, j, n[DictKey(r, j)].value)
  <2> HIDE DEF n
  <2>1. DictKey(r, j) # DictIDKey(s, i)
    BY KeysDiffer
  <2>2. QED
    BY <1>1, <1>3, <2>1 DEF OwnEntries
<1> HIDE DEF n
<1>4. OwnEntries(n)
  BY <1>2, <1>3 DEF OwnEntries
<1>5. QED
  BY <1>4 DEF n

\* The path of a file, or the text sent for an id, may be stored under its id.
LEMMA SetPathEntry ==
    ASSUME NEW m, OwnEntries(m), NEW t, NEW s \in Servers, NEW i \in Ids,
           NEW e, OwnEntry(s, i, e)
    PROVE  OwnEntries(Set(m, DictKey(s, i), e, t))
<1> DEFINE n == Set(m, DictKey(s, i), e, t)
<1>1. \A x \in DOMAIN n : \/ x = DictKey(s, i) /\ n[x].value = e
                          \/ x # DictKey(s, i) /\ x \in DOMAIN m /\ n[x] = m[x]
  BY SetFacts
<1>2. ASSUME NEW r \in Servers, NEW j \in Ids, DictIDKey(r, j) \in DOMAIN n
      PROVE  \E q \in Readings(Owner[r][j]) : n[DictIDKey(r, j)].value = UserEntry(q)
  <2> HIDE DEF n
  <2>1. DictIDKey(r, j) # DictKey(s, i)
    BY KeysDiffer
  <2>2. QED
    BY <1>1, <1>2, <2>1 DEF OwnEntries
<1>3. ASSUME NEW r \in Servers, NEW j \in Ids, DictKey(r, j) \in DOMAIN n
      PROVE  OwnEntry(r, j, n[DictKey(r, j)].value)
  <2> HIDE DEF n
  <2>1. CASE DictKey(r, j) = DictKey(s, i)
    <3>1. r = s /\ j = i
      BY <2>1, KeysDiffer
    <3>2. QED
      BY <1>1, <1>3, <3>1
  <2>2. CASE DictKey(r, j) # DictKey(s, i)
    BY <1>1, <1>3, <2>2 DEF OwnEntries
  <2>3. QED
    BY <2>1, <2>2
<1> HIDE DEF n
<1>4. OwnEntries(n)
  BY <1>2, <1>3 DEF OwnEntries
<1>5. QED
  BY <1>4 DEF n

LEMMA DictInvStep ==
    ASSUME DictInv, [Next]_vars
    PROVE  DictInv'
<1>1. ASSUME SubMap(dictMap', dictMap) PROVE DictInv'
  BY <1>1, SubMapOwn DEF DictInv
<1>2. CASE UNCHANGED dictMap
  BY <1>1, <1>2 DEF SubMap
<1>3. ASSUME \/ dictMap' = Cleanup(dictMap, now)
             \/ \E s \in Servers, i \in Users : dictMap' = Delete(dictMap, DictIDKey(s, i))
      PROVE  DictInv'
  BY <1>1, <1>3, CleanupFacts, DeleteFacts
<1>4. CASE \E s \in Servers, i \in Ids : \E p \in Readings(Owner[s][i]) :
              dictMap' = Set(dictMap, DictIDKey(s, i), UserEntry(p), now)
  BY <1>4, SetUserEntry DEF DictInv
<1>5. ASSUME NEW s \in Servers, NEW i \in Ids,
             dictMap' = Set(dictMap, DictKey(s, i), RawEntry(s, i), now)
      PROVE  DictInv'
  <2>1. OwnEntry(s, i, RawEntry(s, i))
    BY DEF OwnEntry
  <2>2. QED
    BY <1>5, <2>1, SetPathEntry DEF DictInv
<1>6. ASSUME NEW s \in Servers, NEW f \in Files, ReadAs[Owner[s][f]] # None,
             dictMap' = Set(Set(dictMap, DictKey(s, f), PathEntry(s, f), now),
                            DictIDKey(s, f), UserEntry(ReadAs[Owner[s][f]]), now)
      PROVE  DictInv'
  <2> DEFINE m == Set(dictMap, DictKey(s, f), PathEntry(s, f), now)
  <2>1. f \in Ids /\ OwnEntry(s, f, PathEntry(s, f))
    BY <1>6 DEF Ids, OwnEntry
  <2>2. OwnEntries(m)
    BY <2>1, SetPathEntry DEF DictInv
  <2>3. ReadAs[Owner[s][f]] \in Readings(Owner[s][f])
    BY <1>6, <2>1, OwnerTypes
  <2> HIDE DEF m
  <2>4. OwnEntries(Set(m, DictIDKey(s, f), UserEntry(ReadAs[Owner[s][f]]), now))
    BY <2>1, <2>2, <2>3, SetUserEntry
  <2>5. QED
    BY <1>6, <2>4 DEF DictInv, m
<1>7. QED
  BY <1>2, <1>3, <1>4, <1>5, <1>6, DictSteps

\* What a server says of a user may be known under the user's names.
LEMMA ClaimOwn ==
    ASSUME NEW s \in Servers, NEW i \in Ids, NEW v \in Values, NEW p \in Readings(Owner[s][i])
    PROVE  Claim(s, i, v) \in OwnFact(s, KeyInfo[p]) /\ Claim(s, i, v) \in Claims
<1> DEFINE x == Claim(s, i, v)
<1>1. x \in Claims /\ x.server = s /\ x.user = Owner[s][i]
  BY OwnerTypes DEF Claim, Claims
<1>2. Owner[s][i] \in UsersOf(s) /\ KeyInfo[p] \in KnownAs(Owner[s][i])
  BY OwnerTypes DEF UsersOf
<1> HIDE DEF x
<1>3. x \in OwnFact(s, KeyInfo[p])
  BY <1>1, <1>2 DEF OwnFact
<1>4. QED
  BY <1>1, <1>3 DEF x

\* What is known of a user is said of the user's own names, and so it is after a
\* packet that adds to it.
LEMMA KnownUserOwn ==
    ASSUME UserInv, NEW s \in Servers, NEW i \in Ids, NEW p \in Readings(Owner[s][i])
    PROVE  /\ KnownUser(s, p) \in OwnState(s, KeyInfo[p])
           /\ NewUser(p) \in OwnState(s, KeyInfo[p])
           /\ \A v \in Values : Augmented(s, p, Claim(s, i, v)) \subseteq OwnState(s, KeyInfo[p])
<1>1. p \in OwnInfo(s, KeyInfo[p]) /\ KeyInfo[p] \in UserInfos
  BY OwnerTypes
<1>2. NewUser(p) \in OwnState(s, KeyInfo[p])
  BY <1>1 DEF NewUser, OwnState, OwnFact
<1>3. KnownUser(s, p) \in OwnState(s, KeyInfo[p])
  <2>1. CASE Has(userMap, UserInfoKey(s, p), now)
    BY <1>1, <2>1, StateKeys DEF UserInv, OwnStates, KnownUser, Has
  <2>2. CASE ~Has(userMap, UserInfoKey(s, p), now)
    BY <1>2, <2>2 DEF KnownUser
  <2>3. QED
    BY <2>1, <2>2
<1>4. ASSUME NEW u \in OwnState(s, KeyInfo[p]), NEW x \in OwnFact(s, KeyInfo[p])
      PROVE  /\ [u EXCEPT !.token = x] \in OwnState(s, KeyInfo[p])
             /\ [u EXCEPT !.app = x] \in OwnState(s, KeyInfo[p])
             /\ [u EXCEPT !.scitags = x] \in OwnState(s, KeyInfo[p])
  BY <1>4 DEF OwnState
<1>5. ASSUME NEW v \in Values
      PROVE  Augmented(s, p, Claim(s, i, v)) \subseteq OwnState(s, KeyInfo[p])
  <2>1. Claim(s, i, v) \in OwnFact(s, KeyInfo[p])
    BY ClaimOwn
  <2>2. QED
    BY <1>3, <1>4, <2>1 DEF Augmented
<1>6. QED
  BY <1>2, <1>3, <1>5

\* A login says of the user what may be known under the user's name.
LEMMA LoginOwn ==
    ASSUME UserInv, NEW s \in Servers, NEW i \in Ids, NEW v \in Values
    PROVE  [NewUser(Owner[s][i]) EXCEPT !.auth = Claim(s, i, v)] \in OwnState(s, KeyInfo[Owner[s][i]])
<1>1. Owner[s][i] \in Readings(Owner[s][i])
  BY OwnerTypes
<1>2. NewUser(Owner[s][i]) \in OwnState(s, KeyInfo[Owner[s][i]])
  BY <1>1, KnownUserOwn
<1>3. Claim(s, i, v) \in OwnFact(s, KeyInfo[Owner[s][i]])
  BY <1>1, ClaimOwn
<1>4. QED
  BY <1>2, <1>3 DEF OwnState

\* A state that is known under a name may be stored under its key.
LEMMA SetOwnState ==
    ASSUME NEW m, OwnStates(m), NEW t, NEW s \in Servers, NEW n \in UserInfos,
           NEW u \in OwnState(s, n)
    PROVE  OwnStates(Set(m, StateKey(s, n), u, t))
<1> DEFINE new == Set(m, StateKey(s, n), u, t)
<1>1. \A x \in DOMAIN new : \/ x = StateKey(s, n) /\ new[x].value = u
                            \/ x # StateKey(s, n) /\ x \in DOMAIN m /\ new[x] = m[x]
  BY SetFacts
<1>2. ASSUME NEW r \in Servers, NEW o \in UserInfos, StateKey(r, o) \in DOMAIN new
      PROVE  new[StateKey(r, o)].value \in OwnState(r, o)
  <2> HIDE DEF new
  <2>1. CASE StateKey(r, o) = StateKey(s, n)
    <3>1. r = s /\ o = n
      BY <2>1, StateKeys
    <3>2. QED
      BY <1>1, <1>2, <3>1
  <2>2. CASE StateKey(r, o) # StateKey(s, n)
    BY <1>1, <1>2, <2>2 DEF OwnStates
  <2>3. QED
    BY <2>1, <2>2
<1> HIDE DEF new
<1>3. OwnStates(new)
  BY <1>2 DEF OwnStates
<1>4. QED
  BY <1>3 DEF new

\* A step leaves the states as they are, takes some away, or stores one under
\* its key.
LEMMA UserMapSteps ==
    ASSUME DictInv, UserInv, [Next]_vars
    PROVE  \/ SubMap(userMap', userMap)
           \/ \E s \in Servers, n \in UserInfos : \E u \in OwnState(s, n) :
                 userMap' = Set(userMap, StateKey(s, n), u, now)
<1>1. UNCHANGED userMap => SubMap(userMap', userMap)
  BY DEF SubMap
<1>2. ASSUME NEW k, userMap' = Delete(userMap, k)
      PROVE  SubMap(userMap', userMap)
  BY <1>2, DeleteFacts
<1>3. CASE userMap' = Cleanup(userMap, now)
  BY <1>3, CleanupFacts
<1>4. \A i \in Users : i \in Ids
  BY DEF Ids
<1>5. ASSUME NEW s \in Servers, NEW i \in Users, NEW v \in Values,
             userMap' = Set(userMap, UserInfoKey(s, Owner[s][i]),
                            [NewUser(Owner[s][i]) EXCEPT !.auth = Claim(s, i, v)], now)
      PROVE  \E n \in UserInfos : \E u \in OwnState(s, n) :
                userMap' = Set(userMap, StateKey(s, n), u, now)
  <2>1. KeyInfo[Owner[s][i]] \in UserInfos
    BY <1>4, OwnerTypes
  <2>2. [NewUser(Owner[s][i]) EXCEPT !.auth = Claim(s, i, v)] \in OwnState(s, KeyInfo[Owner[s][i]])
    BY <1>4, LoginOwn
  <2>3. QED
    BY <1>5, <2>1, <2>2, StateKeys
<1>6. ASSUME NEW s \in Servers, NEW i \in Users, NEW v \in Values, NEW p \in Readings(Owner[s][i]),
             NEW u \in Augmented(s, p, Claim(s, i, v)),
             userMap' = Set(userMap, UserInfoKey(s, p), u, now)
      PROVE  \E n \in UserInfos : \E x \in OwnState(s, n) :
                userMap' = Set(userMap, StateKey(s, n), x, now)
  <2>1. KeyInfo[p] \in UserInfos
    BY <1>4, OwnerTypes
  <2>2. u \in OwnState(s, KeyInfo[p])
    BY <1>4, KnownUserOwn
  <2>3. QED
    BY <1>6, <2>1, <2>2, StateKeys
<1>7. QED
  BY <1>1, <1>2, <1>3, <1>5, <1>6, UserSteps

LEMMA UserInvStep ==
    ASSUME DictInv, UserInv, [Next]_vars
    PROVE  UserInv'
<1>1. CASE SubMap(userMap', userMap)
  BY <1>1, SubMapOwn DEF UserInv
<1>2. CASE \E s \in Servers, n \in UserInfos : \E u \in OwnState(s, n) :
              userMap' = Set(userMap, StateKey(s, n), u, now)
  BY <1>2, SetOwnState DEF UserInv
<1>3. QED
  BY <1>1, <1>2, UserMapSteps

\* What an open finds in the dictionary is the text sent for the file.
LEMMA RawPathOwn ==
    ASSUME DictInv, NEW s \in Servers, NEW f \in Files
    PROVE  RawPath(s, f) \in {None, TextOf(s, f)}
<1>1. DictKey(s, f) \in DOMAIN dictMap => OwnEntry(s, f, dictMap[DictKey(s, f)].value)
  BY DEF DictInv, OwnEntries, Ids
<1>2. PathEntry(s, f).kind # "raw" /\ RawEntry(s, f).path = TextOf(s, f)
  BY DEF PathEntry, RawEntry
<1>3. QED
  BY <1>1, <1>2 DEF RawPath, Has, OwnEntry

LEMMA FileInvStep ==
    ASSUME DictInv, FileInv, [Next]_vars
    PROVE  FileInv'
<1>1. CASE UNCHANGED stateMap
  BY <1>1 DEF FileInv, OwnFiles
<1>2. ASSUME NEW k, stateMap' = Delete(stateMap, k)
      PROVE  FileInv'
  <2>1. SubMap(Delete(stateMap, k), stateMap)
    BY DeleteFacts
  <2>2. QED
    BY <1>2, <2>1, SubMapOwn DEF FileInv
<1>3. CASE stateMap' = Cleanup(stateMap, now)
  BY <1>3, CleanupFacts, SubMapOwn DEF FileInv
<1>4. ASSUME NEW s \in Servers, NEW f \in Files,
             stateMap' = Set(stateMap, TimeKey(s, f), [user |-> 0, path |-> None], now)
      PROVE  FileInv'
  <2>1. \A x \in DOMAIN stateMap' :
           x = TimeKey(s, f) \/ (x \in DOMAIN stateMap /\ stateMap'[x] = stateMap[x])
    BY <1>4, SetFacts
  <2>2. QED
    BY <2>1, KeysDiffer DEF FileInv, OwnFiles
<1>5. ASSUME NEW s \in Servers, NEW f \in Files, NEW uid \in Users \cup {0},
             HandleFileOpen(s, f, uid)
      PROVE  FileInv'
  <2> DEFINE o == OpenState(s, f, uid)
  <2>1. OwnFile(s, f, o)
    BY <1>5, RawPathOwn DEF OwnFile, OpenState, HandleFileOpen
  <2> HIDE DEF o
  <2>2. stateMap' = Set(stateMap, FileKey(s, f), o, now)
    BY <1>5 DEF HandleFileOpen, o
  <2>3. \A x \in DOMAIN stateMap' :
           \/ x = FileKey(s, f) /\ stateMap'[x].value = o
           \/ x \in DOMAIN stateMap /\ stateMap'[x] = stateMap[x]
    BY <2>2, SetFacts
  <2>4. QED
    BY <2>1, <2>3, KeysDiffer DEF FileInv, OwnFiles
<1>6. QED
  BY <1>1, <1>2, <1>3, <1>4, <1>5, FileSteps

\* Only a server's own packet sets its site.
LEMMA SiteInvStep ==
    ASSUME SiteInv, [Next]_vars
    PROVE  SiteInv'
<1>1. CASE UNCHANGED serverMap
  BY <1>1 DEF SiteInv
<1>2. ASSUME NEW s \in Servers, HandleServerInfo(s)
      PROVE  SiteInv'
  <2>1. serverMap' = Set(serverMap, s, s, now)
    BY <1>2 DEF HandleServerInfo
  <2>2. \A x \in DOMAIN serverMap' :
           \/ x = s /\ serverMap'[x].value = s
           \/ x \in DOMAIN serverMap /\ serverMap'[x] = serverMap[x]
    BY <2>1, SetFacts
  <2>3. QED
    BY <2>2 DEF SiteInv
<1>3. CASE serverMap' = Cleanup(serverMap, now)
  <2>1. SubMap(Cleanup(serverMap, now), serverMap)
    BY CleanupFacts
  <2>2. QED
    BY <1>3, <2>1 DEF SiteInv, SubMap
<1>4. ASSUME NEW s \in Servers, ProcessPacket(s), ~HandleServerInfo(s)
      PROVE  UNCHANGED serverMap
  BY <1>4 DEF ProcessPacket, HandleUserRecord, HandleTokenRecord, HandleAppInfo, HandleEAInfo,
              HandleDisconnect, HandleRawRecord, HandlePathRecord, HandleFileOpen,
              HandleTimeRecord, HandleFileClose
<1>5. CASE Janitor
  BY <1>1, <1>3, <1>5 DEF Janitor
<1>6. CASE Tick \/ UNCHANGED vars
  BY <1>1, <1>6 DEF Tick, vars, maps
<1>7. QED
  BY <1>1, <1>2, <1>4, <1>5, <1>6 DEF Next

\* The clock, the number of packets and the history keep their types.
LEMMA ClockInvStep ==
    ASSUME ClockInv, [Next]_vars
    PROVE  ClockInv'
<1>1. MaxTime \in Nat /\ MaxPackets \in Nat
  BY CorrelatorAssumption
<1>2. now' \in 0..MaxTime /\ packets' \in 0..MaxPackets
  <2>1. ASSUME NEW s \in Servers, ProcessPacket(s)
        PROVE  HandlePacket
    BY <2>1 DEF ProcessPacket, HandleServerInfo, HandleUserRecord, HandleTokenRecord,
                HandleAppInfo, HandleEAInfo, HandleDisconnect, HandleRawRecord,
                HandlePathRecord, HandleFileOpen, HandleTimeRecord, HandleFileClose
  <2>2. CASE HandlePacket
    BY <1>1, <2>2 DEF ClockInv, HandlePacket
  <2>3. CASE Tick
    BY <1>1, <2>3 DEF ClockInv, Tick
  <2>4. CASE Janitor \/ UNCHANGED vars
    BY <2>4 DEF ClockInv, Janitor, vars
  <2>5. QED
    BY <2>1, <2>2, <2>3, <2>4 DEF Next
<1>3. opened' \in [Servers \X Files -> 0..MaxTime \cup {None}]
  <2>1. CASE UNCHANGED opened
    BY <2>1 DEF ClockInv
  <2>2. ASSUME NEW s \in Servers, NEW f \in Files, NEW t \in 0..MaxTime \cup {None},
               opened' = [opened EXCEPT ![<<s, f>>] = t]
        PROVE  opened' \in [Servers \X Files -> 0..MaxTime \cup {None}]
    BY <2>2 DEF ClockInv
  <2>3. ASSUME NEW s \in Servers, NEW f \in Files, NEW uid \in Users \cup {0},
               HandleFileOpen(s, f, uid)
        PROVE  opened' = opened \/ opened' = [opened EXCEPT ![<<s, f>>] = now]
    BY <2>3 DEF HandleFileOpen
  <2>4. CASE \E s \in Servers, f \in Files, uid \in Users \cup {0} : HandleFileOpen(s, f, uid)
    BY <2>1, <2>2, <2>3, <2>4 DEF ClockInv
  <2>5. CASE \E s \in Servers, f \in Files : opened' = [opened EXCEPT ![<<s, f>>] = None]
    BY <2>2, <2>5
  <2>6. QED
    BY <2>1, <2>4, <2>5, FileSteps
<1>4. QED
  BY <1>2, <1>3 DEF ClockInv

\* An open that is stored is in the history from then on, and one that finds no
\* room changes neither.
LEMMA OpenStored ==
    ASSUME ClockInv, OpenInv, NEW s \in Servers, NEW f \in Files, NEW uid \in Users \cup {0},
           HandleFileOpen(s, f, uid)
    PROVE  OpenInv'
<1> DEFINE k == FileKey(s, f)
           o == OpenState(s, f, uid)
<1>1. now' = now /\ now \in Nat /\ TTL \in Nat /\ None \notin Nat
  BY CorrelatorAssumption, StateMapAssumption DEF HandleFileOpen, HandlePacket, ClockInv
<1>2. CASE ~Accepts(stateMap, k)
  <2>1. UNCHANGED <<stateMap, opened>>
    BY <1>2, SetFacts DEF HandleFileOpen, Accepts, Full
  <2>2. QED
    BY <1>1, <2>1 DEF OpenInv
<1>3. CASE Accepts(stateMap, k)
  <2> HIDE DEF o
  <2>1. stateMap' = Set(stateMap, k, o, now) /\ opened' = [opened EXCEPT ![<<s, f>>] = now]
    BY <1>3 DEF HandleFileOpen, Accepts, Full, o
  <2> HIDE DEF k
  <2>2. /\ \A x \in DOMAIN stateMap' :
              \/ x = k /\ stateMap'[x] = [value |-> o, expiresAt |-> now + TTL]
              \/ x # k /\ x \in DOMAIN stateMap /\ stateMap'[x] = stateMap[x]
        /\ DOMAIN stateMap \subseteq DOMAIN stateMap'
        /\ k \in DOMAIN stateMap'
    BY <1>3, <2>1, SetFacts
  <2>3. /\ opened'[<<s, f>>] = now
        /\ \A r \in Servers, g \in Files : <<r, g>> # <<s, f>> => opened'[<<r, g>>] = opened[<<r, g>>]
    BY <2>1 DEF ClockInv
  <2>4. stateMap'[k].expiresAt = now + TTL
    BY <2>2
  <2>5. ASSUME NEW r \in Servers, NEW g \in Files
        PROVE  /\ FileKey(r, g) \in DOMAIN stateMap' =>
                     /\ opened'[<<r, g>>] # None
                     /\ stateMap'[FileKey(r, g)].expiresAt = opened'[<<r, g>>] + TTL
               /\ opened'[<<r, g>>] # None /\ now <= opened'[<<r, g>>] + TTL =>
                     FileKey(r, g) \in DOMAIN stateMap'
    <3>1. CASE r = s /\ g = f
      BY <1>1, <2>2, <2>3, <2>4, <3>1 DEF k
    <3>2. CASE ~(r = s /\ g = f)
      <4>1. FileKey(r, g) # k /\ <<r, g>> # <<s, f>>
        BY <3>2, KeysDiffer DEF k
      <4>2. opened'[<<r, g>>] = opened[<<r, g>>]
        BY <2>3, <4>1
      <4>3. FileKey(r, g) \in DOMAIN stateMap' =>
               /\ FileKey(r, g) \in DOMAIN stateMap
               /\ stateMap'[FileKey(r, g)] = stateMap[FileKey(r, g)]
        BY <2>2, <4>1
      <4>4. QED
        BY <2>2, <4>2, <4>3 DEF OpenInv
    <3>3. QED
      BY <3>1, <3>2
  <2>6. QED
    BY <1>1, <2>5 DEF OpenInv
<1>4. QED
  BY <1>2, <1>3

\* An entry taken away by a close leaves the history, and what the janitor takes
\* away has expired.
LEMMA OpenInvStep ==
    ASSUME ClockInv, OpenInv, [Next]_vars
    PROVE  OpenInv'
<1>1. now \in Nat /\ TTL \in Nat /\ None \notin Nat
  BY CorrelatorAssumption, StateMapAssumption DEF ClockInv
<1>2. CASE UNCHANGED <<stateMap, opened, now>>
  BY <1>2 DEF OpenInv
<1>3. CASE UNCHANGED <<stateMap, opened>> /\ now' = now + 1
  <2> SUFFICES ASSUME NEW s \in Servers, NEW f \in Files,
                      opened[<<s, f>>] # None, now + 1 <= opened[<<s, f>>] + TTL
               PROVE  now <= opened[<<s, f>>] + TTL
    BY <1>3 DEF OpenInv
  <2>1. opened[<<s, f>>] \in 0..MaxTime
    BY DEF ClockInv
  <2>2. QED
    BY <1>1, <2>1
<1>4. ASSUME NEW s \in Servers, NEW f \in Files, UNCHANGED <<opened, now>>,
             stateMap' = Set(stateMap, TimeKey(s, f), [user |-> 0, path |-> None], now)
      PROVE  OpenInv'
  <2>1. /\ \A x \in DOMAIN stateMap' :
              x = TimeKey(s, f) \/ (x \in DOMAIN stateMap /\ stateMap'[x] = stateMap[x])
        /\ DOMAIN stateMap \subseteq DOMAIN stateMap'
    BY <1>4, SetFacts
  <2>2. \A r \in Servers, g \in Files : FileKey(r, g) # TimeKey(s, f)
    BY KeysDiffer
  <2>3. QED
    BY <1>4, <2>1, <2>2 DEF OpenInv
<1>5. ASSUME NEW s \in Servers, NEW f \in Files, UNCHANGED now,
             stateMap' = Delete(stateMap, FileKey(s, f)),
             opened' = [opened EXCEPT ![<<s, f>>] = None]
      PROVE  OpenInv'
  <2>1. /\ \A x \in DOMAIN stateMap' : x \in DOMAIN stateMap /\ stateMap'[x] = stateMap[x]
        /\ DOMAIN stateMap' = DOMAIN stateMap \ {FileKey(s, f)}
    BY <1>5, DeleteFacts DEF SubMap
  <2>2. /\ opened'[<<s, f>>] = None
        /\ \A r \in Servers, g \in Files :
              <<r, g>> # <<s, f>> => opened'[<<r, g>>] = opened[<<r, g>>]
    BY <1>5 DEF ClockInv
  <2>3. ASSUME NEW r \in Servers, NEW g \in Files
        PROVE  /\ FileKey(r, g) \in DOMAIN stateMap' =>
                     /\ opened'[<<r, g>>] # None
                     /\ stateMap'[FileKey(r, g)].expiresAt = opened'[<<r, g>>] + TTL
               /\ opened'[<<r, g>>] # None /\ now <= opened'[<<r, g>>] + TTL =>
                     FileKey(r, g) \in DOMAIN stateMap'
    <3>1. CASE r = s /\ g = f
      BY <2>1, <2>2, <3>1
    <3>2. CASE ~(r = s /\ g = f)
      <4>1. FileKey(r, g) # FileKey(s, f) /\ <<r, g>> # <<s, f>>
        BY <3>2, KeysDiffer
      <4>2. QED
        BY <2>1, <2>2, <4>1 DEF OpenInv
    <3>3. QED
      BY <3>1, <3>2
  <2>4. QED
    BY <1>5, <2>3 DEF OpenInv
<1>6. CASE stateMap' = Cleanup(stateMap, now) /\ UNCHANGED <<opened, now>>
  <2>1. /\ \A x \in DOMAIN stateMap' : x \in DOMAIN stateMap /\ stateMap'[x] = stateMap[x]
        /\ DOMAIN stateMap' = {x \in DOMAIN stateMap : Has(stateMap, x, now)}
    BY <1>6, CleanupFacts DEF SubMap
  <2>2. QED
    BY <1>6, <2>1 DEF OpenInv, Has
<1>7. CASE \E s \in Servers, f \in Files, uid \in Users \cup {0} : HandleFileOpen(s, f, uid)
  BY <1>7, OpenStored
<1>8. QED
  BY <1>2, <1>3, <1>4, <1>5, <1>6, <1>7, FileSteps

-----------------------------------------------------------------------------
(* Records.                                                                *)

\* The user an open or a close leads to is read from a text of the file's owner.
LEMMA LookupOwn ==
    ASSUME DictInv, NEW s \in Servers, NEW f \in Files, NEW uid \in Users \cup {0},
           uid # 0 => Owner[s][uid] = Owner[s][f]
    PROVE  LookupInfo(s, uid, f) = None \/ LookupInfo(s, uid, f) \in Readings(Owner[s][f])
<1>1. CASE uid # 0 /\ Has(dictMap, DictIDKey(s, uid), now)
  <2>1. uid \in Ids
    BY <1>1 DEF Ids
  <2>2. PICK p \in Readings(Owner[s][uid]) : dictMap[DictIDKey(s, uid)].value = UserEntry(p)
    BY <1>1, <2>1 DEF DictInv, OwnEntries, Has
  <2>3. UserEntry(p).user = p
    BY DEF UserEntry
  <2>4. QED
    BY <1>1, <2>2, <2>3 DEF LookupInfo
<1>2. CASE ~(uid # 0 /\ Has(dictMap, DictIDKey(s, uid), now))
  <2>1. CASE Has(dictMap, DictKey(s, f), now) /\ dictMap[DictKey(s, f)].value.kind = "path"
    <3>1. f \in Ids
      BY DEF Ids
    <3>2. OwnEntry(s, f, dictMap[DictKey(s, f)].value)
      BY <2>1, <3>1 DEF DictInv, OwnEntries, Has
    <3>3. RawEntry(s, f).kind = "raw" /\ PathEntry(s, f).user = ReadAs[Owner[s][f]]
      BY DEF RawEntry, PathEntry
    <3>4. /\ ReadAs[Owner[s][f]] # None
          /\ dictMap[DictKey(s, f)].value.user = ReadAs[Owner[s][f]]
      BY <2>1, <3>2, <3>3 DEF OwnEntry
    <3>5. ReadAs[Owner[s][f]] \in Readings(Owner[s][f])
      BY <3>1, <3>4, OwnerTypes
    <3>6. QED
      BY <1>2, <2>1, <3>4, <3>5 DEF LookupInfo
  <2>2. CASE ~(Has(dictMap, DictKey(s, f), now) /\ dictMap[DictKey(s, f)].value.kind = "path")
    BY <1>2, <2>2 DEF LookupInfo
  <2>3. QED
    BY <2>1, <2>2
<1>3. QED
  BY <1>1, <1>2

\* What may be known under a name of a user whom the server's other users and
\* the parsers leave apart is the user's own.
LEMMA ToldApartOwn ==
    ASSUME NEW s \in Servers, NEW f \in Ids, ToldApart(s, Owner[s][f]),
           NEW p \in Readings(Owner[s][f]), NEW u \in OwnState(s, KeyInfo[p])
    PROVE  u.info = Owner[s][f] /\ \A x \in Facts(u) : x.user = Owner[s][f]
<1> DEFINE o == Owner[s][f]
<1>1. p = o /\ Readings(o) = {o}
  BY OwnerTypes DEF ToldApart, Readings
<1>2. ASSUME NEW q \in UsersOf(s), KeyInfo[o] \in KnownAs(q)
      PROVE  q = o
  BY <1>2 DEF UsersOf, ToldApart
<1>3. u.info \in OwnInfo(s, KeyInfo[o]) /\ Facts(u) \subseteq OwnFact(s, KeyInfo[o]) \ {None}
  BY <1>1 DEF OwnState, Facts
<1>4. u.info = o
  <2>1. PICK q \in UsersOf(s) : u.info \in Readings(q) /\ KeyInfo[u.info] = KeyInfo[o]
    BY <1>3 DEF OwnInfo
  <2>2. KeyInfo[o] \in KnownAs(q)
    BY <2>1 DEF KnownAs
  <2>3. QED
    BY <1>1, <1>2, <2>1, <2>2
<1>5. \A x \in Facts(u) : x.user = o
  BY <1>2, <1>3 DEF OwnFact
<1>6. QED
  BY <1>4, <1>5

\* What a close finds under its key, if it finds anything, is the file's own.
LEMMA JoinOwn ==
    ASSUME FileInv, NEW s \in Servers, NEW f \in Files
    PROVE  OwnFile(s, f, IF Has(stateMap, FileKey(s, f), now)
                         THEN stateMap[FileKey(s, f)].value ELSE [user |-> 0, path |-> None])
<1>1. OwnFile(s, f, [user |-> 0, path |-> None])
  BY DEF OwnFile
<1>2. Has(stateMap, FileKey(s, f), now) => OwnFile(s, f, stateMap[FileKey(s, f)].value)
  BY DEF FileInv, OwnFiles, Has
<1>3. QED
  BY <1>1, <1>2

\* A record made from what is the file's own tells nothing else.
LEMMA RecordOwn ==
    ASSUME DictInv, UserInv, SiteInv, NEW s \in Servers, NEW f \in Files, NEW state,
           OwnFile(s, f, state), NEW joined,
           record' = CreateCorrelatedRecord(s, f, state, joined)
    PROVE  RecordsTruthful'
<1> DEFINE o == Owner[s][f]
           u == GetUserInfo(s, state.user, f)
           site == IF Has(serverMap, s, now) THEN serverMap[s].value ELSE None
<1>1. state.user \in Users \cup {0} /\ state.path \in {None, PathOf(s, f), TextOf(s, f)}
  BY DEF OwnFile
<1>2. f \in Ids
  BY DEF Ids
<1>3. u # None => \E p \in Readings(o) : u \in OwnState(s, KeyInfo[p])
  <2> DEFINE p == LookupInfo(s, state.user, f)
  <2>1. p = None \/ p \in Readings(o)
    BY <1>1, LookupOwn DEF OwnFile
  <2>2. u = IF p = None THEN None ELSE KnownUser(s, p)
    BY DEF GetUserInfo
  <2> HIDE DEF p, u
  <2>3. QED
    BY <1>2, <2>1, <2>2, KnownUserOwn
<1>4. site \in {None, s}
  BY DEF SiteInv, Has
<1>5. record' = [server |-> s, file |-> f, joined |-> joined, path |-> state.path,
                 user |-> u, site |-> site]
  BY DEF CreateCorrelatedRecord
<1> HIDE DEF u, site
<1>6. ASSUME u # None
      PROVE  /\ KeyInfo[u.info] \in KnownAs(o)
             /\ \A x \in Facts(u) : x.server = s /\ KeyInfo[u.info] \in KnownAs(x.user)
             /\ ToldApart(s, o) => u.info = o /\ \A x \in Facts(u) : x.user = o
  <2>1. PICK p \in Readings(o) : u \in OwnState(s, KeyInfo[p])
    BY <1>3, <1>6
  <2>2. KeyInfo[u.info] = KeyInfo[p] /\ Facts(u) \subseteq OwnFact(s, KeyInfo[p]) \ {None}
    BY <2>1 DEF OwnState, OwnInfo, Facts
  <2>3. KeyInfo[p] \in KnownAs(o)
    BY <1>2, OwnerTypes
  <2>4. \A x \in Facts(u) : x.server = s /\ KeyInfo[p] \in KnownAs(x.user)
    BY <2>2 DEF OwnFact
  <2>5. ToldApart(s, o) => u.info = o /\ \A x \in Facts(u) : x.user = o
    BY <1>2, <2>1, ToldApartOwn
  <2>6. QED
    BY <2>2, <2>3, <2>4, <2>5
<1>7. /\ record'.server = s /\ record'.file = f /\ record'.path = state.path
      /\ record'.user = u /\ record'.site = site
  BY <1>5
<1>8. QED
  BY <1>1, <1>4, <1>6, <1>7 DEF RecordsTruthful

\* Only a close makes a record.
LEMMA RecordStep ==
    ASSUME DictInv, UserInv, FileInv, SiteInv, RecordsTruthful, [Next]_vars
    PROVE  RecordsTruthful'
<1>1. CASE UNCHANGED record
  BY <1>1 DEF RecordsTruthful
<1>2. CASE record' = None
  BY <1>2 DEF RecordsTruthful
<1>3. ASSUME NEW s \in Servers, NEW f \in Files, HandleFileClose(s, f)
      PROVE  RecordsTruthful'
  <2> DEFINE joined == Has(stateMap, FileKey(s, f), now)
             state == IF joined THEN stateMap[FileKey(s, f)].value
                      ELSE [user |-> 0, path |-> None]
  <2>1. OwnFile(s, f, state)
    BY JoinOwn
  <2>2. record' = CreateCorrelatedRecord(s, f, state, joined)
    BY <1>3 DEF HandleFileClose
  <2> HIDE DEF joined, state
  <2>3. QED
    BY <2>1, <2>2, RecordOwn
<1>4. ASSUME NEW s \in Servers, ProcessPacket(s), ~\E f \in Files : HandleFileClose(s, f)
      PROVE  record' = None
  BY <1>4 DEF ProcessPacket, HandleServerInfo, HandleUserRecord, HandleTokenRecord,
              HandleAppInfo, HandleEAInfo, HandleDisconnect, HandleRawRecord,
              HandlePathRecord, HandleFileOpen, HandleTimeRecord, NoRecord
<1>5. CASE Tick \/ Janitor \/ UNCHANGED vars
  BY <1>1, <1>5 DEF Tick, Janitor, vars
<1>6. QED
  BY <1>2, <1>3, <1>4, <1>5 DEF Next

-----------------------------------------------------------------------------
(* The theorems about the correlator.                                      *)

CorrelatorInv ==
    DictInv /\ UserInv /\ FileInv /\ SiteInv /\ ClockInv /\ OpenInv /\ RecordsTruthful

\* The maps are empty at first and say nothing.
LEMMA InitCorrelatorInv == Init => CorrelatorInv
<1> SUFFICES ASSUME Init PROVE CorrelatorInv
  OBVIOUS
<1>1. DOMAIN Empty = {}
  BY DEF Empty
<1>2. stateMap = Empty /\ userMap = Empty /\ dictMap = Empty /\ serverMap = Empty
  BY DEF Init
<1>3. DictInv /\ UserInv /\ FileInv /\ SiteInv
  BY <1>1, <1>2 DEF DictInv, OwnEntries, UserInv, OwnStates, FileInv, OwnFiles, SiteInv
<1>4. opened = [x \in Servers \X Files |-> None]
  BY DEF Init
<1>5. ClockInv
  BY <1>4, CorrelatorAssumption DEF Init, ClockInv
<1>6. \A s \in Servers, f \in Files : opened[<<s, f>>] = None
  BY <1>4
<1>7. OpenInv
  BY <1>1, <1>2, <1>6 DEF OpenInv
<1>8. RecordsTruthful
  BY DEF Init, RecordsTruthful
<1>9. QED
  BY <1>3, <1>5, <1>7, <1>8 DEF CorrelatorInv

\* Every step keeps the invariant.
LEMMA NextCorrelatorInv == CorrelatorInv /\ [Next]_vars => CorrelatorInv'
BY DictInvStep, UserInvStep, FileInvStep, SiteInvStep, ClockInvStep, OpenInvStep, RecordStep
   DEF CorrelatorInv

\* The inductive invariant holds throughout.
THEOREM CorrelatorInvariant == Spec => []CorrelatorInv
BY InitCorrelatorInv, NextCorrelatorInv, PTL DEF Spec

\* Whatever packets are lost, repeated or reordered, whatever expires or finds
\* no room, and whatever the correlator's own parser and the key make of a user
\* info: a record shows the path and the site of its own file and server or none,
\* a user under a name of the file's owner, and of that user what was said on the
\* server of users with that name; an owner who shares no name is shown exactly
\* (createCorrelatedRecord, getUserInfo).
THEOREM RecordsAreTruthful == Spec => []RecordsTruthful
BY CorrelatorInvariant, PTL DEF CorrelatorInv

\* The last packet's record is that of a close: other packets leave none.
LEMMA ClosesRecord ==
    ASSUME CorrelatorInv, [Next]_vars, record' # None, packets' # packets
    PROVE  \E s \in Servers, f \in Files :
              HandleFileClose(s, f) /\ record'.server = s /\ record'.file = f
<1>1. ~UNCHANGED vars /\ ~Tick /\ ~Janitor
  BY DEF vars, Tick, Janitor
<1>2. PICK s \in Servers : ProcessPacket(s)
  BY <1>1 DEF Next
<1>3. \E f \in Files : HandleFileClose(s, f)
  BY <1>2 DEF ProcessPacket, NoRecord, HandleServerInfo, HandleUserRecord, HandleTokenRecord,
              HandleAppInfo, HandleEAInfo, HandleDisconnect, HandleRawRecord,
              HandlePathRecord, HandleFileOpen, HandleTimeRecord
<1>4. PICK f \in Files : HandleFileClose(s, f)
  BY <1>3
<1>5. \A state, joined : /\ CreateCorrelatedRecord(s, f, state, joined).server = s
                         /\ CreateCorrelatedRecord(s, f, state, joined).file = f
  BY DEF CreateCorrelatedRecord
<1>6. record'.server = s /\ record'.file = f
  BY <1>4, <1>5 DEF HandleFileClose
<1>7. QED
  BY <1>4, <1>6

\* A close is joined with an open exactly when one was stored, has not been
\* joined before and has not expired (handleFileClose).
THEOREM OpensJoinOnce == Spec => JoinedOnceWhileAlive
<1> DEFINE stored == opened[<<record'.server, record'.file>>]
           JoinsOnce == record' # None /\ packets' # packets =>
                           (record'.joined <=> stored # None /\ now <= stored + TTL)
<1>1. ASSUME CorrelatorInv, NEW s \in Servers, NEW f \in Files, HandleFileClose(s, f)
      PROVE  record'.joined <=> opened[<<s, f>>] # None /\ now <= opened[<<s, f>>] + TTL
  <2> DEFINE k == FileKey(s, f)
             joined == Has(stateMap, k, now)
             state == IF joined THEN stateMap[k].value ELSE [user |-> 0, path |-> None]
  <2>1. record' = CreateCorrelatedRecord(s, f, state, joined)
    BY <1>1 DEF HandleFileClose
  <2>2. joined <=> opened[<<s, f>>] # None /\ now <= opened[<<s, f>>] + TTL
    BY <1>1 DEF CorrelatorInv, OpenInv, Has
  <2> HIDE DEF joined, state
  <2>3. record'.joined = joined
    BY <2>1 DEF CreateCorrelatedRecord
  <2>4. QED
    BY <2>2, <2>3
<1>2. CorrelatorInv /\ [Next]_vars => JoinsOnce
  <2> SUFFICES ASSUME CorrelatorInv, [Next]_vars, record' # None, packets' # packets
               PROVE  record'.joined <=> stored # None /\ now <= stored + TTL
    OBVIOUS
  <2>1. PICK s \in Servers, f \in Files :
           HandleFileClose(s, f) /\ record'.server = s /\ record'.file = f
    BY ClosesRecord
  <2>2. QED
    BY <1>1, <2>1
<1>3. QED
  BY <1>2, CorrelatorInvariant, PTL DEF Spec, JoinedOnceWhileAlive

\* The id of a live user whose info both parsers read alike leads to what is kept
\* under the user's name.
LEMMA LeadsToOwner ==
    ASSUME DictInv, NEW s \in Servers, NEW i \in Users, DictIDKey(s, i) \in DOMAIN dictMap,
           ReadAs[Owner[s][i]] = Owner[s][i]
    PROVE  dictMap[DictIDKey(s, i)].value.user = Owner[s][i]
<1>1. PICK p \in Readings(Owner[s][i]) : dictMap[DictIDKey(s, i)].value = UserEntry(p)
  BY DEF DictInv, OwnEntries, Ids
<1>2. p = Owner[s][i] /\ UserEntry(p).user = p
  BY DEF Readings, UserEntry
<1>3. QED
  BY <1>1, <1>2

\* An entry that has not expired stays until its id is disconnected.
LEMMA EntryStays ==
    ASSUME [Next]_vars, NEW s \in Servers, NEW i \in Users,
           Has(dictMap, DictIDKey(s, i), now), ~HandleDisconnect(s, i)
    PROVE  DictIDKey(s, i) \in DOMAIN dictMap'
<1> DEFINE k == DictIDKey(s, i)
<1>1. k \in DOMAIN dictMap
  BY DEF Has
<1>2. \A m, x, e : DOMAIN m \subseteq DOMAIN Set(m, x, e, now)
  BY SetFacts
<1>3. CASE dictMap' = Cleanup(dictMap, now)
  BY <1>1, <1>3, CleanupFacts
<1>4. ASSUME NEW r \in Servers, NEW j \in Users, HandleDisconnect(r, j),
             dictMap' = Delete(dictMap, DictIDKey(r, j))
      PROVE  k \in DOMAIN dictMap'
  <2>1. DictIDKey(r, j) # k
    BY <1>4, KeysDiffer
  <2>2. QED
    BY <1>1, <1>4, <2>1, DeleteFacts
<1>5. ASSUME NEW x, NEW e, dictMap' = Set(dictMap, x, e, now)
      PROVE  k \in DOMAIN dictMap'
  BY <1>1, <1>2, <1>5
<1>6. ASSUME NEW x, NEW e, NEW y, NEW d, dictMap' = Set(Set(dictMap, x, e, now), y, d, now)
      PROVE  k \in DOMAIN dictMap'
  BY <1>1, <1>2, <1>6
<1> HIDE DEF k
<1>7. QED
  BY <1>1, <1>3, <1>4, <1>5, <1>6, DictSteps DEF k

\* To leave a state as it is or to add a claim to it replaces one thing at most.
LEMMA OneReplacedCases ==
    ASSUME NEW s, NEW n, NEW old \in OwnState(s, n)
    PROVE  /\ OneReplaced(old, old)
           /\ \A x \in Claims : /\ OneReplaced(old, [old EXCEPT !.token = x])
                                /\ OneReplaced(old, [old EXCEPT !.app = x])
                                /\ OneReplaced(old, [old EXCEPT !.scitags = x])
<1>1. old = [old EXCEPT !["auth"] = old["auth"]]
  BY DEF OwnState
<1>2. OneReplaced(old, old)
  BY <1>1 DEF OneReplaced
<1>3. ASSUME NEW field \in {"token", "app", "scitags"}, NEW x \in Claims
      PROVE  OneReplaced(old, [old EXCEPT ![field] = x])
  <2> DEFINE new == [old EXCEPT ![field] = x]
  <2>1. field \in DOMAIN old
    BY DEF OwnState
  <2>2. new[field] = x /\ x # None
    BY <2>1, CorrelatorAssumption DEF Claims
  <2>3. new = [old EXCEPT ![field] = new[field]]
    BY <2>2
  <2> HIDE DEF new
  <2>4. OneReplaced(old, new)
    BY <2>2, <2>3 DEF OneReplaced
  <2>5. QED
    BY <2>4 DEF new
<1>4. ASSUME NEW x \in Claims
      PROVE  /\ OneReplaced(old, [old EXCEPT !["token"] = x])
             /\ OneReplaced(old, [old EXCEPT !["app"] = x])
             /\ OneReplaced(old, [old EXCEPT !["scitags"] = x])
  BY <1>3
<1>5. QED
  BY <1>2, <1>4

\* What is known of a live user under a key stays known, with one thing replaced
\* at most, until a login or a disconnect under that key.
LEMMA StateStays ==
    ASSUME DictInv, UserInv, [Next]_vars, NEW s \in Servers, NEW i \in Users,
           Has(userMap, UserInfoKey(s, Owner[s][i]), now), ~LogsInOrOut(s, i)
    PROVE  /\ UserInfoKey(s, Owner[s][i]) \in DOMAIN userMap'
           /\ OneReplaced(userMap[UserInfoKey(s, Owner[s][i])].value,
                          userMap'[UserInfoKey(s, Owner[s][i])].value)
<1> DEFINE k == UserInfoKey(s, Owner[s][i])
           old == userMap[k].value
<1>1. k \in DOMAIN userMap
  BY DEF Has
<1>2. old \in OwnState(s, KeyInfo[Owner[s][i]])
  <2>1. KeyInfo[Owner[s][i]] \in UserInfos
    BY OwnerTypes DEF Ids
  <2>2. QED
    BY <1>1, <2>1, StateKeys DEF UserInv, OwnStates
<1> HIDE DEF old
<1>3. /\ OneReplaced(old, old)
      /\ \A x \in Claims : /\ OneReplaced(old, [old EXCEPT !.token = x])
                           /\ OneReplaced(old, [old EXCEPT !.app = x])
                           /\ OneReplaced(old, [old EXCEPT !.scitags = x])
  BY <1>2, OneReplacedCases
<1>4. ASSUME userMap'[k] = userMap[k]
      PROVE  OneReplaced(old, userMap'[k].value)
  BY <1>3, <1>4 DEF old
<1>5. CASE UNCHANGED userMap
  BY <1>1, <1>4, <1>5 DEF old
<1>6. CASE userMap' = Cleanup(userMap, now)
  <2>1. Has(userMap, k, now)
    OBVIOUS
  <2> HIDE DEF k
  <2>2. k \in DOMAIN userMap'
    BY <1>1, <1>6, <2>1, CleanupFacts
  <2>3. userMap'[k] = userMap[k]
    BY <1>6, <2>2, CleanupFacts DEF SubMap
  <2>4. k \in DOMAIN userMap' /\ OneReplaced(old, userMap'[k].value)
    BY <1>4, <2>2, <2>3
  <2>5. QED
    BY <2>4 DEF k, old
<1>7. ASSUME NEW r \in Servers, NEW j \in Users, HandleDisconnect(r, j),
             DictIDKey(r, j) \in DOMAIN dictMap,
             userMap' = Delete(userMap, UserInfoKey(r, dictMap[DictIDKey(r, j)].value.user))
      PROVE  k \in DOMAIN userMap' /\ OneReplaced(old, userMap'[k].value)
  <2> DEFINE x == UserInfoKey(r, dictMap[DictIDKey(r, j)].value.user)
  <2>1. x # k
    <3>1. r # s => x # k
      BY StateKeys
    <3>2. r = s => x # k
      BY <1>7 DEF LogsInOrOut
    <3>3. QED
      BY <3>1, <3>2
  <2>2. userMap' = Delete(userMap, x)
    BY <1>7
  <2> HIDE DEF x, k
  <2>3. k \in DOMAIN userMap'
    BY <1>1, <2>1, <2>2, DeleteFacts
  <2>4. userMap'[k] = userMap[k]
    BY <2>2, <2>3, DeleteFacts DEF SubMap
  <2>5. QED
    BY <1>4, <2>3, <2>4
<1>8. ASSUME NEW x, NEW u, userMap' = Set(userMap, x, u, now)
      PROVE  /\ k \in DOMAIN userMap'
             /\ userMap'[k] = userMap[k] \/ (x = k /\ userMap'[k].value = u)
  <2> HIDE DEF k
  <2>1. k \in DOMAIN userMap'
    BY <1>1, <1>8, SetFacts
  <2>2. \/ userMap'[k] = userMap[k]
        \/ x = k /\ userMap'[k] = [value |-> u, expiresAt |-> now + TTL]
    BY <1>8, <2>1, SetFacts
  <2>3. QED
    BY <2>1, <2>2
<1>9. ASSUME NEW r \in Servers, NEW j \in Users, NEW v \in Values, HandleUserRecord(r, j, v),
             userMap' = Set(userMap, UserInfoKey(r, Owner[r][j]),
                            [NewUser(Owner[r][j]) EXCEPT !.auth = Claim(r, j, v)], now)
      PROVE  k \in DOMAIN userMap' /\ OneReplaced(old, userMap'[k].value)
  <2>1. UserInfoKey(r, Owner[r][j]) # k
    <3>1. r # s => UserInfoKey(r, Owner[r][j]) # k
      BY StateKeys
    <3>2. r = s => UserInfoKey(r, Owner[r][j]) # k
      BY <1>9 DEF LogsInOrOut
    <3>3. QED
      BY <3>1, <3>2
  <2>2. k \in DOMAIN userMap' /\ userMap'[k] = userMap[k]
    BY <1>8, <1>9, <2>1
  <2>3. QED
    BY <1>4, <2>2
<1>10. ASSUME NEW r \in Servers, NEW j \in Users, NEW v \in Values, NEW p \in Readings(Owner[r][j]),
              NEW u \in Augmented(r, p, Claim(r, j, v)),
              userMap' = Set(userMap, UserInfoKey(r, p), u, now)
       PROVE  k \in DOMAIN userMap' /\ OneReplaced(old, userMap'[k].value)
  <2>1. /\ k \in DOMAIN userMap'
        /\ userMap'[k] = userMap[k] \/ (UserInfoKey(r, p) = k /\ userMap'[k].value = u)
    BY <1>8, <1>10
  <2>2. CASE UserInfoKey(r, p) = k /\ userMap'[k].value = u
    <3>1. KnownUser(r, p) = old
      <4>1. Has(userMap, UserInfoKey(r, p), now)
        BY <2>2
      <4>2. KnownUser(r, p) = userMap[UserInfoKey(r, p)].value
        BY <4>1 DEF KnownUser
      <4>3. QED
        BY <2>2, <4>2 DEF old
    <3>2. Claim(r, j, v) \in Claims
      BY ClaimOwn DEF Ids
    <3>3. OneReplaced(old, u)
      BY <1>3, <3>1, <3>2 DEF Augmented
    <3>4. QED
      BY <2>1, <2>2, <3>3
  <2>3. QED
    BY <1>4, <2>1, <2>2
<1> HIDE DEF k
<1>11. QED
  BY <1>5, <1>6, <1>7, <1>9, <1>10, UserSteps DEF k, old

\* What the id of a live user leads to is only replaced by a login or a disconnect.
LEMMA AugmentationStep ==
    ASSUME CorrelatorInv, CorrelatorInv', [Next]_vars, NEW s \in Servers, NEW i \in Users,
           Live(s, i), ReadAs[Owner[s][i]] = Owner[s][i], ~LogsInOrOut(s, i)
    PROVE  Recorded(s, i)' /\ OneReplaced(StateOf(s, i), StateOf(s, i)')
<1> DEFINE o == Owner[s][i]
           d == DictIDKey(s, i)
           k == UserInfoKey(s, o)
<1>1. d \in DOMAIN dictMap /\ Has(dictMap, d, now)
  BY DEF Live, Has
<1>2. dictMap[d].value.user = o
  BY <1>1, LeadsToOwner DEF CorrelatorInv
<1>3. Has(userMap, k, now) /\ StateOf(s, i) = userMap[k].value
  BY <1>2 DEF Live, StateOf
<1>4. ~HandleDisconnect(s, i)
  BY <1>1, <1>2 DEF LogsInOrOut
<1>5. d \in DOMAIN dictMap'
  BY <1>1, <1>4, EntryStays
<1>6. dictMap'[d].value.user = o
  <2>1. PICK p \in Readings(o) : dictMap'[d].value = UserEntry(p)
    BY <1>5 DEF CorrelatorInv, DictInv, OwnEntries, DictIDKey, Ids
  <2>2. p = o /\ UserEntry(p).user = p
    BY DEF Readings, UserEntry
  <2>3. QED
    BY <2>1, <2>2
<1>7. k \in DOMAIN userMap' /\ OneReplaced(userMap[k].value, userMap'[k].value)
  BY <1>3, StateStays DEF CorrelatorInv
<1>8. Recorded(s, i)' /\ StateOf(s, i)' = userMap'[k].value
  BY <1>5, <1>6, <1>7 DEF Recorded, StateOf, DictIDKey, UserInfoKey
<1>9. QED
  BY <1>3, <1>7, <1>8

\* Token, application and SciTags packets augment a live user in whatever order
\* they come, whatever they say and whatever finds no room: one thing known is
\* replaced at most and nothing becomes unknown, for every user whose info both
\* parsers read alike (handleUserRecord, handleDictIDRecord).
THEOREM AugmentationLosesNothing == Spec => AugmentationKeeps
<1>1. CorrelatorInv /\ CorrelatorInv' /\ [Next]_vars =>
         \A s \in Servers, i \in Users :
            ReadAs[Owner[s][i]] = Owner[s][i] /\ Live(s, i) =>
               \/ Recorded(s, i)' /\ OneReplaced(StateOf(s, i), StateOf(s, i)')
               \/ LogsInOrOut(s, i)
  BY AugmentationStep
<1>2. QED
  BY <1>1, CorrelatorInvariant, PTL DEF Spec, AugmentationKeeps

-----------------------------------------------------------------------------
(* The types of the correlator.                                            *)

\* The parts of TypeOK, one for each map.
StateTyped ==
    /\ DOMAIN stateMap \subseteq {"file", "time"} \X Servers \X Files
    /\ \A k \in DOMAIN stateMap :
          stateMap[k].value \in
              [user : Users \cup {0}, path : {"path", "text"} \X Servers \X Files \cup {None}]

UsersTyped ==
    /\ DOMAIN userMap \subseteq {"userinfo"} \X Servers \X UserInfos
    /\ \A k \in DOMAIN userMap : userMap[k].value \in UserStates

KindOf(k) == IF k[1] = "dictid" THEN {"user"} ELSE {"path", "raw"}

DictTyped(m) ==
    /\ DOMAIN m \subseteq {"dict", "dictid"} \X Servers \X Ids
    /\ \A k \in DOMAIN m : m[k].value.kind \in KindOf(k)

\* The entries of a user's id and of a file's path may be stored.
LEMMA SetDictTyped ==
    ASSUME NEW m, DictTyped(m), NEW t, NEW s \in Servers, NEW i \in Ids, NEW k, NEW e,
           \/ k = DictIDKey(s, i) /\ e.kind = "user"
           \/ k = DictKey(s, i) /\ e.kind \in {"path", "raw"}
    PROVE  DictTyped(Set(m, k, e, t))
<1> DEFINE n == Set(m, k, e, t)
<1>1. \A x \in DOMAIN n : \/ x = k /\ n[x].value = e
                          \/ x \in DOMAIN m /\ n[x] = m[x]
  BY SetFacts
<1>2. k \in {"dict", "dictid"} \X Servers \X Ids
  BY DEF DictKey, DictIDKey
<1>3. e.kind \in KindOf(k)
  BY DEF DictKey, DictIDKey, KindOf
<1> HIDE DEF n
<1>4. DictTyped(n)
  BY <1>1, <1>2, <1>3 DEF DictTyped
<1>5. QED
  BY <1>4 DEF n

LEMMA DictTypedStep ==
    ASSUME DictTyped(dictMap), [Next]_vars
    PROVE  DictTyped(dictMap')
<1>1. ASSUME SubMap(dictMap', dictMap) PROVE DictTyped(dictMap')
  BY <1>1 DEF SubMap, DictTyped
<1>2. /\ \A ui : UserEntry(ui).kind = "user"
      /\ \A s, f : PathEntry(s, f).kind = "path" /\ RawEntry(s, f).kind = "raw"
  BY DEF UserEntry, PathEntry, RawEntry
<1>3. CASE UNCHANGED dictMap
  BY <1>1, <1>3 DEF SubMap
<1>4. ASSUME NEW k, dictMap' = Cleanup(dictMap, now) \/ dictMap' = Delete(dictMap, k)
      PROVE  DictTyped(dictMap')
  BY <1>1, <1>4, CleanupFacts, DeleteFacts
<1>5. ASSUME NEW s \in Servers, NEW i \in Ids, NEW ui,
             dictMap' = Set(dictMap, DictIDKey(s, i), UserEntry(ui), now)
      PROVE  DictTyped(dictMap')
  BY <1>2, <1>5, SetDictTyped
<1>6. ASSUME NEW s \in Servers, NEW i \in Ids,
             dictMap' = Set(dictMap, DictKey(s, i), RawEntry(s, i), now)
      PROVE  DictTyped(dictMap')
  BY <1>2, <1>6, SetDictTyped
<1>7. ASSUME NEW s \in Servers, NEW f \in Files, NEW ui,
             dictMap' = Set(Set(dictMap, DictKey(s, f), PathEntry(s, f), now),
                            DictIDKey(s, f), UserEntry(ui), now)
      PROVE  DictTyped(dictMap')
  <2> DEFINE m == Set(dictMap, DictKey(s, f), PathEntry(s, f), now)
  <2>1. f \in Ids
    BY DEF Ids
  <2>2. DictTyped(m)
    BY <1>2, <2>1, SetDictTyped
  <2> HIDE DEF m
  <2>3. DictTyped(Set(m, DictIDKey(s, f), UserEntry(ui), now))
    BY <1>2, <2>1, <2>2, SetDictTyped
  <2>4. QED
    BY <1>7, <2>3 DEF m
<1>8. QED
  BY <1>3, <1>4, <1>5, <1>6, <1>7, DictSteps

LEMMA UsersTypedStep ==
    ASSUME DictInv, UserInv, UsersTyped, [Next]_vars
    PROVE  UsersTyped'
<1>1. CASE SubMap(userMap', userMap)
  BY <1>1 DEF SubMap, UsersTyped
<1>2. ASSUME NEW s \in Servers, NEW n \in UserInfos, NEW u \in OwnState(s, n),
             userMap' = Set(userMap, StateKey(s, n), u, now)
      PROVE  UsersTyped'
  <2>1. \A x \in DOMAIN userMap' : \/ x = StateKey(s, n) /\ userMap'[x].value = u
                                   \/ x \in DOMAIN userMap /\ userMap'[x] = userMap[x]
    BY <1>2, SetFacts
  <2>2. StateKey(s, n) \in {"userinfo"} \X Servers \X UserInfos
    BY DEF StateKey
  <2>3. OwnInfo(s, n) \subseteq UserInfos /\ OwnFact(s, n) \subseteq Claims \cup {None}
    BY DEF OwnInfo, OwnFact
  <2>4. u \in UserStates
    BY <2>3 DEF OwnState, UserStates
  <2>5. QED
    BY <2>1, <2>2, <2>4 DEF UsersTyped
<1>3. QED
  BY <1>1, <1>2, UserMapSteps

LEMMA StateTypedStep ==
    ASSUME DictInv, StateTyped, [Next]_vars
    PROVE  StateTyped'
<1>1. CASE UNCHANGED stateMap
  BY <1>1 DEF StateTyped
<1>2. ASSUME SubMap(stateMap', stateMap)
      PROVE  StateTyped'
  BY <1>2 DEF SubMap, StateTyped
<1>3. ASSUME NEW s \in Servers, NEW f \in Files, NEW k \in {FileKey(s, f), TimeKey(s, f)},
             NEW o \in [user : Users \cup {0}, path : {None, PathOf(s, f), TextOf(s, f)}],
             stateMap' = Set(stateMap, k, o, now)
      PROVE  StateTyped'
  <2>1. \A x \in DOMAIN stateMap' : \/ x = k /\ stateMap'[x].value = o
                                    \/ x \in DOMAIN stateMap /\ stateMap'[x] = stateMap[x]
    BY <1>3, SetFacts
  <2>2. k \in {"file", "time"} \X Servers \X Files
    BY DEF FileKey, TimeKey
  <2>3. o \in [user : Users \cup {0}, path : {"path", "text"} \X Servers \X Files \cup {None}]
    BY DEF PathOf, TextOf
  <2>4. QED
    BY <2>1, <2>2, <2>3 DEF StateTyped
<1>4. ASSUME NEW s \in Servers, NEW f \in Files, NEW uid \in Users \cup {0},
             HandleFileOpen(s, f, uid)
      PROVE  StateTyped'
  <2>1. OpenState(s, f, uid) \in [user : Users \cup {0}, path : {None, PathOf(s, f), TextOf(s, f)}]
    BY RawPathOwn DEF OpenState
  <2>2. stateMap' = Set(stateMap, FileKey(s, f), OpenState(s, f, uid), now)
    BY <1>4 DEF HandleFileOpen
  <2>3. QED
    BY <1>3, <2>1, <2>2
<1>5. ASSUME NEW k, stateMap' = Delete(stateMap, k)
      PROVE  StateTyped'
  <2>1. SubMap(Delete(stateMap, k), stateMap)
    BY DeleteFacts
  <2>2. QED
    BY <1>2, <1>5, <2>1
<1>6. CASE stateMap' = Cleanup(stateMap, now)
  BY <1>2, <1>6, CleanupFacts
<1>7. ASSUME NEW s \in Servers, NEW f \in Files,
             stateMap' = Set(stateMap, TimeKey(s, f), [user |-> 0, path |-> None], now)
      PROVE  StateTyped'
  <2>1. [user |-> 0, path |-> None] \in [user : Users \cup {0}, path : {None, PathOf(s, f), TextOf(s, f)}]
    OBVIOUS
  <2>2. QED
    BY <1>3, <1>7, <2>1
<1>8. QED
  BY <1>1, <1>4, <1>5, <1>6, <1>7, FileSteps

\* The maps, the history, the clock and the counter keep their types; what is
\* found under the id of a user is always a user info, so that the type
\* assertions on such values never fail (getUserInfo, handleDisconnect).
THEOREM CorrelatorTypes == Spec => []TypeOK
<1> DEFINE T == StateTyped /\ UsersTyped /\ DictTyped(dictMap)
<1>1. Init => T
  <2>1. DOMAIN Empty = {}
    BY DEF Empty
  <2>2. QED
    BY <2>1 DEF Init, StateTyped, UsersTyped, DictTyped
<1>2. CorrelatorInv /\ T /\ [Next]_vars => T'
  BY StateTypedStep, UsersTypedStep, DictTypedStep DEF CorrelatorInv
<1>3. CorrelatorInv /\ T => TypeOK
  BY DEF CorrelatorInv, SiteInv, ClockInv, StateTyped, UsersTyped, DictTyped, KindOf, TypeOK
<1> HIDE DEF T
<1>4. QED
  BY <1>1, <1>2, <1>3, CorrelatorInvariant, PTL DEF Spec
=============================================================================
