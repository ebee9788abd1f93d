----------------------------- MODULE Correlator -----------------------------
(***************************************************************************)
(* The correlator of the collector: monitoring packets of several XRootD   *)
(* servers fill four expiring maps, and a file close is joined with the    *)
(* open, the user and the server it belongs to.  One goroutine handles the *)
(* packets; the janitors of the maps run beside it.                        *)
(*                                                                         *)
(* Packets are UDP datagrams: any packet a server may have sent can arrive *)
(* at any time, more than once or not at all.  A server stands for one     *)
(* incarnation, told apart by BuildServerID; servers use the same ids for  *)
(* different users and files.  Whatever a packet says carries the server   *)
(* and the user it is about, so that a wrong join is visible in a record.  *)
(*                                                                         *)
(* A user is the UserInfo that the parser of 'u' and 'T' packets reads.    *)
(* The correlator reads the userInfo of 'd', 'i' and 'U' packets with a    *)
(* parser of its own, which may make another UserInfo of the same text or  *)
(* none at all (InfoText has both parsers).                                *)
(***************************************************************************)
EXTENDS StateMap

CONSTANTS
    Servers,     \* server incarnations
    Users,       \* dictionary ids of users
    Files,       \* dictionary ids of files
    UserInfos,   \* protocol, name, pid, sid and host of a user
    Owner,       \* Owner[s][i]: whom the id i of server s belongs to
    ReadAs,      \* ReadAs[u]: what parseUserInfo of correlator.go makes of u's text
    KeyInfo,     \* KeyInfo[u]: what BuildUserInfoKey writes of u, pid and sid as uint32
    Values,      \* what packets may say of a user
    None,        \* an absent value
    MaxPackets,  \* bound on the packets handled
    MaxTime      \* bound on the clock

Ids == Users \cup Files

ASSUME CorrelatorAssumption ==
    /\ Owner \in [Servers -> [Ids -> UserInfos]]
    /\ ReadAs \in [UserInfos -> UserInfos \cup {None}]
    /\ KeyInfo \in [UserInfos -> UserInfos]
    /\ None \notin UserInfos \cup Servers \cup Nat
                    \cup [server : Servers, user : UserInfos, value : Values]
    /\ 0 \notin Ids
    /\ MaxPackets \in Nat /\ MaxTime \in Nat

VARIABLES
    stateMap,   \* c.stateMap: open files and time records
    userMap,    \* c.userMap: user states
    dictMap,    \* c.dictMap: paths and user infos by dictionary id
    serverMap,  \* c.serverMap: sites
    record,     \* what the last packet produced
    now,        \* the clock
    packets,    \* packets handled so far
    opened      \* history: when the open of a file was stored, if not joined yet

maps == <<stateMap, userMap, dictMap, serverMap>>
vars == <<maps, record, now, packets, opened>>

\* key_builder.go: the kinds of keys differ, and each is scoped by the server.
FileKey(s, f) == <<"file", s, f>>
TimeKey(s, f) == <<"time", s, f>>

DictKey(s, i) == <<"dict", s, i>>

\* Mutant: the server is not part of the key.
DictIDKeyUnscoped(s, i) == <<"dictid", CHOOSE x \in Servers : TRUE, i>>

DictIDKey(s, i) == <<"dictid", s, i>>
UserInfoKey(s, ui) == <<"userinfo", s, KeyInfo[ui]>>

\* What a packet says about a user, what a path is, and the whole text of a
\* map packet.
Claims == [server : Servers, user : UserInfos, value : Values]
Claim(s, i, v) == [server |-> s, user |-> Owner[s][i], value |-> v]
PathOf(s, f) == <<"path", s, f>>
TextOf(s, i) == <<"text", s, i>>

\* A UserState; auth, token, app and scitags come from packets of their own.
UserStates ==
    [info : UserInfos, auth : Claims \cup {None}, token : Claims \cup {None},
     app : Claims \cup {None}, scitags : Claims \cup {None}]

NewUser(ui) == [info |-> ui, auth |-> None, token |-> None, app |-> None, scitags |-> None]

\* The values of dictMap.
UserEntry(ui) == [kind |-> "user", user |-> ui, path |-> None]
PathEntry(s, f) == [kind |-> "path", user |-> ReadAs[Owner[s][f]], path |-> PathOf(s, f)]
RawEntry(s, i) == [kind |-> "raw", user |-> None, path |-> TextOf(s, i)]

HandlePacket ==
    /\ packets < MaxPackets
    /\ packets' = packets + 1
    /\ now' = now

NoRecord == record' = None

-----------------------------------------------------------------------------
(* Server, user and dictionary packets.                                    *)

HandleServerInfo(s) ==
    /\ HandlePacket
    /\ NoRecord
    /\ serverMap' = Set(serverMap, s, s, now)
    /\ UNCHANGED <<stateMap, userMap, dictMap, opened>>

\* A 'u' packet replaces the whole state of the user.
HandleUserRecord(s, i, v) ==
    LET ui == Owner[s][i] IN
    /\ HandlePacket
    /\ NoRecord
    /\ dictMap' = Set(dictMap, DictIDKey(s, i), UserEntry(ui), now)
    /\ userMap' = Set(userMap, UserInfoKey(s, ui),
                      [NewUser(ui) EXCEPT !.auth = Claim(s, i, v)], now)
    /\ UNCHANGED <<stateMap, serverMap, opened>>

\* A 'T' packet augments a user that is known by id and by info.
HandleTokenRecord(s, i, v) ==
    LET ui == dictMap[DictIDKey(s, i)].value.user
        k == UserInfoKey(s, ui)
    IN
    /\ HandlePacket
    /\ NoRecord
    /\ IF Has(dictMap, DictIDKey(s, i), now) /\ Has(userMap, k, now)
       THEN userMap' = Set(userMap, k,
                           [userMap[k].value EXCEPT !.token = Claim(s, i, v)], now)
       ELSE UNCHANGED userMap
    /\ UNCHANGED <<stateMap, dictMap, serverMap, opened>>

\* A map packet whose user info does not parse: the text is kept as it is,
\* for a user whose info this parser does not read or for a file named by its
\* bare path.
HandleRawRecord(s, i) ==
    /\ HandlePacket
    /\ NoRecord
    /\ i \in Files \/ ReadAs[Owner[s][i]] = None
    /\ dictMap' = Set(dictMap, DictKey(s, i), RawEntry(s, i), now)
    /\ UNCHANGED <<stateMap, userMap, serverMap, opened>>

\* A 'd' packet, with or without a path after the user info.
HandlePathRecord(s, f, hasPath) ==
    LET m == IF hasPath THEN Set(dictMap, DictKey(s, f), PathEntry(s, f), now) ELSE dictMap IN
    /\ HandlePacket
    /\ NoRecord
    /\ ReadAs[Owner[s][f]] # None
    /\ dictMap' = Set(m, DictIDKey(s, f), UserEntry(ReadAs[Owner[s][f]]), now)
    /\ UNCHANGED <<stateMap, userMap, serverMap, opened>>

\* What is known of a user, or a new state.
KnownUser(s, ui) ==
    IF Has(userMap, UserInfoKey(s, ui), now)
    THEN userMap[UserInfoKey(s, ui)].value
    ELSE NewUser(ui)

\* Mutant: the user state is built anew.
HandleAppInfoAnew(s, i, v) ==
    LET ui == ReadAs[Owner[s][i]] IN
    /\ HandlePacket
    /\ NoRecord
    /\ ui # None
    /\ dictMap' = Set(dictMap, DictIDKey(s, i), UserEntry(ui), now)
    /\ userMap' = Set(userMap, UserInfoKey(s, ui),
                      [NewUser(ui) EXCEPT !.app = Claim(s, i, v)], now)
    /\ UNCHANGED <<stateMap, serverMap, opened>>

\* An 'i' packet: from now on the id stands for the user info of this packet.
HandleAppInfo(s, i, v) ==
    LET ui == ReadAs[Owner[s][i]] IN
    /\ HandlePacket
    /\ NoRecord
    /\ ui # None
    /\ dictMap' = Set(dictMap, DictIDKey(s, i), UserEntry(ui), now)
    /\ userMap' = Set(userMap, UserInfoKey(s, ui),
                      [KnownUser(s, ui) EXCEPT !.app = Claim(s, i, v)], now)
    /\ UNCHANGED <<stateMap, serverMap, opened>>

\* A 'U' packet: the user info on record for the id wins over the packet's.
HandleEAInfo(s, i, v) ==
    LET k == DictIDKey(s, i)
        ui == IF Has(dictMap, k, now) THEN dictMap[k].value.user ELSE ReadAs[Owner[s][i]]
    IN
    /\ HandlePacket
    /\ NoRecord
    /\ ReadAs[Owner[s][i]] # None
    /\ dictMap' = IF Has(dictMap, k, now) THEN dictMap ELSE Set(dictMap, k, UserEntry(ui), now)
    /\ userMap' = Set(userMap, UserInfoKey(s, ui),
                      [KnownUser(s, ui) EXCEPT !.scitags = Claim(s, i, v)], now)
    /\ UNCHANGED <<stateMap, serverMap, opened>>

\* The open files of the user stay.
HandleDisconnect(s, i) ==
    LET k == DictIDKey(s, i) IN
    /\ HandlePacket
    /\ NoRecord
    /\ IF Has(dictMap, k, now)
       THEN /\ dictMap' = Delete(dictMap, k)
            /\ userMap' = Delete(userMap, UserInfoKey(s, dictMap[k].value.user))
       ELSE UNCHANGED <<dictMap, userMap>>
    /\ UNCHANGED <<stateMap, serverMap, opened>>

-----------------------------------------------------------------------------
(* File packets.                                                           *)

\* From the dictionary only a raw string is taken as a path.
RawPath(s, f) ==
    IF Has(dictMap, DictKey(s, f), now) /\ dictMap[DictKey(s, f)].value.kind = "raw"
    THEN dictMap[DictKey(s, f)].value.path
    ELSE None

\* An open carries name and user id together or neither; without a name the
\* dictionary is asked.
OpenState(s, f, uid) ==
    [user |-> uid, path |-> IF uid # 0 THEN PathOf(s, f) ELSE RawPath(s, f)]

\* For the history of opens: there is no room for another entry.
Full(m) == MaxEntries > 0 /\ Cardinality(DOMAIN m) >= MaxEntries

HandleFileOpen(s, f, uid) ==
    /\ HandlePacket
    /\ NoRecord
    /\ uid # 0 => Owner[s][uid] = Owner[s][f]
    /\ stateMap' = Set(stateMap, FileKey(s, f), OpenState(s, f, uid), now)
    /\ opened' = IF Full(stateMap) /\ FileKey(s, f) \notin DOMAIN stateMap
                 THEN opened
                 ELSE [opened EXCEPT ![<<s, f>>] = now]
    /\ UNCHANGED <<userMap, dictMap, serverMap>>

\* Stored in the same map, never read, gone only when it expires.
HandleTimeRecord(s, f) ==
    /\ HandlePacket
    /\ NoRecord
    /\ stateMap' = Set(stateMap, TimeKey(s, f), [user |-> 0, path |-> None], now)
    /\ UNCHANGED <<userMap, dictMap, serverMap, opened>>

\* By the user id, else by the path of the file.
LookupInfo(s, uid, f) ==
    IF uid # 0 /\ Has(dictMap, DictIDKey(s, uid), now)
    THEN dictMap[DictIDKey(s, uid)].value.user
    ELSE IF Has(dictMap, DictKey(s, f), now) /\ dictMap[DictKey(s, f)].value.kind = "path"
    THEN dictMap[DictKey(s, f)].value.user
    ELSE None

GetUserInfo(s, uid, f) ==
    LET ui == LookupInfo(s, uid, f) IN
    IF ui = None THEN None ELSE KnownUser(s, ui)

\* A user that is not found leaves its id in hex as the name.
CreateCorrelatedRecord(s, f, state, joined) ==
    [server |-> s, file |-> f, joined |-> joined, path |-> state.path,
     user |-> GetUserInfo(s, state.user, f),
     site |-> IF Has(serverMap, s, now) THEN serverMap[s].value ELSE None]

\* Mutant: the open stays in the map.
HandleFileCloseKeeps(s, f) ==
    LET k == FileKey(s, f)
        joined == Has(stateMap, k, now)
        state == IF joined THEN stateMap[k].value ELSE [user |-> 0, path |-> None]
    IN
    /\ HandlePacket
    /\ record' = CreateCorrelatedRecord(s, f, state, joined)
    /\ opened' = IF joined THEN [opened EXCEPT ![<<s, f>>] = None] ELSE opened
    /\ UNCHANGED maps

\* Without an open, a standalone record; the parser sets no user id then.
HandleFileClose(s, f) ==
    LET k == FileKey(s, f)
        joined == Has(stateMap, k, now)
        state == IF joined THEN stateMap[k].value ELSE [user |-> 0, path |-> None]
    IN
    /\ HandlePacket
    /\ record' = CreateCorrelatedRecord(s, f, state, joined)
    /\ stateMap' = IF joined THEN Delete(stateMap, k) ELSE stateMap
    /\ opened' = IF joined THEN [opened EXCEPT ![<<s, f>>] = None] ELSE opened
    /\ UNCHANGED <<userMap, dictMap, serverMap>>

ProcessPacket(s) ==
    \/ HandleServerInfo(s)
    \/ \E i \in Users, v \in Values :
          \/ HandleUserRecord(s, i, v)
          \/ HandleTokenRecord(s, i, v)
          \/ HandleAppInfo(s, i, v)
          \/ HandleEAInfo(s, i, v)
    \/ \E i \in Users : HandleDisconnect(s, i)
    \/ \E i \in Ids : HandleRawRecord(s, i)
    \/ \E f \in Files :
          \/ \E hasPath \in BOOLEAN : HandlePathRecord(s, f, hasPath)
          \/ \E uid \in Users \cup {0} : HandleFileOpen(s, f, uid)
          \/ HandleTimeRecord(s, f)
          \/ HandleFileClose(s, f)

-----------------------------------------------------------------------------
(* The clock and the janitors.                                             *)

Tick ==
    /\ now < MaxTime
    /\ now' = now + 1
    /\ UNCHANGED <<maps, record, packets, opened>>

Janitor ==
    /\ \/ stateMap' = Cleanup(stateMap, now) /\ UNCHANGED <<userMap, dictMap, serverMap>>
       \/ userMap' = Cleanup(userMap, now) /\ UNCHANGED <<stateMap, dictMap, serverMap>>
       \/ dictMap' = Cleanup(dictMap, now) /\ UNCHANGED <<stateMap, userMap, serverMap>>
       \/ serverMap' = Cleanup(serverMap, now) /\ UNCHANGED <<stateMap, userMap, dictMap>>
    /\ UNCHANGED <<record, now, packets, opened>>

Init ==
    /\ stateMap = Empty /\ userMap = Empty /\ dictMap = Empty /\ serverMap = Empty
    /\ record = None
    /\ now = 0
    /\ packets = 0
    /\ opened = [x \in Servers \X Files |-> None]

Next == (\E s \in Servers : ProcessPacket(s)) \/ Tick \/ Janitor

Spec == Init /\ [][Next]_vars

-----------------------------------------------------------------------------
(* Properties.                                                             *)

\* The conjunct on the values of dictMap is why the type assertions on values found
\* under a dictid key never fail.
TypeOK ==
    /\ DOMAIN stateMap \subseteq {"file", "time"} \X Servers \X Files
    /\ \A k \in DOMAIN stateMap :
          stateMap[k].value \in
              [user : Users \cup {0}, path : {"path", "text"} \X Servers \X Files \cup {None}]
    /\ DOMAIN userMap \subseteq {"userinfo"} \X Servers \X UserInfos
    /\ \A k \in DOMAIN userMap : userMap[k].value \in UserStates
    /\ DOMAIN dictMap \subseteq {"dict", "dictid"} \X Servers \X Ids
    /\ \A k \in DOMAIN dictMap :
          dictMap[k].value.kind \in IF k[1] = "dictid" THEN {"user"} ELSE {"path", "raw"}
    /\ DOMAIN serverMap \subseteq Servers
    /\ opened \in [Servers \X Files -> 0..MaxTime \cup {None}]
    /\ now \in 0..MaxTime /\ packets \in 0..MaxPackets

\* The user infos that the packets about a user may be read as, and the names
\* under which the maps may then keep what is said of the user.
Readings(ui) == {ui, ReadAs[ui]} \ {None}
KnownAs(ui) == {KeyInfo[p] : p \in Readings(ui)}

\* The user o goes by one name, and nobody else of server s goes by it.
ToldApart(s, o) ==
    /\ ReadAs[o] = o
    /\ \A i \in Ids : Owner[s][i] # o => KeyInfo[o] \notin KnownAs(Owner[s][i])

Facts(user) == {user.auth, user.token, user.app, user.scitags} \ {None}

\* "The correlator scopes all state map entries by server ID": whatever packets
\* were lost, repeated or reordered, whatever expired or found no room, a record
\* never shows the path or the site of another file or server.  The user it
\* shows goes by a name of the file's owner, and everything shown of it was said
\* on the same server of users who go by that name.  So an owner whom both
\* parsers and the key tell apart from the other users of the server is shown
\* exactly, with the credentials and tags of nobody else.
RecordsTruthful ==
    record # None =>
        LET s == record.server
            f == record.file
            o == Owner[s][f]
        IN
        /\ record.path \in {None, PathOf(s, f), TextOf(s, f)}
        /\ record.site \in {None, s}
        /\ record.user # None =>
              /\ KeyInfo[record.user.info] \in KnownAs(o)
              /\ \A x \in Facts(record.user) :
                    x.server = s /\ KeyInfo[record.user.info] \in KnownAs(x.user)
              /\ ToldApart(s, o) =>
                    record.user.info = o /\ \A x \in Facts(record.user) : x.user = o

\* A close is joined with an open exactly when one was stored, has not been
\* joined before and has not expired: neither the janitor nor another packet
\* takes an open away early, and a repeated close does not use it twice.
JoinedOnceWhileAlive ==
    [][LET stored == opened[<<record'.server, record'.file>>] IN
       record' # None /\ packets' # packets =>
           (record'.joined <=> stored # None /\ now <= stored + TTL)]_vars

\* What is known of the user of an id, and whether anything is.
StateOf(s, i) == userMap[UserInfoKey(s, dictMap[DictIDKey(s, i)].value.user)].value
Recorded(s, i) ==
    /\ DictIDKey(s, i) \in DOMAIN dictMap
    /\ UserInfoKey(s, dictMap[DictIDKey(s, i)].value.user) \in DOMAIN userMap
Live(s, i) ==
    /\ Has(dictMap, DictIDKey(s, i), now)
    /\ Has(userMap, UserInfoKey(s, dictMap[DictIDKey(s, i)].value.user), now)

\* A login or a disconnect of the user of an id, or of one with the same key.
LogsInOrOut(s, i) ==
    \E j \in Users :
        \/ /\ \E v \in Values : HandleUserRecord(s, j, v)
           /\ UserInfoKey(s, Owner[s][j]) = UserInfoKey(s, Owner[s][i])
        \/ /\ HandleDisconnect(s, j)
           /\ DictIDKey(s, j) \in DOMAIN dictMap
           /\ UserInfoKey(s, dictMap[DictIDKey(s, j)].value.user) = UserInfoKey(s, Owner[s][i])

\* Some field of a user state may differ, and what was known stays known.
OneReplaced(old, new) ==
    \E field \in {"auth", "token", "app", "scitags"} :
        /\ new = [old EXCEPT ![field] = new[field]]
        /\ new[field] = None => old[field] = None

\* Token, application and SciTags packets augment the state that the id of a
\* user leads to: in whatever order they come, and whatever finds no room, a
\* packet replaces at most one thing known of a live user and makes nothing
\* unknown, until a login or a disconnect.  Users whose info the two parsers read
\* differently are excepted: the id of such a user leads elsewhere after an 'i'
\* packet.
AugmentationKeeps ==
    [][\A s \in Servers, i \in Users :
          ReadAs[Owner[s][i]] = Owner[s][i] /\ Live(s, i) =>
              \/ Recorded(s, i)' /\ OneReplaced(StateOf(s, i), StateOf(s, i)')
              \/ LogsInOrOut(s, i)]_vars
=============================================================================
