----------------------------- MODULE JoinProofs -----------------------------
(***************************************************************************)
(* What JoinServer answers, stores and frames (Join), proved for every set *)
(* of cookie keys and values and for any number of packets and of joins.   *)
(*                                                                         *)
(* Every step is one of five: it dials, it leaves the history alone, or it *)
(* adds to the history something said, something heard, or a packet and    *)
(* its answer.  Each invariant is proved against these.                    *)
(***************************************************************************)
EXTENDS Join, FilterProofs

(* Packets and the entries of the history.                                 *)
Types ==
    {"handshake", "loginStart", "encryption", "keyResponse", "compression", "success", "acknowledged",
     "customQuery", "customAnswer", "cookieRequest", "cookieResponse", "disconnect", "ignored",
     "keepAlive", "ping", "knownPacks", "registryData", "packPush", "storeCookie", "details",
     "finish", "finished"}
Packets == [type : Types, key : Keys \union Registries \union {None}, value : Values \union {None}]
Entries ==
    [dir : {"in"}, packet : Packets, session : Nat]
        \union [dir : {"out"}, packet : Packets, session : Nat, cipher : BOOLEAN, threshold : BOOLEAN]

(* The types; and no entry is of a session that has not begun.             *)
JoinTypeOK ==
    /\ session \in Nat
    /\ cipher \in BOOLEAN /\ threshold \in BOOLEAN
    /\ cookies \in [Keys -> Values \union {None}]
    /\ trail \in Seq(Entries)
    /\ recorded \in Seq(Nat)
    /\ \A i \in DOMAIN trail : trail[i].session <= session

-----------------------------------------------------------------------------
(* The kinds of steps *)

(* Nothing is added to the history, and a failed join stays failed.        *)
Quiet ==
    /\ UNCHANGED <<handler, session, cipher, threshold, cookies, trail, recorded>>
    /\ phase = "failed" => phase' = "failed"

(* The client says a before the login: the handshake, the login start.     *)
Says(a) ==
    /\ a.type \in {"handshake", "loginStart"}
    /\ phase # "failed" /\ phase' # "failed"
    /\ trail' = Append(trail, Out(a))
    /\ UNCHANGED <<handler, session, cipher, threshold, cookies, recorded>>

Unspoken == {"keyResponse", "cookieResponse", "handshake", "loginStart"}

(* The client hears p and does not answer.                                 *)
Hears(p) ==
    /\ p.type \notin Unspoken
    /\ phase # "failed"
    /\ trail' = Append(trail, In(p))
    /\ \/ phase' = "failed" \/ AnswerTo(p.type) = "none"
       \/ p.type = "success" /\ ~handler
    /\ recorded' = IF p.type = "compression" THEN recorded ELSE Append(recorded, Len(trail) + 1)
    /\ \/ threshold' = threshold /\ (p.type = "compression" => phase' = "failed")
       \/ threshold' = TRUE /\ p.type = "compression"
    /\ \/ cookies' = cookies /\ p.type # "storeCookie"
       \/ /\ p.type = "storeCookie" /\ p.key \in Keys /\ p.value \in Values
          /\ cookies' = [cookies EXCEPT ![p.key] = p.value]
    /\ UNCHANGED <<handler, session, cipher>>

(* The client hears p and answers a.                                       *)
Answers(p, a) ==
    /\ p.type \notin Unspoken \union {"compression", "storeCookie"}
    /\ phase # "failed" /\ phase' # "failed"
    /\ a.type = AnswerTo(p.type) /\ a.type \notin {"none", "compression", "storeCookie"}
    /\ a.type = "cookieResponse" => a.key \in Keys /\ a.value = cookies[a.key]
    /\ trail' = trail \o <<In(p), Out(a)>>
    /\ recorded' = Append(recorded, Len(trail) + 1)
    /\ cipher' = (cipher \/ a.type = "keyResponse")
    /\ UNCHANGED <<handler, session, threshold, cookies>>

(* What Packet makes is a packet with these fields.                        *)
LEMMA PacketType ==
    /\ \A t \in Types : Bare(t) \in Packets /\ Bare(t).type = t
    /\ \A t \in Types, k \in Keys \union Registries \union {None}, v \in Values \union {None} :
          /\ Packet(t, k, v) \in Packets /\ Packet(t, k, v).type = t
          /\ Packet(t, k, v).key = k /\ Packet(t, k, v).value = v
  BY DEF Bare, Packet, Packets

(* AnswerTo, point by point.                                               *)
LEMMA AnswerTable ==
    /\ AnswerTo("encryption") = "keyResponse" /\ AnswerTo("success") = "acknowledged"
    /\ AnswerTo("customQuery") = "customAnswer" /\ AnswerTo("cookieRequest") = "cookieResponse"
    /\ AnswerTo("finish") = "finished"
    /\ \A t \in {"keepAlive", "ping", "knownPacks"} : AnswerTo(t) = t
    /\ \A t \in {"compression", "registryData", "packPush", "details", "storeCookie", "disconnect", "ignored"} :
          AnswerTo(t) = "none"
  BY DEF AnswerTo, Echoes

(* Every step is of one of the five kinds.                                 *)
LEMMA Moves ==
    ASSUME JoinTypeOK, [Next]_vars
    PROVE  \/ Dial \/ Quiet
           \/ \E a \in Packets : Says(a)
           \/ \E p \in Packets : Hears(p)
           \/ \E p, a \in Packets : Answers(p, a)
<1>1. CASE Handshake
  <2>1. Quiet \/ Says(Bare("handshake"))
    BY <1>1, PacketType, AnswerTable DEF Handshake, Quiet, Says, clientVars, Types
  <2>2. QED
    BY <2>1, PacketType DEF Types
<1>2. CASE LoginStart
  <2>1. Quiet \/ Says(Bare("loginStart"))
    BY <1>2, PacketType, AnswerTable DEF LoginStart, Quiet, Says, clientVars, Types
  <2>2. QED
    BY <2>1, PacketType DEF Types
<1>3. CASE ReadFails \/ Leave \/ UNCHANGED vars
  BY <1>3 DEF ReadFails, Leave, Quiet, vars, clientVars
<1>4. CASE OnEncryptionRequest
  <2>1. PICK p \in Packets : p = Bare("encryption") /\ p.type = "encryption"
    BY PacketType DEF Types
  <2>2. PICK a \in Packets : a = Bare("keyResponse") /\ a.type = "keyResponse"
    BY PacketType DEF Types
  <2>3. CASE phase' = "failed" \/ trail' = Append(trail, In(p))
    <3>1. Hears(p)
      BY <1>4, <2>1, <2>2, <2>3, AnswerTable DEF OnEncryptionRequest, Read, Answer, Fail, Hears, Unspoken, clientVars, JoinTypeOK
    <3>2. QED
      BY <3>1
  <2>4. CASE trail' = trail \o <<In(p), Out(a)>>
    <3>1. Answers(p, a) \/ Hears(p)
      BY <1>4, <2>1, <2>2, <2>4, AnswerTable DEF OnEncryptionRequest, Read, Answer, Fail, Answers, Hears, Unspoken, clientVars,
         JoinTypeOK
    <3>2. QED
      BY <3>1
  <2>5. QED
    BY <1>4, <2>1, <2>2, <2>3, <2>4 DEF OnEncryptionRequest, Answer, Fail
<1>5. CASE OnSetCompression
  <2>1. Hears(Bare("compression"))
    BY <1>5, PacketType, AnswerTable DEF OnSetCompression, Read, Continue, Fail, Hears, Unspoken, Types, clientVars
  <2>2. QED
    BY <2>1, PacketType DEF Types
<1>6. CASE OnLoginSuccess
  <2>1. PICK p \in Packets : p = Bare("success") /\ p.type = "success"
    BY PacketType DEF Types
  <2>2. PICK a \in Packets : a = Bare("acknowledged") /\ a.type = "acknowledged"
    BY PacketType DEF Types
  <2>3. CASE phase' = "failed" \/ trail' = Append(trail, In(p))
    <3>1. Hears(p)
      BY <1>6, <2>1, <2>2, <2>3, AnswerTable DEF OnLoginSuccess, Read, Answer, Fail, Hears, Unspoken, clientVars, JoinTypeOK
    <3>2. QED
      BY <3>1
  <2>4. CASE trail' = trail \o <<In(p), Out(a)>>
    <3>1. Answers(p, a) \/ Hears(p)
      BY <1>6, <2>1, <2>2, <2>4, AnswerTable DEF OnLoginSuccess, Read, Answer, Fail, Answers, Hears, Unspoken, clientVars,
         JoinTypeOK
    <3>2. QED
      BY <3>1
  <2>5. QED
    BY <1>6, <2>1, <2>2, <2>3, <2>4 DEF OnLoginSuccess, Answer, Fail
<1>7. CASE OnCustomQuery
  <2>1. Hears(Bare("customQuery")) \/ Answers(Bare("customQuery"), Bare("customAnswer"))
    BY <1>7, PacketType, AnswerTable DEF OnCustomQuery, Read, Answer, Fail, Hears, Answers, Unspoken, Types, clientVars,
       JoinTypeOK
  <2>2. QED
    BY <2>1, PacketType DEF Types
<1>8. ASSUME NEW type \in Echoes, OnEcho(type)
      PROVE  \E p \in Packets : Hears(p) \/ \E a \in Packets : Answers(p, a)
  <2>1. type \in Types /\ type \in {"keepAlive", "ping", "knownPacks"} /\ AnswerTo(type) = type
    BY <1>8, AnswerTable DEF Echoes, Types
  <2>2. Hears(Bare(type)) \/ Answers(Bare(type), Bare(type))
    BY <1>8, <2>1, PacketType, AnswerTable DEF OnEcho, Read, Answer, Fail, Hears, Answers, Unspoken, clientVars, JoinTypeOK
  <2>3. QED
    BY <2>1, <2>2, PacketType
<1>9. ASSUME NEW r \in Registries, NEW v \in Values, OnRegistryData(r, v) PROVE \E p \in Packets : Hears(p)
  <2>1. Hears(Packet("registryData", r, v))
    BY <1>9, PacketType, AnswerTable DEF OnRegistryData, Read, Continue, Hears, Unspoken, Types
  <2>2. QED
    BY <2>1, PacketType DEF Types
<1>10. ASSUME NEW v \in Values, OnResourcePackPush(v) PROVE \E p \in Packets : Hears(p)
  <2>1. PICK p \in Packets : p = Packet("packPush", None, v) /\ p.type = "packPush" /\ p.key = None /\ p.value = v
    BY PacketType DEF Types
  <2>2. Hears(p)
    BY <1>10, <2>1, AnswerTable DEF OnResourcePackPush, Read, Continue, Hears, Unspoken
  <2>3. QED
    BY <2>2
<1>11. ASSUME NEW T \in SUBSET Titles, NEW read \in [T -> Values], OnReportDetails(read)
       PROVE  \E p \in Packets : Hears(p)
  <2>1. Hears(Bare("details"))
    BY <1>11, PacketType, AnswerTable DEF OnReportDetails, Read, Continue, Fail, Hears, Unspoken, Types
  <2>2. QED
    BY <2>1, PacketType DEF Types
<1>12. ASSUME NEW k \in Keys, NEW v \in Values, OnStoreCookie(k, v) PROVE \E p \in Packets : Hears(p)
  <2>1. PICK p \in Packets : p = Packet("storeCookie", k, v) /\ p.type = "storeCookie" /\ p.key = k /\ p.value = v
    BY PacketType DEF Types
  <2>2. Hears(p)
    BY <1>12, <2>1, AnswerTable DEF OnStoreCookie, Read, Continue, Hears, Unspoken
  <2>3. QED
    BY <2>2
<1>13. CASE OnFinishConfiguration
  <2>1. PICK p \in Packets : p = Bare("finish") /\ p.type = "finish"
    BY PacketType DEF Types
  <2>2. PICK a \in Packets : a = Bare("finished") /\ a.type = "finished"
    BY PacketType DEF Types
  <2>3. CASE phase' = "failed" \/ trail' = Append(trail, In(p))
    <3>1. Hears(p)
      BY <1>13, <2>1, <2>2, <2>3, AnswerTable DEF OnFinishConfiguration, Read, Answer, Fail, Hears, Unspoken, clientVars, JoinTypeOK
    <3>2. QED
      BY <3>1
  <2>4. CASE trail' = trail \o <<In(p), Out(a)>>
    <3>1. Answers(p, a) \/ Hears(p)
      BY <1>13, <2>1, <2>2, <2>4, AnswerTable DEF OnFinishConfiguration, Read, Answer, Fail, Answers, Hears, Unspoken, clientVars,
         JoinTypeOK
    <3>2. QED
      BY <3>1
  <2>5. QED
    BY <1>13, <2>1, <2>2, <2>3, <2>4 DEF OnFinishConfiguration, Answer, Fail
<1>14. ASSUME NEW k \in Keys, OnCookieRequest(k)
       PROVE  \E p \in Packets : Hears(p) \/ \E a \in Packets : Answers(p, a)
  <2>1. cookies[k] \in Values \union {None}
    BY DEF JoinTypeOK
  <2>2. PICK p \in Packets : p = Packet("cookieRequest", k, None) /\ p.type = "cookieRequest"
    BY PacketType DEF Types
  <2>3. PICK a \in Packets : /\ a = Packet("cookieResponse", k, cookies[k])
                             /\ a.type = "cookieResponse" /\ a.key = k /\ a.value = cookies[k]
    BY <2>1, PacketType DEF Types
  <2>4. Hears(p) \/ Answers(p, a)
    BY <1>14, <2>2, <2>3, AnswerTable DEF OnCookieRequest, Read, Answer, Fail, Hears, Answers, Unspoken,
       clientVars, JoinTypeOK
  <2>5. QED
    BY <2>4
<1>15. CASE OnDisconnect \/ OnIgnored
  <2>1. Hears(Bare("disconnect")) \/ Hears(Bare("ignored"))
    BY <1>15, PacketType, AnswerTable DEF OnDisconnect, OnIgnored, Read, Continue, Fail, Hears, Unspoken, Types,
       clientVars
  <2>2. QED
    BY <2>1, PacketType DEF Types
<1>16. QED
  BY <1>1, <1>2, <1>3, <1>4, <1>5, <1>6, <1>7, <1>8, <1>9, <1>10, <1>11, <1>12, <1>13, <1>14, <1>15
  DEF Next, LoginPackets, ConfigPackets, CommonPackets

-----------------------------------------------------------------------------
(* Types *)

(* What In and Out make are entries with these fields.                     *)
LEMMA EntryType ==
    ASSUME JoinTypeOK, NEW p \in Packets
    PROVE  /\ In(p) \in Entries /\ In(p).dir = "in" /\ In(p).packet = p /\ In(p).session = session
           /\ Out(p) \in Entries /\ Out(p).dir = "out" /\ Out(p).packet = p /\ Out(p).session = session
           /\ Out(p).cipher = cipher /\ Out(p).threshold = threshold
  BY DEF JoinTypeOK, Entries, In, Out

(* Two entries are appended one after the other.                           *)
LEMMA AppendTwo ==
    ASSUME NEW S, NEW s \in Seq(S), NEW x \in S, NEW y \in S
    PROVE  s \o <<x, y>> = Append(Append(s, x), y)
<1>1. <<x, y>> = <<x>> \o <<y>> /\ <<x>> \in Seq(S) /\ <<y>> \in Seq(S)
  <2>1. <<x>> \in Seq(S) /\ <<y>> \in Seq(S)
    OBVIOUS
  <2>2. Append(<<x>>, y) = <<x, y>>
    <3>1. /\ Append(<<x>>, y) \in Seq(S) /\ Len(Append(<<x>>, y)) = 2
          /\ Append(<<x>>, y)[1] = x /\ Append(<<x>>, y)[2] = y
      BY <2>1, AppendProperties
    <3>2. <<x, y>> \in Seq(S) /\ Len(<<x, y>>) = 2 /\ <<x, y>>[1] = x /\ <<x, y>>[2] = y
      OBVIOUS
    <3>3. \A i \in 1 .. 2 : Append(<<x>>, y)[i] = <<x, y>>[i]
      BY <3>1, <3>2
    <3>4. QED
      BY <3>1, <3>2, <3>3, SeqEqual
  <2>3. QED
    BY <2>1, <2>2, AppendIsConcat
<1>2. s \o (<<x>> \o <<y>>) = (s \o <<x>>) \o <<y>>
  BY <1>1, ConcatAssociative
<1>3. Append(s, x) \in Seq(S) /\ Append(s, x) = s \o <<x>>
  BY AppendProperties, AppendIsConcat
<1>4. QED
  BY <1>1, <1>2, <1>3, AppendIsConcat

(* The points of a longer sequence.                                        *)
LEMMA AppendPoints ==
    ASSUME NEW S, NEW s \in Seq(S), NEW e \in S
    PROVE  /\ Append(s, e) \in Seq(S) /\ Len(s) \in Nat /\ Len(Append(s, e)) = Len(s) + 1
           /\ DOMAIN s = 1 .. Len(s) /\ DOMAIN Append(s, e) = 1 .. Len(s) + 1
           /\ \A i \in 1 .. Len(s) : Append(s, e)[i] = s[i]
           /\ Append(s, e)[Len(s) + 1] = e
  BY AppendProperties, LenProperties

(* The types hold at first.                                                *)
LEMMA JoinTypeInit == Init => JoinTypeOK
<1> SUFFICES ASSUME Init PROVE JoinTypeOK
  OBVIOUS
<1>1. trail = <<>> /\ trail \in Seq(Entries) /\ recorded \in Seq(Nat) /\ DOMAIN trail = {}
  BY EmptySeq, LenProperties DEF Init
<1>2. session = 0 /\ cipher = FALSE /\ threshold = FALSE /\ cookies \in [Keys -> Values \union {None}]
  BY DEF Init
<1>3. QED
  BY <1>1, <1>2 DEF JoinTypeOK

(* Every step keeps them.                                                  *)
LEMMA JoinTypeStep == JoinTypeOK /\ [Next]_vars => JoinTypeOK'
<1> SUFFICES ASSUME JoinTypeOK, [Next]_vars PROVE JoinTypeOK'
  OBVIOUS
<1>1. CASE Dial \/ Quiet
  <2>1. /\ session' \in {session, session + 1} /\ cipher' \in BOOLEAN /\ threshold' \in BOOLEAN
        /\ UNCHANGED <<cookies, trail, recorded>>
    BY <1>1 DEF Dial, Quiet, JoinTypeOK, clientVars
  <2>2. \A i \in DOMAIN trail : trail[i] \in Entries /\ trail[i].session \in Nat
    BY ElementOfSeq, LenProperties DEF JoinTypeOK, Entries
  <2>3. session' \in Nat /\ \A i \in DOMAIN trail : trail[i].session <= session'
    BY <2>1, <2>2 DEF JoinTypeOK
  <2>4. QED
    BY <2>1, <2>3 DEF JoinTypeOK
<1>2. ASSUME NEW a \in Packets, Says(a) PROVE JoinTypeOK'
  <2>1. Append(trail, Out(a)) \in Seq(Entries)
    BY <1>2, EntryType, AppendProperties DEF JoinTypeOK
  <2>2. \A i \in DOMAIN Append(trail, Out(a)) : Append(trail, Out(a))[i].session <= session
    BY EntryType, AppendPoints DEF JoinTypeOK
  <2>3. QED
    BY <1>2, <2>1, <2>2 DEF Says, JoinTypeOK
<1>3. ASSUME NEW p \in Packets, Hears(p) PROVE JoinTypeOK'
  <2>1. Append(trail, In(p)) \in Seq(Entries) /\ Append(recorded, Len(trail) + 1) \in Seq(Nat)
    BY EntryType, AppendProperties, LenProperties DEF JoinTypeOK
  <2>2. \A i \in DOMAIN Append(trail, In(p)) : Append(trail, In(p))[i].session <= session
    BY EntryType, AppendPoints DEF JoinTypeOK
  <2>3. QED
    BY <1>3, <2>1, <2>2 DEF Hears, JoinTypeOK
<1>4. ASSUME NEW p \in Packets, NEW a \in Packets, Answers(p, a) PROVE JoinTypeOK'
  <2>1. Append(trail, In(p)) \in Seq(Entries) /\ Append(recorded, Len(trail) + 1) \in Seq(Nat)
    BY EntryType, AppendProperties, LenProperties DEF JoinTypeOK
  <2>2. \A i \in DOMAIN Append(trail, In(p)) : Append(trail, In(p))[i].session <= session
    BY EntryType, AppendPoints DEF JoinTypeOK
  <2>3. PICK t : t = trail'
    OBVIOUS
  <2>4. t = Append(Append(trail, In(p)), Out(a))
    BY <1>4, <2>3, EntryType, AppendTwo DEF Answers, JoinTypeOK
  <2>5. t \in Seq(Entries) /\ \A i \in DOMAIN t : t[i].session <= session
    <3> DEFINE u == Append(trail, In(p))
    <3>1. u \in Seq(Entries) /\ Out(a) \in Entries /\ Out(a).session = session /\ session \in Nat
      BY <2>1, EntryType DEF JoinTypeOK
    <3>2. \A i \in DOMAIN u : u[i].session <= session
      BY <2>2
    <3> HIDE DEF u
    <3>3. \A i \in DOMAIN Append(u, Out(a)) : Append(u, Out(a))[i].session <= session
      BY <3>1, <3>2, AppendPoints
    <3>4. QED
      BY <2>4, <3>1, <3>3, AppendProperties DEF u
  <2>6. cipher' \in BOOLEAN /\ UNCHANGED <<session, threshold, cookies>> /\ recorded' = Append(recorded, Len(trail) + 1)
    BY <1>4 DEF Answers
  <2>7. QED
    BY <2>1, <2>3, <2>5, <2>6 DEF JoinTypeOK
<1>5. QED
  BY <1>1, <1>2, <1>3, <1>4, Moves

-----------------------------------------------------------------------------
(* Requests and answers *)

(* The first part of RequestsAreAnswered, of a history t at phase ph of    *)
(* the session sn.                                                         *)
AllAnswered(t, ph, sn) ==
    \A i \in DOMAIN t :
        (t[i].dir = "in" /\ AnswerTo(t[i].packet.type) # "none") =>
            \/ /\ i < Len(t) /\ t[i + 1].dir # "in"
               /\ t[i + 1].packet.type = AnswerTo(t[i].packet.type)
            \/ i < Len(t) /\ t[i + 1].session # t[i].session
            \/ i = Len(t) /\ (ph = "failed" \/ sn # t[i].session)
            \/ t[i].packet.type = "success" /\ ~handler

AskedInv == AllAnswered(trail, phase, session)

(* An entry is added: the request before it was answered already, and the  *)
(* entry wants no answer, or the join fails on it.                         *)
LEMMA AnsweredOne ==
    ASSUME NEW t \in Seq(Entries), NEW e \in Entries, NEW ph, NEW next, NEW sn,
           AllAnswered(t, ph, sn), ph # "failed", e.session = sn,
           \/ e.dir # "in" \/ AnswerTo(e.packet.type) = "none" \/ next = "failed"
           \/ e.packet.type = "success" /\ ~handler
    PROVE  AllAnswered(Append(t, e), next, sn)
<1> DEFINE u == Append(t, e)
<1>1. /\ Len(t) \in Nat /\ Len(u) = Len(t) + 1 /\ DOMAIN t = 1 .. Len(t) /\ DOMAIN u = 1 .. Len(t) + 1
      /\ \A i \in 1 .. Len(t) : u[i] = t[i]
      /\ u[Len(t) + 1] = e
  BY AppendPoints
<1> HIDE DEF u
<1>2. ASSUME NEW i \in DOMAIN u, u[i].dir = "in", AnswerTo(u[i].packet.type) # "none"
      PROVE  \/ /\ i < Len(u) /\ u[i + 1].dir # "in"
                /\ u[i + 1].packet.type = AnswerTo(u[i].packet.type)
             \/ i < Len(u) /\ u[i + 1].session # u[i].session
             \/ i = Len(u) /\ (next = "failed" \/ sn # u[i].session)
             \/ u[i].packet.type = "success" /\ ~handler
  <2>1. CASE i = Len(t) + 1
    BY <1>1, <1>2, <2>1
  <2>2. CASE i = Len(t)
    <3>1. i \in DOMAIN t /\ u[i] = t[i] /\ u[i + 1] = e /\ i < Len(u)
      BY <1>1, <1>2, <2>2
    <3>2. sn # t[i].session \/ (t[i].packet.type = "success" /\ ~handler)
      BY <1>1, <1>2, <2>2, <3>1 DEF AllAnswered
    <3>3. QED
      BY <3>1, <3>2
  <2>3. CASE i < Len(t)
    BY <1>1, <1>2, <2>3 DEF AllAnswered
  <2>4. QED
    BY <1>1, <2>1, <2>2, <2>3
<1>3. AllAnswered(u, next, sn)
  BY <1>2 DEF AllAnswered
<1>4. QED
  BY <1>3 DEF u

(* A request is added with its answer.                                     *)
LEMMA AnsweredTwo ==
    ASSUME NEW t \in Seq(Entries), NEW e \in Entries, NEW f \in Entries, NEW ph, NEW next, NEW sn,
           AllAnswered(t, ph, sn), ph # "failed", e.session = sn,
           f.dir # "in", f.packet.type = AnswerTo(e.packet.type)
    PROVE  AllAnswered(Append(Append(t, e), f), next, sn)
<1> DEFINE u == Append(t, e)
           v == Append(u, f)
<1>1. /\ u \in Seq(Entries)
      /\ Len(t) \in Nat /\ Len(u) = Len(t) + 1 /\ DOMAIN t = 1 .. Len(t) /\ DOMAIN u = 1 .. Len(t) + 1
      /\ \A i \in 1 .. Len(t) : u[i] = t[i]
      /\ u[Len(t) + 1] = e
  BY AppendPoints
<1> HIDE DEF u
<1>2. /\ Len(v) = Len(t) + 2 /\ DOMAIN v = 1 .. Len(t) + 2
      /\ \A i \in 1 .. Len(t) + 1 : v[i] = u[i]
      /\ v[Len(t) + 2] = f
  BY <1>1, AppendPoints
<1> HIDE DEF v
<1>3. ASSUME NEW i \in DOMAIN v, v[i].dir = "in", AnswerTo(v[i].packet.type) # "none"
      PROVE  \/ /\ i < Len(v) /\ v[i + 1].dir # "in"
                /\ v[i + 1].packet.type = AnswerTo(v[i].packet.type)
             \/ i < Len(v) /\ v[i + 1].session # v[i].session
             \/ v[i].packet.type = "success" /\ ~handler
  <2>1. i \in 1 .. Len(t) + 2
    BY <1>2
  <2>2. CASE i = Len(t) + 2
    BY <1>2, <1>3, <2>2
  <2>3. CASE i = Len(t) + 1
    BY <1>1, <1>2, <1>3, <2>3
  <2>4. CASE i = Len(t)
    BY <1>1, <1>2, <1>3, <2>1, <2>4 DEF AllAnswered
  <2>5. CASE i < Len(t)
    BY <1>1, <1>2, <1>3, <2>1, <2>5 DEF AllAnswered
  <2>6. QED
    BY <1>1, <2>1, <2>2, <2>3, <2>4, <2>5
<1>4. AllAnswered(v, next, sn)
  BY <1>3 DEF AllAnswered
<1>5. QED
  BY <1>4 DEF u, v

(* At first nothing was asked.                                             *)
LEMMA AskedInit == Init => AskedInv
<1> SUFFICES ASSUME Init PROVE AskedInv
  OBVIOUS
<1>1. DOMAIN trail = {}
  BY EmptySeq, LenProperties DEF Init
<1>2. QED
  BY <1>1 DEF AskedInv, AllAnswered

(* Every step keeps the requests answered.                                 *)
LEMMA AskedStep == JoinTypeOK /\ AskedInv /\ [Next]_vars => AskedInv'
<1> SUFFICES ASSUME JoinTypeOK, AskedInv, [Next]_vars PROVE AskedInv'
  OBVIOUS
<1>1. handler' = handler
  BY Moves DEF Dial, Quiet, Says, Hears, Answers
<1>2. CASE Dial
  <2>1. trail' = trail /\ session' = session + 1
    BY <1>2 DEF Dial
  <2>2. \A i \in DOMAIN trail : session + 1 # trail[i].session
    BY DEF JoinTypeOK
  <2>3. QED
    BY <1>1, <2>1, <2>2 DEF AskedInv, AllAnswered
<1>3. CASE Quiet
  BY <1>1, <1>3 DEF Quiet, AskedInv, AllAnswered
<1>4. ASSUME NEW t, trail' = t, AllAnswered(t, phase', session), session' = session PROVE AskedInv'
  BY <1>1, <1>4 DEF AskedInv, AllAnswered
<1>5. ASSUME NEW a \in Packets, Says(a) PROVE AskedInv'
  <2>1. AllAnswered(Append(trail, Out(a)), phase', session)
    BY <1>5, EntryType, AnsweredOne DEF Says, AskedInv, JoinTypeOK
  <2>2. QED
    BY <1>4, <1>5, <2>1 DEF Says
<1>6. ASSUME NEW p \in Packets, Hears(p) PROVE AskedInv'
  <2>1. AllAnswered(Append(trail, In(p)), phase', session)
    BY <1>6, EntryType, AnsweredOne DEF Hears, AskedInv, JoinTypeOK
  <2>2. QED
    BY <1>4, <1>6, <2>1 DEF Hears
<1>7. ASSUME NEW p \in Packets, NEW a \in Packets, Answers(p, a) PROVE AskedInv'
  <2>1. trail' = Append(Append(trail, In(p)), Out(a))
    BY <1>7, EntryType, AppendTwo DEF Answers, JoinTypeOK
  <2>2. AllAnswered(Append(Append(trail, In(p)), Out(a)), phase', session)
    BY <1>7, EntryType, AnsweredTwo DEF Answers, AskedInv, JoinTypeOK
  <2>3. QED
    BY <1>4, <1>7, <2>1, <2>2 DEF Answers
<1>8. QED
  BY <1>2, <1>3, <1>5, <1>6, <1>7, Moves

-----------------------------------------------------------------------------
(* The replay *)

(* The replay r of the history t: places in it, in order, of each packet   *)
(* of the server that is no SetCompression, and of nothing else.           *)
IsWanted(e) == e.dir = "in" /\ e.packet.type # "compression"
IsReplay(r, t) ==
    /\ \A m, n \in DOMAIN r : m < n => r[m] < r[n]
    /\ \A n \in DOMAIN r : r[n] \in DOMAIN t /\ IsWanted(t[r[n]])
    /\ \A i \in DOMAIN t : IsWanted(t[i]) => \E n \in DOMAIN r : r[n] = i

ReplayInv == IsReplay(recorded, trail)

(* An entry is added, and its place if it is wanted.                       *)
LEMMA ReplayOne ==
    ASSUME NEW t \in Seq(Entries), NEW e \in Entries, NEW r \in Seq(Nat), IsReplay(r, t)
    PROVE  IsReplay(IF IsWanted(e) THEN Append(r, Len(t) + 1) ELSE r, Append(t, e))
<1> DEFINE u == Append(t, e)
           s == Append(r, Len(t) + 1)
<1>1. /\ Len(t) \in Nat /\ DOMAIN t = 1 .. Len(t) /\ DOMAIN u = 1 .. Len(t) + 1
      /\ \A i \in 1 .. Len(t) : u[i] = t[i]
      /\ u[Len(t) + 1] = e
  BY AppendPoints
<1>2. /\ Len(r) \in Nat /\ DOMAIN r = 1 .. Len(r) /\ DOMAIN s = 1 .. Len(r) + 1
      /\ \A n \in 1 .. Len(r) : s[n] = r[n]
      /\ s[Len(r) + 1] = Len(t) + 1
  BY <1>1, AppendProperties, LenProperties
<1>3. \A n \in 1 .. Len(r) : r[n] \in 1 .. Len(t) /\ IsWanted(t[r[n]])
  BY <1>1, <1>2 DEF IsReplay
<1> HIDE DEF u, s
<1>4. ASSUME ~IsWanted(e) PROVE IsReplay(r, u)
  <2>1. \A m, n \in DOMAIN r : m < n => r[m] < r[n]
    BY DEF IsReplay
  <2>2. \A n \in DOMAIN r : r[n] \in DOMAIN u /\ IsWanted(u[r[n]])
    BY <1>1, <1>2, <1>3
  <2>3. \A i \in DOMAIN u : IsWanted(u[i]) => \E n \in DOMAIN r : r[n] = i
    BY <1>1, <1>4 DEF IsReplay
  <2>4. QED
    BY <2>1, <2>2, <2>3 DEF IsReplay
<1>5. ASSUME IsWanted(e) PROVE IsReplay(s, u)
  <2>1. ASSUME NEW m \in DOMAIN s, NEW n \in DOMAIN s, m < n PROVE s[m] < s[n]
    <3>1. m \in 1 .. Len(r)
      BY <1>2, <2>1
    <3>2. CASE n \in 1 .. Len(r)
      BY <1>2, <2>1, <3>1, <3>2 DEF IsReplay
    <3>3. CASE n = Len(r) + 1
      BY <1>1, <1>2, <1>3, <3>1, <3>3
    <3>4. QED
      BY <1>2, <3>2, <3>3
  <2>2. \A n \in DOMAIN s : s[n] \in DOMAIN u /\ IsWanted(u[s[n]])
    BY <1>1, <1>2, <1>3, <1>5
  <2>3. ASSUME NEW i \in DOMAIN u, IsWanted(u[i]) PROVE \E n \in DOMAIN s : s[n] = i
    <3>1. CASE i \in 1 .. Len(t)
      <4>1. PICK n \in DOMAIN r : r[n] = i
        BY <1>1, <2>3, <3>1 DEF IsReplay
      <4>2. QED
        BY <1>2, <4>1
    <3>2. CASE i = Len(t) + 1
      BY <1>2, <3>2
    <3>3. QED
      BY <1>1, <3>1, <3>2
  <2>4. QED
    BY <2>1, <2>2, <2>3 DEF IsReplay
<1>6. QED
  BY <1>4, <1>5 DEF u, s

(* At first the replay is empty, and nothing wanted was heard.             *)
LEMMA ReplayInit == Init => ReplayInv
  BY DEF Init, ReplayInv, IsReplay

(* Every step keeps the replay complete.                                   *)
LEMMA ReplayStep == JoinTypeOK /\ ReplayInv /\ [Next]_vars => ReplayInv'
<1> SUFFICES ASSUME JoinTypeOK, ReplayInv, [Next]_vars PROVE ReplayInv'
  OBVIOUS
<1>1. trail \in Seq(Entries) /\ recorded \in Seq(Nat) /\ IsReplay(recorded, trail)
  BY DEF JoinTypeOK, ReplayInv
<1>2. ASSUME NEW r, NEW t, recorded' = r, trail' = t, IsReplay(r, t) PROVE ReplayInv'
  BY <1>2 DEF ReplayInv, IsReplay, IsWanted
<1>3. CASE Dial \/ Quiet
  BY <1>1, <1>2, <1>3 DEF Dial, Quiet
<1>4. ASSUME NEW a \in Packets, Says(a) PROVE ReplayInv'
  <2>1. ~IsWanted(Out(a)) /\ Out(a) \in Entries
    BY EntryType DEF IsWanted
  <2>2. IsReplay(recorded, Append(trail, Out(a)))
    BY <1>1, <2>1, ReplayOne
  <2>3. QED
    BY <1>2, <1>4, <2>2 DEF Says
<1>5. ASSUME NEW p \in Packets, Hears(p) PROVE ReplayInv'
  <2>1. (IsWanted(In(p)) <=> p.type # "compression") /\ In(p) \in Entries
    BY EntryType DEF IsWanted
  <2>2. IsReplay(IF IsWanted(In(p)) THEN Append(recorded, Len(trail) + 1) ELSE recorded,
                 Append(trail, In(p)))
    BY <1>1, <2>1, ReplayOne
  <2>3. recorded' = IF IsWanted(In(p)) THEN Append(recorded, Len(trail) + 1) ELSE recorded
    BY <1>5, <2>1 DEF Hears
  <2>4. QED
    BY <1>2, <1>5, <2>2, <2>3 DEF Hears
<1>6. ASSUME NEW p \in Packets, NEW a \in Packets, Answers(p, a) PROVE ReplayInv'
  <2> DEFINE t == Append(trail, In(p))
             r == Append(recorded, Len(trail) + 1)
  <2>1. /\ IsWanted(In(p)) /\ In(p) \in Entries
        /\ ~IsWanted(Out(a)) /\ Out(a) \in Entries
    BY <1>6, EntryType DEF IsWanted, Answers, Unspoken
  <2>2. t \in Seq(Entries) /\ r \in Seq(Nat)
    BY <1>1, <2>1, AppendProperties, LenProperties
  <2>3. IsReplay(r, t)
    BY <1>1, <2>1, ReplayOne
  <2>4. trail' = Append(t, Out(a)) /\ recorded' = r
    BY <1>1, <1>6, <2>1, AppendTwo DEF Answers
  <2> HIDE DEF t, r
  <2>5. IsReplay(r, Append(t, Out(a)))
    BY <2>1, <2>2, <2>3, ReplayOne
  <2>6. QED
    BY <1>2, <2>4, <2>5
<1>7. QED
  BY <1>3, <1>4, <1>5, <1>6, Moves

(* Every request is answered before the next packet is read, and the       *)
(* replay holds what the server sent from each login success on, in order, *)
(* whatever fails.                                                         *)
THEOREM RequestsCorrect == Spec => []RequestsAreAnswered
<1>1. JoinTypeOK /\ AskedInv /\ ReplayInv => RequestsAreAnswered
  <2> SUFFICES ASSUME JoinTypeOK, AskedInv, ReplayInv PROVE RequestsAreAnswered
    OBVIOUS
  <2>1. ASSUME NEW i \in DOMAIN trail, IsIn(i), AnswerTo(Events(i)) # "none"
        PROVE  Answered(i) \/ (Events(i) = "success" /\ ~handler)
    BY <2>1 DEF AskedInv, AllAnswered, IsIn, Events, Answered
  <2>2. \A i \in InReplay : i \in DOMAIN trail /\ IsIn(i) /\ Events(i) # "compression"
    BY DEF ReplayInv, IsReplay, InReplay, IsWanted, IsIn, Events
  <2>3. \A i \in DOMAIN trail : IsIn(i) /\ Events(i) # "compression" => i \in InReplay
    BY DEF ReplayInv, IsReplay, InReplay, IsWanted, IsIn, Events
  <2>4. QED
    BY <2>1, <2>2, <2>3 DEF RequestsAreAnswered, ReplayInv, IsReplay
<1>2. QED
  BY <1>1, JoinTypeInit, JoinTypeStep, AskedInit, AskedStep, ReplayInit, ReplayStep, PTL DEF Spec

-----------------------------------------------------------------------------
(* Cipher and threshold *)

(* One of the first n entries of t is of the session and of the type.      *)
Seen(t, n, sn, type) == \E j \in 1 .. n : t[j].session = sn /\ t[j].packet.type = type

(* FramesAgree of the history t; and cipher and threshold are those of     *)
(* what the session has seen.                                              *)
FramesOK(t) ==
    \A i \in DOMAIN t :
        t[i].dir # "in" =>
            /\ t[i].cipher <=> Seen(t, i - 1, t[i].session, "keyResponse")
            /\ t[i].threshold <=> Seen(t, i - 1, t[i].session, "compression")

FrameInv ==
    /\ FramesOK(trail)
    /\ (cipher <=> Seen(trail, Len(trail), session, "keyResponse"))
    /\ phase # "failed" => (threshold <=> Seen(trail, Len(trail), session, "compression"))

(* What has been seen with one entry more.                                 *)
LEMMA SeenAppend ==
    ASSUME NEW t \in Seq(Entries), NEW e \in Entries
    PROVE  /\ \A n \in 0 .. Len(t) : \A sn, type : Seen(Append(t, e), n, sn, type) <=> Seen(t, n, sn, type)
           /\ \A sn, type :
                 Seen(Append(t, e), Len(t) + 1, sn, type) <=>
                     (Seen(t, Len(t), sn, type) \/ (e.session = sn /\ e.packet.type = type))
<1>1. /\ Len(t) \in Nat /\ \A i \in 1 .. Len(t) : Append(t, e)[i] = t[i]
      /\ Append(t, e)[Len(t) + 1] = e
  BY AppendPoints
<1>2. 1 .. Len(t) + 1 = (1 .. Len(t)) \union {Len(t) + 1}
  BY <1>1
<1>3. \A n \in 0 .. Len(t) : \A sn, type : Seen(Append(t, e), n, sn, type) <=> Seen(t, n, sn, type)
  BY <1>1 DEF Seen
<1>4. \A sn, type :
          Seen(Append(t, e), Len(t) + 1, sn, type) <=>
              Seen(t, Len(t), sn, type) \/ (e.session = sn /\ e.packet.type = type)
  BY <1>1, <1>2 DEF Seen
<1>5. QED
  BY <1>3, <1>4

(* An entry in the format of what was seen before it.                      *)
LEMMA FramesAppend ==
    ASSUME NEW t \in Seq(Entries), NEW e \in Entries, FramesOK(t),
           e.dir # "in" => /\ e.cipher <=> Seen(t, Len(t), e.session, "keyResponse")
                           /\ e.threshold <=> Seen(t, Len(t), e.session, "compression")
    PROVE  FramesOK(Append(t, e))
<1> DEFINE u == Append(t, e)
<1>1. /\ Len(t) \in Nat /\ DOMAIN t = 1 .. Len(t) /\ DOMAIN u = 1 .. Len(t) + 1
      /\ \A i \in 1 .. Len(t) : u[i] = t[i]
      /\ u[Len(t) + 1] = e
  BY AppendPoints
<1>2. \A n \in 0 .. Len(t) : \A sn, type : Seen(u, n, sn, type) <=> Seen(t, n, sn, type)
  BY SeenAppend
<1> HIDE DEF u
<1>3. ASSUME NEW i \in DOMAIN u, u[i].dir # "in"
      PROVE  /\ u[i].cipher <=> Seen(u, i - 1, u[i].session, "keyResponse")
             /\ u[i].threshold <=> Seen(u, i - 1, u[i].session, "compression")
  <2>1. CASE i = Len(t) + 1
    <3>1. i - 1 = Len(t) /\ i - 1 \in 0 .. Len(t) /\ u[i] = e
      BY <1>1, <2>1
    <3>2. QED
      BY <1>2, <1>3, <3>1
  <2>2. CASE i \in 1 .. Len(t)
    <3>1. u[i] = t[i] /\ i - 1 \in 0 .. Len(t) /\ i \in DOMAIN t
      BY <1>1, <2>2
    <3>2. QED
      BY <1>2, <1>3, <3>1 DEF FramesOK
  <2>3. QED
    BY <1>1, <2>1, <2>2
<1>4. FramesOK(u)
  BY <1>3 DEF FramesOK
<1>5. QED
  BY <1>4 DEF u

(* At first nothing was seen or written.                                   *)
LEMMA FrameInit == Init => FrameInv
<1> SUFFICES ASSUME Init PROVE FrameInv
  OBVIOUS
<1>1. DOMAIN trail = {} /\ Len(trail) = 0 /\ cipher = FALSE /\ threshold = FALSE
  BY EmptySeq, LenProperties DEF Init
<1>2. \A sn, type : ~Seen(trail, 0, sn, type)
  BY DEF Seen
<1>3. QED
  BY <1>1, <1>2 DEF FrameInv, FramesOK

(* Every step keeps the formats right.                                     *)
LEMMA FrameStep == JoinTypeOK /\ FrameInv /\ [Next]_vars => FrameInv'
<1> SUFFICES ASSUME JoinTypeOK, FrameInv, [Next]_vars PROVE FrameInv'
  OBVIOUS
<1>1. trail \in Seq(Entries) /\ Len(trail) \in Nat
  BY LenProperties DEF JoinTypeOK
<1>2. ASSUME NEW t, trail' = t, FramesOK(t), cipher' <=> Seen(t, Len(t), session', "keyResponse"),
             phase' # "failed" => (threshold' <=> Seen(t, Len(t), session', "compression"))
      PROVE  FrameInv'
  BY <1>2 DEF FrameInv, FramesOK, Seen
<1>3. CASE Dial
  <2>1. /\ trail' = trail /\ session' = session + 1
        /\ cipher' = FALSE /\ threshold' = FALSE
    BY <1>3 DEF Dial
  <2>2. \A i \in 1 .. Len(trail) : trail[i].session # session + 1
    BY <1>1, LenProperties DEF JoinTypeOK
  <2>3. \A type : ~Seen(trail, Len(trail), session + 1, type)
    BY <2>2 DEF Seen
  <2>4. QED
    BY <1>2, <2>1, <2>3 DEF FrameInv
<1>4. CASE Quiet
  BY <1>2, <1>4 DEF Quiet, FrameInv
<1>5. ASSUME NEW a \in Packets, Says(a) PROVE FrameInv'
  <2> DEFINE e == Out(a)
  <2>1. /\ e \in Entries /\ e.session = session /\ e.packet = a
        /\ e.cipher = cipher /\ e.threshold = threshold
    BY EntryType
  <2> HIDE DEF e
  <2>2. FramesOK(Append(trail, e))
    BY <1>1, <1>5, <2>1, FramesAppend DEF Says, FrameInv
  <2>3. \A type : a.type # type =>
            Seen(Append(trail, e), Len(Append(trail, e)), session, type)
                <=> Seen(trail, Len(trail), session, type)
    BY <1>1, <2>1, SeenAppend, AppendProperties
  <2>4. QED
    BY <1>2, <1>5, <2>2, <2>3 DEF Says, FrameInv, e
<1>6. ASSUME NEW p \in Packets, Hears(p) PROVE FrameInv'
  <2> DEFINE e == In(p)
  <2>1. e \in Entries /\ e.session = session /\ e.packet = p /\ e.dir = "in"
    BY EntryType
  <2> HIDE DEF e
  <2>2. FramesOK(Append(trail, e))
    BY <1>1, <2>1, FramesAppend DEF FrameInv
  <2>3. \A type :
            Seen(Append(trail, e), Len(Append(trail, e)), session, type) <=>
                (Seen(trail, Len(trail), session, type) \/ p.type = type)
    BY <1>1, <2>1, SeenAppend, AppendProperties
  <2>4. p.type # "keyResponse" /\ phase # "failed"
    BY <1>6 DEF Hears, Unspoken
  <2>5. QED
    BY <1>2, <1>6, <2>2, <2>3, <2>4 DEF Hears, FrameInv, e
<1>7. ASSUME NEW p \in Packets, NEW a \in Packets, Answers(p, a) PROVE FrameInv'
  <2> DEFINE e == In(p)
             f == Out(a)
             u == Append(trail, e)
  <2>1. /\ e \in Entries /\ e.session = session /\ e.packet = p /\ e.dir = "in"
        /\ f \in Entries /\ f.session = session /\ f.packet = a
        /\ f.cipher = cipher /\ f.threshold = threshold
    BY EntryType
  <2>2. /\ p.type \notin {"keyResponse", "compression"} /\ a.type # "compression" /\ phase # "failed"
        /\ session' = session /\ threshold' = threshold /\ cipher' = (cipher \/ a.type = "keyResponse")
    BY <1>7 DEF Answers, Unspoken
  <2>3. trail' = Append(u, f)
    BY <1>1, <1>7, <2>1, AppendTwo DEF Answers
  <2> HIDE DEF e, f
  <2>4. FramesOK(u) /\ u \in Seq(Entries) /\ Len(u) = Len(trail) + 1
    BY <1>1, <2>1, FramesAppend, AppendProperties DEF FrameInv
  <2>5. \A type :
            Seen(u, Len(u), session, type) <=> (Seen(trail, Len(trail), session, type) \/ p.type = type)
    BY <1>1, <2>1, <2>4, SeenAppend
  <2>6. /\ Seen(u, Len(u), session, "keyResponse") <=> cipher
        /\ Seen(u, Len(u), session, "compression") <=> threshold
    BY <2>2, <2>5 DEF FrameInv
  <2> HIDE DEF u
  <2>7. FramesOK(Append(u, f))
    BY <2>1, <2>4, <2>6, FramesAppend
  <2>8. \A type :
            Seen(Append(u, f), Len(Append(u, f)), session, type) <=> (Seen(u, Len(u), session, type) \/ a.type = type)
    <3>1. Len(Append(u, f)) = Len(u) + 1
      BY <2>1, <2>4, AppendProperties
    <3>2. QED
      BY <2>1, <2>4, <3>1, SeenAppend
  <2>9. QED
    BY <1>2, <2>2, <2>3, <2>6, <2>7, <2>8
<1>8. QED
  BY <1>3, <1>4, <1>5, <1>6, <1>7, Moves

(* Both ends switch format at the same packet.                             *)
THEOREM FramesCorrect == Spec => []FramesAgree
<1>1. JoinTypeOK /\ FrameInv => FramesAgree
  <2> SUFFICES ASSUME JoinTypeOK, FrameInv, NEW i \in DOMAIN trail, ~IsIn(i)
               PROVE  /\ trail[i].cipher = Seen(trail, i - 1, trail[i].session, "keyResponse")
                      /\ trail[i].threshold = Seen(trail, i - 1, trail[i].session, "compression")
    BY Zenon DEF FramesAgree, Seen, Events
  <2>1. trail[i] \in Entries
    BY ElementOfSeq, LenProperties DEF JoinTypeOK
  <2>2. trail[i].cipher \in BOOLEAN /\ trail[i].threshold \in BOOLEAN
    BY <2>1 DEF Entries, IsIn
  <2>3. /\ trail[i].cipher <=> Seen(trail, i - 1, trail[i].session, "keyResponse")
        /\ trail[i].threshold <=> Seen(trail, i - 1, trail[i].session, "compression")
    BY DEF FrameInv, FramesOK, IsIn
  <2>4. QED
    BY <2>2, <2>3 DEF Seen
<1>2. QED
  BY <1>1, JoinTypeInit, JoinTypeStep, FrameInit, FrameStep, PTL DEF Spec

-----------------------------------------------------------------------------
(* Cookies *)

(* What the first n entries of t store for the key k, the last of them.    *)
StoresOf(t, k, n) == { j \in 1 .. n : t[j].packet.type = "storeCookie" /\ t[j].packet.key = k }
LastOf(T) == CHOOSE j \in T : \A l \in T : l <= j
LatestOf(t, k, n) ==
    IF StoresOf(t, k, n) = {} THEN None ELSE t[LastOf(StoresOf(t, k, n))].packet.value

(* CookiesAreLatest of the history t; and the cookies held are the latest  *)
(* stored.                                                                 *)
CookiesOK(t) ==
    \A i \in DOMAIN t :
        t[i].packet.type = "cookieResponse" => t[i].packet.value = LatestOf(t, t[i].packet.key, i - 1)

CookieInv ==
    /\ CookiesOK(trail)
    /\ \A k \in Keys : cookies[k] = LatestOf(trail, k, Len(trail))

(* Some number of a finite set of them is the last.                        *)
LEMMA LastMember ==
    ASSUME NEW n \in Nat, NEW T \in SUBSET (1 .. n), T # {}
    PROVE  LastOf(T) \in T /\ \A l \in T : l <= LastOf(T)
<1>1. \E j \in T : \A l \in T : l <= j
  <2> DEFINE U == { n - l : l \in T }
  <2>1. U \in SUBSET Nat /\ U # {}
    <3>1. \A l \in T : l \in 1 .. n /\ n - l \in Nat
      OBVIOUS
    <3>2. QED
      BY <3>1
  <2> HIDE DEF U
  <2>2. PICK m \in U : \A x \in U : m <= x
    BY <2>1, Smallest
  <2>3. PICK j \in T : m = n - j
    BY <2>2 DEF U
  <2>4. \A l \in T : n - j <= n - l
    BY <2>2, <2>3 DEF U
  <2>5. QED
    BY <2>4
<1>2. QED
  BY <1>1 DEF LastOf

(* What is added later changes nothing of what was stored before.          *)
LEMMA LatestBefore ==
    ASSUME NEW t \in Seq(Entries), NEW e \in Entries, NEW k, NEW n \in 0 .. Len(t)
    PROVE  LatestOf(Append(t, e), k, n) = LatestOf(t, k, n)
<1> DEFINE u == Append(t, e)
           T == StoresOf(t, k, n)
<1>1. Len(t) \in Nat /\ n \in Nat /\ \A i \in 1 .. Len(t) : u[i] = t[i]
  BY AppendPoints
<1> HIDE DEF u
<1>2. StoresOf(u, k, n) = T /\ T \in SUBSET (1 .. n)
  BY <1>1 DEF StoresOf
<1> HIDE DEF T
<1>3. T # {} => LastOf(T) \in 1 .. Len(t)
  <2> SUFFICES ASSUME T # {} PROVE LastOf(T) \in 1 .. Len(t)
    OBVIOUS
  <2>1. LastOf(T) \in T
    BY <1>1, <1>2, LastMember
  <2>2. LastOf(T) \in 1 .. n
    BY <1>2, <2>1
  <2>3. n <= Len(t)
    BY <1>1
  <2>4. QED
    BY <1>1, <2>2, <2>3
<1>4. T # {} => u[LastOf(T)] = t[LastOf(T)]
  BY <1>1, <1>3
<1>5. LatestOf(u, k, n) = LatestOf(t, k, n)
  BY <1>2, <1>4 DEF LatestOf, T
<1>6. QED
  BY <1>5 DEF u

(* One entry more stores a cookie for the key, or changes nothing.         *)
LEMMA LatestAppend ==
    ASSUME NEW t \in Seq(Entries), NEW e \in Entries, NEW k
    PROVE  LatestOf(Append(t, e), k, Len(t) + 1) =
               IF e.packet.type = "storeCookie" /\ e.packet.key = k THEN e.packet.value
               ELSE LatestOf(t, k, Len(t))
<1> DEFINE u == Append(t, e)
           m == Len(t) + 1
<1>1. /\ Len(t) \in Nat /\ \A i \in 1 .. Len(t) : u[i] = t[i]
      /\ u[m] = e
  BY AppendPoints
<1>2. LatestOf(u, k, Len(t)) = LatestOf(t, k, Len(t))
  BY <1>1, LatestBefore
<1> HIDE DEF u
<1>3. CASE e.packet.type = "storeCookie" /\ e.packet.key = k
  <2> DEFINE T == StoresOf(u, k, m)
  <2>1. m \in T /\ T \in SUBSET (1 .. m) /\ m \in Nat
    BY <1>1, <1>3 DEF StoresOf
  <2> HIDE DEF T
  <2>2. LastOf(T) \in 1 .. m /\ m <= LastOf(T)
    BY <2>1, LastMember
  <2>3. LastOf(T) = m
    BY <1>1, <2>2
  <2>4. LatestOf(u, k, m) = e.packet.value
    BY <1>1, <2>1, <2>3 DEF LatestOf, T
  <2>5. QED
    BY <1>3, <2>4 DEF u
<1>4. CASE ~(e.packet.type = "storeCookie" /\ e.packet.key = k)
  <2>1. StoresOf(u, k, m) = StoresOf(u, k, Len(t))
    BY <1>1, <1>4 DEF StoresOf
  <2>2. LatestOf(u, k, m) = LatestOf(u, k, Len(t))
    BY <2>1 DEF LatestOf
  <2>3. QED
    BY <1>2, <1>4, <2>2 DEF u
<1>5. QED
  BY <1>3, <1>4

(* An answer with the latest cookie.                                       *)
LEMMA CookiesAppend ==
    ASSUME NEW t \in Seq(Entries), NEW e \in Entries, CookiesOK(t),
           e.packet.type = "cookieResponse" => e.packet.value = LatestOf(t, e.packet.key, Len(t))
    PROVE  CookiesOK(Append(t, e))
<1> DEFINE u == Append(t, e)
<1>1. /\ Len(t) \in Nat /\ DOMAIN t = 1 .. Len(t) /\ DOMAIN u = 1 .. Len(t) + 1
      /\ \A i \in 1 .. Len(t) : u[i] = t[i]
      /\ u[Len(t) + 1] = e
  BY AppendPoints
<1>2. ASSUME NEW k, NEW n \in 0 .. Len(t) PROVE LatestOf(u, k, n) = LatestOf(t, k, n)
  BY LatestBefore
<1> HIDE DEF u
<1>3. ASSUME NEW i \in DOMAIN u, u[i].packet.type = "cookieResponse"
      PROVE  u[i].packet.value = LatestOf(u, u[i].packet.key, i - 1)
  <2>1. CASE i = Len(t) + 1
    <3>1. i - 1 = Len(t) /\ i - 1 \in 0 .. Len(t) /\ u[i] = e
      BY <1>1, <2>1
    <3>2. QED
      BY <1>2, <1>3, <3>1
  <2>2. CASE i \in 1 .. Len(t)
    <3>1. u[i] = t[i] /\ i - 1 \in 0 .. Len(t) /\ i \in DOMAIN t
      BY <1>1, <2>2
    <3>2. QED
      BY <1>2, <1>3, <3>1 DEF CookiesOK
  <2>3. QED
    BY <1>1, <2>1, <2>2
<1>4. CookiesOK(u)
  BY <1>3 DEF CookiesOK
<1>5. QED
  BY <1>4 DEF u

(* At first no cookie was stored.                                          *)
LEMMA CookieInit == Init => CookieInv
<1> SUFFICES ASSUME Init PROVE CookieInv
  OBVIOUS
<1>1. DOMAIN trail = {} /\ Len(trail) = 0 /\ cookies = [k \in Keys |-> None]
  BY EmptySeq, LenProperties DEF Init
<1>2. \A k : LatestOf(trail, k, 0) = None
  BY DEF LatestOf, StoresOf
<1>3. QED
  BY <1>1, <1>2 DEF CookieInv, CookiesOK

(* Every step keeps the cookies the latest.                                *)
LEMMA CookieStep == JoinTypeOK /\ CookieInv /\ [Next]_vars => CookieInv'
<1> SUFFICES ASSUME JoinTypeOK, CookieInv, [Next]_vars PROVE CookieInv'
  OBVIOUS
<1>1. trail \in Seq(Entries) /\ Len(trail) \in Nat /\ cookies \in [Keys -> Values \union {None}]
  BY LenProperties DEF JoinTypeOK
<1>2. ASSUME NEW t, trail' = t, CookiesOK(t), \A k \in Keys : cookies'[k] = LatestOf(t, k, Len(t))
      PROVE  CookieInv'
  <2>1. \A k, n : LatestOf(trail, k, n)' = LatestOf(t, k, n)
    BY <1>2 DEF LatestOf, StoresOf
  <2>2. CookiesOK(trail)' <=> CookiesOK(t)
    BY <1>2, <2>1 DEF CookiesOK
  <2>3. QED
    BY <1>2, <2>1, <2>2 DEF CookieInv
<1>3. CASE Dial \/ Quiet
  BY <1>2, <1>3 DEF Dial, Quiet, clientVars, CookieInv
<1>4. \A t \in Seq(Entries), e \in Entries : Len(Append(t, e)) = Len(t) + 1
  BY AppendProperties
<1>5. ASSUME NEW a \in Packets, Says(a) PROVE CookieInv'
  <2> DEFINE e == Out(a)
  <2>1. e \in Entries /\ e.packet = a /\ a.type \notin {"cookieResponse", "storeCookie"}
    BY <1>5, EntryType DEF Says
  <2>2. trail' = Append(trail, e) /\ cookies' = cookies
    BY <1>5 DEF Says
  <2> HIDE DEF e
  <2>3. CookiesOK(Append(trail, e))
    BY <1>1, <2>1, CookiesAppend DEF CookieInv
  <2>4. \A k \in Keys : cookies[k] = LatestOf(Append(trail, e), k, Len(Append(trail, e)))
    BY <1>1, <1>4, <2>1, LatestAppend DEF CookieInv
  <2>5. QED
    BY <1>2, <2>2, <2>3, <2>4
<1>6. ASSUME NEW p \in Packets, Hears(p) PROVE CookieInv'
  <2> DEFINE e == In(p)
  <2>1. e \in Entries /\ e.packet = p /\ p.type # "cookieResponse"
    BY <1>6, EntryType DEF Hears, Unspoken
  <2>2. trail' = Append(trail, e)
    BY <1>6 DEF Hears
  <2> HIDE DEF e
  <2>3. CookiesOK(Append(trail, e))
    BY <1>1, <2>1, CookiesAppend DEF CookieInv
  <2>4. \A k \in Keys :
            cookies'[k] = IF p.type = "storeCookie" /\ p.key = k THEN p.value ELSE cookies[k]
    BY <1>1, <1>6 DEF Hears
  <2>5. \A k \in Keys : cookies'[k] = LatestOf(Append(trail, e), k, Len(Append(trail, e)))
    BY <1>1, <1>4, <2>1, <2>4, LatestAppend DEF CookieInv
  <2>6. QED
    BY <1>2, <2>2, <2>3, <2>5
<1>7. ASSUME NEW p \in Packets, NEW a \in Packets, Answers(p, a) PROVE CookieInv'
  <2> DEFINE e == In(p)
             f == Out(a)
             u == Append(trail, e)
  <2>1. e \in Entries /\ e.packet = p /\ f \in Entries /\ f.packet = a
    BY EntryType
  <2>2. /\ p.type \notin {"cookieResponse", "storeCookie"} /\ a.type # "storeCookie"
        /\ a.type = "cookieResponse" => a.key \in Keys /\ a.value = cookies[a.key]
        /\ cookies' = cookies
    BY <1>7 DEF Answers, Unspoken
  <2>3. trail' = Append(u, f)
    BY <1>1, <1>7, <2>1, AppendTwo DEF Answers
  <2> HIDE DEF e, f
  <2>4. CookiesOK(u) /\ u \in Seq(Entries)
    BY <1>1, <2>1, <2>2, CookiesAppend, AppendProperties DEF CookieInv
  <2>5. \A k \in Keys : cookies[k] = LatestOf(u, k, Len(u))
    BY <1>1, <1>4, <2>1, <2>2, LatestAppend DEF CookieInv
  <2> HIDE DEF u
  <2>6. CookiesOK(Append(u, f))
    BY <2>1, <2>2, <2>4, <2>5, CookiesAppend
  <2>7. \A k \in Keys : cookies[k] = LatestOf(Append(u, f), k, Len(Append(u, f)))
    BY <1>4, <2>1, <2>2, <2>4, <2>5, LatestAppend
  <2>8. QED
    BY <1>2, <2>2, <2>3, <2>6, <2>7
<1>8. QED
  BY <1>3, <1>5, <1>6, <1>7, Moves

(* A cookie request is answered with what was stored last for its key.     *)
THEOREM CookiesCorrect == Spec => []CookiesAreLatest
<1>1. JoinTypeOK /\ CookieInv => CookiesAreLatest
  BY DEF CookieInv, CookiesOK, LatestOf, StoresOf, LastOf, CookiesAreLatest, Events
<1>2. QED
  BY <1>1, JoinTypeInit, JoinTypeStep, CookieInit, CookieStep, PTL DEF Spec
=============================================================================
