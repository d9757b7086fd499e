--------------------------- MODULE DeadlineProofs ---------------------------
(***************************************************************************)
(* What Deadlines promises for every length of the keep-alive deadline, of *)
(* the server's period and of the handlers, every queue, bounded or not,   *)
(* and every timeout of a ping: a live server is timed out only after a    *)
(* backlog that takes too long to clear, and a ping that succeeds has      *)
(* heard the server.                                                       *)
(***************************************************************************)
EXTENDS Deadlines, SequenceTheorems, TLAPS

-----------------------------------------------------------------------------
(* The keep-alive deadline *)

KeepTypeInv ==
    /\ server \in {"joining", "live", "silent", "mute"} /\ due \in 0..Period
    /\ game \in {"running", "returned"}
    /\ left \in {Never} \union Nat
    /\ longest \in Nat
    /\ queue \in Seq(Packets) /\ Len(queue) <= longest
    /\ handling \in Seq(Packets) /\ Len(handling) <= 1
    /\ busy \in 0..HandlerTime
    /\ handling = <<>> => busy = 0

(* Nothing has come before the login, and there is no deadline.            *)
EarlyInv ==
    server \in {"joining", "mute"} => left = Never /\ handling = <<>> /\ queue = <<>>

(* A packet that renews the deadline is in HandleGame's hand or in the     *)
(* queue, and its handlers are through before the deadline: no tick passes *)
(* before HandleGame has taken a packet that waits.                        *)
Renewal ==
    \/ handling # <<>> /\ Renews(Head(handling)) /\ left > busy
    \/ \E i \in 1..Len(queue) : Renews(queue[i]) /\ left > busy + i * HandlerTime

(* While a live server is played on and at most n packets have waited, n   *)
(* that clear in time, the deadline is never near: it leaves time for the  *)
(* next keep-alive to come and to wait behind n packets, or its renewal is *)
(* on the way.  One n is kept while longest grows towards it.              *)
KeptWith(n) ==
    (/\ server = "live" /\ game = "running" /\ readLoop = "reading"
     /\ longest <= n /\ ClearedInTime(n)) =>
        \/ left = Never
        \/ left > due + (n + 1) * HandlerTime
        \/ Renewal

KeptInv == \A n \in Nat : KeptWith(n)

KeepInv == KeepTypeInv /\ EarlyInv /\ KeptInv /\ LiveServerIsKept

(* What the arithmetic below needs of the constants.                       *)
LEMMA Constants ==
    /\ {KeepAliveDuration, Period, HandlerTime} \subseteq Nat \ {0}
    /\ Never \notin Nat
  BY KeepAliveAssumption

(* Waiting time grows with the place in the queue, by HandlerTime each.    *)
LEMMA Times ==
    ASSUME NEW i \in Nat, NEW j \in Nat, NEW h \in Nat
    PROVE  /\ i * h \in Nat
           /\ (i + 1) * h = i * h + h
           /\ i <= j => i * h <= j * h
<1>1. i * h \in Nat /\ (i + 1) * h = i * h + h
  OBVIOUS
<1>2. ASSUME i <= j PROVE i * h <= j * h
  <2>1. PICK d \in Nat : j = i + d
    BY <1>2
  <2>2. d * h \in Nat /\ (i + d) * h = i * h + d * h
    BY <2>1
  <2>3. QED
    BY <1>1, <2>1, <2>2
<1>3. QED
  BY <1>1, <1>2

(* A new connection has no deadline.                                       *)
LEMMA KeepInitial == KeepInit => KeepInv
<1> SUFFICES ASSUME KeepInit PROVE KeepInv
  OBVIOUS
<1>1. KeepTypeInv
  BY EmptySeq, Constants DEF KeepInit, KeepTypeInv
<1>2. EarlyInv /\ KeptInv /\ LiveServerIsKept
  BY DEF KeepInit, EarlyInv, KeptInv, KeptWith, LiveServerIsKept
<1>3. QED
  BY <1>1, <1>2 DEF KeepInv

(* A packet at the end of a queue of n waits no longer than a keep-alive   *)
(* is given.                                                               *)
LEMMA RoomIsTime ==
    ASSUME KeepTypeInv, NEW n \in Nat, Len(queue) < n
    PROVE  busy + (Len(queue) + 1) * HandlerTime <= (n + 1) * HandlerTime
<1>1. HandlerTime \in Nat /\ Len(queue) \in Nat /\ busy \in 0..HandlerTime
  BY Constants, LenProperties DEF KeepTypeInv
<1>2. (Len(queue) + 1) * HandlerTime <= n * HandlerTime
      /\ (n + 1) * HandlerTime = n * HandlerTime + HandlerTime
      /\ n * HandlerTime \in Nat /\ (Len(queue) + 1) * HandlerTime \in Nat
  BY <1>1, Times
<1>3. QED
  BY <1>1, <1>2

(* ReadLoop gets a packet from a server that has logged the client in: one *)
(* that renews the deadline will do so in time, and any other leaves the   *)
(* next keep-alive where it was.                                           *)
LEMMA GetsKeeps ==
    ASSUME KeepInv, server \in {"live", "joining"}, server' = "live",
           NEW p \in Packets, ReadLoopGets(p),
           due' \in 0..Period, Renews(p) \/ due' = due
    PROVE  KeepInv'
<1>1. CASE readLoop' = "full"
  BY <1>1 DEF KeepInv, KeepTypeInv, EarlyInv, KeptInv, KeptWith, LiveServerIsKept, ReadLoopGets
<1>2. CASE /\ queue' = Append(queue, p)
           /\ longest' = IF Len(queue') > longest THEN Len(queue') ELSE longest
           /\ UNCHANGED readLoop
  <2>1. /\ queue \in Seq(Packets) /\ Len(queue) \in Nat /\ queue' \in Seq(Packets)
        /\ Len(queue') = Len(queue) + 1 /\ queue'[Len(queue) + 1] = p
        /\ \A i \in 1..Len(queue) : queue'[i] = queue[i]
        /\ longest \in Nat /\ longest' \in Nat /\ longest <= longest' /\ Len(queue') <= longest'
    BY <1>2, AppendProperties, LenProperties DEF KeepInv, KeepTypeInv
  <2>2. KeepTypeInv'
    BY <1>2, <2>1, Constants DEF KeepInv, KeepTypeInv, ReadLoopGets
  <2>3. EarlyInv' /\ LiveServerIsKept'
    BY <1>2 DEF KeepInv, EarlyInv, LiveServerIsKept, ReadLoopGets
  <2>4. ASSUME Renewal PROVE Renewal'
    BY <1>2, <2>1, <2>4 DEF Renewal, ReadLoopGets
  <2>5. ASSUME NEW n \in Nat, longest' <= n,
               left # Never, left > due + (n + 1) * HandlerTime, Renews(p)
        PROVE  Renewal'
    <3>1. busy + (Len(queue) + 1) * HandlerTime <= (n + 1) * HandlerTime
      <4>1. KeepTypeInv /\ Len(queue) < n
        BY <2>1, <2>5 DEF KeepInv
      <4>2. QED
        BY <4>1, RoomIsTime
    <3>2. /\ left \in Nat /\ due \in Nat /\ busy \in Nat
          /\ (n + 1) * HandlerTime \in Nat
          /\ (Len(queue) + 1) * HandlerTime \in Nat
      BY <2>1, <2>5, Constants, Times DEF KeepInv, KeepTypeInv
    <3>3. left > busy + (Len(queue) + 1) * HandlerTime
      BY <2>5, <3>1, <3>2
    <3>4. QED
      BY <2>1, <2>5, <3>3 DEF Renewal, ReadLoopGets
  <2>6. KeptInv'
    <3> SUFFICES ASSUME NEW n \in Nat PROVE KeptWith(n)'
      BY DEF KeptInv
    <3>1. CASE left = Never
      BY <3>1 DEF KeptWith, ReadLoopGets
    <3>2. CASE left # Never
      <4>1. longest' <= n => longest <= n
        BY <2>1
      <4>2. KeptWith(n)
        BY DEF KeepInv, KeptInv
      <4>3. QED
        BY <1>2, <2>4, <2>5, <3>2, <4>1, <4>2 DEF KeepInv, EarlyInv, KeptWith, ReadLoopGets
    <3>3. QED
      BY <3>1, <3>2
  <2>7. QED
    BY <2>2, <2>3, <2>6 DEF KeepInv
<1>3. QED
  BY <1>1, <1>2 DEF ReadLoopGets

(* ReadLoop times out only where the deadline is 0, which KeptInv rules    *)
(* out while a live server is played on.                                   *)
LEMMA TimesOutKeeps == ASSUME KeepInv, ReadLoopTimesOut PROVE KeepInv'
<1>1. KeepTypeInv' /\ EarlyInv' /\ KeptInv'
  BY DEF KeepInv, KeepTypeInv, EarlyInv, KeptInv, KeptWith, ReadLoopTimesOut, recv
<1>2. /\ left = 0 /\ left # Never /\ due \in Nat /\ busy \in Nat /\ queue \in Seq(Packets)
      /\ longest \in Nat
  BY Constants DEF KeepInv, KeepTypeInv, ReadLoopTimesOut, recv
<1>3. ~Renewal
  <2>1. \A i \in 1..Len(queue) : busy + i * HandlerTime \in Nat
    BY <1>2, Constants, LenProperties, Times
  <2>2. QED
    BY <1>2, <2>1 DEF Renewal
<1>4. ~(left > due + (longest + 1) * HandlerTime)
  <2>1. (longest + 1) * HandlerTime \in Nat
    BY <1>2, Constants, Times
  <2>2. QED
    BY <1>2, <2>1
<1>5. server = "silent" \/ game = "returned" \/ ~ClearedInTime(longest)
  <2>1. KeptWith(longest) /\ longest <= longest
    BY <1>2 DEF KeepInv, KeptInv
  <2>2. QED
    BY <1>2, <1>3, <1>4, <2>1 DEF KeepInv, KeepTypeInv, EarlyInv, KeptWith, ReadLoopTimesOut, recv
<1>6. QED
  BY <1>1, <1>5 DEF KeepInv, LiveServerIsKept, ReadLoopTimesOut, ClearedInTime, recv

(* HandleGame takes the first packet: what waited waits as long as before. *)
LEMMA TakesKeeps == ASSUME KeepInv, HandleGameTakes PROVE KeepInv'
<1>1. /\ queue \in Seq(Packets) /\ queue # <<>> /\ busy = 0 /\ busy' = HandlerTime
      /\ HandlerTime \in Nat /\ Len(queue) \in Nat \ {0} /\ Head(queue) \in Packets
      /\ queue' \in Seq(Packets) /\ Len(queue') = Len(queue) - 1
      /\ \A i \in 1..Len(queue') : queue'[i] = queue[i + 1]
      /\ handling' = <<Head(queue)>> /\ left' = left
  BY Constants, EmptySeq, HeadTailProperties DEF KeepInv, KeepTypeInv, HandleGameTakes
<1>2. KeepTypeInv'
  BY <1>1, Constants DEF KeepInv, KeepTypeInv, HandleGameTakes
<1>3. EarlyInv' /\ LiveServerIsKept'
  BY <1>1 DEF KeepInv, EarlyInv, LiveServerIsKept, HandleGameTakes
<1>4. ASSUME Renewal PROVE Renewal'
  <2>1. PICK i \in 1..Len(queue) : Renews(queue[i]) /\ left > busy + i * HandlerTime
    BY <1>4 DEF Renewal, HandleGameTakes
  <2>2. CASE i = 1
    BY <1>1, <2>1, <2>2 DEF Renewal
  <2>3. CASE i > 1
    <3>1. i - 1 \in 1..Len(queue') /\ queue'[i - 1] = queue[i]
      BY <1>1, <2>1, <2>3
    <3>2. i - 1 \in Nat /\ i * HandlerTime = (i - 1) * HandlerTime + HandlerTime
          /\ (i - 1) * HandlerTime \in Nat
      <4>1. i - 1 \in Nat /\ i = (i - 1) + 1
        BY <1>1, <2>1, <2>3
      <4>2. QED
        BY <1>1, <4>1, Times
    <3>3. busy + i * HandlerTime = busy' + (i - 1) * HandlerTime
      BY <1>1, <3>2
    <3>4. QED
      BY <1>1, <2>1, <3>1, <3>3 DEF Renewal
  <2>4. QED
    BY <1>1, <2>1, <2>2, <2>3
<1>5. KeptInv'
  BY <1>4 DEF KeepInv, KeptInv, KeptWith, HandleGameTakes
<1>6. QED
  BY <1>2, <1>3, <1>5 DEF KeepInv

(* A handler returns: the deadline is renewed, or was not near.            *)
LEMMA ReturnKeeps == ASSUME KeepInv, HandlerReturns PROVE KeepInv'
<1>1. KeepTypeInv'
  BY Constants, EmptySeq DEF KeepInv, KeepTypeInv, HandlerReturns, recv
<1>2. EarlyInv' /\ LiveServerIsKept'
  BY DEF KeepInv, EarlyInv, LiveServerIsKept, HandlerReturns, recv
<1>3. CASE Renews(Head(handling))
  <2>1. left' = KeepAliveDuration /\ due' = due /\ due \in 0..Period
    BY <1>3 DEF KeepInv, KeepTypeInv, HandlerReturns, recv
  <2>2. ASSUME NEW n \in Nat, ClearedInTime(n)
        PROVE  left' > due' + (n + 1) * HandlerTime
    <3>1. (n + 1) * HandlerTime \in Nat
      BY Constants, Times
    <3>2. QED
      BY <2>1, <2>2, <3>1, Constants DEF ClearedInTime
  <2>3. KeptInv'
    BY <2>2 DEF KeptInv, KeptWith, ClearedInTime
  <2>4. QED
    BY <1>1, <1>2, <2>3 DEF KeepInv
<1>4. CASE ~Renews(Head(handling))
  <2>1. left' = left /\ busy' = 0 /\ queue' = queue /\ busy \in Nat /\ queue \in Seq(Packets)
    BY <1>4 DEF KeepInv, KeepTypeInv, HandlerReturns, recv
  <2>2. ASSUME Renewal, left # Never PROVE Renewal'
    <3>1. PICK i \in 1..Len(queue) : Renews(queue[i]) /\ left > busy + i * HandlerTime
      BY <1>4, <2>2 DEF Renewal
    <3>2. i * HandlerTime \in Nat /\ left \in Nat
      BY <2>1, <2>2, <3>1, Constants, LenProperties, Times DEF KeepInv, KeepTypeInv
    <3>3. left' > busy' + i * HandlerTime
      BY <2>1, <3>1, <3>2
    <3>4. QED
      BY <2>1, <3>1, <3>3 DEF Renewal
  <2>3. KeptInv'
    BY <2>1, <2>2 DEF KeepInv, KeptInv, KeptWith, HandlerReturns, recv
  <2>4. QED
    BY <1>1, <1>2, <2>3 DEF KeepInv
<1>5. QED
  BY <1>3, <1>4

(* No step of the connection breaks the invariant.                         *)
LEMMA KeepStep == ASSUME KeepInv, KeepNext PROVE KeepInv'
<1>1. CASE ServerLogsIn
  BY <1>1, GetsKeeps, Constants DEF ServerLogsIn, Packets, Renews
<1>2. CASE ServerKeepsAlive
  BY <1>2, GetsKeeps, Constants DEF ServerKeepsAlive, Packets, Renews
<1>3. CASE ServerSendsOther
  BY <1>3, GetsKeeps DEF ServerSendsOther, Packets, KeepInv, KeepTypeInv
<1>4. CASE ServerFallsSilent
  BY <1>4 DEF ServerFallsSilent, KeepInv, KeepTypeInv, EarlyInv, KeptInv, KeptWith, LiveServerIsKept, recv
<1>5. CASE ReadLoopTimesOut
  BY <1>5, TimesOutKeeps
<1>6. CASE SocketCloses
  BY <1>6 DEF SocketCloses, KeepInv, KeepTypeInv, EarlyInv, KeptInv, KeptWith, LiveServerIsKept, recv
<1>7. CASE HandleGameTakes
  BY <1>7, TakesKeeps
<1>8. CASE HandleGameReturns
  BY <1>8 DEF HandleGameReturns, KeepInv, KeepTypeInv, EarlyInv, KeptInv, KeptWith, LiveServerIsKept, recv
<1>9. CASE HandlerReturns
  BY <1>9, ReturnKeeps
<1>10. CASE HandlerFails
  <2>1. KeepTypeInv'
    BY <1>10, EmptySeq, Constants DEF HandlerFails, KeepInv, KeepTypeInv, recv
  <2>2. QED
    BY <1>10, <2>1 DEF HandlerFails, KeepInv, EarlyInv, KeptInv, KeptWith, LiveServerIsKept, recv
<1>11. QED
  BY <1>1, <1>2, <1>3, <1>4, <1>5, <1>6, <1>7, <1>8, <1>9, <1>10 DEF KeepNext

(* Time passes: the deadline comes nearer, and what it waits for as well.  *)
LEMMA TickKeeps == ASSUME KeepInv, KeepMayTick, KeepTick PROVE KeepInv'
<1>1. KeepTypeInv'
  BY Constants DEF KeepInv, KeepTypeInv, KeepTick, Down, recv
<1>2. EarlyInv' /\ LiveServerIsKept'
  BY DEF KeepInv, EarlyInv, LiveServerIsKept, KeepTick, Down, recv
<1>3. ASSUME NEW n \in Nat, server = "live", game = "running", readLoop = "reading",
             left # Never, left > due + (n + 1) * HandlerTime \/ Renewal
      PROVE  left' > due' + (n + 1) * HandlerTime \/ Renewal'
  <2>1. left \in Nat \ {0} /\ left' = left - 1 /\ due \in Nat \ {0} /\ due' = due - 1
    BY <1>3, Constants DEF KeepInv, KeepTypeInv, KeepMayTick, KeepTick, Down, recv
  <2>2. CASE left > due + (n + 1) * HandlerTime
    <3>1. (n + 1) * HandlerTime \in Nat
      BY Constants, Times
    <3>2. QED
      BY <2>1, <2>2, <3>1
  <2>3. CASE Renewal
    <3>1. handling # <<>> /\ busy \in Nat \ {0} /\ busy' = busy - 1
      <4>1. handling # <<>>
        BY <1>3, <2>3, EmptySeq DEF KeepInv, KeepTypeInv, Renewal, KeepMayTick
      <4>2. QED
        BY <4>1, Constants DEF KeepInv, KeepTypeInv, KeepMayTick, KeepTick, Down, recv
    <3>2. queue' = queue /\ handling' = handling /\ queue \in Seq(Packets)
      BY DEF KeepInv, KeepTypeInv, KeepTick, recv
    <3>3. \A i \in 1..Len(queue) : i * HandlerTime \in Nat
      BY <3>2, Constants, LenProperties, Times
    <3>4. QED
      BY <2>1, <2>3, <3>1, <3>2, <3>3 DEF Renewal
  <2>4. QED
    BY <1>3, <2>2, <2>3
<1>4. KeptInv'
  BY <1>3 DEF KeepInv, KeptInv, KeptWith, KeepTick, Down, recv
<1>5. QED
  BY <1>1, <1>2, <1>4 DEF KeepInv

(* A server that sends its keep-alives is taken for dead only after a      *)
(* backlog that handlers who take their time do not clear in time, for any *)
(* deadline, period and handler time, and with any queue: a bounded one    *)
(* that takes few enough packets rules it out, the default one does not.   *)
THEOREM KeptCorrect == Spec => []LiveServerIsKept
<1>1. Init => KeepInv
  BY KeepInitial DEF Init
<1>2. KeepInv /\ [Next]_vars => KeepInv'
  <2>1. ASSUME KeepInv, UNCHANGED keepVars PROVE KeepInv'
    BY <2>1 DEF keepVars, KeepInv, KeepTypeInv, EarlyInv, KeptInv, KeptWith,
               LiveServerIsKept, Renewal, recv
  <2>2. QED
    BY <2>1, KeepStep, TickKeeps DEF Next, Tick, vars
<1>3. KeepInv => LiveServerIsKept
  BY DEF KeepInv
<1>4. QED
  BY <1>1, <1>2, <1>3, PTL DEF Spec

-----------------------------------------------------------------------------
(* The status request *)

(* What is on its way to the client are the answers after the first k.     *)
Behind(k) ==
    /\ Len(answers) = Len(link) + k
    /\ \A i \in 1..Len(link) : link[i] = answers[i + k]

Honest ==
    /\ asked = <<"list", "ping">>
    /\ Len(answers) >= 2
    /\ result.data = AsString(answers[1])
    /\ answers[2] = "pong"

(* How far the call is tells what was asked and which answers it has read. *)
PingInv ==
    /\ link \in Seq(Answers) /\ answers \in Seq(Answers)
    /\ step \in {"dial", "request", "readStatus", "ping", "readPong", "returned"}
    /\ step \in {"dial", "request"} => asked = <<>> /\ Behind(0)
    /\ step = "readStatus" => asked = <<"list">> /\ Behind(0)
    /\ step = "ping" => asked = <<"list">> /\ Behind(1) /\ status = AsString(answers[1])
    /\ step = "readPong" =>
          asked = <<"list", "ping">> /\ Behind(1) /\ status = AsString(answers[1])
    /\ step # "returned" => result.err # "nil"
    /\ result.err = "nil" => Honest

(* A failed call reports an error, also when GetServerInfo has overwritten *)
(* it.                                                                     *)
LEMMA FailureIsTold ==
    ASSUME NEW err, err # "nil", Returns(Failed(err))
    PROVE  result'.err # "nil"
  BY DEF Returns, Returned, Decoded, Failed

(* The second element of a sequence of one that grows.                     *)
LEMMA AppendToOne ==
    ASSUME NEW S, NEW s \in Seq(S), NEW e \in S, Len(s) = 1
    PROVE  /\ Append(s, e) \in Seq(S) /\ Len(Append(s, e)) = 2
           /\ Append(s, e)[1] = s[1] /\ Append(s, e)[2] = e
<1>1. Append(s, e) \in Seq(S) /\ Len(Append(s, e)) = 2
  <2>1. Append(s, e) \in Seq(S)
    BY AppendProperties
  <2>2. Len(Append(s, e)) = Len(s) + 1
    BY AppendProperties
  <2>3. QED
    BY <2>1, <2>2
<1>2. Append(s, e)[1] = s[1]
  BY AppendProperties
<1>3. Append(s, e)[2] = e
  BY AppendProperties
<1>4. QED
  BY <1>1, <1>2, <1>3

(* A pair is a sequence of one with a second element.                      *)
LEMMA Pair == ASSUME NEW x, NEW y PROVE Append(<<x>>, y) = <<x, y>>
<1> DEFINE S == {x, y}
           s == <<x>>
           t == <<x, y>>
<1>1. s \in Seq(S) /\ Len(s) = 1 /\ s[1] = x /\ y \in S
  OBVIOUS
<1>2. t \in Seq(S) /\ Len(t) = 2 /\ t[1] = x /\ t[2] = y
  OBVIOUS
<1> HIDE DEF S, s, t
<1>3. /\ Append(s, y) \in Seq(S) /\ Len(Append(s, y)) = 2
      /\ Append(s, y)[1] = s[1] /\ Append(s, y)[2] = y
  BY <1>1, AppendToOne
<1>4. Append(s, y) = t
  <2>1. \A i \in 1..2 : Append(s, y)[i] = t[i]
    BY <1>1, <1>2, <1>3
  <2>2. QED
    BY <1>2, <1>3, <2>1, SeqEqual
<1>5. QED
  BY <1>4 DEF s, t

(* Nothing is asked or answered yet.                                       *)
LEMMA PingInitial == PingInit => PingInv
  BY EmptySeq DEF PingInit, PingInv, Behind, NoResult

(* An answer goes last on the link and last in the history.                *)
LEMMA AnswerKeeps == ASSUME PingInv, NEW a \in Answers, ServerAnswers(a) PROVE PingInv'
<1>1. /\ answers' \in Seq(Answers) /\ link' \in Seq(Answers)
      /\ Len(answers) \in Nat /\ Len(link) \in Nat
      /\ Len(answers') = Len(answers) + 1 /\ Len(link') = Len(link) + 1
      /\ answers'[Len(answers) + 1] = a /\ link'[Len(link) + 1] = a
      /\ \A i \in 1..Len(answers) : answers'[i] = answers[i]
      /\ \A i \in 1..Len(link) : link'[i] = link[i]
  BY AppendProperties, LenProperties DEF PingInv, ServerAnswers
<1>2. ASSUME NEW k \in {0, 1}, Behind(k) PROVE Behind(k)'
  BY <1>1, <1>2 DEF Behind
<1>3. ASSUME Behind(1) PROVE answers'[1] = answers[1]
  BY <1>1, <1>3 DEF Behind
<1>4. ASSUME Honest PROVE Honest'
  BY <1>1, <1>4 DEF Honest, ServerAnswers
<1>5. QED
  BY <1>1, <1>2, <1>3, <1>4 DEF PingInv, ServerAnswers

(* The first packet read is the server's first answer, and it is read      *)
(* after the list was asked.                                               *)
LEMMA ReadStatusKeeps == ASSUME PingInv, PingReadStatus PROVE PingInv'
<1>1. CASE ReadGets /\ link' = Tail(link) /\ Head(link) # "broken"
  <2>1. /\ link # <<>> /\ link \in Seq(Answers) /\ Len(link) \in Nat \ {0}
        /\ link' \in Seq(Answers) /\ Len(link') = Len(link) - 1 /\ Head(link) = link[1]
        /\ \A i \in 1..Len(link') : link'[i] = link[i + 1]
    BY <1>1, EmptySeq, HeadTailProperties DEF PingInv, ReadGets
  <2>2. step = "readStatus" /\ asked = <<"list">> /\ Behind(0) /\ result.err # "nil"
    BY DEF PingReadStatus, PingInv
  <2>3. link' # link
    BY <2>1
  <2>4. Proceeds("ping") /\ status' = AsString(Head(link)) /\ UNCHANGED <<asked, answers>>
    BY <1>1, <2>3 DEF PingReadStatus
  <2>5. Behind(1)' /\ status' = AsString(answers'[1])
    BY <2>1, <2>2, <2>4 DEF Behind
  <2>6. QED
    BY <2>1, <2>2, <2>4, <2>5 DEF PingInv, Proceeds
<1>2. CASE link' \in Seq(Answers) /\ \E err \in {"scan", "read"} : Returns(Failed(err))
  <2>1. result'.err # "nil" /\ step' = "returned"
    BY <1>2, FailureIsTold DEF Returns
  <2>2. QED
    BY <1>2, <2>1 DEF PingReadStatus, PingInv
<1>3. ASSUME ReadGets PROVE Tail(link) \in Seq(Answers)
  BY <1>3, HeadTailProperties DEF PingInv, ReadGets
<1>4. QED
  BY <1>1, <1>2, <1>3 DEF PingReadStatus, PingInv

(* The second packet read is the server's second answer, and only a pong   *)
(* of this call's number is a success.                                     *)
LEMMA ReadPongKeeps == ASSUME PingInv, PingReadPong PROVE PingInv'
<1>1. link' \in Seq(Answers) /\ step' = "returned"
  BY HeadTailProperties DEF PingReadPong, PingInv, ReadGets, Returns
<1>2. ASSUME result'.err = "nil" PROVE Honest'
  <2>1. ReadGets /\ Head(link) = "pong" /\ Returns([data |-> status, err |-> "nil"])
    <3>1. \A err \in {"scan", "mismatch", "read"} : ~Returns(PongFailure(err))
      BY <1>2, FailureIsTold DEF PongFailure
    <3>2. QED
      BY <3>1 DEF PingReadPong
  <2>2. result'.data = status
    BY <1>2, <2>1 DEF Returns, Returned, Decoded, Failed
  <2>3. Len(link) \in Nat \ {0} /\ Head(link) = link[1]
    BY <2>1, EmptySeq DEF PingInv, ReadGets
  <2>4. Len(answers) >= 2 /\ answers[2] = "pong"
    BY <2>1, <2>3 DEF PingReadPong, PingInv, Behind
  <2>5. QED
    BY <2>2, <2>4 DEF PingReadPong, PingInv, Honest
<1>3. QED
  BY <1>1, <1>2 DEF PingReadPong, PingInv

(* No step of a ping breaks the invariant.                                 *)
LEMMA PingStep == ASSUME PingInv, PingNext PROVE PingInv'
<1>1. CASE PingDial
  <2>1. result' = result \/ result'.err # "nil"
    BY <1>1 DEF PingDial, Returns, Returned, Decoded, Failed
  <2>2. QED
    BY <1>1, <2>1 DEF PingDial, Returns, PingInv, Behind, Honest
<1>2. CASE PingRequest \/ PingPing
  <2>1. CASE Returns(Failed("write"))
    BY <1>2, <2>1, FailureIsTold DEF PingRequest, PingPing, PingWrites, Returns, PingInv
  <2>2. CASE PingRequest /\ asked' = Append(asked, "list") /\ Proceeds("readStatus")
    <3>1. /\ asked = <<>> /\ Behind(0) /\ result.err # "nil"
          /\ step' = "readStatus" /\ UNCHANGED <<link, answers, status, result>>
      BY <2>2 DEF PingRequest, PingWrites, PingInv, Proceeds
    <3>2. asked' = <<"list">> /\ Behind(0)'
      BY <2>2, <3>1 DEF Behind
    <3>3. QED
      BY <3>1, <3>2 DEF PingInv
  <2>3. CASE PingPing /\ asked' = Append(asked, "ping") /\ Proceeds("readPong")
    <3>1. /\ asked = <<"list">> /\ Behind(1) /\ result.err # "nil"
          /\ status = AsString(answers[1])
          /\ step' = "readPong" /\ UNCHANGED <<link, answers, status, result>>
      BY <2>3 DEF PingPing, PingWrites, PingInv, Proceeds
    <3>2. Append(<<"list">>, "ping") = <<"list", "ping">>
      BY Pair
    <3>3. asked' = <<"list", "ping">> /\ Behind(1)'
      BY <2>3, <3>1, <3>2 DEF Behind
    <3>4. QED
      BY <3>1, <3>3 DEF PingInv
  <2>4. QED
    BY <1>2, <2>1, <2>2, <2>3 DEF PingRequest, PingPing, PingWrites
<1>3. CASE PingReadStatus
  BY <1>3, ReadStatusKeeps
<1>4. CASE PingReadPong
  BY <1>4, ReadPongKeeps
<1>5. CASE ServerHangsUp
  BY <1>5 DEF ServerHangsUp, PingInv, Behind, Honest
<1>6. CASE \E a \in Answers : ServerAnswers(a)
  BY <1>6, AnswerKeeps
<1>7. QED
  BY <1>1, <1>2, <1>3, <1>4, <1>5, <1>6 DEF PingNext, Ping

(* Success of a status request means that the list was asked and answered, *)
(* and that the pong is the one of this call's ping.                       *)
THEOREM HonestCorrect == Spec => []PingIsHonest
<1>1. Init => PingInv
  BY PingInitial DEF Init
<1>2. PingInv /\ [Next]_vars => PingInv'
  <2>1. ASSUME PingInv, UNCHANGED <<link, answers, step, asked, status, result>> PROVE PingInv'
    BY <2>1 DEF PingInv, Behind, Honest
  <2>2. QED
    BY <2>1, PingStep DEF Next, Tick, PingTick, vars, pingVars
<1>3. PingInv => PingIsHonest
  BY DEF PingInv, Honest, PingIsHonest
<1>4. QED
  BY <1>1, <1>2, <1>3, PTL DEF Spec

=============================================================================
