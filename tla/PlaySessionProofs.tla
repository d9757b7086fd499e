------------------------- MODULE PlaySessionProofs --------------------------
(***************************************************************************)
(* PlaySession: the registry keeps its order whoever registers when, a     *)
(* packet runs what is due, and what the player, the chunks, the answers,  *)
(* the player list and the chat are after a packet is what the server said.*)
(*                                                                         *)
(* StructInv is the shape of the registry and of the loop over it, and has *)
(* no other invariant in it.  Each of the others says of one handler's     *)
(* state that it agrees with the server's packets, or that the handler is  *)
(* Pending: still ahead of the loop on the packet in hand.                 *)
(***************************************************************************)
EXTENDS PlaySession, FilterProofs

-----------------------------------------------------------------------------
(* The invariant *)

(* Who registers a handler, the packets handled by one handler alone, and  *)
(* the handlers a packet may run.  A player registers those of its events  *)
(* in a call of their own.                                                 *)
Owner(name) ==
    IF name \in {"login", "keepAlive", "respawn", "ping"} THEN "player"
    ELSE IF name \in {"gameStart", "notice", "health", "position"} THEN "events"
    ELSE IF name \in {"chunk", "spawn"} THEN "world"
    ELSE IF name \in {"infoUpdate", "infoRemove"} THEN "players"
    ELSE IF name = "playerChat" THEN "chat" ELSE name

Owners == IF "player" \in made THEN made \union {"events"} ELSE made

AloneIds == SessionIds \ {"login", "respawn"}
HandlerOf(id) == H(id, IF id \in {"keepAlive", "ping", "chunk"} THEN 0 ELSE 64)

NamesFor(id) ==
    IF id = "login" THEN {"login", "gameStart", "spawn", "late"}
    ELSE IF id = "respawn" THEN {"respawn", "spawn"} ELSE {id}

(* The types.                                                              *)
Managers == {"player", "world", "players", "chat", "tap", "late"}
Slices == [list : Seq(Handlers), cap : Nat]
Loops == [over : {"none", "generic", "specific"}, id : SessionIds \union {"none"},
          array : Seq(Handlers), len : Nat, next : Nat,
          due : Seq(Handlers), ran : Seq(Handlers), shifted : BOOLEAN]

PlayTypeOK ==
    /\ loop \in Loops
    /\ game \in {"setup", "joined", "playing", "ended"} /\ made \subseteq Managers
    /\ serial \in Nat /\ joins \in Nat
    /\ game # "setup" => "player" \in made /\ joins > 0

(* A list has what was registered, by priority and age.                    *)
Earlier(reg, x, y) == \E i, j \in DOMAIN reg : i < j /\ reg[i] = x /\ reg[j] = y
Precedes(reg, x, y) == x.priority > y.priority \/ (x.priority = y.priority /\ Earlier(reg, x, y))

Once(reg) == \A i, j \in DOMAIN reg : reg[i] = reg[j] => i = j

RegisteredIn(list, reg) ==
    /\ Once(reg) /\ Len(list) = Len(reg)
    /\ \A i \in DOMAIN reg : \E j \in DOMAIN list : list[j] = reg[i]
    /\ \A j \in DOMAIN list : \E i \in DOMAIN reg : list[j] = reg[i]
    /\ \A i, j \in DOMAIN list : i < j => Precedes(reg, list[i], list[j])

(* What the lists have, of the handlers of owners.                         *)
In(x, list) == \E k \in DOMAIN list : list[k] = x
Has(list, name) == \E k \in DOMAIN list : list[k].name = name
Named(list, names) == \A k \in DOMAIN list : list[k].name \in names

RegistryOf(hs, rs, owners) ==
    /\ hs \in [PacketIds -> Slices] /\ rs \in [PacketIds -> Seq(Handlers)]
    /\ \A id \in PacketIds :
          /\ RegisteredIn(hs[id].list, rs[id])
          /\ Named(hs[id].list, NamesFor(id))
          /\ \A k \in DOMAIN hs[id].list : Owner(hs[id].list[k].name) \in owners
    /\ \A id \in AloneIds :
          hs[id].list = IF Owner(id) \in owners THEN <<HandlerOf(id)>> ELSE <<>>
    /\ "player" \in owners => /\ In(H("login", 0), hs["login"].list)
                              /\ In(H("respawn", 0), hs["respawn"].list)
    /\ "world" \in owners => In(H("spawn", 64), hs["login"].list)

Taps == { h \in Handlers : h.name = "tap" }

RegistryInv ==
    /\ generic \in Slices /\ generic.list \in Seq(Taps)
    /\ RegistryOf(handlers, registered, Owners)

(* The loop that runs is over the list or over an array it has left.       *)
LoopInv ==
    /\ loop.over = "none" => loop = NoLoop
    /\ loop.over # "none" =>
          /\ game = "playing" /\ loop.id = packet.id /\ loop.id \in SessionIds
          /\ loop.len <= Len(loop.array) /\ loop.next \in 1 .. loop.len + 1
          /\ ~loop.shifted => loop.len = Len(loop.array)
          /\ loop.shifted => loop.over = "specific" /\ loop.id = "login"
    /\ loop.over = "generic" => loop.array \in Seq(Taps)
    /\ loop.over = "specific" =>
          /\ Named(loop.array, NamesFor(loop.id))
          /\ \/ loop.array = handlers[loop.id].list
             \/ loop.id = "login" /\ Len(loop.array) < Len(handlers["login"].list)

StructInv == PlayTypeOK /\ RegistryInv /\ LoopInv

(* What ran is what is due, so far.                                        *)
DispatchInv ==
    (loop.over # "none" /\ ~loop.shifted) =>
        \E before \in Seq(Handlers) :
            /\ loop.due = before \o loop.array
            /\ loop.ran = before \o SubSeq(loop.array, 1, loop.next - 1)

(* What the server has said, and what is kept of it.                       *)
TruthShape ==
    truth = [eid |-> truth.eid, loginDim |-> truth.loginDim, dim |-> truth.dim,
             listed |-> truth.listed, disturbed |-> truth.disturbed]

BaseInv == StructInv /\ TruthShape

(* The handler of that name has yet to run on the packet in hand.          *)
Pending(name) ==
    /\ packet.id = name
    /\ \/ loop.over = "generic"
       \/ loop.over = "specific" /\ \E k \in loop.next .. loop.len : loop.array[k].name = name

(* The player is what the server said, or the handler is still to run.     *)
PlayerInv ==
    /\ player = [eid |-> player.eid, dimType |-> player.dimType, dimName |-> player.dimName]
    /\ (game = "playing" /\ Undisturbed) =>
          /\ (player.eid = joins /\ player.dimType = truth.loginDim) \/ Pending("login")
          /\ player.dimName = truth.dim \/ Pending("login") \/ Pending("respawn")
    /\ (loop.over # "none" /\ packet.id = "login") =>
          packet.eid = joins /\ packet.dim = truth.loginDim /\ packet.dim = truth.dim
    /\ (loop.over # "none" /\ packet.id = "respawn") => packet.dim = truth.dim

(* The same of the chunks.  Only a late listener may come before "spawn"   *)
(* in a loop that runs, and only while no other was added.                 *)
SpawnAhead ==
    \E k \in loop.next .. loop.len :
        loop.array[k].name = "spawn" /\ ("late" \in made \/ k < loop.len)

ChunksInv ==
    /\ "world" \notin made => chunksOf = 0
    /\ (game = "playing" /\ "world" \in made) =>
          \/ chunksOf \in {0, joins}
          \/ packet.id = "login" /\ loop.over = "generic"
          \/ packet.id = "login" /\ loop.over = "specific" /\ SpawnAhead

(* What is still to be answered to the packet in hand.                     *)
Sequence(s) == \E S : s \in Seq(S)

Asks(p) == p.id \in {"keepAlive", "ping", "position"} \/ (p.id = "health" /\ p.dead)
KindOf(p) == IF p.id = "health" THEN "performRespawn" ELSE p.id
Owed == IF Pending(packet.id) /\ Asks(packet) THEN << <<KindOf(packet), serial>> >> ELSE <<>>

AskedInv ==
    /\ Sequence(asked) /\ Sequence(out)
    /\ game = "playing" => asked = out \o Owed
    /\ game = "joined" => asked = <<>> /\ out = <<>>
    /\ \A i \in DOMAIN asked :
          /\ asked[i][2] \in Nat /\ asked[i][2] <= serial
          /\ (asked[i][1] = "performRespawn" /\ asked[i][2] = serial) =>
                packet.id = "health" /\ packet.dead

(* Nothing was heard of a packet to come; what asks for a respawn was told *)
(* whole.                                                                  *)
ToldAt(what, s) == \E j \in DOMAIN heard : heard[j] = <<what, s>>
HeardInv ==
    /\ Sequence(heard)
    /\ \A i \in DOMAIN heard : heard[i][2] \in Nat /\ heard[i][2] <= serial
    /\ \A i \in DOMAIN asked :
          (asked[i][1] = "performRespawn" /\ ToldAt("health", asked[i][2])) => ToldAt("death", asked[i][2])

(* What packet p, the sth, of session j makes of a list.                   *)
ListWith(list, p, s, j) ==
    IF p.id = "infoUpdate"
    THEN [u \in DOMAIN list \union p.uuids |->
             IF u \notin p.uuids THEN list[u]
             ELSE [name |-> IF p.add THEN j ELSE IF u \in DOMAIN list THEN list[u].name ELSE 0,
                   gamemode |-> s]]
    ELSE [u \in DOMAIN list \ p.uuids |-> list[u]]

(* The list, once the packet in hand is handled.                           *)
ListPending == Pending("infoUpdate") \/ Pending("infoRemove")
ListAfter == IF ListPending THEN ListWith(playerInfos, packet, serial, joins) ELSE playerInfos

ListAgrees(list, listed, j) ==
    /\ \A u \in DOMAIN listed : u \in DOMAIN list /\ list[u] = listed[u]
    /\ \A u \in DOMAIN list \ DOMAIN listed : list[u].name # j

ListInv ==
    /\ \A u \in DOMAIN playerInfos : playerInfos[u].name \in Nat /\ playerInfos[u].name <= joins
    /\ ("players" \in made /\ game \in {"joined", "playing"}) =>
          ListAgrees(ListAfter, truth.listed, joins)

(* What listed players said was heard, or is the packet in hand.           *)
Coming ==
    IF Pending("playerChat") /\ packet.sender \in DOMAIN truth.listed
    THEN << <<"chat", serial, packet.sender, truth.listed[packet.sender].name>> >> ELSE <<>>

ChatInv ==
    /\ "chat" \in made => "players" \in made
    /\ Sequence(said)
    /\ \A i \in DOMAIN said : said[i][2] \in Nat /\ said[i][2] <= serial
    /\ (game \in {"joined", "playing"} /\ SaidAt(serial)) =>
          packet.id = "playerChat" /\ packet.sender \in DOMAIN truth.listed
    /\ ("chat" \in made /\ game \in {"joined", "playing"}) =>
          /\ Kept(heard, SaidChats) \o Coming = said
          /\ \A i \in DOMAIN heard :
                heard[i][1] = "chat" /\ ~SaidAt(heard[i][2]) => heard[i][4] # joins

-----------------------------------------------------------------------------
(* Where a handler goes in a list *)

Descending(list) == \A i, j \in DOMAIN list : i < j => list[i].priority >= list[j].priority

(* The list is split where the priorities get below p.                     *)
LEMMA SplitPoint ==
    ASSUME NEW list \in Seq(Handlers), Descending(list), NEW p \in Nat
    PROVE  \E n \in 0 .. Len(list) :
              /\ \A i \in 1 .. n : list[i].priority >= p
              /\ \A i \in n + 1 .. Len(list) : list[i].priority < p
<1> DEFINE T == { m \in 0 .. Len(list) : \A i \in m + 1 .. Len(list) : list[i].priority < p }
<1>1. Len(list) \in Nat /\ DOMAIN list = 1 .. Len(list)
  BY LenProperties
<1>2. \A i \in 1 .. Len(list) : list[i] \in Handlers /\ list[i].priority \in Nat
  BY ElementOfSeq, EventsAssumption
<1>3. Len(list) \in T /\ T \in SUBSET Nat
  BY <1>1
<1>4. PICK n \in T : \A m \in T : n <= m
  <2> HIDE DEF T
  <2>1. QED
    BY <1>3, Smallest
<1>5. ASSUME NEW i \in 1 .. n PROVE list[i].priority >= p
  <2>1. n \in 1 .. Len(list) /\ n - 1 \in 0 .. Len(list) /\ n - 1 \notin T
    BY <1>1, <1>4, <1>5
  <2>2. PICK k \in (n - 1) + 1 .. Len(list) : ~(list[k].priority < p)
    BY <2>1
  <2>3. k = n
    BY <1>4, <2>1, <2>2, <1>1
  <2>4. list[n].priority >= p
    BY <2>1, <2>2, <2>3, <1>2
  <2>5. i = n \/ list[i].priority >= list[n].priority
    BY <1>1, <2>1 DEF Descending
  <2>6. QED
    BY <2>1, <2>4, <2>5, <1>2, <1>1
<1>6. QED
  BY <1>4, <1>5

(* SortedWith puts h there.                                                *)
LEMMA SortedWithPlace ==
    ASSUME NEW list \in Seq(Handlers), Descending(list), NEW h \in Handlers
    PROVE  /\ SortedWith(list, h) \in Seq(Handlers)
           /\ Len(SortedWith(list, h)) = Len(list) + 1
           /\ \E n \in 0 .. Len(list) :
                 /\ \A i \in 1 .. n : SortedWith(list, h)[i] = list[i] /\ list[i].priority >= h.priority
                 /\ SortedWith(list, h)[n + 1] = h
                 /\ \A i \in n + 1 .. Len(list) :
                       SortedWith(list, h)[i + 1] = list[i] /\ list[i].priority < h.priority
<1>1. h.priority \in Nat
  BY EventsAssumption
<1>2. PICK n \in 0 .. Len(list) :
              /\ \A i \in 1 .. n : list[i].priority >= h.priority
              /\ \A i \in n + 1 .. Len(list) : list[i].priority < h.priority
  BY <1>1, SplitPoint
<1>3. Len(list) \in Nat /\ \A i \in 1 .. Len(list) : list[i] \in Handlers /\ list[i].priority \in Nat
  BY LenProperties, ElementOfSeq, EventsAssumption
<1> DEFINE s == SubSeq(list, 1, n)
           t == SubSeq(list, n + 1, Len(list))
           K == AtLeast(h.priority)
           L == Below(h.priority)
<1>4. /\ s \in Seq(Handlers) /\ Len(s) = n /\ \A i \in 1 .. n : s[i] = list[i]
  <2>1. \A i \in 1 .. n : list[i] \in Handlers
    BY <1>2, <1>3
  <2>2. n \in Nat
    BY <1>2, <1>3
  <2>3. QED
    BY <2>1, <2>2, SubSeqProperties
<1>5. /\ t \in Seq(Handlers) /\ Len(t) = Len(list) - n
      /\ \A i \in 1 .. Len(list) - n : t[i] = list[n + i]
  <2>1. \A i \in n + 1 .. Len(list) : list[i] \in Handlers
    BY <1>2, <1>3
  <2>2. n \in Nat /\ n <= Len(list)
    BY <1>2, <1>3
  <2>3. /\ t \in Seq(Handlers) /\ Len(t) = IF n + 1 <= Len(list) THEN Len(list) - (n + 1) + 1 ELSE 0
        /\ \A i \in 1 .. Len(list) - (n + 1) + 1 : t[i] = list[(n + 1) + i - 1]
    BY <1>3, <2>1, <2>2, SubSeqProperties
  <2> HIDE DEF t
  <2>4. QED
    BY <1>3, <2>2, <2>3
<1>6. list = s \o t
  <2>1. SubSeq(list, 1, n) \o SubSeq(list, n + 1, Len(list)) = SubSeq(list, 1, Len(list))
    <3>1. /\ 1 \in 1 .. Len(list) + 1 /\ n \in (1 - 1) .. Len(list)
          /\ Len(list) \in n .. Len(list)
      BY <1>2, <1>3
    <3>2. QED
      BY <3>1, ConcatAdjacentSubSeq
  <2>2. QED
    BY <2>1, SubSeqFull
<1> HIDE DEF s, t
<1>7. /\ \A i \in 1 .. Len(s) : s[i] \in K /\ s[i] \notin L
      /\ \A i \in 1 .. Len(t) : t[i] \in L /\ t[i] \notin K
  <2>1. ASSUME NEW i \in 1 .. Len(s) PROVE s[i] \in K /\ s[i] \notin L
    <3>1. i \in 1 .. Len(list) /\ s[i] = list[i] /\ list[i].priority >= h.priority
      BY <1>2, <1>3, <1>4
    <3>2. QED
      BY <1>1, <1>3, <3>1 DEF AtLeast, Below
  <2>2. ASSUME NEW i \in 1 .. Len(t) PROVE t[i] \in L /\ t[i] \notin K
    <3>1. n + i \in 1 .. Len(list) /\ n + i \in n + 1 .. Len(list) /\ t[i] = list[n + i]
      BY <1>2, <1>3, <1>5
    <3>2. list[n + i].priority < h.priority
      BY <1>2, <3>1
    <3>3. QED
      BY <1>1, <1>3, <3>1, <3>2 DEF AtLeast, Below
  <2>3. QED
    BY <2>1, <2>2
<1>8. Kept(list, K) = s /\ Kept(list, L) = t
  <2> HIDE DEF K, L
  <2>1. \A M : Kept(s \o t, M) = Kept(s, M) \o Kept(t, M)
    BY <1>4, <1>5, KeptConcat
  <2>2. Kept(s, K) = s /\ Kept(t, L) = t
    BY <1>4, <1>5, <1>7, KeptAll
  <2>3. Kept(t, K) = <<>> /\ Kept(s, L) = <<>>
    BY <1>4, <1>5, <1>7, KeptNone
  <2>4. QED
    BY <1>4, <1>5, <1>6, <2>1, <2>2, <2>3, ConcatEmptySeq
<1>9. SortedWith(list, h) = s \o <<h>> \o t
  BY <1>8 DEF SortedWith
<1> DEFINE new == SortedWith(list, h)
<1>10. /\ new \in Seq(Handlers) /\ Len(new) = Len(list) + 1
       /\ \A i \in 1 .. n : new[i] = s[i]
       /\ new[n + 1] = h
       /\ \A i \in n + 2 .. Len(list) + 1 : new[i] = t[i - (n + 1)]
  <2>1. <<h>> \in Seq(Handlers) /\ Len(<<h>>) = 1 /\ <<h>>[1] = h
    OBVIOUS
  <2> DEFINE a == s \o <<h>>
  <2>2. a \in Seq(Handlers) /\ Len(a) = n + 1 /\ \A i \in 1 .. n + 1 : a[i] = IF i <= n THEN s[i] ELSE h
    BY <1>4, <2>1, ConcatProperties
  <2>3. new = a \o t
    BY <1>9
  <2> HIDE DEF a, new
  <2>4. /\ new \in Seq(Handlers) /\ Len(new) = Len(a) + Len(t)
        /\ \A i \in 1 .. Len(a) + Len(t) : new[i] = IF i <= Len(a) THEN a[i] ELSE t[i - Len(a)]
    BY <1>5, <2>2, <2>3, ConcatProperties
  <2>5. Len(a) + Len(t) = Len(list) + 1 /\ n \in Nat /\ n <= Len(list)
    BY <1>2, <1>3, <1>5, <2>2
  <2>6. /\ new \in Seq(Handlers) /\ Len(new) = Len(list) + 1
        /\ \A i \in 1 .. Len(list) + 1 : new[i] = IF i <= n + 1 THEN a[i] ELSE t[i - (n + 1)]
    BY <2>2, <2>4, <2>5
  <2>7. /\ \A i \in 1 .. n : i \in 1 .. Len(list) + 1 /\ i \in 1 .. n + 1 /\ i <= n + 1
        /\ n + 1 \in 1 .. Len(list) + 1 /\ n + 1 \in 1 .. n + 1 /\ ~(n + 1 <= n)
        /\ \A i \in n + 2 .. Len(list) + 1 : i \in 1 .. Len(list) + 1 /\ ~(i <= n + 1)
    BY <1>3, <2>5
  <2>8. ASSUME NEW i \in 1 .. n PROVE new[i] = s[i]
    <3>1. i \in 1 .. Len(list) + 1 /\ i \in 1 .. n + 1 /\ i <= n + 1 /\ i <= n
      BY <2>5, <2>7
    <3>2. new[i] = a[i] /\ a[i] = s[i]
      BY <2>2, <2>6, <3>1
    <3>3. QED
      BY <3>2
  <2>9. new[n + 1] = h
    <3>1. new[n + 1] = a[n + 1]
      BY <2>5, <2>6, <2>7
    <3>2. a[n + 1] = h
      BY <2>2, <2>7
    <3>3. QED
      BY <3>1, <3>2
  <2>10. \A i \in n + 2 .. Len(list) + 1 : new[i] = t[i - (n + 1)]
    BY <2>6, <2>7
  <2>11. QED
    BY <2>6, <2>8, <2>9, <2>10
<1> HIDE DEF new
<1>11. \A i \in 1 .. n : new[i] = list[i]
  BY <1>4, <1>10
<1>12. ASSUME NEW i \in n + 1 .. Len(list) PROVE new[i + 1] = list[i]
  <2>1. i + 1 \in n + 2 .. Len(list) + 1 /\ i - n \in 1 .. Len(list) - n /\ (i + 1) - (n + 1) = i - n /\ n + (i - n) = i
    BY <1>2, <1>3
  <2>2. QED
    BY <1>5, <1>10, <2>1
<1>13. QED
  BY <1>2, <1>10, <1>11, <1>12 DEF new

(* So a list that has what was registered, by priority and age, has it     *)
(* with h too.                                                             *)
LEMMA RegisteredTypes ==
    ASSUME NEW list \in Seq(Handlers), NEW reg \in Seq(Handlers), RegisteredIn(list, reg)
    PROVE  Descending(list)
<1> SUFFICES ASSUME NEW i \in DOMAIN list, NEW j \in DOMAIN list, i < j
             PROVE  list[i].priority >= list[j].priority
  BY DEF Descending
<1>1. list[i] \in Handlers /\ list[j] \in Handlers
  BY ElementOfSeq, LenProperties
<1>2. list[i].priority \in Nat /\ list[j].priority \in Nat
  BY <1>1, EventsAssumption
<1>3. Precedes(reg, list[i], list[j])
  BY DEF RegisteredIn
<1>4. QED
  BY <1>2, <1>3 DEF Precedes

LEMMA RegisteredWith ==
    ASSUME NEW list \in Seq(Handlers), NEW reg \in Seq(Handlers), RegisteredIn(list, reg),
           NEW h \in Handlers, \A i \in DOMAIN reg : reg[i] # h
    PROVE  /\ SortedWith(list, h) \in Seq(Handlers)
           /\ Len(SortedWith(list, h)) = Len(list) + 1
           /\ RegisteredIn(SortedWith(list, h), Append(reg, h))
           /\ \A j \in DOMAIN SortedWith(list, h) :
                 SortedWith(list, h)[j] = h \/ \E i \in DOMAIN list : list[i] = SortedWith(list, h)[j]
           /\ \E j \in DOMAIN SortedWith(list, h) : SortedWith(list, h)[j] = h
           /\ \A i \in DOMAIN list :
                 \E j \in {i, i + 1} : j \in DOMAIN SortedWith(list, h) /\ SortedWith(list, h)[j] = list[i]
<1> DEFINE new == SortedWith(list, h)
           age == Append(reg, h)
<1>1. PICK n \in 0 .. Len(list) :
                 /\ \A i \in 1 .. n : new[i] = list[i] /\ list[i].priority >= h.priority
                 /\ new[n + 1] = h
                 /\ \A i \in n + 1 .. Len(list) : new[i + 1] = list[i] /\ list[i].priority < h.priority
  BY RegisteredTypes, SortedWithPlace
<1>2. new \in Seq(Handlers) /\ Len(new) = Len(list) + 1
  BY RegisteredTypes, SortedWithPlace
<1>3. /\ age \in Seq(Handlers) /\ Len(age) = Len(reg) + 1 /\ age[Len(reg) + 1] = h
      /\ \A i \in 1 .. Len(reg) : age[i] = reg[i]
  BY AppendProperties
<1> HIDE DEF new, age
<1>4. /\ Len(list) \in Nat /\ Len(reg) \in Nat /\ Len(list) = Len(reg)
      /\ DOMAIN list = 1 .. Len(list) /\ DOMAIN reg = 1 .. Len(reg)
      /\ DOMAIN new = 1 .. Len(list) + 1 /\ DOMAIN age = 1 .. Len(reg) + 1
  BY <1>2, <1>3, LenProperties DEF RegisteredIn
<1>5. h.priority \in Nat /\ \A i \in DOMAIN list : list[i].priority \in Nat
  BY EventsAssumption, ElementOfSeq, <1>4
<1>6. ASSUME NEW j \in DOMAIN new
      PROVE  \/ j \in 1 .. n /\ new[j] = list[j]
             \/ j = n + 1 /\ new[j] = h
             \/ j \in n + 2 .. Len(list) + 1 /\ j - 1 \in n + 1 .. Len(list) /\ new[j] = list[j - 1]
  <2>1. CASE j \in 1 .. n
    BY <1>1, <2>1
  <2>2. CASE j = n + 1
    BY <1>1, <2>2
  <2>3. CASE j \notin 1 .. n + 1
    <3>1. j - 1 \in n + 1 .. Len(list) /\ (j - 1) + 1 = j /\ j \in n + 2 .. Len(list) + 1
      BY <1>1, <1>4, <1>6, <2>3
    <3>2. QED
      BY <1>1, <3>1
  <2>4. QED
    BY <2>1, <2>2, <2>3, <1>1, <1>4
<1>7. \A j \in DOMAIN new : new[j] = h \/ \E i \in DOMAIN list : list[i] = new[j]
  <2> SUFFICES ASSUME NEW j \in DOMAIN new PROVE new[j] = h \/ \E i \in DOMAIN list : list[i] = new[j]
    OBVIOUS
  <2>1. n \in Nat /\ n <= Len(list)
    BY <1>1, <1>4
  <2>2. j \in 1 .. n => j \in DOMAIN list
    BY <1>4, <2>1
  <2>3. j - 1 \in n + 1 .. Len(list) => j - 1 \in DOMAIN list
    BY <1>4, <2>1
  <2>4. QED
    BY <1>6, <2>2, <2>3
<1>8. \E j \in DOMAIN new : new[j] = h
  BY <1>1, <1>4
<1>9. ASSUME NEW i \in DOMAIN list PROVE \E j \in {i, i + 1} : j \in DOMAIN new /\ new[j] = list[i]
  <2>1. CASE i \in 1 .. n
    BY <1>1, <1>4, <2>1
  <2>2. CASE i \in n + 1 .. Len(list)
    BY <1>1, <1>4, <2>2
  <2>3. QED
    BY <2>1, <2>2, <1>1, <1>4
<1>10. Once(age)
  <2>1. Once(reg)
    BY DEF RegisteredIn
  <2>2. \A i \in DOMAIN age : i \in DOMAIN reg \/ i = Len(reg) + 1
    BY <1>4
  <2>3. QED
    BY <1>3, <1>4, <2>1, <2>2 DEF Once
<1>11. \A i \in DOMAIN age : \E j \in DOMAIN new : new[j] = age[i]
  <2> SUFFICES ASSUME NEW i \in DOMAIN age PROVE \E j \in DOMAIN new : new[j] = age[i]
    OBVIOUS
  <2>1. CASE i \in DOMAIN reg
    <3>1. PICK k \in DOMAIN list : list[k] = reg[i]
      BY <2>1 DEF RegisteredIn
    <3>2. QED
      BY <1>3, <1>4, <1>9, <2>1, <3>1
  <2>2. CASE i \notin DOMAIN reg
    BY <1>3, <1>4, <1>8, <2>2
  <2>3. QED
    BY <2>1, <2>2
<1>12. \A j \in DOMAIN new : \E i \in DOMAIN age : new[j] = age[i]
  <2> SUFFICES ASSUME NEW j \in DOMAIN new PROVE \E i \in DOMAIN age : new[j] = age[i]
    OBVIOUS
  <2>1. CASE new[j] = h
    BY <1>3, <1>4, <2>1
  <2>2. CASE \E i \in DOMAIN list : list[i] = new[j]
    <3>1. PICK i \in DOMAIN list : list[i] = new[j]
      BY <2>2
    <3>2. PICK k \in DOMAIN reg : list[i] = reg[k]
      BY DEF RegisteredIn
    <3>3. k \in DOMAIN age /\ age[k] = new[j]
      BY <1>3, <1>4, <3>1, <3>2
    <3>4. QED
      BY <3>3
  <2>3. QED
    BY <1>7, <2>1, <2>2
<1>13. \A i, j \in DOMAIN list : i < j => Precedes(age, list[i], list[j])
  <2> SUFFICES ASSUME NEW i \in DOMAIN list, NEW j \in DOMAIN list, i < j
               PROVE  Precedes(age, list[i], list[j])
    OBVIOUS
  <2>1. Precedes(reg, list[i], list[j])
    BY DEF RegisteredIn
  <2>2. Earlier(reg, list[i], list[j]) => Earlier(age, list[i], list[j])
    <3> SUFFICES ASSUME NEW k \in DOMAIN reg, NEW m \in DOMAIN reg,
                        k < m /\ reg[k] = list[i] /\ reg[m] = list[j]
                 PROVE  Earlier(age, list[i], list[j])
      BY DEF Earlier
    <3>1. k \in DOMAIN age /\ m \in DOMAIN age /\ age[k] = reg[k] /\ age[m] = reg[m]
      BY <1>3, <1>4
    <3>2. QED
      BY <3>1 DEF Earlier
  <2>3. QED
    BY <2>1, <2>2 DEF Precedes
<1>14. \A i \in DOMAIN list : Earlier(age, list[i], h)
  <2> SUFFICES ASSUME NEW i \in DOMAIN list PROVE Earlier(age, list[i], h)
    OBVIOUS
  <2>1. PICK k \in DOMAIN reg : list[i] = reg[k]
    BY DEF RegisteredIn
  <2>2. k \in DOMAIN age /\ Len(reg) + 1 \in DOMAIN age /\ k < Len(reg) + 1 /\ age[k] = list[i]
    BY <1>3, <1>4, <2>1
  <2>3. QED
    BY <1>3, <2>2 DEF Earlier
<1>15. ASSUME NEW i \in DOMAIN new, NEW j \in DOMAIN new, i < j PROVE Precedes(age, new[i], new[j])
  <2>0. n \in Nat /\ n <= Len(list) /\ i \in Nat /\ j \in Nat
    BY <1>1, <1>4
  <2>1. CASE i \in 1 .. n /\ j \in 1 .. n
    <3>1. new[i] = list[i] /\ new[j] = list[j] /\ i \in DOMAIN list /\ j \in DOMAIN list
      BY <1>1, <1>4, <2>0, <2>1
    <3>2. QED
      BY <1>13, <1>15, <3>1
  <2>2. CASE i \in 1 .. n /\ j = n + 1
    <3>1. new[i] = list[i] /\ new[j] = h /\ i \in DOMAIN list /\ list[i].priority >= h.priority
      BY <1>1, <1>4, <2>0, <2>2
    <3>2. QED
      BY <1>5, <1>14, <3>1 DEF Precedes
  <2>3. CASE i \in 1 .. n /\ j \in n + 2 .. Len(list) + 1
    <3>1. new[i] = list[i] /\ new[j] = list[j - 1] /\ i \in DOMAIN list /\ j - 1 \in DOMAIN list /\ i < j - 1
      BY <1>1, <1>4, <1>6, <2>0, <2>3
    <3>2. QED
      BY <1>13, <3>1
  <2>4. CASE i = n + 1 /\ j \in n + 2 .. Len(list) + 1
    <3>1. new[i] = h /\ new[j] = list[j - 1] /\ j - 1 \in n + 1 .. Len(list) /\ j - 1 \in DOMAIN list
      BY <1>1, <1>4, <1>6, <2>0, <2>4
    <3>2. list[j - 1].priority < h.priority
      BY <1>1, <3>1
    <3>3. QED
      BY <1>5, <3>1, <3>2 DEF Precedes
  <2>5. CASE i \in n + 2 .. Len(list) + 1
    <3>1. j \in n + 2 .. Len(list) + 1
      BY <1>4, <1>15, <2>0, <2>5
    <3>2. new[i] = list[i - 1] /\ new[j] = list[j - 1] /\ i - 1 \in DOMAIN list /\ j - 1 \in DOMAIN list /\ i - 1 < j - 1
      BY <1>4, <1>6, <1>15, <2>0, <2>5, <3>1
    <3>3. QED
      BY <1>13, <3>2
  <2>6. QED
    BY <1>4, <1>6, <1>15, <2>0, <2>1, <2>2, <2>3, <2>4, <2>5
<1>16. RegisteredIn(new, age)
  BY <1>2, <1>3, <1>4, <1>10, <1>11, <1>12, <1>15 DEF RegisteredIn
<1>17. QED
  BY <1>2, <1>7, <1>8, <1>9, <1>16 DEF new, age

-----------------------------------------------------------------------------
(* Registering handlers *)

(* f gives m's handlers for their packets, all of them.                    *)
ListenersOf(f, m) ==
    /\ \A id \in DOMAIN f :
          /\ id \in SessionIds /\ f[id] \in Handlers
          /\ Owner(f[id].name) = m /\ f[id].name \in NamesFor(id)
          /\ id \in AloneIds => f[id] = HandlerOf(id)
    /\ \A id \in AloneIds : Owner(id) = m => id \in DOMAIN f
    /\ m = "player" => /\ "login" \in DOMAIN f /\ f["login"] = H("login", 0)
                       /\ "respawn" \in DOMAIN f /\ f["respawn"] = H("respawn", 0)
    /\ m = "world" => "login" \in DOMAIN f /\ f["login"] = H("spawn", 64)

LEMMA SessionHandler ==
    ASSUME NEW name \in SessionIds \union {"gameStart", "spawn", "late", "tap"},
           NEW p \in {0, 64} \union LatePriorities
    PROVE  H(name, p) \in Handlers
BY PlayAssumption DEF SessionHandlers

LEMMA PlayerListenersOf == ListenersOf(PlayerListeners, "player")
<1> DEFINE f == PlayerListeners
<1>1. /\ DOMAIN f = {"login", "keepAlive", "respawn", "ping"}
      /\ \A id \in DOMAIN f : f[id] = H(id, 0)
  BY DEF PlayerListeners
<1> HIDE DEF f
<1>2. \A id \in DOMAIN f : id \in SessionIds
  BY <1>1 DEF SessionIds
<1>3. \A id \in DOMAIN f : f[id] \in Handlers /\ f[id].name = id
  BY <1>1, <1>2, SessionHandler DEF H
<1>4. \A id \in DOMAIN f : Owner(f[id].name) = "player"
  BY <1>1, <1>3 DEF Owner
<1>5. \A id \in DOMAIN f : f[id].name \in NamesFor(id)
  BY <1>1, <1>3 DEF NamesFor
<1>6. \A id \in DOMAIN f : id \in AloneIds => f[id] = HandlerOf(id)
  BY <1>1 DEF AloneIds, HandlerOf
<1>7. \A id \in AloneIds : Owner(id) = "player" => id \in DOMAIN f
  BY <1>1 DEF AloneIds, SessionIds, Owner
<1>8. QED
  BY <1>1, <1>2, <1>3, <1>4, <1>5, <1>6, <1>7 DEF ListenersOf, f

LEMMA EventListenersOf == ListenersOf(EventListeners, "events")
<1> DEFINE f == EventListeners
<1>1. /\ DOMAIN f = {"login", "notice", "health", "position"}
      /\ \A id \in DOMAIN f : f[id] = IF id = "login" THEN H("gameStart", 64) ELSE H(id, 64)
  BY DEF EventListeners
<1> HIDE DEF f
<1>2. \A id \in DOMAIN f : id \in SessionIds
  BY <1>1 DEF SessionIds
<1>3. \A id \in DOMAIN f : f[id] \in Handlers /\ f[id].name = IF id = "login" THEN "gameStart" ELSE id
  BY <1>1, <1>2, SessionHandler DEF H
<1>4. \A id \in DOMAIN f : Owner(f[id].name) = "events"
  BY <1>1, <1>3 DEF Owner
<1>5. \A id \in DOMAIN f : f[id].name \in NamesFor(id)
  BY <1>1, <1>3 DEF NamesFor
<1>6. \A id \in DOMAIN f : id \in AloneIds => f[id] = HandlerOf(id)
  BY <1>1 DEF AloneIds, HandlerOf
<1>7. \A id \in AloneIds : Owner(id) = "events" => id \in DOMAIN f
  BY <1>1 DEF AloneIds, SessionIds, Owner
<1>8. QED
  BY <1>1, <1>2, <1>3, <1>4, <1>5, <1>6, <1>7 DEF ListenersOf, f

LEMMA WorldListenersOf == ListenersOf(WorldListeners, "world")
<1> DEFINE f == WorldListeners
<1>1. /\ DOMAIN f = {"login", "respawn", "chunk"}
      /\ \A id \in DOMAIN f : f[id] = IF id = "chunk" THEN H("chunk", 0) ELSE H("spawn", 64)
  BY DEF WorldListeners
<1> HIDE DEF f
<1>2. \A id \in DOMAIN f : id \in SessionIds
  BY <1>1 DEF SessionIds
<1>3. \A id \in DOMAIN f : f[id] \in Handlers /\ f[id].name = IF id = "chunk" THEN "chunk" ELSE "spawn"
  BY <1>1, SessionHandler DEF H, SessionIds
<1>4. \A id \in DOMAIN f : Owner(f[id].name) = "world"
  BY <1>1, <1>3 DEF Owner
<1>5. \A id \in DOMAIN f : f[id].name \in NamesFor(id)
  BY <1>1, <1>3 DEF NamesFor
<1>6. \A id \in DOMAIN f : id \in AloneIds => f[id] = HandlerOf(id)
  BY <1>1 DEF AloneIds, HandlerOf
<1>7. \A id \in AloneIds : Owner(id) = "world" => id \in DOMAIN f
  BY <1>1 DEF AloneIds, SessionIds, Owner
<1>8. QED
  BY <1>1, <1>2, <1>3, <1>4, <1>5, <1>6, <1>7 DEF ListenersOf, f

LEMMA ListListenersOf == ListenersOf(ListListeners, "players")
<1> DEFINE f == ListListeners
<1>1. /\ DOMAIN f = {"infoUpdate", "infoRemove"} /\ \A id \in DOMAIN f : f[id] = H(id, 64)
  BY DEF ListListeners
<1> HIDE DEF f
<1>2. \A id \in DOMAIN f : id \in SessionIds
  BY <1>1 DEF SessionIds
<1>3. \A id \in DOMAIN f : f[id] \in Handlers /\ f[id].name = id
  BY <1>1, <1>2, SessionHandler DEF H
<1>4. \A id \in DOMAIN f : Owner(f[id].name) = "players"
  BY <1>1, <1>3 DEF Owner
<1>5. \A id \in DOMAIN f : f[id].name \in NamesFor(id)
  BY <1>1, <1>3 DEF NamesFor
<1>6. \A id \in DOMAIN f : id \in AloneIds => f[id] = HandlerOf(id)
  BY <1>1 DEF AloneIds, HandlerOf
<1>7. \A id \in AloneIds : Owner(id) = "players" => id \in DOMAIN f
  BY <1>1 DEF AloneIds, SessionIds, Owner
<1>8. QED
  BY <1>1, <1>2, <1>3, <1>4, <1>5, <1>6, <1>7 DEF ListenersOf, f

LEMMA ChatListenersOf == ListenersOf(ChatListeners, "chat")
<1> DEFINE f == ChatListeners
<1>1. /\ DOMAIN f = {"playerChat"} /\ \A id \in DOMAIN f : f[id] = H(id, 64)
  BY DEF ChatListeners
<1> HIDE DEF f
<1>2. \A id \in DOMAIN f : id \in SessionIds
  BY <1>1 DEF SessionIds
<1>3. \A id \in DOMAIN f : f[id] \in Handlers /\ f[id].name = id
  BY <1>1, <1>2, SessionHandler DEF H
<1>4. \A id \in DOMAIN f : Owner(f[id].name) = "chat"
  BY <1>1, <1>3 DEF Owner
<1>5. \A id \in DOMAIN f : f[id].name \in NamesFor(id)
  BY <1>1, <1>3 DEF NamesFor
<1>6. \A id \in DOMAIN f : id \in AloneIds => f[id] = HandlerOf(id)
  BY <1>1 DEF AloneIds, HandlerOf
<1>7. \A id \in AloneIds : Owner(id) = "chat" => id \in DOMAIN f
  BY <1>1 DEF AloneIds, SessionIds, Owner
<1>8. QED
  BY <1>1, <1>2, <1>3, <1>4, <1>5, <1>6, <1>7 DEF ListenersOf, f

LEMMA LateListenerOf ==
    ASSUME NEW p \in LatePriorities
    PROVE  ListenersOf(LateListener(p), "late")
<1> DEFINE f == LateListener(p)
<1>1. /\ DOMAIN f = {"login"} /\ \A id \in DOMAIN f : f[id] = H("late", p)
  BY DEF LateListener
<1> HIDE DEF f
<1>2. \A id \in DOMAIN f : id \in SessionIds
  BY <1>1 DEF SessionIds
<1>3. \A id \in DOMAIN f : f[id] \in Handlers /\ f[id].name = "late"
  <2>1. H("late", p) \in Handlers
    BY SessionHandler
  <2>2. QED
    BY <1>1, <2>1 DEF H
<1>4. \A id \in DOMAIN f : Owner(f[id].name) = "late"
  BY <1>1, <1>3 DEF Owner
<1>5. \A id \in DOMAIN f : f[id].name \in NamesFor(id)
  BY <1>1, <1>3 DEF NamesFor
<1>6. \A id \in DOMAIN f : id \in AloneIds => f[id] = HandlerOf(id)
  BY <1>1 DEF AloneIds, HandlerOf
<1>7. \A id \in AloneIds : Owner(id) = "late" => id \in DOMAIN f
  BY <1>1 DEF AloneIds, SessionIds, Owner
<1>8. QED
  BY <1>1, <1>2, <1>3, <1>4, <1>5, <1>6, <1>7 DEF ListenersOf, f

(* A slice with a handler more.                                            *)
LEMMA SortedWithType ==
    ASSUME NEW S, NEW list \in Seq(S), NEW h \in S
    PROVE  SortedWith(list, h) \in Seq(S)
<1>1. PICK a \in Seq(S), b \in Seq(S) : SortedWith(list, h) = a \o <<h>> \o b
  BY KeptType DEF SortedWith
<1>2. QED
  BY <1>1, ConcatProperties

LEMMA AppendedType ==
    ASSUME NEW s \in Slices, NEW h \in Handlers
    PROVE  Appended(s, h) \in Slices /\ Appended(s, h).list = SortedWith(s.list, h)
<1>1. s.list \in Seq(Handlers) /\ s.cap \in Nat
  BY DEF Slices
<1>2. SortedWith(s.list, h) \in Seq(Handlers)
  BY <1>1, SortedWithType
<1>3. QED
  BY <1>1, <1>2 DEF Appended, Slices

(* What one call of AddListener does to a packet's list and history.       *)
LEMMA ListenersPoints ==
    ASSUME NEW hs \in [PacketIds -> Slices], NEW rs \in [PacketIds -> Seq(Handlers)],
           NEW f, \A id \in DOMAIN f : f[id] \in Handlers
    PROVE  /\ WithListeners(hs, f) \in [PacketIds -> Slices]
           /\ WithRegistered(rs, f) \in [PacketIds -> Seq(Handlers)]
           /\ \A id \in PacketIds :
                 /\ id \in DOMAIN f =>
                       /\ WithListeners(hs, f)[id].list = SortedWith(hs[id].list, f[id])
                       /\ WithRegistered(rs, f)[id] = Append(rs[id], f[id])
                 /\ id \notin DOMAIN f =>
                       WithListeners(hs, f)[id] = hs[id] /\ WithRegistered(rs, f)[id] = rs[id]
<1>1. \A id \in PacketIds : id \in DOMAIN f =>
         /\ Appended(hs[id], f[id]) \in Slices
         /\ Appended(hs[id], f[id]).list = SortedWith(hs[id].list, f[id])
  BY AppendedType
<1>2. \A id \in PacketIds : id \in DOMAIN f => Append(rs[id], f[id]) \in Seq(Handlers)
  BY AppendProperties
<1>3. QED
  BY <1>1, <1>2 DEF WithListeners, WithRegistered

(* A call of AddListener, of one who has not called it yet.                *)
LEMMA AddListenerKeeps ==
    ASSUME NEW hs, NEW rs, NEW owners, RegistryOf(hs, rs, owners),
           NEW m, m \notin owners, NEW f, ListenersOf(f, m)
    PROVE  RegistryOf(WithListeners(hs, f), WithRegistered(rs, f), owners \union {m})
<1> DEFINE hs2 == WithListeners(hs, f)
           rs2 == WithRegistered(rs, f)
<1>1. hs \in [PacketIds -> Slices] /\ rs \in [PacketIds -> Seq(Handlers)]
  BY DEF RegistryOf
<1>2. \A id \in DOMAIN f : f[id] \in Handlers
  BY DEF ListenersOf
<1>3. /\ hs2 \in [PacketIds -> Slices] /\ rs2 \in [PacketIds -> Seq(Handlers)]
      /\ \A id \in PacketIds :
            /\ id \in DOMAIN f =>
                  hs2[id].list = SortedWith(hs[id].list, f[id]) /\ rs2[id] = Append(rs[id], f[id])
            /\ id \notin DOMAIN f => hs2[id] = hs[id] /\ rs2[id] = rs[id]
  BY <1>1, <1>2, ListenersPoints
<1> HIDE DEF hs2, rs2
<1>4. SessionIds \subseteq PacketIds
  BY PlayAssumption
<1>5. ASSUME NEW id \in PacketIds
      PROVE  /\ RegisteredIn(hs2[id].list, rs2[id])
             /\ \A x : In(x, hs2[id].list) <=> In(x, hs[id].list) \/ (id \in DOMAIN f /\ x = f[id])
  <2>1. CASE id \notin DOMAIN f
    BY <1>3, <2>1 DEF RegistryOf
  <2>2. CASE id \in DOMAIN f
    <3> DEFINE list == hs[id].list
               reg == rs[id]
               h == f[id]
    <3>1. list \in Seq(Handlers) /\ reg \in Seq(Handlers) /\ h \in Handlers /\ RegisteredIn(list, reg)
      BY <1>1, <1>2, <2>2 DEF RegistryOf, Slices
    <3>2. \A k \in DOMAIN list : Owner(list[k].name) \in owners
      BY DEF RegistryOf
    <3>3. Owner(h.name) \notin owners
      BY <2>2 DEF ListenersOf
    <3>4. hs2[id].list = SortedWith(list, h) /\ rs2[id] = Append(reg, h)
      BY <1>3, <2>2
    <3> HIDE DEF list, reg, h
    <3>5. \A i \in DOMAIN reg : reg[i] # h
      BY <3>1, <3>2, <3>3 DEF RegisteredIn
    <3>6. /\ RegisteredIn(SortedWith(list, h), Append(reg, h))
          /\ \A j \in DOMAIN SortedWith(list, h) :
                SortedWith(list, h)[j] = h \/ \E i \in DOMAIN list : list[i] = SortedWith(list, h)[j]
          /\ \E j \in DOMAIN SortedWith(list, h) : SortedWith(list, h)[j] = h
          /\ \A i \in DOMAIN list :
                \E j \in {i, i + 1} : j \in DOMAIN SortedWith(list, h) /\ SortedWith(list, h)[j] = list[i]
      BY <3>1, <3>5, RegisteredWith
    <3>7. \A x : In(x, SortedWith(list, h)) <=> In(x, list) \/ x = h
      BY <3>6 DEF In
    <3>8. QED
      BY <2>2, <3>4, <3>6, <3>7 DEF list, h
  <2>3. QED
    BY <2>1, <2>2
<1>6. ASSUME NEW id \in PacketIds
      PROVE  /\ Named(hs2[id].list, NamesFor(id))
             /\ \A k \in DOMAIN hs2[id].list : Owner(hs2[id].list[k].name) \in owners \union {m}
  <2> SUFFICES ASSUME NEW k \in DOMAIN hs2[id].list
               PROVE  /\ hs2[id].list[k].name \in NamesFor(id)
                      /\ Owner(hs2[id].list[k].name) \in owners \union {m}
    BY DEF Named
  <2> DEFINE x == hs2[id].list[k]
  <2>1. In(x, hs2[id].list)
    BY DEF In
  <2> HIDE DEF x
  <2>2. In(x, hs[id].list) \/ (id \in DOMAIN f /\ x = f[id])
    BY <1>5, <2>1
  <2>3. In(x, hs[id].list) => x.name \in NamesFor(id) /\ Owner(x.name) \in owners
    BY DEF In, RegistryOf, Named
  <2>4. (id \in DOMAIN f /\ x = f[id]) => x.name \in NamesFor(id) /\ Owner(x.name) = m
    BY DEF ListenersOf
  <2>5. x.name \in NamesFor(id) /\ Owner(x.name) \in owners \union {m}
    BY <2>2, <2>3, <2>4
  <2>6. QED
    BY <2>5 DEF x
<1>7. ASSUME NEW id \in AloneIds
      PROVE  hs2[id].list = IF Owner(id) \in owners \union {m} THEN <<HandlerOf(id)>> ELSE <<>>
  <2>1. id \in PacketIds /\ hs[id].list = IF Owner(id) \in owners THEN <<HandlerOf(id)>> ELSE <<>>
    BY <1>4 DEF RegistryOf, AloneIds
  <2>2. CASE id \in DOMAIN f
    <3>1. f[id] = HandlerOf(id) /\ Owner(f[id].name) = m
      BY <2>2 DEF ListenersOf
    <3>2. Owner(id) = m
      BY <3>1 DEF HandlerOf, H
    <3>3. hs2[id].list = SortedWith(<<>>, HandlerOf(id))
      BY <1>3, <2>1, <2>2, <3>1, <3>2
    <3>4. SortedWith(<<>>, HandlerOf(id)) = <<HandlerOf(id)>>
      <4>1. <<HandlerOf(id)>> \in Seq({HandlerOf(id)})
        OBVIOUS
      <4>2. <<>> \o <<HandlerOf(id)>> = <<HandlerOf(id)>> /\ <<HandlerOf(id)>> \o <<>> = <<HandlerOf(id)>>
        BY <4>1, ConcatEmptySeq
      <4>3. QED
        BY <4>2, KeptEmpty DEF SortedWith
    <3>5. QED
      BY <3>2, <3>3, <3>4
  <2>3. CASE id \notin DOMAIN f
    BY <1>3, <2>1, <2>3 DEF ListenersOf
  <2>4. QED
    BY <2>2, <2>3
<1>8. {"login", "respawn"} \subseteq PacketIds
  BY <1>4 DEF SessionIds
<1>9. "player" \in owners \union {m} => In(H("login", 0), hs2["login"].list) /\ In(H("respawn", 0), hs2["respawn"].list)
  BY <1>5, <1>8 DEF RegistryOf, ListenersOf
<1>10. "world" \in owners \union {m} => In(H("spawn", 64), hs2["login"].list)
  BY <1>5, <1>8 DEF RegistryOf, ListenersOf
<1>11. RegistryOf(hs2, rs2, owners \union {m})
  BY <1>3, <1>5, <1>6, <1>7, <1>9, <1>10 DEF RegistryOf
<1>12. QED
  BY <1>11 DEF hs2, rs2

-----------------------------------------------------------------------------
(* The registry and the loop *)

LEMMA OwnersWith ==
    ASSUME PlayTypeOK, NEW m \in Managers, m \notin made, made' = made \union {m}
    PROVE  /\ m \notin Owners
           /\ m # "player" => Owners' = Owners \union {m}
           /\ m = "player" => Owners' = (Owners \union {"player"}) \union {"events"}
           /\ "events" \notin Owners \union {"player"} \/ m # "player"
BY DEF PlayTypeOK, Managers, Owners

(* A call of AddListener of one who has not called it.                     *)
LEMMA RegistersOne ==
    ASSUME PlayTypeOK, RegistryInv, NEW m \in Managers \ {"player"}, m \notin made,
           made' = made \union {m}, NEW f, ListenersOf(f, m), AddListener(f)
    PROVE  RegistryInv'
<1>1. m \notin Owners /\ Owners' = Owners \union {m}
  BY OwnersWith
<1>2. RegistryOf(handlers, registered, Owners)
  BY DEF RegistryInv
<1>3. RegistryOf(handlers', registered', Owners \union {m})
  BY <1>1, <1>2, AddListenerKeeps DEF AddListener
<1>4. RegistryOf(handlers', registered', Owners')
  BY <1>1, <1>3
<1>5. generic' = generic
  BY DEF AddListener
<1>6. QED
  BY <1>4, <1>5 DEF RegistryInv

(* Nothing of it changes.                                                  *)
LEMMA RegistrySame ==
    ASSUME RegistryInv, UNCHANGED <<generic, handlers, registered, made>>
    PROVE  RegistryInv'
<1>1. Owners' = Owners
  BY DEF Owners
<1>2. RegistryOf(handlers', registered', Owners')
  BY <1>1 DEF RegistryInv
<1>3. QED
  BY <1>2 DEF RegistryInv

(* During setup and between two packets no loop runs.                      *)
LEMMA LoopSame ==
    ASSUME LoopInv, loop.over = "none", loop' = loop
    PROVE  LoopInv'
<1>1. loop = NoLoop
  BY DEF LoopInv
<1>2. loop'.over = "none" /\ loop' = NoLoop
  BY <1>1
<1>3. QED
  BY <1>2 DEF LoopInv, NoLoop

LEMMA NoLoopType ==
    ASSUME loop' = NoLoop
    PROVE  loop' \in Loops /\ LoopInv'
<1>1. <<>> \in Seq(Handlers)
  BY EmptySeq
<1>2. loop'.over = "none"
  BY DEF NoLoop
<1>3. QED
  BY <1>1, <1>2 DEF NoLoop, Loops, LoopInv

LEMMA SetupNoLoop == StructInv /\ game # "playing" => loop.over = "none" /\ loop = NoLoop
BY DEF StructInv, LoopInv

LEMMA MakesStruct ==
    ASSUME StructInv, NEW m \in Managers, Makes(m), RegistryInv'
    PROVE  StructInv'
<1>1. loop.over = "none" /\ loop' = loop
  BY SetupNoLoop DEF Makes
<1>2. LoopInv'
  BY <1>1, LoopSame DEF StructInv
<1>3. PlayTypeOK'
  BY DEF StructInv, PlayTypeOK, Makes
<1>4. QED
  BY <1>2, <1>3 DEF StructInv

LEMMA NewPlayerStruct == StructInv /\ NewPlayer => StructInv'
<1> SUFFICES ASSUME StructInv, NewPlayer PROVE StructInv'
  OBVIOUS
<1>1. Makes("player") /\ "player" \in Managers /\ "player" \notin made /\ made' = made \union {"player"}
  BY DEF NewPlayer, Makes, Managers
<1>2. /\ "player" \notin Owners /\ "events" \notin Owners \union {"player"}
      /\ Owners' = (Owners \union {"player"}) \union {"events"}
  BY <1>1, OwnersWith DEF StructInv
<1> DEFINE hs == WithListeners(handlers, PlayerListeners)
           rs == WithRegistered(registered, PlayerListeners)
<1>3. RegistryOf(hs, rs, Owners \union {"player"})
  BY <1>2, AddListenerKeeps, PlayerListenersOf DEF StructInv, RegistryInv
<1>4. handlers' = WithListeners(hs, EventListeners) /\ registered' = WithRegistered(rs, EventListeners)
  BY DEF NewPlayer
<1> HIDE DEF hs, rs
<1>5. RegistryOf(handlers', registered', (Owners \union {"player"}) \union {"events"})
  BY <1>2, <1>3, <1>4, AddListenerKeeps, EventListenersOf
<1>6. RegistryOf(handlers', registered', Owners')
  BY <1>2, <1>5
<1>7. RegistryInv'
  BY <1>6 DEF RegistryInv, StructInv, NewPlayer
<1>8. QED
  BY <1>1, <1>7, MakesStruct

LEMMA NewWorldStruct == StructInv /\ NewWorld => StructInv'
<1> SUFFICES ASSUME StructInv, NewWorld PROVE StructInv'
  OBVIOUS
<1>1. "world" \in Managers \ {"player"} /\ Makes("world") /\ AddListener(WorldListeners)
  BY DEF NewWorld, Managers
<1>2. "world" \notin made /\ made' = made \union {"world"}
  BY <1>1 DEF Makes
<1>3. RegistryInv'
  BY <1>1, <1>2, RegistersOne, WorldListenersOf DEF StructInv
<1>4. QED
  BY <1>1, <1>3, MakesStruct

LEMMA NewPlayerListStruct == StructInv /\ NewPlayerList => StructInv'
<1> SUFFICES ASSUME StructInv, NewPlayerList PROVE StructInv'
  OBVIOUS
<1>1. "players" \in Managers \ {"player"} /\ Makes("players") /\ AddListener(ListListeners)
  BY DEF NewPlayerList, Managers
<1>2. "players" \notin made /\ made' = made \union {"players"}
  BY <1>1 DEF Makes
<1>3. RegistryInv'
  BY <1>1, <1>2, RegistersOne, ListListenersOf DEF StructInv
<1>4. QED
  BY <1>1, <1>3, MakesStruct

LEMMA NewChatStruct == StructInv /\ NewChat => StructInv'
<1> SUFFICES ASSUME StructInv, NewChat PROVE StructInv'
  OBVIOUS
<1>1. "chat" \in Managers \ {"player"} /\ Makes("chat") /\ AddListener(ChatListeners)
  BY DEF NewChat, Managers
<1>2. "chat" \notin made /\ made' = made \union {"chat"}
  BY <1>1 DEF Makes
<1>3. RegistryInv'
  BY <1>1, <1>2, RegistersOne, ChatListenersOf DEF StructInv
<1>4. QED
  BY <1>1, <1>3, MakesStruct

(* No listener is of the tap, a generic handler.                           *)
LEMMA AddTapStruct == StructInv /\ AddTap => StructInv'
<1> SUFFICES ASSUME StructInv, AddTap PROVE StructInv'
  OBVIOUS
<1>1. "tap" \in Managers /\ Makes("tap") /\ AddGeneric(H("tap", 0))
  BY DEF AddTap, Managers
<1>2. "tap" \notin made /\ made' = made \union {"tap"} /\ handlers' = handlers /\ registered' = registered
  BY <1>1 DEF Makes, AddGeneric
<1>3. Owners' = Owners \union {"tap"}
  BY <1>1, <1>2, OwnersWith DEF StructInv
<1>4. H("tap", 0) \in Handlers /\ H("tap", 0) \in Taps
  BY SessionHandler DEF Taps, H
<1>5. RegistryOf(handlers, registered, Owners)
  BY DEF StructInv, RegistryInv
<1>6. \A id \in AloneIds : Owner(id) # "tap"
  BY DEF AloneIds, SessionIds, Owner
<1>7. RegistryOf(handlers, registered, Owners \union {"tap"})
  BY <1>5, <1>6 DEF RegistryOf
<1>8. generic' = Appended(generic, H("tap", 0)) /\ generic \in Slices /\ generic.list \in Seq(Taps)
  BY <1>1 DEF AddGeneric, StructInv, RegistryInv
<1>9. generic' \in Slices /\ generic'.list = SortedWith(generic.list, H("tap", 0))
  BY <1>4, <1>8, AppendedType
<1>10. generic'.list \in Seq(Taps)
  BY <1>4, <1>8, <1>9, SortedWithType
<1>11. RegistryOf(handlers', registered', Owners')
  BY <1>2, <1>3, <1>7
<1>12. RegistryInv'
  BY <1>9, <1>10, <1>11 DEF RegistryInv
<1>13. QED
  BY <1>1, <1>12, MakesStruct

(* A session begins or ends.                                               *)
LEMMA JoinServerStruct == StructInv /\ JoinServer => StructInv'
<1> SUFFICES ASSUME StructInv, JoinServer PROVE StructInv'
  OBVIOUS
<1>1. UNCHANGED <<generic, handlers, registered, made, loop, serial>>
  BY DEF JoinServer, eventsVars
<1>2. loop.over = "none"
  BY SetupNoLoop DEF JoinServer
<1>3. RegistryInv'
  BY <1>1, RegistrySame DEF StructInv
<1>4. LoopInv'
  BY <1>1, <1>2, LoopSame DEF StructInv
<1>5. PlayTypeOK'
  BY <1>1 DEF StructInv, PlayTypeOK, JoinServer
<1>6. QED
  BY <1>3, <1>4, <1>5 DEF StructInv

LEMMA ConnectionEndsStruct == StructInv /\ ConnectionEnds => StructInv'
<1> SUFFICES ASSUME StructInv, ConnectionEnds PROVE StructInv'
  OBVIOUS
<1>1. UNCHANGED <<generic, handlers, registered, made, loop, serial, joins>> /\ loop.over = "none"
  BY DEF ConnectionEnds, eventsVars
<1>2. RegistryInv'
  BY <1>1, RegistrySame DEF StructInv
<1>3. LoopInv'
  BY <1>1, LoopSame DEF StructInv
<1>4. PlayTypeOK'
  BY <1>1 DEF StructInv, PlayTypeOK, ConnectionEnds
<1>5. QED
  BY <1>2, <1>3, <1>4 DEF StructInv

(* A packet comes.                                                         *)
LEMMA TapsAreHandlers == \A s : s \in Seq(Taps) => s \in Seq(Handlers)
<1>1. Taps \subseteq Handlers
  BY DEF Taps
<1>2. QED
  BY <1>1, SeqMonotonic

LEMMA ReceivesStruct ==
    ASSUME StructInv, NEW p, p.id \in SessionIds, Receives(p)
    PROVE  /\ StructInv' /\ loop.over = "none"
           /\ loop' = RangeOver("generic", p.id, generic, <<>>, <<>>)
           /\ loop'.over = "generic" /\ loop'.next = 1 /\ loop'.shifted = FALSE
           /\ loop'.due = generic.list /\ loop'.ran = <<>> /\ loop'.array = generic.list
<1>1. /\ UNCHANGED <<generic, handlers, registered, made, joins>> /\ loop.over = "none"
      /\ packet' = p /\ serial' = serial + 1 /\ game' = "playing"
      /\ loop' = RangeOver("generic", p.id, generic, <<>>, <<>>)
  BY DEF Receives, HandlePacket
<1>2. loop = NoLoop
  BY <1>1 DEF StructInv, LoopInv
<1> DEFINE list == generic.list
<1>3. list \in Seq(Taps) /\ list \in Seq(Handlers) /\ Len(list) \in Nat
  BY TapsAreHandlers, LenProperties DEF StructInv, RegistryInv
<1> HIDE DEF list
<1>4. <<>> \o list = list /\ <<>> \in Seq(Handlers)
  BY <1>3, ConcatEmptySeq, EmptySeq
<1>5. loop' = [over |-> "generic", id |-> p.id, array |-> list, len |-> Len(list), next |-> 1,
               due |-> list, ran |-> <<>>, shifted |-> FALSE]
  BY <1>1, <1>2, <1>4 DEF RangeOver, NoLoop, list
<1>6. loop' \in Loops
  BY <1>3, <1>4, <1>5 DEF Loops
<1>7. LoopInv'
  BY <1>1, <1>3, <1>5 DEF LoopInv
<1>8. RegistryInv'
  BY <1>1, RegistrySame DEF StructInv
<1>9. game # "setup"
  BY DEF Receives
<1>10. PlayTypeOK'
  BY <1>1, <1>6, <1>9 DEF StructInv, PlayTypeOK
<1>11. QED
  BY <1>1, <1>5, <1>7, <1>8, <1>10 DEF StructInv, list

(* The loop goes on with the handlers of the packet's ID.                  *)
LEMMA SpecificStruct ==
    ASSUME StructInv, HandlePacketSpecific,
           UNCHANGED <<game, made, packet, serial, joins>>
    PROVE  /\ StructInv'
           /\ loop.over = "generic" /\ loop.next = loop.len + 1 /\ loop.id = packet.id
           /\ loop'.over = "specific" /\ loop'.next = 1 /\ loop'.shifted = FALSE
           /\ loop'.array = handlers[packet.id].list /\ loop'.len = Len(loop'.array)
           /\ loop'.due = loop.due \o loop'.array /\ loop'.ran = loop.ran
<1>1. /\ loop.over = "generic" /\ LoopDone /\ UNCHANGED <<generic, handlers, registered>>
      /\ loop' = RangeOver("specific", loop.id, handlers[loop.id], loop.due, loop.ran)
  BY DEF HandlePacketSpecific
<1>2. /\ loop.id = packet.id /\ loop.id \in SessionIds /\ loop.next = loop.len + 1 /\ loop.shifted = FALSE
      /\ loop.due \in Seq(Handlers) /\ loop.ran \in Seq(Handlers)
  BY <1>1 DEF StructInv, LoopInv, LoopDone, PlayTypeOK, Loops
<1> DEFINE list == handlers[loop.id].list
<1>3. loop.id \in PacketIds
  BY <1>2, PlayAssumption
<1>4. list \in Seq(Handlers) /\ Len(list) \in Nat /\ Named(list, NamesFor(loop.id))
  BY <1>3, LenProperties DEF StructInv, RegistryInv, RegistryOf, Slices
<1> HIDE DEF list
<1>5. loop.due \o list \in Seq(Handlers)
  BY <1>2, <1>4, ConcatProperties
<1>6. loop' = [over |-> "specific", id |-> loop.id, array |-> list, len |-> Len(list), next |-> 1,
               due |-> loop.due \o list, ran |-> loop.ran, shifted |-> FALSE]
  BY <1>1, <1>2 DEF RangeOver, list
<1>7. loop' \in Loops
  BY <1>2, <1>4, <1>5, <1>6 DEF Loops
<1>8. RegistryInv'
  BY <1>1, RegistrySame DEF StructInv
<1>9. loop'.array = handlers'[loop'.id].list
  BY <1>1, <1>6 DEF list
<1>10. LoopInv'
  BY <1>1, <1>2, <1>4, <1>6, <1>9 DEF LoopInv, StructInv
<1>11. PlayTypeOK'
  BY <1>7 DEF StructInv, PlayTypeOK
<1>12. StructInv'
  BY <1>8, <1>10, <1>11 DEF StructInv
<1>13. /\ loop'.over = "specific" /\ loop'.next = 1 /\ loop'.shifted = FALSE /\ loop'.array = list
       /\ loop'.len = Len(list) /\ loop'.due = loop.due \o list /\ loop'.ran = loop.ran
  BY <1>6
<1>14. list = handlers[packet.id].list
  BY <1>2 DEF list
<1>15. QED
  BY <1>1, <1>2, <1>12, <1>13, <1>14

(* The loop ends, or a handler failed.                                     *)
LEMMA ReturnStruct ==
    ASSUME StructInv, loop' = NoLoop, game' \in {game, "ended"}, game # "setup",
           UNCHANGED <<generic, handlers, registered, made, packet, serial, joins>>
    PROVE  StructInv'
<1>1. RegistryInv'
  BY RegistrySame DEF StructInv
<1>2. PlayTypeOK' /\ LoopInv'
  BY NoLoopType DEF StructInv, PlayTypeOK
<1>3. QED
  BY <1>1, <1>2 DEF StructInv

LEMMA FailedStruct == StructInv /\ loop.over # "none" /\ HandlerFailed => StructInv'
<1> SUFFICES ASSUME StructInv, loop.over # "none", HandlerFailed PROVE StructInv'
  OBVIOUS
<1>1. game = "playing"
  BY DEF StructInv, LoopInv
<1>2. QED
  BY <1>1, ReturnStruct DEF HandlerFailed

(* The handler whose turn it is.                                           *)
LEMMA RunsNow ==
    ASSUME StructInv, NEW name, Runs(name)
    PROVE  /\ loop.over \in {"generic", "specific"} /\ game = "playing"
           /\ loop.id = packet.id /\ packet.id \in SessionIds
           /\ loop.next \in Nat /\ loop.len \in Nat /\ 1 <= loop.next
           /\ loop.next <= loop.len /\ loop.len <= Len(loop.array)
           /\ loop.next \in DOMAIN loop.array
           /\ loop.array \in Seq(Handlers) /\ loop.array[loop.next] \in Handlers
           /\ loop.array[loop.next].name = name
           /\ loop.over = "generic" => name = "tap"
           /\ loop.over = "specific" => name \in NamesFor(packet.id)
<1>1. loop \in Loops /\ loop.over # "none" /\ loop.next <= loop.len /\ loop.array[loop.next].name = name
  BY DEF StructInv, PlayTypeOK, Runs
<1>2. /\ loop.over \in {"generic", "specific"} /\ loop.array \in Seq(Handlers)
      /\ loop.next \in Nat /\ loop.len \in Nat
  BY <1>1 DEF Loops
<1>3. /\ game = "playing" /\ loop.id = packet.id /\ loop.id \in SessionIds
      /\ loop.len <= Len(loop.array) /\ loop.next \in 1 .. loop.len + 1
  BY <1>1 DEF StructInv, LoopInv
<1>4. Len(loop.array) \in Nat /\ DOMAIN loop.array = 1 .. Len(loop.array)
  BY <1>2, LenProperties
<1>5. 1 <= loop.next /\ loop.next \in DOMAIN loop.array
  BY <1>1, <1>2, <1>3, <1>4
<1>6. loop.array[loop.next] \in Handlers
  BY <1>2, <1>4, <1>5, ElementOfSeq
<1>7. loop.over = "generic" => name = "tap"
  <2> SUFFICES ASSUME loop.over = "generic" PROVE name = "tap"
    OBVIOUS
  <2>1. loop.array \in Seq(Taps)
    BY DEF StructInv, LoopInv
  <2>2. loop.array[loop.next] \in Taps
    BY <1>4, <1>5, <2>1, ElementOfSeq
  <2>3. QED
    BY <1>1, <2>2 DEF Taps
<1>8. loop.over = "specific" => name \in NamesFor(packet.id)
  <2> SUFFICES ASSUME loop.over = "specific" PROVE name \in NamesFor(packet.id)
    OBVIOUS
  <2>1. Named(loop.array, NamesFor(loop.id))
    BY DEF StructInv, LoopInv
  <2>2. QED
    BY <1>1, <1>3, <1>5, <2>1 DEF Named
<1>9. QED
  BY <1>1, <1>2, <1>3, <1>5, <1>6, <1>7, <1>8

(* It has run, with the registry as it was.                                *)
LEMMA RanStruct ==
    ASSUME StructInv, NEW name, HandlerRan(name)
    PROVE  /\ StructInv'
           /\ Runs(name)
           /\ UNCHANGED <<game, made, packet, serial, joins, handlers>>
           /\ loop'.next = loop.next + 1 /\ loop'.ran = Append(loop.ran, loop.array[loop.next])
           /\ loop'.over = loop.over /\ loop'.array = loop.array /\ loop'.len = loop.len
           /\ loop'.shifted = loop.shifted /\ loop'.due = loop.due
<1>1. /\ Runs(name) /\ UNCHANGED <<generic, handlers, registered, game, made, packet, serial, joins>>
      /\ loop' = [loop EXCEPT !.next = @ + 1, !.ran = Append(@, loop.array[loop.next])]
  BY DEF HandlerRan, NextHandler, sessionVars
<1>2. /\ loop.over \in {"generic", "specific"} /\ game = "playing"
      /\ loop.next \in Nat /\ loop.len \in Nat /\ 1 <= loop.next /\ loop.next <= loop.len
      /\ loop.array[loop.next] \in Handlers
  BY <1>1, RunsNow
<1>3. loop \in Loops
  BY DEF StructInv, PlayTypeOK
<1> DEFINE ran2 == Append(loop.ran, loop.array[loop.next])
<1>4. ran2 \in Seq(Handlers)
  BY <1>2, <1>3, AppendProperties DEF Loops
<1>5. loop' = [over |-> loop.over, id |-> loop.id, array |-> loop.array, len |-> loop.len,
               next |-> loop.next + 1, due |-> loop.due, ran |-> ran2, shifted |-> loop.shifted]
  BY <1>1, <1>3 DEF Loops
<1>6. loop' \in Loops
  <2> HIDE DEF ran2
  <2>1. QED
    BY <1>2, <1>3, <1>4, <1>5 DEF Loops
<1>7. RegistryInv'
  BY <1>1, RegistrySame DEF StructInv
<1>8. LoopInv'
  <2> HIDE DEF ran2
  <2>1. LoopInv
    BY DEF StructInv
  <2>2. loop.next + 1 \in 1 .. loop.len + 1
    BY <1>2
  <2>3. QED
    BY <1>1, <1>2, <1>5, <2>1, <2>2 DEF LoopInv
<1>9. PlayTypeOK'
  BY <1>1, <1>6 DEF StructInv, PlayTypeOK
<1>10. QED
  BY <1>1, <1>5, <1>7, <1>8, <1>9 DEF StructInv

(* What GameStart registers for the login while its loop runs.             *)
LEMMA LoopAfterLogin ==
    ASSUME StructInv, Runs("gameStart"), NEW f, "login" \in DOMAIN f, f["login"] \in Handlers
    PROVE  LET old == handlers["login"].list
               h == f["login"]
           IN  /\ loop.over = "specific" /\ loop.id = "login" /\ packet.id = "login"
               /\ old \in Seq(Handlers) /\ Descending(old)
               /\ LoopAfter(f) # loop =>
                     /\ loop.array = old
                     /\ LoopAfter(f) = [loop EXCEPT !.array = SortedWith(old, h), !.shifted = TRUE]
               /\ LoopAfter(f) = loop => Len(loop.array) <= Len(old)
<1> DEFINE old == handlers["login"].list
           reg == registered["login"]
           h == f["login"]
<1>1. loop.over = "specific" /\ "gameStart" \in NamesFor(packet.id) /\ loop.id = packet.id /\ packet.id \in SessionIds
  BY RunsNow
<1>2. packet.id = "login"
  BY <1>1 DEF NamesFor, SessionIds
<1>3. "login" \in PacketIds
  BY PlayAssumption DEF SessionIds
<1>4. old \in Seq(Handlers) /\ reg \in Seq(Handlers) /\ RegisteredIn(old, reg)
  BY <1>3 DEF StructInv, RegistryInv, RegistryOf, Slices
<1>5. Descending(old)
  <2> HIDE DEF old, reg
  <2>1. QED
    BY <1>4, RegisteredTypes
<1>6. loop.array = old \/ Len(loop.array) < Len(old)
  BY <1>1, <1>2 DEF StructInv, LoopInv
<1>7. Len(old) \in Nat /\ Len(loop.array) \in Nat
  BY <1>4, LenProperties, RunsNow
<1>8. LoopAfter(f) = LoopSees(handlers["login"], h)
  BY <1>1, <1>2 DEF LoopAfter
<1>9. LoopAfter(f) # loop =>
         loop.array = old /\ LoopAfter(f) = [loop EXCEPT !.array = SortedWith(old, h), !.shifted = TRUE]
  BY <1>6, <1>7, <1>8 DEF LoopSees
<1>10. Len(loop.array) <= Len(old)
  BY <1>6, <1>7
<1>11. QED
  BY <1>1, <1>2, <1>4, <1>5, <1>9, <1>10

(* GameStart has registered f, m's handlers.                               *)
LEMMA GameStartStruct ==
    ASSUME StructInv, Runs("gameStart"), NEW m \in Managers \ {"player"}, NEW f, ListenersOf(f, m),
           "login" \in DOMAIN f, GameStartRegisters(m, f), UNCHANGED <<game, packet, serial, joins>>
    PROVE  /\ StructInv'
           /\ loop'.next = loop.next + 1 /\ loop'.ran = Append(loop.ran, loop.array[loop.next])
           /\ loop'.over = loop.over /\ loop'.len = loop.len /\ loop'.due = loop.due
           /\ \/ LoopAfter(f) = loop /\ loop'.array = loop.array /\ loop'.shifted = loop.shifted
              \/ /\ LoopAfter(f) # loop /\ loop'.shifted = TRUE
                 /\ loop.array = handlers["login"].list
                 /\ loop'.array = SortedWith(loop.array, f["login"])
<1> DEFINE old == handlers["login"].list
           h == f["login"]
           new == SortedWith(old, h)
           ran2 == Append(loop.ran, loop.array[loop.next])
           array2 == IF LoopAfter(f) = loop THEN loop.array ELSE new
           shifted2 == IF LoopAfter(f) = loop THEN loop.shifted ELSE TRUE
<1>1. /\ m \notin made /\ made' = made \union {m} /\ AddListener(f)
      /\ loop' = [LoopAfter(f) EXCEPT !.next = @ + 1, !.ran = Append(@, loop.array[loop.next])]
  BY DEF GameStartRegisters, NextHandler
<1>2. h \in Handlers
  BY DEF ListenersOf
<1>3. /\ loop.over = "specific" /\ loop.id = "login" /\ packet.id = "login"
      /\ old \in Seq(Handlers) /\ Descending(old)
      /\ LoopAfter(f) # loop =>
            loop.array = old /\ LoopAfter(f) = [loop EXCEPT !.array = new, !.shifted = TRUE]
      /\ LoopAfter(f) = loop => Len(loop.array) <= Len(old)
  BY <1>2, LoopAfterLogin
<1>4. /\ game = "playing" /\ loop.next \in Nat /\ loop.len \in Nat /\ 1 <= loop.next /\ loop.next <= loop.len
      /\ loop.len <= Len(loop.array)
      /\ loop.array \in Seq(Handlers) /\ loop.array[loop.next] \in Handlers
  BY RunsNow
<1>5. loop \in Loops
  BY DEF StructInv, PlayTypeOK
<1>6. ran2 \in Seq(Handlers)
  BY <1>4, <1>5, AppendProperties DEF Loops
<1>7. new \in Seq(Handlers) /\ Len(new) = Len(old) + 1 /\ Len(old) \in Nat
  BY <1>2, <1>3, SortedWithPlace, LenProperties
<1>8. loop' = [over |-> "specific", id |-> "login", array |-> array2, len |-> loop.len,
               next |-> loop.next + 1, due |-> loop.due, ran |-> ran2, shifted |-> shifted2]
  <2> DEFINE l == LoopAfter(f)
  <2>1. /\ l \in Loops /\ l.over = "specific" /\ l.id = "login" /\ l.array = array2 /\ l.shifted = shifted2
        /\ l.len = loop.len /\ l.next = loop.next /\ l.due = loop.due /\ l.ran = loop.ran
    <3> HIDE DEF new, old
    <3>1. CASE l = loop
      BY <1>3, <1>5, <3>1
    <3>2. CASE l # loop
      BY <1>3, <1>5, <1>7, <3>2 DEF Loops
    <3>3. QED
      BY <3>1, <3>2
  <2> HIDE DEF l, array2, shifted2
  <2>2. loop' = [l EXCEPT !.next = @ + 1, !.ran = Append(@, loop.array[loop.next])]
    BY <1>1 DEF l
  <2>3. loop' = [over |-> l.over, id |-> l.id, array |-> l.array, len |-> l.len, next |-> l.next + 1,
                 due |-> l.due, ran |-> Append(l.ran, loop.array[loop.next]), shifted |-> l.shifted]
    BY <2>1, <2>2 DEF Loops
  <2>4. QED
    BY <2>1, <2>3
<1>9. handlers'["login"].list = new
  <2>1. handlers' = WithListeners(handlers, f)
    BY <1>1 DEF AddListener
  <2>2. handlers \in [PacketIds -> Slices] /\ registered \in [PacketIds -> Seq(Handlers)]
    BY DEF StructInv, RegistryInv, RegistryOf
  <2>3. "login" \in PacketIds
    BY PlayAssumption DEF SessionIds
  <2>4. \A id \in DOMAIN f : f[id] \in Handlers
    BY DEF ListenersOf
  <2>5. WithListeners(handlers, f)["login"].list = SortedWith(handlers["login"].list, f["login"])
    <3>1. \A id \in PacketIds :
             /\ id \in DOMAIN f =>
                   /\ WithListeners(handlers, f)[id].list = SortedWith(handlers[id].list, f[id])
                   /\ WithRegistered(registered, f)[id] = Append(registered[id], f[id])
             /\ id \notin DOMAIN f =>
                   /\ WithListeners(handlers, f)[id] = handlers[id]
                   /\ WithRegistered(registered, f)[id] = registered[id]
      BY <2>2, <2>4, ListenersPoints
    <3>2. QED
      BY <2>3, <3>1
  <2>6. QED
    BY <2>1, <2>5
<1>10. RegistryInv'
  BY <1>1, RegistersOne DEF StructInv
<1>11. /\ array2 \in Seq(Handlers) /\ shifted2 \in BOOLEAN /\ Len(array2) \in Nat
       /\ loop.len <= Len(array2)
       /\ ~shifted2 => loop.len = Len(array2)
  <2> HIDE DEF new, old
  <2>1. loop.shifted \in BOOLEAN /\ (~loop.shifted => loop.len = Len(loop.array))
    BY <1>3, <1>5 DEF Loops, StructInv, LoopInv
  <2>2. Len(loop.array) \in Nat
    BY <1>4, LenProperties
  <2>3. CASE LoopAfter(f) = loop
    BY <1>4, <2>1, <2>2, <2>3
  <2>4. CASE LoopAfter(f) # loop
    BY <1>3, <1>4, <1>7, <2>2, <2>4
  <2>5. QED
    BY <2>3, <2>4
<1>12. array2 = new \/ Len(array2) < Len(new)
  <2> HIDE DEF new, old
  <2>1. Len(loop.array) \in Nat
    BY <1>4, LenProperties
  <2>2. QED
    BY <1>3, <1>7, <2>1
<1>13. Named(array2, NamesFor("login"))
  <2>1. Named(loop.array, NamesFor("login"))
    BY <1>3 DEF StructInv, LoopInv
  <2>2. Named(handlers'["login"].list, NamesFor("login"))
    <3>1. "login" \in PacketIds
      BY PlayAssumption DEF SessionIds
    <3>2. QED
      BY <1>10, <3>1 DEF RegistryInv, RegistryOf
  <2>3. QED
    BY <1>9, <2>1, <2>2
<1> HIDE DEF array2, shifted2, ran2, new, old
<1>14. loop' \in Loops
  BY <1>4, <1>5, <1>6, <1>8, <1>11 DEF Loops, SessionIds
<1>15. PlayTypeOK'
  BY <1>1, <1>14 DEF StructInv, PlayTypeOK
<1>16. LoopInv'
  <2>1. loop.next + 1 \in 1 .. loop.len + 1
    BY <1>4
  <2>2. /\ loop'.over = "specific" /\ loop'.id = "login" /\ loop'.array = array2 /\ loop'.len = loop.len
        /\ loop'.next = loop.next + 1 /\ loop'.shifted = shifted2
    BY <1>8
  <2>3. game' = "playing" /\ packet'.id = "login" /\ "login" \in SessionIds
    BY <1>3, <1>4 DEF SessionIds
  <2>4. QED
    BY <1>9, <1>11, <1>12, <1>13, <2>1, <2>2, <2>3 DEF LoopInv
<1>17. StructInv'
  BY <1>10, <1>15, <1>16 DEF StructInv
<1>18. \/ LoopAfter(f) = loop /\ loop'.array = loop.array /\ loop'.shifted = loop.shifted
       \/ /\ LoopAfter(f) # loop /\ loop'.shifted = TRUE /\ loop.array = old /\ loop'.array = new
  BY <1>3, <1>8 DEF array2, shifted2
<1>19. QED
  BY <1>3, <1>8, <1>17, <1>18 DEF ran2, new, old

(* Every step of a handler is one that ran, one that failed, or GameStart  *)
(* with something to register.                                             *)
GameStartAdds(m, f) ==
    /\ Runs("gameStart")
    /\ GameStartRegisters(m, f)
    /\ m \in {"world", "late"} /\ ListenersOf(f, m) /\ "login" \in DOMAIN f
    /\ UNCHANGED <<game, packet, serial, joins, stateVars, out, asked, said>>
    /\ heard' = Append(heard, <<"gameStart", serial, player.eid>>)

LEMMA GameStartKinds ==
    ASSUME GameStart
    PROVE  (HandlerRan("gameStart") /\ truth' = truth) \/ \E m, f : GameStartAdds(m, f)
<1>1. /\ Runs("gameStart") /\ heard' = Append(heard, <<"gameStart", serial, player.eid>>)
      /\ UNCHANGED <<game, packet, serial, joins, stateVars, out, asked, said>>
  BY DEF GameStart
<1>2. CASE NextHandler(loop) /\ UNCHANGED <<generic, handlers, registered, made, truth>>
  BY <1>1, <1>2 DEF HandlerRan, sessionVars
<1>3. CASE GameStartRegisters("world", WorldListeners)
  <2>1. "login" \in DOMAIN WorldListeners
    BY DEF WorldListeners
  <2>2. GameStartAdds("world", WorldListeners)
    BY <1>1, <1>3, <2>1, WorldListenersOf DEF GameStartAdds
  <2>3. QED
    BY <2>2
<1>4. CASE \E p \in LatePriorities : GameStartRegisters("late", LateListener(p))
  <2>1. PICK p \in LatePriorities : GameStartRegisters("late", LateListener(p))
    BY <1>4
  <2>2. "login" \in DOMAIN LateListener(p)
    BY DEF LateListener
  <2>3. GameStartAdds("late", LateListener(p))
    BY <1>1, <2>1, <2>2, LateListenerOf DEF GameStartAdds
  <2>4. QED
    BY <2>3
<1>5. QED
  BY <1>2, <1>3, <1>4 DEF GameStart

LEMMA HandleKinds ==
    ASSUME Handle
    PROVE  \/ \E name : HandlerRan(name)
           \/ loop.over # "none" /\ HandlerFailed
           \/ \E m, f : GameStartAdds(m, f)
<1>1. CASE GameStart
  BY <1>1, GameStartKinds
<1>2. CASE HandlerFails \/ HandleLoginPacketScanFails \/ UpdateHealthFails
  BY <1>2 DEF HandlerFails, HandleLoginPacketScanFails, UpdateHealthFails, Runs
<1>3. CASE TapHandler \/ LateHandler \/ HandleLoginPacket \/ HandleRespawnPacket
           \/ NoticeHandler \/ UpdateHealth \/ OnPlayerSpawn \/ HandleLevelChunk
           \/ HandlePlayerInfoUpdatePacket \/ HandlePlayerInfoRemovePacket \/ HandlePlayerChat
  BY <1>3 DEF TapHandler, LateHandler, HandleLoginPacket, HandleRespawnPacket, NoticeHandler,
     UpdateHealth, OnPlayerSpawn, HandleLevelChunk, HandlePlayerInfoUpdatePacket,
     HandlePlayerInfoRemovePacket, HandlePlayerChat
<1>4. CASE \E id \in {"keepAlive", "ping", "position"} : HandleAsked(id)
  BY <1>4 DEF HandleAsked
<1>5. QED
  BY <1>1, <1>2, <1>3, <1>4 DEF Handle

LEMMA ServerSendsKinds ==
    ASSUME ServerSends
    PROVE  \E p : p.id \in SessionIds /\ Receives(p)
<1>1. \A d : ServerSendsLogin(d) \/ ServerSendsRespawn(d) => \E p : p.id \in SessionIds /\ Receives(p)
  <2> TAKE d
  <2>1. [id |-> "login", eid |-> joins, dim |-> d].id \in SessionIds /\ [id |-> "respawn", dim |-> d].id \in SessionIds
    BY DEF SessionIds
  <2>2. QED
    BY <2>1 DEF ServerSendsLogin, ServerSendsRespawn
<1>2. \A id \in {"keepAlive", "ping", "position"} : ServerAsks(id) => \E p : p.id \in SessionIds /\ Receives(p)
  <2> TAKE id \in {"keepAlive", "ping", "position"}
  <2>1. [id |-> id].id \in SessionIds
    BY DEF SessionIds
  <2>2. QED
    BY <2>1 DEF ServerAsks
<1>3. \A dead : ServerSendsHealth(dead) => \E p : p.id \in SessionIds /\ Receives(p)
  <2> TAKE dead
  <2>1. [id |-> "health", dead |-> dead].id \in SessionIds
    BY DEF SessionIds
  <2>2. QED
    BY <2>1 DEF ServerSendsHealth
<1>4. \A id \in {"notice", "chunk"} : ServerSendsPlain(id) => \E p : p.id \in SessionIds /\ Receives(p)
  <2> TAKE id \in {"notice", "chunk"}
  <2>1. [id |-> id].id \in SessionIds
    BY DEF SessionIds
  <2>2. QED
    BY <2>1 DEF ServerSendsPlain
<1>5. \A S, add : ServerListsPlayers(S, add) \/ ServerRemovesPlayers(S) => \E p : p.id \in SessionIds /\ Receives(p)
  <2> TAKE S, add
  <2>1. /\ [id |-> "infoUpdate", add |-> add, uuids |-> S].id \in SessionIds
        /\ [id |-> "infoRemove", uuids |-> S].id \in SessionIds
    BY DEF SessionIds
  <2>2. QED
    BY <2>1 DEF ServerListsPlayers, ServerRemovesPlayers
<1>6. \A u, unpacks : ServerSendsChat(u, unpacks) => \E p : p.id \in SessionIds /\ Receives(p)
  <2> TAKE u, unpacks
  <2>1. [id |-> "playerChat", sender |-> u, unpacks |-> unpacks].id \in SessionIds
    BY DEF SessionIds
  <2>2. QED
    BY <2>1 DEF ServerSendsChat
<1>7. QED
  BY <1>1, <1>2, <1>3, <1>4, <1>5, <1>6 DEF ServerSends

LEMMA GameStartAddsStruct ==
    ASSUME StructInv, NEW m, NEW f, GameStartAdds(m, f)
    PROVE  /\ StructInv'
           /\ loop'.next = loop.next + 1 /\ loop'.ran = Append(loop.ran, loop.array[loop.next])
           /\ loop'.over = loop.over /\ loop'.len = loop.len /\ loop'.due = loop.due
           /\ \/ LoopAfter(f) = loop /\ loop'.array = loop.array /\ loop'.shifted = loop.shifted
              \/ /\ LoopAfter(f) # loop /\ loop'.shifted = TRUE
                 /\ loop.array = handlers["login"].list
                 /\ loop'.array = SortedWith(loop.array, f["login"])
<1>1. m \in Managers \ {"player"}
  BY DEF GameStartAdds, Managers
<1>2. /\ Runs("gameStart") /\ ListenersOf(f, m) /\ "login" \in DOMAIN f
      /\ GameStartRegisters(m, f) /\ UNCHANGED <<game, packet, serial, joins>>
  BY DEF GameStartAdds
<1>3. QED
  BY <1>1, <1>2, GameStartStruct

LEMMA StructInit == Init => StructInv
<1> SUFFICES ASSUME Init PROVE StructInv
  OBVIOUS
<1>1. <<>> \in Seq(Handlers) /\ <<>> \in Seq(Taps) /\ DOMAIN <<>> = {} /\ Len(<<>>) = 0
  BY EmptySeq
<1>2. /\ generic = NoSlice /\ handlers = [id \in PacketIds |-> NoSlice]
      /\ registered = [id \in PacketIds |-> <<>>] /\ loop = NoLoop
      /\ game = "setup" /\ made = {} /\ serial = 0 /\ joins = 0
  BY DEF Init, EventsInit
<1>3. NoSlice \in Slices /\ NoSlice.list = <<>>
  BY <1>1 DEF NoSlice, Slices
<1>4. RegisteredIn(<<>>, <<>>)
  BY <1>1 DEF RegisteredIn, Once
<1>5. Owners = {}
  BY <1>2 DEF Owners
<1>6. AloneIds \subseteq PacketIds
  BY PlayAssumption DEF AloneIds
<1>7. RegistryOf(handlers, registered, {})
  BY <1>1, <1>2, <1>3, <1>4, <1>6 DEF RegistryOf, Named
<1>8. RegistryInv
  BY <1>1, <1>2, <1>3, <1>5, <1>7 DEF RegistryInv
<1>9. loop \in Loops /\ LoopInv
  BY <1>1, <1>2 DEF NoLoop, Loops, LoopInv
<1>10. PlayTypeOK
  BY <1>2, <1>9 DEF PlayTypeOK
<1>11. QED
  BY <1>8, <1>9, <1>10 DEF StructInv

LEMMA StructStep == StructInv /\ [Next]_vars => StructInv'
<1> SUFFICES ASSUME StructInv, [Next]_vars PROVE StructInv'
  OBVIOUS
<1>1. CASE UNCHANGED vars
  BY <1>1 DEF vars, eventsVars, sessionVars, StructInv, PlayTypeOK, RegistryInv, LoopInv, Owners
<1>2. CASE Setup
  BY <1>2, NewPlayerStruct, NewWorldStruct, NewPlayerListStruct, NewChatStruct, AddTapStruct,
     JoinServerStruct, ConnectionEndsStruct DEF Setup
<1>3. CASE ServerSends
  BY <1>3, ServerSendsKinds, ReceivesStruct
<1>4. CASE HandlePacketLoops
  <2>1. UNCHANGED <<game, made, packet, serial, joins>>
    BY <1>4 DEF HandlePacketLoops, sessionVars
  <2>2. CASE HandlePacketSpecific
    BY <2>1, <2>2, SpecificStruct
  <2>3. CASE HandlePacketReturn
    <3>1. loop' = NoLoop /\ UNCHANGED <<generic, handlers, registered>> /\ loop.over = "specific"
      BY <2>3 DEF HandlePacketReturn
    <3>2. game = "playing"
      BY <3>1 DEF StructInv, LoopInv
    <3>3. QED
      BY <2>1, <3>1, <3>2, ReturnStruct
  <2>4. QED
    BY <1>4, <2>2, <2>3 DEF HandlePacketLoops
<1>5. CASE Handle
  <2>1. CASE \E name : HandlerRan(name)
    BY <2>1, RanStruct
  <2>2. CASE loop.over # "none" /\ HandlerFailed
    BY <2>2, FailedStruct
  <2>3. CASE \E m, f : GameStartAdds(m, f)
    BY <2>3, GameStartAddsStruct
  <2>4. QED
    BY <1>5, <2>1, <2>2, <2>3, HandleKinds
<1>6. QED
  BY <1>1, <1>2, <1>3, <1>4, <1>5 DEF Next

(* The shape of the registry and of the loop always holds.                 *)
THEOREM StructureAlways == Spec => []StructInv
<1>1. QED
  BY StructInit, StructStep, PTL DEF Spec

(* Whoever registers what when, the handlers of an ID are by priority and  *)
(* then by age, each once: AddListener, AddGeneric and sortPacketHandlers. *)
THEOREM RegistryCorrect == Spec => []RegistryInOrder
<1>1. StructInv => RegistryInOrder
  <2> SUFFICES ASSUME StructInv, NEW id \in PacketIds
               PROVE  LET list == handlers[id].list  reg == registered[id]
                      IN  /\ Len(list) = Len(reg)
                          /\ \A i \in DOMAIN reg : \E j \in DOMAIN list : list[j] = reg[i]
                          /\ \A i, j \in DOMAIN list : i < j =>
                                \/ list[i].priority > list[j].priority
                                \/ list[i].priority = list[j].priority
                                   /\ Position(reg, list[i]) < Position(reg, list[j])
    BY DEF RegistryInOrder
  <2> DEFINE list == handlers[id].list
             reg == registered[id]
  <2>1. RegisteredIn(list, reg)
    BY DEF StructInv, RegistryInv, RegistryOf
  <2> HIDE DEF list, reg
  <2>2. \A k \in DOMAIN reg : Position(reg, reg[k]) = k
    <3> SUFFICES ASSUME NEW k \in DOMAIN reg PROVE Position(reg, reg[k]) = k
      OBVIOUS
    <3>1. \E i \in DOMAIN reg : reg[i] = reg[k]
      OBVIOUS
    <3>2. Position(reg, reg[k]) \in DOMAIN reg /\ reg[Position(reg, reg[k])] = reg[k]
      BY <3>1 DEF Position
    <3>3. QED
      BY <2>1, <3>2 DEF RegisteredIn, Once
  <2>3. ASSUME NEW i \in DOMAIN list, NEW j \in DOMAIN list, i < j
        PROVE  \/ list[i].priority > list[j].priority
               \/ list[i].priority = list[j].priority
                  /\ Position(reg, list[i]) < Position(reg, list[j])
    <3>1. Precedes(reg, list[i], list[j])
      BY <2>1, <2>3 DEF RegisteredIn
    <3>2. CASE Earlier(reg, list[i], list[j]) /\ list[i].priority = list[j].priority
      <4>1. PICK k, n \in DOMAIN reg : k < n /\ reg[k] = list[i] /\ reg[n] = list[j]
        BY <3>2 DEF Earlier
      <4>2. Position(reg, list[i]) = k /\ Position(reg, list[j]) = n
        BY <2>2, <4>1
      <4>3. QED
        BY <3>2, <4>1, <4>2
    <3>3. QED
      BY <3>1, <3>2 DEF Precedes
  <2>4. QED
    BY <2>1, <2>3 DEF RegisteredIn, list, reg
<1>2. QED
  BY <1>1, StructureAlways, PTL

-----------------------------------------------------------------------------
(* What runs on a packet *)

LEMMA DispatchReceives ==
    ASSUME StructInv, NEW p, p.id \in SessionIds, Receives(p)
    PROVE  DispatchInv'
<1>1. StructInv' /\ loop'.due = loop'.array /\ loop'.ran = <<>> /\ loop'.next = 1
  BY ReceivesStruct
<1>2. loop'.array \in Seq(Handlers)
  BY <1>1 DEF StructInv, PlayTypeOK, Loops
<1> DEFINE array == loop'.array
<1> HIDE DEF array
<1>3. array \in Seq(Handlers) => array = <<>> \o array /\ <<>> \in Seq(Handlers)
  BY ConcatEmptySeq, EmptySeq
<1>4. SubSeq(array, 1, 1 - 1) = <<>>
  BY SubSeqEmpty
<1>5. <<>> = <<>> \o <<>>
  OBVIOUS
<1>6. /\ loop'.due = <<>> \o loop'.array
      /\ loop'.ran = <<>> \o SubSeq(loop'.array, 1, loop'.next - 1)
      /\ <<>> \in Seq(Handlers)
  BY <1>1, <1>2, <1>3, <1>4, <1>5 DEF array
<1>7. QED
  BY <1>6 DEF DispatchInv

LEMMA DispatchSpecific ==
    ASSUME StructInv, DispatchInv, HandlePacketSpecific, UNCHANGED <<game, made, packet, serial, joins>>
    PROVE  DispatchInv'
<1>1. /\ StructInv' /\ loop.over = "generic" /\ loop.next = loop.len + 1
      /\ loop'.next = 1 /\ loop'.due = loop.due \o loop'.array /\ loop'.ran = loop.ran
  BY SpecificStruct
<1>2. /\ loop.array \in Seq(Handlers) /\ loop.due \in Seq(Handlers) /\ loop.ran \in Seq(Handlers)
      /\ loop.shifted = FALSE /\ loop.len = Len(loop.array) /\ loop.len \in Nat
  BY <1>1 DEF StructInv, PlayTypeOK, LoopInv, Loops
<1>3. PICK before \in Seq(Handlers) :
         loop.due = before \o loop.array /\ loop.ran = before \o SubSeq(loop.array, 1, loop.next - 1)
  BY <1>1, <1>2 DEF DispatchInv
<1>4. loop.next - 1 = Len(loop.array)
  BY <1>1, <1>2
<1>5. SubSeq(loop.array, 1, Len(loop.array)) = loop.array
  BY <1>2, SubSeqFull
<1>6. loop.ran = loop.due
  BY <1>3, <1>4, <1>5
<1>7. SubSeq(loop'.array, 1, 1 - 1) = <<>>
  BY SubSeqEmpty
<1>8. loop.ran = loop.due \o <<>>
  BY <1>2, <1>6, ConcatEmptySeq
<1>9. /\ loop'.due = loop.due \o loop'.array
      /\ loop'.ran = loop.due \o SubSeq(loop'.array, 1, loop'.next - 1)
      /\ loop.due \in Seq(Handlers)
  BY <1>1, <1>2, <1>7, <1>8
<1>10. QED
  BY <1>9 DEF DispatchInv

LEMMA Regroup == \A a, b, c \in Seq(Handlers) : (a \o b) \o c = a \o (b \o c)
BY ConcatAssociative

(* One more has run.                                                       *)
LEMMA DispatchOneMore ==
    ASSUME NEW array \in Seq(Handlers), NEW n \in 1 .. Len(array), NEW before \in Seq(Handlers)
    PROVE  Append(before \o SubSeq(array, 1, n - 1), array[n]) = before \o SubSeq(array, 1, (n + 1) - 1)
<1>1. Len(array) \in Nat /\ array[n] \in Handlers /\ n \in Nat
  BY LenProperties, ElementOfSeq
<1> DEFINE head == SubSeq(array, 1, n - 1)
           e == array[n]
<1>2. head \in Seq(Handlers)
  <2>1. \A i \in 1 .. n - 1 : array[i] \in Handlers
    BY <1>1, ElementOfSeq
  <2>2. QED
    BY <1>1, <2>1, SubSeqProperties
<1>3. SubSeq(array, 1, n) = head \o <<e>>
  <2>1. 1 \in 1 .. Len(array) /\ n \in 1 .. Len(array)
    BY <1>1
  <2>2. QED
    BY <2>1, SubSeqRecursiveSecond
<1> HIDE DEF head, e
<1>4. e \in Handlers /\ <<e>> \in Seq(Handlers)
  BY <1>1 DEF e
<1>5. before \o head \in Seq(Handlers)
  BY <1>2, ConcatProperties
<1>6. Append(before \o head, e) = (before \o head) \o <<e>>
  BY <1>4, <1>5, AppendIsConcat
<1>7. (before \o head) \o <<e>> = before \o (head \o <<e>>)
  <2> DEFINE one == <<e>>
  <2>1. one \in Seq(Handlers)
    BY <1>4
  <2> HIDE DEF one
  <2>2. (before \o head) \o one = before \o (head \o one)
    BY <1>2, <2>1, Regroup
  <2>3. QED
    BY <2>2 DEF one
<1>8. (n + 1) - 1 = n
  BY <1>1
<1>9. QED
  BY <1>3, <1>6, <1>7, <1>8 DEF head, e

LEMMA DispatchRan ==
    ASSUME StructInv, DispatchInv, NEW name, Runs(name),
           loop'.next = loop.next + 1, loop'.ran = Append(loop.ran, loop.array[loop.next]),
           loop'.due = loop.due, loop'.shifted \/ (loop'.array = loop.array /\ loop'.shifted = loop.shifted)
    PROVE  DispatchInv'
<1>1. loop.over # "none" /\ loop.array \in Seq(Handlers) /\ loop.next \in 1 .. Len(loop.array)
  <2>1. loop.over # "none" /\ loop.array \in Seq(Handlers) /\ loop.next \in DOMAIN loop.array
    BY RunsNow
  <2>2. QED
    BY <2>1, LenProperties
<1>2. CASE loop'.shifted
  BY <1>2 DEF DispatchInv
<1>3. CASE ~loop'.shifted
  <2>1. ~loop.shifted /\ loop'.array = loop.array
    BY <1>3
  <2>2. PICK before \in Seq(Handlers) :
           loop.due = before \o loop.array /\ loop.ran = before \o SubSeq(loop.array, 1, loop.next - 1)
    BY <1>1, <2>1 DEF DispatchInv
  <2>3. Append(loop.ran, loop.array[loop.next]) = before \o SubSeq(loop.array, 1, (loop.next + 1) - 1)
    <3>1. Append(before \o SubSeq(loop.array, 1, loop.next - 1), loop.array[loop.next])
             = before \o SubSeq(loop.array, 1, (loop.next + 1) - 1)
      BY <1>1, DispatchOneMore
    <3>2. QED
      BY <2>2, <3>1
  <2>4. loop'.due = before \o loop'.array /\ loop'.ran = before \o SubSeq(loop'.array, 1, loop'.next - 1)
    BY <2>1, <2>2, <2>3
  <2>5. QED
    BY <2>4 DEF DispatchInv
<1>4. QED
  BY <1>2, <1>3

LEMMA DispatchStep == StructInv /\ DispatchInv /\ [Next]_vars => DispatchInv'
<1> SUFFICES ASSUME StructInv, DispatchInv, [Next]_vars PROVE DispatchInv'
  OBVIOUS
<1>0. loop'.over = "none" => DispatchInv'
  BY DEF DispatchInv
<1>1. CASE loop' = loop
  BY <1>1 DEF DispatchInv
<1>2. CASE UNCHANGED vars
  BY <1>1, <1>2 DEF vars, eventsVars
<1>3. CASE Setup
  BY <1>1, <1>3 DEF Setup, NewPlayer, NewWorld, NewPlayerList, NewChat, AddTap, Makes,
     JoinServer, ConnectionEnds, eventsVars
<1>4. CASE ServerSends
  BY <1>4, ServerSendsKinds, DispatchReceives
<1>5. CASE HandlePacketLoops
  <2>1. UNCHANGED <<game, made, packet, serial, joins>>
    BY <1>5 DEF HandlePacketLoops, sessionVars
  <2>2. CASE HandlePacketSpecific
    BY <2>1, <2>2, DispatchSpecific
  <2>3. CASE HandlePacketReturn
    BY <1>0, <2>3 DEF HandlePacketReturn, NoLoop
  <2>4. QED
    BY <1>5, <2>2, <2>3 DEF HandlePacketLoops
<1>6. CASE Handle
  <2>1. ASSUME NEW name, HandlerRan(name) PROVE DispatchInv'
    BY <2>1, RanStruct, DispatchRan
  <2>2. CASE HandlerFailed
    BY <1>0, <2>2 DEF HandlerFailed, NoLoop
  <2>3. ASSUME NEW m, NEW f, GameStartAdds(m, f) PROVE DispatchInv'
    <3>1. Runs("gameStart")
      BY <2>3 DEF GameStartAdds
    <3>2. QED
      BY <2>3, <3>1, GameStartAddsStruct, DispatchRan
  <2>4. QED
    BY <1>6, <2>1, <2>2, <2>3, HandleKinds
<1>7. QED
  BY <1>2, <1>3, <1>4, <1>5, <1>6 DEF Next

(* A packet's handlers run each once, the generic ones and then those of   *)
(* its ID, in the order of the lists: the two loops of handlePacket, when  *)
(* no listener of GameStart has shifted the array under the second.        *)
THEOREM DispatchCorrect == Spec => []DispatchRunsAll
<1>1. Init => DispatchInv
  BY DEF Init, EventsInit, NoLoop, DispatchInv
<1>2. StructInv /\ DispatchInv => DispatchRunsAll
  <2> SUFFICES ASSUME StructInv, DispatchInv, loop.over # "none", ~loop.shifted
               PROVE  /\ loop.ran = SubSeq(loop.due, 1, Len(loop.ran))
                      /\ LoopDone => loop.ran = loop.due
    BY DEF DispatchRunsAll
  <2> DEFINE array == loop.array
             n == loop.next - 1
  <2>1. /\ array \in Seq(Handlers) /\ Len(array) \in Nat /\ loop.len = Len(array)
        /\ n \in 0 .. Len(array) /\ loop.next = n + 1 /\ loop.next \in Nat
    <3>1. loop.array \in Seq(Handlers) /\ loop.next \in Nat /\ loop.len = Len(loop.array) /\ loop.next \in 1 .. loop.len + 1
      BY DEF StructInv, PlayTypeOK, Loops, LoopInv
    <3>2. QED
      BY <3>1, LenProperties
  <2>2. PICK before \in Seq(Handlers) : loop.due = before \o array /\ loop.ran = before \o SubSeq(array, 1, n)
    BY DEF DispatchInv
  <2> HIDE DEF array, n
  <2> DEFINE head == SubSeq(array, 1, n)
             rest == SubSeq(array, n + 1, Len(array))
  <2>3. head \in Seq(Handlers) /\ Len(head) = n
    <3>1. \A i \in 1 .. n : array[i] \in Handlers
      BY <2>1, ElementOfSeq
    <3>2. QED
      BY <2>1, <3>1, SubSeqProperties
  <2>4. rest \in Seq(Handlers)
    <3>1. \A i \in n + 1 .. Len(array) : array[i] \in Handlers
      BY <2>1, ElementOfSeq
    <3>2. QED
      BY <2>1, <3>1, SubSeqProperties
  <2>5. array = head \o rest
    <3>1. 1 \in 1 .. Len(array) + 1 /\ n \in (1 - 1) .. Len(array) /\ Len(array) \in n .. Len(array)
      BY <2>1
    <3>2. SubSeq(array, 1, n) \o SubSeq(array, n + 1, Len(array)) = SubSeq(array, 1, Len(array))
      BY <2>1, <3>1, ConcatAdjacentSubSeq
    <3>3. QED
      BY <2>1, <3>2, SubSeqFull
  <2> HIDE DEF head, rest
  <2>6. loop.ran = before \o head /\ loop.due = (before \o head) \o rest
    <3>1. before \o (head \o rest) = (before \o head) \o rest
      BY <2>3, <2>4, Regroup
    <3>2. loop.ran = before \o head
      BY <2>2 DEF head
    <3>3. loop.due = before \o (head \o rest)
      BY <2>2, <2>5
    <3>4. QED
      BY <3>1, <3>2, <3>3
  <2> DEFINE r == before \o head
  <2>7. r \in Seq(Handlers)
    BY <2>3, ConcatProperties
  <2> HIDE DEF r
  <2>8. SubSeq(r \o rest, 1, Len(r)) = r
    <3>1. CASE r = <<>>
      <4>1. Len(r) = 0
        BY <3>1
      <4>2. SubSeq(r \o rest, 1, 0) = <<>>
        BY SubSeqEmpty
      <4>3. QED
        BY <3>1, <4>1, <4>2
    <3>2. CASE r # <<>>
      <4>1. Len(r) \in Nat /\ Len(r) # 0
        BY <2>7, <3>2, LenProperties, EmptySeq
      <4>2. 1 \in 1 .. Len(r) /\ Len(r) \in 1 .. Len(r)
        BY <4>1
      <4>3. SubSeq(r \o rest, 1, Len(r)) = SubSeq(r, 1, Len(r))
        BY <2>4, <2>7, <4>2, SubSeqOfConcat1
      <4>4. QED
        BY <2>7, <4>3, SubSeqFull
    <3>3. QED
      BY <3>1, <3>2
  <2>9. loop.ran = SubSeq(loop.due, 1, Len(loop.ran))
    BY <2>6, <2>8 DEF r
  <2>10. ASSUME LoopDone PROVE loop.ran = loop.due
    <3>1. n = Len(array)
      BY <2>1, <2>10 DEF LoopDone
    <3>2. head = array
      BY <2>1, <3>1, SubSeqFull DEF head
    <3>3. QED
      BY <2>2, <2>6, <3>2
  <2>11. QED
    BY <2>9, <2>10
<1>3. QED
  BY <1>1, <1>2, DispatchStep, StructInit, StructStep, PTL DEF Spec

-----------------------------------------------------------------------------
(* The packet in hand *)

LEMMA TruthStep == TruthShape /\ [Next]_vars => TruthShape'
<1> SUFFICES ASSUME TruthShape, [Next]_vars PROVE TruthShape'
  OBVIOUS
<1>1. CASE truth' = truth
  BY <1>1 DEF TruthShape
<1>2. CASE Setup
  <2>1. CASE JoinServer
    BY <2>1 DEF JoinServer, TruthShape
  <2>2. CASE ~JoinServer
    BY <1>1, <1>2, <2>2 DEF Setup, NewPlayer, NewWorld, NewPlayerList, NewChat, AddTap, Makes,
       ConnectionEnds, historyVars
  <2>3. QED
    BY <2>1, <2>2
<1>3. CASE ServerSends
  <2>1. ASSUME NEW d, ServerSendsLogin(d) PROVE TruthShape'
    BY <2>1 DEF ServerSendsLogin, TruthShape
  <2>2. ASSUME NEW d, ServerSendsRespawn(d) PROVE TruthShape'
    BY <2>2 DEF ServerSendsRespawn, TruthShape
  <2>3. ASSUME NEW S, NEW add, ServerListsPlayers(S, add) PROVE TruthShape'
    <3>1. \E l : truth' = [truth EXCEPT !.listed = l]
      BY <2>3 DEF ServerListsPlayers
    <3>2. QED
      BY <3>1 DEF TruthShape
  <2>4. ASSUME NEW S, ServerRemovesPlayers(S) PROVE TruthShape'
    <3>1. \E l : truth' = [truth EXCEPT !.listed = l]
      BY <2>4 DEF ServerRemovesPlayers
    <3>2. QED
      BY <3>1 DEF TruthShape
  <2>5. CASE \/ \E id \in {"keepAlive", "ping", "position"} : ServerAsks(id)
             \/ \E dead \in BOOLEAN : ServerSendsHealth(dead)
             \/ \E id \in {"notice", "chunk"} : ServerSendsPlain(id)
             \/ \E u \in Uuids, unpacks \in BOOLEAN : ServerSendsChat(u, unpacks)
    BY <1>1, <2>5 DEF ServerAsks, ServerSendsHealth, ServerSendsPlain, ServerSendsChat
  <2>6. QED
    BY <1>3, <2>1, <2>2, <2>3, <2>4, <2>5 DEF ServerSends
<1>4. CASE HandlePacketLoops
  BY <1>1, <1>4 DEF HandlePacketLoops, historyVars
<1>5. CASE Handle
  <2>1. CASE GameStart
    <3>1. truth' = truth \/ \E m, f : truth' = [truth EXCEPT !.disturbed = IF LoopAfter(f) = loop THEN @ ELSE joins]
      BY <2>1, GameStartKinds DEF GameStartAdds, GameStartRegisters
    <3>2. \A x : truth' = [truth EXCEPT !.disturbed = x] => TruthShape'
      BY DEF TruthShape
    <3>3. QED
      BY <1>1, <3>1, <3>2
  <2>2. CASE ~GameStart
    BY <1>1, <1>5, <2>2 DEF Handle, HandlerFails, TapHandler, LateHandler, HandleLoginPacket,
       HandleLoginPacketScanFails, HandleRespawnPacket, HandleAsked, NoticeHandler, UpdateHealth,
       UpdateHealthFails, OnPlayerSpawn, HandleLevelChunk, HandlePlayerInfoUpdatePacket,
       HandlePlayerInfoRemovePacket, HandlePlayerChat, historyVars
  <2>3. QED
    BY <2>1, <2>2
<1>6. CASE UNCHANGED vars
  BY <1>1, <1>6 DEF vars, historyVars
<1>7. QED
  BY <1>2, <1>3, <1>4, <1>5, <1>6 DEF Next

LEMMA BaseStep == BaseInv /\ [Next]_vars => BaseInv'
BY StructStep, TruthStep DEF BaseInv

LEMMA BaseInit == Init => BaseInv
BY StructInit DEF BaseInv, Init, TruthShape

(* Between two packets none is pending.                                    *)
LEMMA PendingNone == loop.over = "none" => \A name : ~Pending(name)
BY DEF Pending

LEMMA PendingNoneNext == loop'.over = "none" => \A name : ~Pending(name)'
BY DEF Pending

LEMMA PendingSame ==
    loop' = loop /\ packet' = packet => \A name : Pending(name)' <=> Pending(name)
BY DEF Pending

LEMMA PendingReceives ==
    ASSUME StructInv, NEW p, p.id \in SessionIds, Receives(p)
    PROVE  \A name : ~Pending(name) /\ (Pending(name)' <=> name = p.id)
<1>1. loop.over = "none" /\ loop'.over = "generic" /\ packet' = p
  BY ReceivesStruct DEF Receives
<1>2. QED
  BY <1>1 DEF Pending

(* The handler of the packet's ID is in the list.                          *)
LEMMA HandlerThere ==
    ASSUME StructInv, NEW name \in SessionIds, Owner(name) \in Owners
    PROVE  Has(handlers[name].list, name)
<1>1. RegistryOf(handlers, registered, Owners)
  BY DEF StructInv, RegistryInv
<1>2. CASE name \in AloneIds
  <2>1. handlers[name].list = <<HandlerOf(name)>>
    BY <1>1, <1>2 DEF RegistryOf
  <2>2. HandlerOf(name).name = name
    BY DEF HandlerOf, H
  <2>3. 1 \in DOMAIN handlers[name].list /\ handlers[name].list[1] = HandlerOf(name)
    BY <2>1
  <2>4. QED
    BY <2>2, <2>3 DEF Has
<1>3. CASE name \notin AloneIds
  <2>1. name \in {"login", "respawn"}
    BY <1>3 DEF AloneIds
  <2>2. "player" \in Owners
    BY <2>1 DEF Owner
  <2>3. In(H(name, 0), handlers[name].list)
    BY <1>1, <2>1, <2>2 DEF RegistryOf
  <2>4. H(name, 0).name = name
    BY DEF H
  <2>5. QED
    BY <2>3, <2>4 DEF In, Has
<1>4. QED
  BY <1>2, <1>3

LEMMA PendingSpecific ==
    ASSUME StructInv, HandlePacketSpecific, UNCHANGED <<game, made, packet, serial, joins>>
    PROVE  \A name \in SessionIds : Owner(name) \in Owners => (Pending(name)' <=> Pending(name))
<1>1. /\ StructInv' /\ loop.over = "generic" /\ loop.id = packet.id
      /\ loop'.over = "specific" /\ loop'.next = 1 /\ loop'.array = handlers[packet.id].list
      /\ loop'.len = Len(loop'.array) /\ packet' = packet
  BY SpecificStruct
<1> SUFFICES ASSUME NEW name \in SessionIds, Owner(name) \in Owners
             PROVE  Pending(name)' <=> Pending(name)
  OBVIOUS
<1>2. CASE packet.id # name
  BY <1>1, <1>2 DEF Pending
<1>3. CASE packet.id = name
  <2>1. PICK k \in DOMAIN handlers[name].list : handlers[name].list[k].name = name
    BY HandlerThere DEF Has
  <2>2. loop'.array \in Seq(Handlers)
    BY <1>1 DEF StructInv, PlayTypeOK, Loops
  <2>3. DOMAIN loop'.array = 1 .. Len(loop'.array)
    BY <2>2, LenProperties
  <2>4. k \in loop'.next .. loop'.len /\ loop'.array[k].name = name
    BY <1>1, <1>3, <2>1, <2>3
  <2>5. QED
    BY <1>1, <1>3, <2>4 DEF Pending
<1>4. QED
  BY <1>2, <1>3

LEMMA PendingReturn ==
    ASSUME StructInv, HandlePacketReturn
    PROVE  \A name : ~Pending(name) /\ ~Pending(name)'
<1>1. loop.over = "specific" /\ LoopDone /\ loop'.over = "none"
  BY DEF HandlePacketReturn, NoLoop
<1>2. loop.next \in Nat /\ loop.len \in Nat /\ loop.next > loop.len
  BY <1>1 DEF StructInv, PlayTypeOK, Loops, LoopDone
<1>3. loop.next .. loop.len = {}
  BY <1>2
<1>4. QED
  BY <1>1, <1>3 DEF Pending

(* A handler has run, and the array is as it was.                          *)
LEMMA PendingAfter ==
    ASSUME StructInv, NEW n, Runs(n),
           loop'.next = loop.next + 1, loop'.over = loop.over, loop'.array = loop.array,
           loop'.len = loop.len, packet' = packet
    PROVE  /\ \A name : name # n => (Pending(name)' <=> Pending(name))
           /\ n = packet.id => Pending(n)
           /\ n \in AloneIds => n = packet.id /\ ~Pending(n)'
<1>1. /\ loop.over \in {"generic", "specific"} /\ loop.id = packet.id
      /\ loop.next \in Nat /\ loop.len \in Nat /\ 1 <= loop.next /\ loop.next <= loop.len
      /\ loop.array[loop.next].name = n
      /\ packet.id \in SessionIds /\ loop.len <= Len(loop.array)
      /\ loop.over = "generic" => n = "tap"
      /\ loop.over = "specific" => n \in NamesFor(packet.id)
  BY RunsNow
<1>2. /\ loop.next \in loop.next .. loop.len
      /\ \A k \in loop.next .. loop.len : k = loop.next \/ k \in loop'.next .. loop'.len
      /\ \A k \in loop'.next .. loop'.len : k \in loop.next .. loop.len
  BY <1>1
<1>3. \A name : name # n => (Pending(name)' <=> Pending(name))
  BY <1>1, <1>2 DEF Pending
<1>4. n = packet.id => Pending(n)
  BY <1>1, <1>2 DEF Pending
<1>5. ASSUME n \in AloneIds PROVE n = packet.id /\ ~Pending(n)'
  <2>1. loop.over = "specific" /\ n = packet.id
    BY <1>1, <1>5 DEF AloneIds, SessionIds, NamesFor
  <2>2. loop.id # "login" /\ loop.id \in AloneIds
    BY <1>1, <1>5, <2>1 DEF AloneIds
  <2>3. loop.array = handlers[loop.id].list
    BY <2>1, <2>2 DEF StructInv, LoopInv
  <2>4. loop.array = <<HandlerOf(loop.id)>> \/ loop.array = <<>>
    BY <2>2, <2>3 DEF StructInv, RegistryInv, RegistryOf
  <2>5. Len(loop.array) <= 1
    <3>1. CASE loop.array = <<HandlerOf(loop.id)>>
      BY <3>1
    <3>2. CASE loop.array = <<>>
      BY <3>2
    <3>3. QED
      BY <2>4, <3>1, <3>2
  <2>6. Len(loop.array) \in Nat
    BY <2>4
  <2>7. loop'.next .. loop'.len = {}
    BY <1>1, <2>5, <2>6
  <2>8. QED
    BY <2>1, <2>7 DEF Pending
<1>6. QED
  BY <1>3, <1>4, <1>5

LEMMA PendingRan ==
    ASSUME StructInv, NEW n, HandlerRan(n)
    PROVE  /\ \A name : name # n => (Pending(name)' <=> Pending(name))
           /\ n = packet.id => Pending(n)
           /\ n \in AloneIds => n = packet.id /\ ~Pending(n)'
<1>1. /\ Runs(n) /\ loop'.next = loop.next + 1 /\ loop'.over = loop.over /\ loop'.array = loop.array
      /\ loop'.len = loop.len /\ packet' = packet
  BY RanStruct
<1>2. QED
  BY <1>1, PendingAfter

-----------------------------------------------------------------------------
(* The player *)

LEMMA PlayerIdle ==
    ASSUME loop'.over = "none", game' # "playing",
           player' = [eid |-> player'.eid, dimType |-> player'.dimType, dimName |-> player'.dimName]
    PROVE  PlayerInv'
BY DEF PlayerInv

LEMMA PlayerSame ==
    ASSUME PlayerInv, UNCHANGED <<player, game, packet, joins>>,
           truth'.loginDim = truth.loginDim, truth'.dim = truth.dim, truth'.disturbed = truth.disturbed,
           Pending("login")' <=> Pending("login"), Pending("respawn")' <=> Pending("respawn"),
           loop'.over # "none" => loop.over # "none"
    PROVE  PlayerInv'
<1>1. Undisturbed' <=> Undisturbed
  BY DEF Undisturbed
<1>2. QED
  BY <1>1 DEF PlayerInv

LEMMA PlayerSetup == BaseInv /\ PlayerInv /\ Setup => PlayerInv'
<1> SUFFICES ASSUME BaseInv, PlayerInv, Setup PROVE PlayerInv'
  OBVIOUS
<1>1. CASE JoinServer
  <2>1. loop'.over = "none"
    BY <1>1, SetupNoLoop DEF JoinServer, eventsVars, BaseInv
  <2>2. game' # "playing" /\ player' = player
    BY <1>1 DEF JoinServer, stateVars
  <2>3. QED
    BY <2>1, <2>2, PlayerIdle DEF PlayerInv
<1>2. CASE ConnectionEnds
  BY <1>2, PlayerIdle DEF ConnectionEnds, PlayerInv, eventsVars, stateVars
<1>3. CASE NewPlayer \/ NewWorld \/ NewPlayerList \/ NewChat \/ AddTap
  <2>1. UNCHANGED <<loop, player, game, packet, joins, truth>>
    BY <1>3 DEF NewPlayer, NewWorld, NewPlayerList, NewChat, AddTap, Makes, stateVars, historyVars
  <2>2. QED
    BY <2>1, PendingSame, PlayerSame
<1>4. QED
  BY <1>1, <1>2, <1>3 DEF Setup

LEMMA PlayerSends == BaseInv /\ PlayerInv /\ ServerSends => PlayerInv'
<1> SUFFICES ASSUME BaseInv, PlayerInv, ServerSends PROVE PlayerInv'
  OBVIOUS
<1>1. ASSUME NEW p, p.id \in SessionIds, Receives(p)
      PROVE  /\ UNCHANGED <<player, joins, made>> /\ packet' = p /\ game' = "playing"
             /\ \A name : ~Pending(name) /\ (Pending(name)' <=> name = p.id)
             /\ p.id # "login" => game = "playing"
  BY <1>1, PendingReceives DEF Receives, stateVars, BaseInv
<1>2. ASSUME NEW d, ServerSendsLogin(d) PROVE PlayerInv'
  <2> DEFINE p == [id |-> "login", eid |-> joins, dim |-> d]
  <2>1. /\ Receives(p) /\ p.id = "login" /\ p.eid = joins /\ p.dim = d
        /\ truth' = [truth EXCEPT !.eid = joins, !.loginDim = d, !.dim = d]
    BY <1>2 DEF ServerSendsLogin
  <2> HIDE DEF p
  <2>2. truth'.loginDim = d /\ truth'.dim = d
    BY <2>1 DEF BaseInv, TruthShape
  <2>3. "login" \in SessionIds
    BY DEF SessionIds
  <2>4. UNCHANGED <<player, joins>> /\ packet' = p /\ Pending("login")'
    BY <1>1, <2>1, <2>3
  <2>5. QED
    BY <2>1, <2>2, <2>4 DEF PlayerInv
<1>3. ASSUME NEW p, p.id \in SessionIds \ {"login"}, Receives(p),
             truth'.loginDim = truth.loginDim, truth'.disturbed = truth.disturbed,
             IF p.id = "respawn" THEN p.dim = truth'.dim ELSE truth'.dim = truth.dim
      PROVE  PlayerInv'
  <2>1. /\ UNCHANGED <<player, joins>> /\ packet' = p /\ game = "playing"
        /\ \A name : ~Pending(name) /\ (Pending(name)' <=> name = p.id)
    BY <1>1, <1>3
  <2>2. Undisturbed' <=> Undisturbed
    BY <1>3, <2>1 DEF Undisturbed
  <2>3. QED
    BY <1>3, <2>1, <2>2 DEF PlayerInv
<1>4. ASSUME NEW d, ServerSendsRespawn(d) PROVE PlayerInv'
  <2> DEFINE p == [id |-> "respawn", dim |-> d]
  <2>1. /\ Receives(p) /\ p.id = "respawn" /\ p.dim = d /\ truth' = [truth EXCEPT !.dim = d]
    BY <1>4 DEF ServerSendsRespawn
  <2> HIDE DEF p
  <2>2. truth'.loginDim = truth.loginDim /\ truth'.disturbed = truth.disturbed /\ truth'.dim = d
    BY <2>1 DEF BaseInv, TruthShape
  <2>3. p.id \in SessionIds \ {"login"}
    BY <2>1 DEF SessionIds
  <2>4. QED
    BY <1>3, <2>1, <2>2, <2>3
<1>5. ASSUME NEW p, p.id \in SessionIds \ {"login", "respawn"}, Receives(p),
             truth' = truth \/ \E l : truth' = [truth EXCEPT !.listed = l]
      PROVE  PlayerInv'
  <2>1. truth'.loginDim = truth.loginDim /\ truth'.disturbed = truth.disturbed /\ truth'.dim = truth.dim
    BY <1>5 DEF BaseInv, TruthShape
  <2>2. QED
    BY <1>3, <1>5, <2>1
<1>6. ASSUME NEW id \in {"keepAlive", "ping", "position"}, ServerAsks(id) PROVE PlayerInv'
  <2> DEFINE p == [id |-> id]
  <2>1. p.id \in SessionIds \ {"login", "respawn"} /\ Receives(p) /\ truth' = truth
    BY <1>6 DEF ServerAsks, SessionIds
  <2> HIDE DEF p
  <2>2. QED
    BY <1>5, <2>1
<1>7. ASSUME NEW dead, ServerSendsHealth(dead) PROVE PlayerInv'
  <2> DEFINE p == [id |-> "health", dead |-> dead]
  <2>1. p.id \in SessionIds \ {"login", "respawn"} /\ Receives(p) /\ truth' = truth
    BY <1>7 DEF ServerSendsHealth, SessionIds
  <2> HIDE DEF p
  <2>2. QED
    BY <1>5, <2>1
<1>8. ASSUME NEW id \in {"notice", "chunk"}, ServerSendsPlain(id) PROVE PlayerInv'
  <2> DEFINE p == [id |-> id]
  <2>1. p.id \in SessionIds \ {"login", "respawn"} /\ Receives(p) /\ truth' = truth
    BY <1>8 DEF ServerSendsPlain, SessionIds
  <2> HIDE DEF p
  <2>2. QED
    BY <1>5, <2>1
<1>9. ASSUME NEW S, NEW add, ServerListsPlayers(S, add) PROVE PlayerInv'
  <2> DEFINE p == [id |-> "infoUpdate", add |-> add, uuids |-> S]
  <2>1. p.id \in SessionIds \ {"login", "respawn"} /\ Receives(p) /\ \E l : truth' = [truth EXCEPT !.listed = l]
    BY <1>9 DEF ServerListsPlayers, SessionIds
  <2> HIDE DEF p
  <2>2. QED
    BY <1>5, <2>1
<1>10. ASSUME NEW S, ServerRemovesPlayers(S) PROVE PlayerInv'
  <2> DEFINE p == [id |-> "infoRemove", uuids |-> S]
  <2>1. p.id \in SessionIds \ {"login", "respawn"} /\ Receives(p) /\ \E l : truth' = [truth EXCEPT !.listed = l]
    BY <1>10 DEF ServerRemovesPlayers, SessionIds
  <2> HIDE DEF p
  <2>2. QED
    BY <1>5, <2>1
<1>11. ASSUME NEW u, NEW unpacks, ServerSendsChat(u, unpacks) PROVE PlayerInv'
  <2> DEFINE p == [id |-> "playerChat", sender |-> u, unpacks |-> unpacks]
  <2>1. p.id \in SessionIds \ {"login", "respawn"} /\ Receives(p) /\ truth' = truth
    BY <1>11 DEF ServerSendsChat, SessionIds
  <2> HIDE DEF p
  <2>2. QED
    BY <1>5, <2>1
<1>12. QED
  BY <1>2, <1>4, <1>6, <1>7, <1>8, <1>9, <1>10, <1>11 DEF ServerSends

(* While a loop runs the player's handlers are registered.                 *)
LEMMA PlayerOwned ==
    ASSUME StructInv, game # "setup"
    PROVE  "player" \in Owners /\ "events" \in Owners /\ "player" \in made /\ joins > 0
BY DEF StructInv, PlayTypeOK, Owners

LEMMA PlayerLoops == BaseInv /\ PlayerInv /\ HandlePacketLoops => PlayerInv'
<1> SUFFICES ASSUME BaseInv, PlayerInv, HandlePacketLoops PROVE PlayerInv'
  OBVIOUS
<1>1. UNCHANGED <<player, game, made, packet, serial, joins, truth>> /\ loop.over # "none" /\ StructInv
  BY DEF HandlePacketLoops, sessionVars, stateVars, historyVars, HandlePacketSpecific,
     HandlePacketReturn, LoopDone, BaseInv
<1>2. game = "playing"
  BY <1>1 DEF StructInv, LoopInv
<1>3. CASE HandlePacketSpecific
  <2>1. "login" \in SessionIds /\ "respawn" \in SessionIds /\ Owner("login") = "player" /\ Owner("respawn") = "player"
    BY DEF SessionIds, Owner
  <2>2. (Pending("login")' <=> Pending("login")) /\ (Pending("respawn")' <=> Pending("respawn"))
    BY <1>1, <1>2, <1>3, <2>1, PendingSpecific, PlayerOwned
  <2>3. QED
    BY <1>1, <2>2, PlayerSame
<1>4. CASE HandlePacketReturn
  <2>1. (Pending("login")' <=> Pending("login")) /\ (Pending("respawn")' <=> Pending("respawn"))
    BY <1>1, <1>4, PendingReturn
  <2>2. QED
    BY <1>1, <2>1, PlayerSame
<1>5. QED
  BY <1>3, <1>4 DEF HandlePacketLoops

LEMMA PlayerHandle == BaseInv /\ PlayerInv /\ Handle => PlayerInv'
<1> SUFFICES ASSUME BaseInv, PlayerInv, Handle PROVE PlayerInv'
  OBVIOUS
<1>1. StructInv /\ TruthShape
  BY DEF BaseInv
<1>2. ASSUME HandlerFailed, player' = player PROVE PlayerInv'
  BY <1>2, PlayerIdle DEF PlayerInv, HandlerFailed, NoLoop
<1>3. ASSUME NEW n, HandlerRan(n), n \notin {"login", "respawn"}, player' = player, truth' = truth
      PROVE  PlayerInv'
  <2>1. (Pending("login")' <=> Pending("login")) /\ (Pending("respawn")' <=> Pending("respawn"))
    BY <1>1, <1>3, PendingRan
  <2>2. UNCHANGED <<game, packet, joins>> /\ loop.over # "none"
    BY <1>1, <1>3, RanStruct DEF Runs
  <2>3. QED
    BY <1>3, <2>1, <2>2, PlayerSame
<1>4. CASE HandlerFails \/ UpdateHealthFails
  BY <1>2, <1>4 DEF HandlerFails, UpdateHealthFails, stateVars
<1>5. CASE HandleLoginPacketScanFails
  <2>1. /\ loop'.over = "none" /\ game' # "playing"
        /\ \/ player' = [player EXCEPT !.eid = packet.eid]
           \/ player' = [player EXCEPT !.eid = packet.eid, !.dimType = packet.dim]
    BY <1>5 DEF HandleLoginPacketScanFails, HandlerFailed, NoLoop
  <2>2. player' = [eid |-> player'.eid, dimType |-> player'.dimType, dimName |-> player'.dimName]
    BY <2>1 DEF PlayerInv
  <2>3. QED
    BY <2>1, <2>2, PlayerIdle
<1>6. CASE HandleLoginPacket
  <2>1. /\ HandlerRan("login") /\ truth' = truth
        /\ player' = [eid |-> packet.eid, dimType |-> packet.dim, dimName |-> packet.dim]
    BY <1>6 DEF HandleLoginPacket, historyVars
  <2>2. Runs("login") /\ UNCHANGED <<game, packet, joins>>
    BY <1>1, <2>1, RanStruct
  <2>3. packet.id = "login" /\ loop.over # "none"
    <3>1. /\ packet.id \in SessionIds /\ loop.over \in {"generic", "specific"}
          /\ loop.over = "specific" => "login" \in NamesFor(packet.id)
          /\ loop.over = "generic" => "login" = "tap"
      BY <1>1, <2>2, RunsNow
    <3>2. QED
      BY <3>1 DEF NamesFor, SessionIds
  <2>4. packet.eid = joins /\ packet.dim = truth.loginDim /\ packet.dim = truth.dim
    BY <2>3 DEF PlayerInv
  <2>5. QED
    BY <2>1, <2>2, <2>3, <2>4 DEF PlayerInv
<1>7. CASE HandleRespawnPacket
  <2>1. /\ HandlerRan("respawn") /\ truth' = truth /\ player' = [player EXCEPT !.dimName = packet.dim]
    BY <1>7 DEF HandleRespawnPacket, historyVars
  <2>2. Runs("respawn") /\ UNCHANGED <<game, packet, joins>>
    BY <1>1, <2>1, RanStruct
  <2>3. packet.id = "respawn" /\ loop.over # "none"
    <3>1. /\ packet.id \in SessionIds /\ loop.over \in {"generic", "specific"}
          /\ loop.over = "specific" => "respawn" \in NamesFor(packet.id)
          /\ loop.over = "generic" => "respawn" = "tap"
      BY <1>1, <2>2, RunsNow
    <3>2. QED
      BY <3>1 DEF NamesFor, SessionIds
  <2>4. packet.dim = truth.dim /\ ~Pending("login")
    BY <2>3 DEF PlayerInv, Pending
  <2>5. player' = [eid |-> player.eid, dimType |-> player.dimType, dimName |-> truth.dim]
    BY <2>1, <2>4 DEF PlayerInv
  <2>6. Undisturbed' <=> Undisturbed
    BY <2>1, <2>2 DEF Undisturbed
  <2>7. QED
    BY <2>1, <2>2, <2>3, <2>4, <2>5, <2>6 DEF PlayerInv
<1>8. ASSUME NEW m, NEW f, GameStartAdds(m, f) PROVE PlayerInv'
  <2>1. /\ Runs("gameStart") /\ UNCHANGED <<game, packet, joins, player>>
        /\ truth' = [truth EXCEPT !.disturbed = IF LoopAfter(f) = loop THEN @ ELSE joins]
    BY <1>8 DEF GameStartAdds, GameStartRegisters, stateVars
  <2>2. /\ loop'.next = loop.next + 1 /\ loop'.over = loop.over /\ loop'.len = loop.len
        /\ LoopAfter(f) = loop => loop'.array = loop.array
    BY <1>1, <1>8, GameStartAddsStruct
  <2>3. /\ truth'.loginDim = truth.loginDim /\ truth'.dim = truth.dim
        /\ truth'.disturbed = IF LoopAfter(f) = loop THEN truth.disturbed ELSE joins
    BY <1>1, <2>1 DEF TruthShape
  <2>4. loop.over # "none"
    BY <2>1 DEF Runs
  <2>5. CASE LoopAfter(f) = loop
    <3>1. (Pending("login")' <=> Pending("login")) /\ (Pending("respawn")' <=> Pending("respawn"))
      BY <1>1, <2>1, <2>2, <2>5, PendingAfter
    <3>2. QED
      BY <2>1, <2>3, <2>4, <2>5, <3>1, PlayerSame
  <2>6. CASE LoopAfter(f) # loop
    <3>1. ~Undisturbed'
      BY <2>1, <2>3, <2>6 DEF Undisturbed
    <3>2. QED
      BY <2>1, <2>3, <2>4, <3>1 DEF PlayerInv
  <2>7. QED
    BY <2>5, <2>6
<1>9. CASE GameStart
  <2>1. CASE HandlerRan("gameStart") /\ truth' = truth
    BY <1>3, <1>9, <2>1 DEF GameStart, stateVars
  <2>2. QED
    BY <1>8, <1>9, <2>1, GameStartKinds
<1>10. CASE \E id \in {"keepAlive", "ping", "position"} : HandleAsked(id)
  BY <1>3, <1>10 DEF HandleAsked, stateVars, historyVars
<1>11. CASE TapHandler \/ LateHandler
  BY <1>3, <1>11 DEF TapHandler, LateHandler, stateVars, historyVars
<1>12. CASE NoticeHandler \/ UpdateHealth
  BY <1>3, <1>12 DEF NoticeHandler, UpdateHealth, stateVars
<1>13. CASE OnPlayerSpawn \/ HandleLevelChunk
  BY <1>3, <1>13 DEF OnPlayerSpawn, HandleLevelChunk, historyVars
<1>14. CASE HandlePlayerInfoUpdatePacket \/ HandlePlayerInfoRemovePacket \/ HandlePlayerChat
  BY <1>3, <1>14 DEF HandlePlayerInfoUpdatePacket, HandlePlayerInfoRemovePacket, HandlePlayerChat,
     stateVars, historyVars
<1>15. QED
  BY <1>4, <1>5, <1>6, <1>7, <1>9, <1>10, <1>11, <1>12, <1>13, <1>14 DEF Handle

LEMMA PlayerStep == BaseInv /\ PlayerInv /\ [Next]_vars => PlayerInv'
<1> SUFFICES ASSUME BaseInv, PlayerInv, [Next]_vars PROVE PlayerInv'
  OBVIOUS
<1>1. CASE UNCHANGED vars
  <2>1. UNCHANGED <<loop, player, game, packet, joins, truth>>
    BY <1>1 DEF vars, eventsVars, sessionVars, stateVars, historyVars
  <2>2. QED
    BY <2>1, PendingSame, PlayerSame
<1>2. QED
  BY <1>1, PlayerSetup, PlayerSends, PlayerLoops, PlayerHandle DEF Next

LEMMA PlayerInit == Init => PlayerInv
BY DEF Init, EventsInit, NoLoop, PlayerInv

-----------------------------------------------------------------------------
(* The chunks *)

LEMMA ChunksSame ==
    ASSUME ChunksInv, UNCHANGED <<chunksOf, made, packet, joins, loop>>, game' = "playing" => game = "playing"
    PROVE  ChunksInv'
<1>1. SpawnAhead' <=> SpawnAhead
  BY DEF SpawnAhead
<1>2. QED
  BY <1>1 DEF ChunksInv

LEMMA ChunksIdle ==
    ASSUME ChunksInv, UNCHANGED <<chunksOf, made>>, game' # "playing"
    PROVE  ChunksInv'
BY DEF ChunksInv

LEMMA ChunksSetup == BaseInv /\ ChunksInv /\ Setup => ChunksInv'
<1> SUFFICES ASSUME BaseInv, ChunksInv, Setup PROVE ChunksInv'
  OBVIOUS
<1>1. CASE JoinServer \/ ConnectionEnds
  BY <1>1, ChunksIdle DEF JoinServer, ConnectionEnds, stateVars
<1>2. CASE NewPlayer \/ NewWorld \/ NewPlayerList \/ NewChat \/ AddTap
  <2>1. /\ chunksOf' = chunksOf /\ game = "setup" /\ game' = game
        /\ \E m : made' = made \union {m}
    BY <1>2 DEF NewPlayer, NewWorld, NewPlayerList, NewChat, AddTap, Makes, stateVars
  <2>2. QED
    BY <2>1 DEF ChunksInv
<1>3. QED
  BY <1>1, <1>2 DEF Setup

LEMMA ChunksSends == BaseInv /\ ChunksInv /\ ServerSends => ChunksInv'
<1> SUFFICES ASSUME BaseInv, ChunksInv, ServerSends PROVE ChunksInv'
  OBVIOUS
<1>1. PICK p : p.id \in SessionIds /\ Receives(p)
  BY ServerSendsKinds
<1>2. loop.over = "none" /\ loop'.over = "generic" /\ packet' = p
  BY <1>1, ReceivesStruct DEF BaseInv, Receives
<1>3. UNCHANGED <<chunksOf, made, joins>> /\ p.id # "login" => game = "playing"
  BY <1>1 DEF Receives, stateVars
<1>4. QED
  BY <1>1, <1>2, <1>3 DEF ChunksInv, Receives, stateVars

(* The world's handler of the login comes before the player's, which is of *)
(* a lower priority.                                                       *)
LEMMA SpawnBeforeLogin ==
    ASSUME StructInv, "world" \in made, "player" \in made
    PROVE  \E k, n \in DOMAIN handlers["login"].list :
              k < n /\ handlers["login"].list[k].name = "spawn"
<1> DEFINE list == handlers["login"].list
           reg == registered["login"]
<1>1. "world" \in Owners /\ "player" \in Owners /\ "login" \in PacketIds
  BY PlayAssumption DEF Owners, SessionIds
<1>2. RegisteredIn(list, reg) /\ list \in Seq(Handlers)
  BY <1>1 DEF StructInv, RegistryInv, RegistryOf, Slices
<1>3. In(H("spawn", 64), list) /\ In(H("login", 0), list)
  BY <1>1 DEF StructInv, RegistryInv, RegistryOf
<1> HIDE DEF list, reg
<1>4. PICK k, n \in DOMAIN list : list[k] = H("spawn", 64) /\ list[n] = H("login", 0)
  BY <1>3 DEF In
<1>5. list[k].name = "spawn" /\ list[k].priority = 64 /\ list[n].name = "login" /\ list[n].priority = 0
  BY <1>4 DEF H
<1>6. k \in Nat /\ n \in Nat
  BY <1>2, LenProperties
<1>7. ~(n < k)
  <2> SUFFICES ASSUME n < k PROVE FALSE
    OBVIOUS
  <2>1. Precedes(reg, list[n], list[k])
    BY <1>2 DEF RegisteredIn
  <2>2. QED
    BY <1>5, <2>1 DEF Precedes
<1>8. n # k
  BY <1>5
<1>9. QED
  BY <1>5, <1>6, <1>7, <1>8 DEF list

LEMMA ChunksLoops == BaseInv /\ ChunksInv /\ HandlePacketLoops => ChunksInv'
<1> SUFFICES ASSUME BaseInv, ChunksInv, HandlePacketLoops PROVE ChunksInv'
  OBVIOUS
<1>1. UNCHANGED <<chunksOf, game, made, packet, serial, joins>> /\ StructInv
  BY DEF HandlePacketLoops, sessionVars, stateVars, BaseInv
<1>2. CASE HandlePacketSpecific
  <2>1. /\ StructInv' /\ loop.over = "generic" /\ loop'.over = "specific" /\ loop'.next = 1
        /\ loop'.array = handlers[packet.id].list /\ loop'.len = Len(loop'.array)
    BY <1>1, <1>2, SpecificStruct
  <2>2. game = "playing" /\ "player" \in made
    BY <1>1, <2>1, PlayerOwned DEF StructInv, LoopInv
  <2>3. ASSUME "world" \in made, packet.id = "login" PROVE SpawnAhead'
    <3>1. PICK k, n \in DOMAIN handlers["login"].list :
             k < n /\ handlers["login"].list[k].name = "spawn"
      BY <1>1, <2>2, <2>3, SpawnBeforeLogin
    <3>2. loop'.array \in Seq(Handlers)
      BY <2>1 DEF StructInv, PlayTypeOK, Loops
    <3>3. DOMAIN loop'.array = 1 .. loop'.len /\ loop'.len \in Nat
      BY <2>1, <3>2, LenProperties
    <3>4. k \in 1 .. loop'.len /\ n \in 1 .. loop'.len /\ loop'.array[k].name = "spawn"
      BY <2>1, <2>3, <3>1, <3>3
    <3>5. k < loop'.len
      BY <3>1, <3>3, <3>4
    <3>6. QED
      BY <2>1, <3>4, <3>5 DEF SpawnAhead
  <2>4. QED
    BY <1>1, <2>1, <2>3 DEF ChunksInv
<1>3. CASE HandlePacketReturn
  <2>1. loop.over = "specific" /\ LoopDone
    BY <1>3 DEF HandlePacketReturn
  <2>2. loop.next \in Nat /\ loop.len \in Nat /\ loop.next > loop.len
    BY <1>1, <2>1 DEF StructInv, PlayTypeOK, Loops, LoopDone
  <2>3. loop.next .. loop.len = {}
    BY <2>2
  <2>4. ~SpawnAhead
    BY <2>3 DEF SpawnAhead
  <2>5. QED
    BY <1>1, <2>1, <2>4 DEF ChunksInv
<1>4. QED
  BY <1>2, <1>3 DEF HandlePacketLoops

(* Another handler has run.                                                *)
LEMMA SpawnStaysAhead ==
    ASSUME StructInv, SpawnAhead, NEW n, n # "spawn", Runs(n), made \subseteq made',
           loop'.next = loop.next + 1, loop'.array = loop.array, loop'.len = loop.len
    PROVE  SpawnAhead'
<1>1. PICK k \in loop.next .. loop.len :
         loop.array[k].name = "spawn" /\ ("late" \in made \/ k < loop.len)
  BY DEF SpawnAhead
<1>2. loop.next \in Nat /\ loop.len \in Nat /\ loop.array[loop.next].name = n
  BY RunsNow
<1>3. k # loop.next
  BY <1>1, <1>2
<1>4. k \in loop'.next .. loop'.len
  BY <1>1, <1>2, <1>3
<1>5. QED
  BY <1>1, <1>4 DEF SpawnAhead

(* A late listener has come into the array.                                *)
LEMMA SpawnShifts ==
    ASSUME StructInv, SpawnAhead, Runs("gameStart"), "late" \notin made, "late" \in made',
           NEW f, "login" \in DOMAIN f, f["login"] \in Handlers,
           LoopAfter(f) # loop, loop'.array = SortedWith(loop.array, f["login"]),
           loop'.next = loop.next + 1, loop'.len = loop.len
    PROVE  SpawnAhead'
<1> DEFINE old == loop.array
           h == f["login"]
           new == loop'.array
<1>1. PICK k \in loop.next .. loop.len : old[k].name = "spawn" /\ k < loop.len
  BY DEF SpawnAhead
<1>2. /\ loop.next \in Nat /\ loop.len \in Nat /\ 1 <= loop.next /\ old[loop.next].name = "gameStart"
      /\ loop.len <= Len(old)
  BY RunsNow
<1>3. k # loop.next
  BY <1>1, <1>2
<1>4. old \in Seq(Handlers) /\ Descending(old) /\ h \in Handlers /\ new = SortedWith(old, h)
  BY LoopAfterLogin
<1>5. Len(old) \in Nat
  BY <1>4, LenProperties
<1> HIDE DEF old, h, new
<1>6. PICK n \in 0 .. Len(old) :
                 /\ \A i \in 1 .. n : new[i] = old[i] /\ old[i].priority >= h.priority
                 /\ new[n + 1] = h
                 /\ \A i \in n + 1 .. Len(old) : new[i + 1] = old[i] /\ old[i].priority < h.priority
  BY <1>4, SortedWithPlace
<1>7. CASE k \in 1 .. n
  <2>1. new[k] = old[k] /\ k \in loop'.next .. loop'.len
    BY <1>1, <1>2, <1>3, <1>6, <1>7
  <2>2. QED
    BY <1>1, <2>1 DEF SpawnAhead, new
<1>8. CASE k \in n + 1 .. Len(old)
  <2>1. new[k + 1] = old[k] /\ k + 1 \in loop'.next .. loop'.len
    BY <1>1, <1>2, <1>3, <1>6, <1>8
  <2>2. QED
    BY <1>1, <2>1 DEF SpawnAhead, new
<1>9. k \in 1 .. n \/ k \in n + 1 .. Len(old)
  BY <1>1, <1>2, <1>5, <1>6
<1>10. QED
  BY <1>7, <1>8, <1>9

LEMMA ChunksHandle == BaseInv /\ ChunksInv /\ Handle => ChunksInv'
<1> SUFFICES ASSUME BaseInv, ChunksInv, Handle PROVE ChunksInv'
  OBVIOUS
<1>1. StructInv
  BY DEF BaseInv
<1>2. ASSUME HandlerFailed, chunksOf' = chunksOf PROVE ChunksInv'
  BY <1>2, ChunksIdle DEF HandlerFailed
<1>3. ASSUME NEW n, n # "spawn", Runs(n), made' = made, UNCHANGED <<packet, game, joins>>,
             loop'.next = loop.next + 1, loop'.array = loop.array, loop'.len = loop.len,
             loop'.over = loop.over, chunksOf' = chunksOf
      PROVE  ChunksInv'
  <2>1. SpawnAhead => SpawnAhead'
    BY <1>1, <1>3, SpawnStaysAhead
  <2>2. QED
    BY <1>3, <2>1 DEF ChunksInv
<1>4. ASSUME NEW n, HandlerRan(n), n # "spawn", chunksOf' = chunksOf PROVE ChunksInv'
  BY <1>1, <1>3, <1>4, RanStruct
<1>5. ASSUME NEW m, NEW f, GameStartAdds(m, f) PROVE ChunksInv'
  <2>1. /\ Runs("gameStart") /\ UNCHANGED <<game, packet, joins, chunksOf>>
        /\ m \in {"world", "late"} /\ m \notin made /\ made' = made \union {m}
        /\ ListenersOf(f, m) /\ "login" \in DOMAIN f
    BY <1>5 DEF GameStartAdds, GameStartRegisters, stateVars
  <2>2. /\ loop'.next = loop.next + 1 /\ loop'.over = loop.over /\ loop'.len = loop.len
        /\ \/ loop'.array = loop.array
           \/ LoopAfter(f) # loop /\ loop'.array = SortedWith(loop.array, f["login"])
    BY <1>1, <1>5, GameStartAddsStruct
  <2>3. CASE m = "world"
    <3>1. chunksOf' = 0 /\ "world" \in made'
      BY <2>1, <2>3 DEF ChunksInv
    <3>2. QED
      BY <3>1 DEF ChunksInv
  <2>4. CASE m = "late"
    <3>1. SpawnAhead => SpawnAhead'
      <4>1. CASE loop'.array = loop.array
        BY <1>1, <2>1, <2>2, <4>1, SpawnStaysAhead
      <4>2. CASE LoopAfter(f) # loop /\ loop'.array = SortedWith(loop.array, f["login"])
        <5>1. f["login"] \in Handlers
          BY <2>1 DEF ListenersOf
        <5>2. "late" \notin made /\ "late" \in made'
          BY <2>1, <2>4
        <5>3. QED
          BY <1>1, <2>1, <2>2, <4>2, <5>1, <5>2, SpawnShifts
      <4>3. QED
        BY <2>2, <4>1, <4>2
    <3>2. "world" \in made' <=> "world" \in made
      BY <2>1, <2>4
    <3>3. QED
      BY <2>1, <2>2, <3>1, <3>2 DEF ChunksInv
  <2>5. QED
    BY <2>1, <2>3, <2>4
<1>6. CASE HandlerFails \/ UpdateHealthFails \/ HandleLoginPacketScanFails
  BY <1>2, <1>6 DEF HandlerFails, UpdateHealthFails, HandleLoginPacketScanFails, stateVars
<1>7. CASE GameStart
  <2>1. CASE HandlerRan("gameStart") /\ truth' = truth
    BY <1>4, <1>7, <2>1 DEF GameStart, stateVars
  <2>2. QED
    BY <1>5, <1>7, <2>1, GameStartKinds
<1>8. CASE OnPlayerSpawn
  <2>1. chunksOf' = 0
    BY <1>8 DEF OnPlayerSpawn
  <2>2. QED
    BY <2>1 DEF ChunksInv
<1>9. CASE HandleLevelChunk
  <2>1. HandlerRan("chunk") /\ chunksOf' = joins
    BY <1>9 DEF HandleLevelChunk
  <2>2. Runs("chunk") /\ UNCHANGED <<made, joins>>
    BY <1>1, <2>1, RanStruct
  <2>3. "world" \in made
    <3>1. "chunk" \in AloneIds
      BY DEF AloneIds, SessionIds
    <3>2. packet.id = "chunk"
      BY <1>1, <2>1, <3>1, PendingRan
    <3>3. /\ loop.over = "specific" /\ loop.id = "chunk" /\ loop.next \in DOMAIN loop.array
      BY <1>1, <2>2, <3>2, RunsNow
    <3>4. loop.array = handlers["chunk"].list
      BY <1>1, <3>3 DEF StructInv, LoopInv
    <3>5. handlers["chunk"].list # <<>>
      BY <3>3, <3>4
    <3>6. Owner("chunk") \in Owners
      BY <1>1, <3>1, <3>5 DEF StructInv, RegistryInv, RegistryOf
    <3>7. QED
      BY <3>6 DEF Owner, Owners
  <2>4. QED
    BY <2>1, <2>2, <2>3 DEF ChunksInv
<1>10. CASE \E id \in {"keepAlive", "ping", "position"} : HandleAsked(id)
  BY <1>4, <1>10 DEF HandleAsked, stateVars
<1>11. CASE TapHandler \/ LateHandler \/ NoticeHandler \/ UpdateHealth
  BY <1>4, <1>11 DEF TapHandler, LateHandler, NoticeHandler, UpdateHealth, stateVars
<1>12. CASE HandleLoginPacket \/ HandleRespawnPacket
  BY <1>4, <1>12 DEF HandleLoginPacket, HandleRespawnPacket
<1>13. CASE HandlePlayerInfoUpdatePacket \/ HandlePlayerInfoRemovePacket \/ HandlePlayerChat
  BY <1>4, <1>13 DEF HandlePlayerInfoUpdatePacket, HandlePlayerInfoRemovePacket, HandlePlayerChat, stateVars
<1>14. QED
  BY <1>6, <1>7, <1>8, <1>9, <1>10, <1>11, <1>12, <1>13 DEF Handle

LEMMA ChunksStep == BaseInv /\ ChunksInv /\ [Next]_vars => ChunksInv'
<1> SUFFICES ASSUME BaseInv, ChunksInv, [Next]_vars PROVE ChunksInv'
  OBVIOUS
<1>1. CASE UNCHANGED vars
  <2>1. UNCHANGED <<chunksOf, made, packet, joins, loop, game>>
    BY <1>1 DEF vars, eventsVars, sessionVars, stateVars
  <2>2. QED
    BY <2>1, ChunksSame
<1>2. QED
  BY <1>1, ChunksSetup, ChunksSends, ChunksLoops, ChunksHandle DEF Next

LEMMA ChunksInit == Init => ChunksInv
BY DEF Init, ChunksInv

(* After a packet the player is what the last login and respawn said, and  *)
(* the chunks are of this session: handleLoginPacket, handleRespawnPacket, *)
(* World.onPlayerSpawn and handleLevelChunkWithLightPacket, however the    *)
(* handlers of the login are ordered, when none has registered while it    *)
(* was handled and shifted the array.                                      *)
THEOREM PlayerCorrect == Spec => []PlayerFollowsPackets
<1>1. PlayerInv /\ ChunksInv => PlayerFollowsPackets
  <2> SUFFICES ASSUME PlayerInv, ChunksInv, game = "playing", loop.over = "none"
               PROVE  /\ Undisturbed =>
                            player = [eid |-> joins, dimType |-> truth.loginDim, dimName |-> truth.dim]
                      /\ "world" \in made => chunksOf \in {0, joins}
    BY DEF PlayerFollowsPackets, Between
  <2>1. ~Pending("login") /\ ~Pending("respawn")
    BY PendingNone
  <2>2. QED
    BY <2>1 DEF PlayerInv, ChunksInv
<1>2. QED
  BY <1>1, BaseInit, BaseStep, PlayerInit, PlayerStep, ChunksInit, ChunksStep, PTL DEF Spec

-----------------------------------------------------------------------------
(* What the server asks for *)

LEMMA SequenceEmpty == Sequence(<<>>) /\ Len(<<>>) = 0 /\ DOMAIN <<>> = {}
<1>1. <<>> \in Seq({})
  BY EmptySeq
<1>2. QED
  BY <1>1 DEF Sequence

LEMMA SequenceAppend ==
    ASSUME NEW s, Sequence(s), NEW x
    PROVE  /\ Sequence(Append(s, x))
           /\ Len(s) \in Nat /\ DOMAIN s = 1 .. Len(s)
           /\ Len(Append(s, x)) = Len(s) + 1 /\ DOMAIN Append(s, x) = 1 .. Len(s) + 1
           /\ \A i \in DOMAIN s : Append(s, x)[i] = s[i]
           /\ Append(s, x)[Len(s) + 1] = x
           /\ \A i \in DOMAIN Append(s, x) : i \in DOMAIN s \/ i = Len(s) + 1
           /\ Append(s, x) = s \o <<x>>
<1>1. PICK S : s \in Seq(S)
  BY DEF Sequence
<1> DEFINE R == S \union {x}
<1>2. s \in Seq(R) /\ x \in R
  BY <1>1, SeqMonotonic
<1> HIDE DEF R
<1>3. /\ Append(s, x) \in Seq(R) /\ Len(Append(s, x)) = Len(s) + 1
      /\ \A i \in 1 .. Len(s) : Append(s, x)[i] = s[i]
      /\ Append(s, x)[Len(s) + 1] = x
  BY <1>2, AppendProperties
<1>4. Len(s) \in Nat /\ DOMAIN s = 1 .. Len(s) /\ DOMAIN Append(s, x) = 1 .. Len(Append(s, x))
  BY <1>2, <1>3, LenProperties
<1>5. Append(s, x) = s \o <<x>>
  BY <1>2, AppendIsConcat
<1>6. Sequence(Append(s, x))
  BY <1>3 DEF Sequence
<1>7. QED
  BY <1>3, <1>4, <1>5, <1>6

LEMMA SequenceConcatEmpty ==
    ASSUME NEW s, Sequence(s)
    PROVE  s \o <<>> = s
BY ConcatEmptySeq DEF Sequence

LEMMA SequenceConcat ==
    ASSUME NEW s, Sequence(s), NEW t, Sequence(t)
    PROVE  /\ Sequence(s \o t)
           /\ Len(s) \in Nat /\ DOMAIN s = 1 .. Len(s) /\ Len(t) \in Nat
           /\ DOMAIN (s \o t) = 1 .. Len(s) + Len(t)
           /\ \A i \in 1 .. Len(s) + Len(t) : (s \o t)[i] = IF i <= Len(s) THEN s[i] ELSE t[i - Len(s)]
<1>1. PICK S, T : s \in Seq(S) /\ t \in Seq(T)
  BY DEF Sequence
<1> DEFINE R == S \union T
<1>2. s \in Seq(R) /\ t \in Seq(R)
  BY <1>1, SeqMonotonic
<1> HIDE DEF R
<1>3. /\ s \o t \in Seq(R) /\ Len(s \o t) = Len(s) + Len(t)
      /\ \A i \in 1 .. Len(s) + Len(t) : (s \o t)[i] = IF i <= Len(s) THEN s[i] ELSE t[i - Len(s)]
  BY <1>2, ConcatProperties
<1>4. /\ Len(s) \in Nat /\ DOMAIN s = 1 .. Len(s) /\ Len(t) \in Nat
      /\ DOMAIN (s \o t) = 1 .. Len(s \o t)
  BY <1>2, <1>3, LenProperties
<1>5. QED
  BY <1>3, <1>4 DEF Sequence

LEMMA AskedIdle ==
    ASSUME AskedInv, UNCHANGED <<asked, serial, packet>>, Sequence(out'), game' \notin {"playing", "joined"}
    PROVE  AskedInv'
BY DEF AskedInv

LEMMA AskedSame ==
    ASSUME AskedInv, UNCHANGED <<asked, out, game, serial, packet>>, Owed' = Owed
    PROVE  AskedInv'
BY DEF AskedInv

LEMMA PendingOfPacket ==
    ASSUME packet' = packet, NEW id, id = packet.id
    PROVE  (Pending(packet.id)' <=> Pending(id)') /\ (Pending(packet.id) <=> Pending(id))
BY DEF Pending

LEMMA OwedSame ==
    ASSUME UNCHANGED <<serial, packet>>, Asks(packet) => (Pending(packet.id)' <=> Pending(packet.id))
    PROVE  Owed' = Owed
<1> DEFINE id == packet.id
<1>1. Pending(packet.id)' <=> Pending(id)'
  OBVIOUS
<1>2. QED
  BY <1>1 DEF Owed, Asks, KindOf

AskedAfter(p) == IF Asks(p) THEN Append(asked, <<KindOf(p), serial + 1>>) ELSE asked

LEMMA SendsAsked ==
    ASSUME ServerSends
    PROVE  \E p : p.id \in SessionIds /\ Receives(p) /\ asked' = AskedAfter(p)
<1> DEFINE Goal == \E p : p.id \in SessionIds /\ Receives(p) /\ asked' = AskedAfter(p)
<1>1. ASSUME NEW p, p.id \in SessionIds \ {"keepAlive", "ping", "position", "health"},
             Receives(p), asked' = asked
      PROVE  Goal
  BY <1>1 DEF AskedAfter, Asks
<1> HIDE DEF Goal
<1>2. ASSUME NEW d, ServerSendsLogin(d) PROVE Goal
  <2>1. [id |-> "login", eid |-> joins, dim |-> d].id \in SessionIds \ {"keepAlive", "ping", "position", "health"}
    BY DEF SessionIds
  <2>2. QED
    BY <1>1, <1>2, <2>1 DEF ServerSendsLogin
<1>3. ASSUME NEW d, ServerSendsRespawn(d) PROVE Goal
  <2>1. [id |-> "respawn", dim |-> d].id \in SessionIds \ {"keepAlive", "ping", "position", "health"}
    BY DEF SessionIds
  <2>2. QED
    BY <1>1, <1>3, <2>1 DEF ServerSendsRespawn
<1>4. ASSUME NEW id \in {"keepAlive", "ping", "position"}, ServerAsks(id) PROVE Goal
  <2> DEFINE p == [id |-> id]
  <2>1. p.id = id /\ Receives(p) /\ asked' = Append(asked, <<id, serial'>>)
    BY <1>4 DEF ServerAsks, Owes
  <2> HIDE DEF p
  <2>2. Asks(p) /\ KindOf(p) = id /\ p.id \in SessionIds /\ serial' = serial + 1
    BY <2>1 DEF Asks, KindOf, SessionIds, Receives
  <2>3. asked' = AskedAfter(p)
    BY <2>1, <2>2 DEF AskedAfter
  <2>4. QED
    BY <2>1, <2>2, <2>3 DEF Goal
<1>5. ASSUME NEW dead, ServerSendsHealth(dead) PROVE Goal
  <2> DEFINE p == [id |-> "health", dead |-> dead]
  <2>1. /\ p.id = "health" /\ p.dead = dead /\ Receives(p)
        /\ IF dead THEN asked' = Append(asked, <<"performRespawn", serial'>>) ELSE asked' = asked
    BY <1>5 DEF ServerSendsHealth, Owes
  <2> HIDE DEF p
  <2>2. (Asks(p) <=> dead) /\ KindOf(p) = "performRespawn" /\ p.id \in SessionIds /\ serial' = serial + 1
    BY <2>1 DEF Asks, KindOf, SessionIds, Receives
  <2>3. asked' = AskedAfter(p)
    BY <2>1, <2>2 DEF AskedAfter
  <2>4. QED
    BY <2>1, <2>2, <2>3 DEF Goal
<1>6. ASSUME NEW id \in {"notice", "chunk"}, ServerSendsPlain(id) PROVE Goal
  <2>1. [id |-> id].id \in SessionIds \ {"keepAlive", "ping", "position", "health"}
    BY DEF SessionIds
  <2>2. QED
    BY <1>1, <1>6, <2>1 DEF ServerSendsPlain
<1>7. ASSUME NEW S, NEW add, ServerListsPlayers(S, add) PROVE Goal
  <2>1. [id |-> "infoUpdate", add |-> add, uuids |-> S].id \in SessionIds \ {"keepAlive", "ping", "position", "health"}
    BY DEF SessionIds
  <2>2. QED
    BY <1>1, <1>7, <2>1 DEF ServerListsPlayers
<1>8. ASSUME NEW S, ServerRemovesPlayers(S) PROVE Goal
  <2>1. [id |-> "infoRemove", uuids |-> S].id \in SessionIds \ {"keepAlive", "ping", "position", "health"}
    BY DEF SessionIds
  <2>2. QED
    BY <1>1, <1>8, <2>1 DEF ServerRemovesPlayers
<1>9. ASSUME NEW u, NEW unpacks, ServerSendsChat(u, unpacks) PROVE Goal
  <2>1. [id |-> "playerChat", sender |-> u, unpacks |-> unpacks].id \in SessionIds \ {"keepAlive", "ping", "position", "health"}
    BY DEF SessionIds
  <2>2. QED
    BY <1>1, <1>9, <2>1 DEF ServerSendsChat
<1>10. Goal
  BY <1>2, <1>3, <1>4, <1>5, <1>6, <1>7, <1>8, <1>9 DEF ServerSends
<1>11. QED
  BY <1>10 DEF Goal

LEMMA AskedReceives ==
    ASSUME BaseInv, AskedInv, NEW p, p.id \in SessionIds, Receives(p), asked' = AskedAfter(p)
    PROVE  AskedInv'
<1>1. /\ packet' = p /\ serial' = serial + 1 /\ out' = out /\ game' = "playing"
      /\ game \in {"joined", "playing"} /\ serial \in Nat
  BY DEF Receives, BaseInv, StructInv, PlayTypeOK
<1>2. \A name : ~Pending(name) /\ (Pending(name)' <=> name = p.id)
  BY PendingReceives DEF BaseInv
<1> DEFINE e == <<KindOf(p), serial + 1>>
<1>3. Owed = <<>> /\ Owed' = IF Asks(p) THEN <<e>> ELSE <<>>
  <2>1. Pending(packet.id)'
    BY <1>1, <1>2
  <2>2. QED
    BY <1>1, <1>2, <2>1 DEF Owed, Asks, KindOf
<1>4. e[1] = KindOf(p) /\ e[2] = serial + 1
  OBVIOUS
<1> HIDE DEF e
<1>5. Sequence(asked) /\ Sequence(out) /\ asked = out
  BY <1>1, <1>3, SequenceConcatEmpty, SequenceEmpty DEF AskedInv
<1>6. CASE Asks(p)
  <2>1. asked' = Append(asked, e)
    BY <1>6 DEF AskedAfter, e
  <2>2. /\ Sequence(asked') /\ asked' = asked \o <<e>>
        /\ \A i \in DOMAIN asked' : (i \in DOMAIN asked /\ asked'[i] = asked[i]) \/ asked'[i] = e
    <3>1. /\ Sequence(Append(asked, e)) /\ Append(asked, e) = asked \o <<e>>
          /\ \A i \in DOMAIN asked : Append(asked, e)[i] = asked[i]
          /\ Append(asked, e)[Len(asked) + 1] = e
          /\ \A i \in DOMAIN Append(asked, e) : i \in DOMAIN asked \/ i = Len(asked) + 1
      BY <1>5, SequenceAppend
    <3>2. QED
      BY <2>1, <3>1
  <2>3. asked' = out' \o Owed'
    BY <1>1, <1>3, <1>5, <1>6, <2>2
  <2>4. ASSUME NEW i \in DOMAIN asked'
        PROVE  /\ asked'[i][2] \in Nat /\ asked'[i][2] <= serial'
               /\ (asked'[i][1] = "performRespawn" /\ asked'[i][2] = serial') =>
                     packet'.id = "health" /\ packet'.dead
    <3>1. CASE asked'[i] = e
      BY <1>1, <1>4, <1>6, <3>1 DEF Asks, KindOf
    <3>2. CASE i \in DOMAIN asked /\ asked'[i] = asked[i]
      BY <1>1, <3>2 DEF AskedInv
    <3>3. QED
      BY <2>2, <3>1, <3>2
  <2>5. QED
    BY <1>1, <1>5, <2>2, <2>3, <2>4 DEF AskedInv
<1>7. CASE ~Asks(p)
  <2>1. asked' = asked
    BY <1>7 DEF AskedAfter
  <2>2. asked' = out' \o Owed'
    BY <1>1, <1>3, <1>5, <1>7, <2>1, SequenceConcatEmpty
  <2>3. \A i \in DOMAIN asked : asked[i][2] \in Nat /\ asked[i][2] <= serial /\ asked[i][2] # serial + 1
    BY <1>1 DEF AskedInv
  <2>4. QED
    BY <1>1, <1>5, <2>1, <2>2, <2>3 DEF AskedInv
<1>8. QED
  BY <1>6, <1>7

(* The answer is written.                                                  *)
LEMMA AskedAnswer ==
    ASSUME BaseInv, AskedInv, UNCHANGED <<asked, serial, packet, game>>, game = "playing",
           Pending(packet.id), ~Pending(packet.id)', Asks(packet), Answer(KindOf(packet))
    PROVE  AskedInv'
<1> DEFINE e == <<KindOf(packet), serial>>
<1>1. Owed = <<e>> /\ Owed' = <<>>
  BY DEF Owed
<1>2. out' = Append(out, e)
  BY DEF Answer
<1> HIDE DEF e
<1>3. Sequence(Append(out, e)) /\ Append(out, e) = out \o <<e>>
  BY SequenceAppend DEF AskedInv
<1>4. Append(out, e) \o <<>> = Append(out, e)
  BY <1>3, SequenceConcatEmpty
<1>5. asked' = out' \o Owed' /\ Sequence(out')
  BY <1>1, <1>2, <1>3, <1>4 DEF AskedInv
<1>6. QED
  BY <1>5 DEF AskedInv

LEMMA AskedHandle == BaseInv /\ AskedInv /\ Handle => AskedInv'
<1> SUFFICES ASSUME BaseInv, AskedInv, Handle PROVE AskedInv'
  OBVIOUS
<1>1. StructInv
  BY DEF BaseInv
<1>2. ASSUME HandlerFailed, asked' = asked, Sequence(out') PROVE AskedInv'
  BY <1>2, AskedIdle DEF HandlerFailed
<1>3. ASSUME NEW n, HandlerRan(n), n \notin {"keepAlive", "ping", "position", "health"},
             UNCHANGED <<asked, out>>
      PROVE  AskedInv'
  <2>1. UNCHANGED <<game, serial, packet>>
    BY <1>1, <1>3, RanStruct
  <2>2. Asks(packet) => (Pending(packet.id)' <=> Pending(packet.id))
    <3> SUFFICES ASSUME Asks(packet) PROVE Pending(packet.id)' <=> Pending(packet.id)
      OBVIOUS
    <3>1. PICK id : id = packet.id
      OBVIOUS
    <3>2. id # n
      BY <1>3, <3>1 DEF Asks
    <3>3. Pending(id)' <=> Pending(id)
      BY <1>1, <1>3, <3>2, PendingRan
    <3>4. QED
      BY <2>1, <3>1, <3>3, PendingOfPacket
  <2>3. QED
    BY <1>3, <2>1, <2>2, OwedSame, AskedSame
<1>4. ASSUME NEW n \in {"keepAlive", "ping", "position", "health"}, HandlerRan(n)
      PROVE  /\ UNCHANGED <<serial, packet, game>> /\ game = "playing" /\ packet.id = n
             /\ Pending(packet.id) /\ ~Pending(packet.id)'
  <2>1. n \in AloneIds
    BY DEF AloneIds, SessionIds
  <2>2. n = packet.id /\ Pending(n) /\ ~Pending(n)' /\ Runs(n) /\ UNCHANGED <<serial, packet, game>>
    BY <1>1, <1>4, <2>1, PendingRan, RanStruct
  <2>3. game = "playing"
    BY <1>1, <2>2, RunsNow
  <2>4. QED
    BY <2>2, <2>3 DEF Pending
<1>5. CASE HandlerFails \/ HandleLoginPacketScanFails
  BY <1>2, <1>5 DEF HandlerFails, HandleLoginPacketScanFails, stateVars, historyVars, AskedInv
<1>6. CASE UpdateHealthFails
  <2>1. HandlerFailed /\ asked' = asked /\ (out' = out \/ out' = Append(out, <<"performRespawn", serial>>))
    BY <1>6 DEF UpdateHealthFails, Answer
  <2>2. Sequence(out')
    <3>1. Sequence(out) /\ Sequence(Append(out, <<"performRespawn", serial>>))
      BY SequenceAppend DEF AskedInv
    <3>2. QED
      BY <2>1, <3>1
  <2>3. QED
    BY <1>2, <2>1, <2>2
<1>7. CASE \E id \in {"keepAlive", "ping", "position"} : HandleAsked(id)
  <2>1. PICK id \in {"keepAlive", "ping", "position"} : HandleAsked(id)
    BY <1>7
  <2>2. HandlerRan(id) /\ Answer(id) /\ asked' = asked
    BY <2>1 DEF HandleAsked, historyVars
  <2>3. /\ UNCHANGED <<serial, packet, game>> /\ game = "playing" /\ packet.id = id
        /\ Pending(packet.id) /\ ~Pending(packet.id)'
    BY <1>4, <2>2
  <2>4. Asks(packet) /\ KindOf(packet) = id
    BY <2>3 DEF Asks, KindOf
  <2>5. QED
    BY <2>2, <2>3, <2>4, AskedAnswer
<1>8. CASE UpdateHealth
  <2>1. HandlerRan("health") /\ asked' = asked
        /\ IF packet.dead THEN Answer("performRespawn") ELSE out' = out
    BY <1>8 DEF UpdateHealth
  <2>2. /\ UNCHANGED <<serial, packet, game>> /\ game = "playing" /\ packet.id = "health"
        /\ Pending(packet.id) /\ ~Pending(packet.id)'
    BY <1>4, <2>1
  <2>3. CASE packet.dead
    <3>1. Asks(packet) /\ KindOf(packet) = "performRespawn"
      BY <2>2, <2>3 DEF Asks, KindOf
    <3>2. QED
      BY <2>1, <2>2, <2>3, <3>1, AskedAnswer
  <2>4. CASE ~packet.dead
    <3>1. ~Asks(packet)
      BY <2>2, <2>4 DEF Asks
    <3>2. QED
      BY <2>1, <2>2, <2>4, <3>1, OwedSame, AskedSame
  <2>5. QED
    BY <2>3, <2>4
<1>9. ASSUME NEW m, NEW f, GameStartAdds(m, f) PROVE AskedInv'
  <2>1. Runs("gameStart") /\ UNCHANGED <<game, serial, packet, asked, out>>
    BY <1>9 DEF GameStartAdds
  <2>2. ~Asks(packet)
    <3>1. packet.id \in SessionIds /\ "gameStart" \in NamesFor(packet.id)
      BY <1>1, <2>1, RunsNow
    <3>2. packet.id = "login"
      BY <3>1 DEF NamesFor, SessionIds
    <3>3. QED
      BY <3>2 DEF Asks
  <2>3. QED
    BY <2>1, <2>2, OwedSame, AskedSame
<1>10. CASE GameStart
  <2>1. CASE HandlerRan("gameStart") /\ truth' = truth
    BY <1>3, <1>10, <2>1 DEF GameStart
  <2>2. QED
    BY <1>9, <1>10, <2>1, GameStartKinds
<1>11. CASE TapHandler \/ LateHandler \/ NoticeHandler
  BY <1>3, <1>11 DEF TapHandler, LateHandler, NoticeHandler, historyVars
<1>12. CASE HandleLoginPacket \/ HandleRespawnPacket \/ OnPlayerSpawn \/ HandleLevelChunk
  BY <1>3, <1>12 DEF HandleLoginPacket, HandleRespawnPacket, OnPlayerSpawn, HandleLevelChunk, historyVars
<1>13. CASE HandlePlayerInfoUpdatePacket \/ HandlePlayerInfoRemovePacket \/ HandlePlayerChat
  BY <1>3, <1>13 DEF HandlePlayerInfoUpdatePacket, HandlePlayerInfoRemovePacket, HandlePlayerChat, historyVars
<1>14. QED
  BY <1>5, <1>6, <1>7, <1>8, <1>10, <1>11, <1>12, <1>13 DEF Handle

LEMMA AskedStep == BaseInv /\ AskedInv /\ [Next]_vars => AskedInv'
<1> SUFFICES ASSUME BaseInv, AskedInv, [Next]_vars PROVE AskedInv'
  OBVIOUS
<1>1. ASSUME UNCHANGED <<loop, asked, out, game, serial, packet>> PROVE AskedInv'
  <2>1. Owed' = Owed
    BY <1>1 DEF Owed, Pending, Asks, KindOf
  <2>2. QED
    BY <1>1, <2>1, AskedSame
<1>2. CASE UNCHANGED vars
  BY <1>1, <1>2 DEF vars, eventsVars, sessionVars, historyVars
<1>3. CASE Setup
  <2>1. CASE JoinServer
    BY <2>1, SequenceEmpty DEF JoinServer, AskedInv
  <2>2. CASE ConnectionEnds
    BY <2>2, AskedIdle DEF ConnectionEnds, historyVars, AskedInv
  <2>3. CASE NewPlayer \/ NewWorld \/ NewPlayerList \/ NewChat \/ AddTap
    BY <1>1, <2>3 DEF NewPlayer, NewWorld, NewPlayerList, NewChat, AddTap, Makes, historyVars
  <2>4. QED
    BY <1>3, <2>1, <2>2, <2>3 DEF Setup
<1>4. CASE ServerSends
  BY <1>4, SendsAsked, AskedReceives
<1>5. CASE HandlePacketLoops
  <2>1. UNCHANGED <<game, made, packet, serial, joins, asked, out>> /\ StructInv
    BY <1>5 DEF HandlePacketLoops, sessionVars, historyVars, BaseInv
  <2>2. CASE HandlePacketSpecific
    <3>1. game = "playing"
      BY <2>1, <2>2 DEF HandlePacketSpecific, LoopDone, StructInv, LoopInv
    <3>2. ASSUME Asks(packet) PROVE Pending(packet.id)' <=> Pending(packet.id)
      <4>1. PICK id : id = packet.id
        OBVIOUS
      <4>2. id \in {"keepAlive", "ping", "position", "health"}
        BY <3>2, <4>1 DEF Asks
      <4>3. id \in SessionIds /\ Owner(id) \in {"player", "events"}
        BY <4>2 DEF SessionIds, Owner
      <4>4. Pending(id)' <=> Pending(id)
        BY <2>1, <2>2, <3>1, <4>3, PendingSpecific, PlayerOwned
      <4>5. QED
        BY <2>1, <4>1, <4>4, PendingOfPacket
    <3>3. QED
      BY <2>1, <3>2, OwedSame, AskedSame
  <2>3. CASE HandlePacketReturn
    <3>1. ~Pending(packet.id) /\ ~Pending(packet.id)'
      <4>1. PICK id : id = packet.id
        OBVIOUS
      <4>2. ~Pending(id) /\ ~Pending(id)'
        BY <2>1, <2>3, PendingReturn
      <4>3. QED
        BY <2>1, <4>1, <4>2, PendingOfPacket
    <3>2. QED
      BY <2>1, <3>1, OwedSame, AskedSame
  <2>4. QED
    BY <1>5, <2>2, <2>3 DEF HandlePacketLoops
<1>6. CASE Handle
  BY <1>6, AskedHandle
<1>7. QED
  BY <1>2, <1>3, <1>4, <1>5, <1>6 DEF Next

(* What the listeners are told.                                            *)
LEMMA HeardSame == HeardInv /\ UNCHANGED <<heard, asked, serial>> => HeardInv'
BY DEF HeardInv, ToldAt

LEMMA HeardTells ==
    ASSUME HeardInv, UNCHANGED <<asked, serial>>, serial \in Nat,
           NEW x, x[1] # "health", x[2] = serial, heard' = Append(heard, x)
    PROVE  HeardInv'
<1>1. Sequence(heard)
  BY DEF HeardInv
<1>2. /\ Sequence(heard') /\ DOMAIN heard \subseteq DOMAIN heard'
      /\ \A i \in DOMAIN heard : heard'[i] = heard[i]
      /\ \A i \in DOMAIN heard' : (i \in DOMAIN heard /\ heard'[i] = heard[i]) \/ heard'[i] = x
  <2>1. /\ Sequence(Append(heard, x)) /\ Len(heard) \in Nat /\ DOMAIN heard = 1 .. Len(heard)
        /\ DOMAIN Append(heard, x) = 1 .. Len(heard) + 1
        /\ \A i \in DOMAIN heard : Append(heard, x)[i] = heard[i]
        /\ Append(heard, x)[Len(heard) + 1] = x
        /\ \A i \in DOMAIN Append(heard, x) : i \in DOMAIN heard \/ i = Len(heard) + 1
    BY <1>1, SequenceAppend
  <2>2. DOMAIN heard \subseteq DOMAIN heard'
    BY <2>1
  <2>3. QED
    BY <2>1, <2>2
<1>3. \A i \in DOMAIN heard' : heard'[i][2] \in Nat /\ heard'[i][2] <= serial'
  BY <1>2 DEF HeardInv
<1>4. \A s : (\E j \in DOMAIN heard' : heard'[j] = <<"health", s>>) =>
                \E j \in DOMAIN heard : heard[j] = <<"health", s>>
  <2> SUFFICES ASSUME NEW s, NEW j \in DOMAIN heard', heard'[j] = <<"health", s>>
               PROVE  \E i \in DOMAIN heard : heard[i] = <<"health", s>>
    OBVIOUS
  <2>1. heard'[j] # x
    BY <<"health", s>>[1] = "health"
  <2>2. j \in DOMAIN heard /\ heard'[j] = heard[j]
    BY <1>2, <2>1
  <2>3. QED
    BY <2>2
<1>5. \A s : (\E j \in DOMAIN heard : heard[j] = <<"death", s>>) =>
                \E j \in DOMAIN heard' : heard'[j] = <<"death", s>>
  BY <1>2
<1>6. QED
  BY <1>2, <1>3, <1>4, <1>5 DEF HeardInv, ToldAt

LEMMA HeardTwo ==
    ASSUME Sequence(heard), NEW h, NEW d, heard' = heard \o <<h, d>>
    PROVE  /\ Sequence(heard') /\ DOMAIN heard \subseteq DOMAIN heard'
           /\ \A i \in DOMAIN heard : heard'[i] = heard[i]
           /\ \A i \in DOMAIN heard' :
                 (i \in DOMAIN heard /\ heard'[i] = heard[i]) \/ heard'[i] = h \/ heard'[i] = d
           /\ \E i \in DOMAIN heard' : heard'[i] = d
<1> DEFINE t == <<h, d>>
<1>1. Sequence(t) /\ Len(t) = 2 /\ t[1] = h /\ t[2] = d /\ heard' = heard \o t
  <2>1. t \in Seq({h, d})
    OBVIOUS
  <2>2. QED
    BY <2>1 DEF Sequence
<1> HIDE DEF t
<1>2. /\ Sequence(heard \o t)
      /\ Len(heard) \in Nat /\ DOMAIN heard = 1 .. Len(heard) /\ Len(t) \in Nat
      /\ DOMAIN (heard \o t) = 1 .. Len(heard) + Len(t)
      /\ \A i \in 1 .. Len(heard) + Len(t) :
            (heard \o t)[i] = IF i <= Len(heard) THEN heard[i] ELSE t[i - Len(heard)]
  BY <1>1, SequenceConcat
<1>3. \A i \in DOMAIN heard' : i \in DOMAIN heard \/ i = Len(heard) + 1 \/ i = Len(heard) + 2
  BY <1>1, <1>2
<1>4. Len(heard) + 2 \in DOMAIN heard' /\ DOMAIN heard \subseteq DOMAIN heard'
  BY <1>1, <1>2
<1>5. \A i \in DOMAIN heard : heard'[i] = heard[i]
  BY <1>1, <1>2
<1>6. heard'[Len(heard) + 1] = h /\ heard'[Len(heard) + 2] = d
  BY <1>1, <1>2
<1>7. QED
  BY <1>1, <1>2, <1>3, <1>4, <1>5, <1>6

LEMMA HeardHealth ==
    ASSUME HeardInv, AskedInv, UNCHANGED <<asked, serial>>, serial \in Nat, HealthEvents
    PROVE  HeardInv'
<1> DEFINE h == <<"health", serial>>
           d == <<"death", serial>>
<1>0. Sequence(heard) /\ h[1] = "health" /\ d[1] = "death" /\ h[2] = serial /\ d[2] = serial
  BY DEF HeardInv
<1>1. CASE packet.dead
  <2>1. heard' = heard \o <<h, d>>
    BY <1>1 DEF HealthEvents
  <2> HIDE DEF h, d
  <2>2. /\ Sequence(heard') /\ DOMAIN heard \subseteq DOMAIN heard'
        /\ \A i \in DOMAIN heard : heard'[i] = heard[i]
        /\ \A i \in DOMAIN heard' : (i \in DOMAIN heard /\ heard'[i] = heard[i]) \/ heard'[i] = h \/ heard'[i] = d
        /\ \E i \in DOMAIN heard' : heard'[i] = d
    <3>1. Sequence(heard)
      BY <1>0
    <3>2. QED
      BY <2>1, <3>1, HeardTwo
  <2>3. \A i \in DOMAIN heard' : heard'[i][2] \in Nat /\ heard'[i][2] <= serial'
    BY <1>0, <2>2 DEF HeardInv
  <2>4. \A s : (\E j \in DOMAIN heard' : heard'[j] = <<"health", s>>) =>
                  s = serial \/ \E j \in DOMAIN heard : heard[j] = <<"health", s>>
    BY <1>0, <2>2 DEF h
  <2>5. \A s : (s = serial \/ \E j \in DOMAIN heard : heard[j] = <<"death", s>>) =>
                  \E j \in DOMAIN heard' : heard'[j] = <<"death", s>>
    BY <2>2 DEF d
  <2>6. QED
    BY <2>2, <2>3, <2>4, <2>5 DEF HeardInv, ToldAt
<1>2. CASE ~packet.dead
  <2>1. heard' = Append(heard, h)
    BY <1>2 DEF HealthEvents
  <2> HIDE DEF h
  <2>2. /\ Sequence(heard') /\ DOMAIN heard \subseteq DOMAIN heard'
        /\ \A i \in DOMAIN heard : heard'[i] = heard[i]
        /\ \A i \in DOMAIN heard' : (i \in DOMAIN heard /\ heard'[i] = heard[i]) \/ heard'[i] = h
    <3>1. /\ Sequence(Append(heard, h)) /\ Len(heard) \in Nat /\ DOMAIN heard = 1 .. Len(heard)
          /\ DOMAIN Append(heard, h) = 1 .. Len(heard) + 1
          /\ \A i \in DOMAIN heard : Append(heard, h)[i] = heard[i]
          /\ Append(heard, h)[Len(heard) + 1] = h
          /\ \A i \in DOMAIN Append(heard, h) : i \in DOMAIN heard \/ i = Len(heard) + 1
      BY <1>0, SequenceAppend
    <3>2. DOMAIN heard \subseteq DOMAIN heard'
      BY <2>1, <3>1
    <3>3. QED
      BY <2>1, <3>1, <3>2
  <2>3. \A i \in DOMAIN heard' : heard'[i][2] \in Nat /\ heard'[i][2] <= serial'
    BY <1>0, <2>2 DEF HeardInv
  <2>4. \A s : (\E j \in DOMAIN heard' : heard'[j] = <<"health", s>>) =>
                  s = serial \/ \E j \in DOMAIN heard : heard[j] = <<"health", s>>
    BY <2>2 DEF h
  <2>5. \A s : (\E j \in DOMAIN heard : heard[j] = <<"death", s>>) =>
                  \E j \in DOMAIN heard' : heard'[j] = <<"death", s>>
    BY <2>2
  <2>6. \A i \in DOMAIN asked : asked[i][1] = "performRespawn" => asked[i][2] # serial
    BY <1>2 DEF AskedInv
  <2>7. QED
    BY <2>2, <2>3, <2>4, <2>5, <2>6 DEF HeardInv, ToldAt
<1>3. QED
  BY <1>1, <1>2

LEMMA HeardReceives ==
    ASSUME HeardInv, AskedInv, serial \in Nat, NEW p, Receives(p), asked' = AskedAfter(p)
    PROVE  HeardInv'
<1>1. serial' = serial + 1 /\ heard' = heard
  BY DEF Receives
<1>2. \A i \in DOMAIN heard' : heard'[i][2] \in Nat /\ heard'[i][2] <= serial'
  BY <1>1 DEF HeardInv
<1>3. ~ \E j \in DOMAIN heard : heard[j] = <<"health", serial + 1>>
  <2> SUFFICES ASSUME NEW j \in DOMAIN heard, heard[j] = <<"health", serial + 1>> PROVE FALSE
    OBVIOUS
  <2>1. heard[j][2] = serial + 1 /\ heard[j][2] <= serial
    BY DEF HeardInv
  <2>2. QED
    BY <2>1
<1> DEFINE e == <<KindOf(p), serial + 1>>
<1>4. \A i \in DOMAIN asked' : (i \in DOMAIN asked /\ asked'[i] = asked[i]) \/ asked'[i] = e
  <2>1. CASE Asks(p)
    <3>1. asked' = Append(asked, e) /\ Sequence(asked)
      BY <2>1 DEF AskedAfter, AskedInv
    <3> HIDE DEF e
    <3>2. /\ \A i \in DOMAIN asked : Append(asked, e)[i] = asked[i]
          /\ Append(asked, e)[Len(asked) + 1] = e
          /\ \A i \in DOMAIN Append(asked, e) : i \in DOMAIN asked \/ i = Len(asked) + 1
      BY <3>1, SequenceAppend
    <3>3. QED
      BY <3>1, <3>2
  <2>2. CASE ~Asks(p)
    BY <2>2 DEF AskedAfter
  <2>3. QED
    BY <2>1, <2>2
<1>5. ASSUME NEW i \in DOMAIN asked', asked'[i][1] = "performRespawn",
             \E j \in DOMAIN heard : heard[j] = <<"health", asked'[i][2]>>
      PROVE  \E j \in DOMAIN heard : heard[j] = <<"death", asked'[i][2]>>
  <2>1. e[2] = serial + 1
    OBVIOUS
  <2> HIDE DEF e
  <2>2. asked'[i] # e
    BY <1>3, <1>5, <2>1
  <2>3. i \in DOMAIN asked /\ asked'[i] = asked[i]
    BY <1>4, <2>2
  <2>4. QED
    BY <1>5, <2>3 DEF HeardInv, ToldAt
<1>6. QED
  BY <1>1, <1>2, <1>5 DEF HeardInv, ToldAt

LEMMA HeardStep == BaseInv /\ AskedInv /\ HeardInv /\ [Next]_vars => HeardInv'
<1> SUFFICES ASSUME BaseInv, AskedInv, HeardInv, [Next]_vars PROVE HeardInv'
  OBVIOUS
<1>1. StructInv /\ serial \in Nat
  BY DEF BaseInv, StructInv, PlayTypeOK
<1>2. CASE UNCHANGED vars
  BY <1>2, HeardSame DEF vars, sessionVars, historyVars
<1>3. CASE Setup
  <2>1. CASE JoinServer
    BY <2>1, SequenceEmpty DEF JoinServer, HeardInv
  <2>2. CASE ~JoinServer
    BY <1>3, <2>2, HeardSame DEF Setup, NewPlayer, NewWorld, NewPlayerList, NewChat, AddTap, Makes,
       ConnectionEnds, historyVars
  <2>3. QED
    BY <2>1, <2>2
<1>4. CASE ServerSends
  BY <1>1, <1>4, SendsAsked, HeardReceives
<1>5. CASE HandlePacketLoops
  BY <1>5, HeardSame DEF HandlePacketLoops, sessionVars, historyVars
<1>6. CASE Handle
  <2>1. ASSUME NEW n, HandlerRan(n) PROVE serial' = serial
    BY <2>1 DEF HandlerRan, sessionVars
  <2>2. CASE \/ HandlerFails \/ TapHandler \/ LateHandler
             \/ HandleLoginPacket \/ HandleLoginPacketScanFails \/ HandleRespawnPacket
             \/ (\E id \in {"keepAlive", "ping", "position"} : HandleAsked(id))
             \/ OnPlayerSpawn \/ HandleLevelChunk
             \/ HandlePlayerInfoUpdatePacket \/ HandlePlayerInfoRemovePacket
    BY <2>1, <2>2, HeardSame DEF HandlerFails, HandlerFailed, TapHandler, LateHandler,
       HandleLoginPacket, HandleLoginPacketScanFails, HandleRespawnPacket, HandleAsked,
       OnPlayerSpawn, HandleLevelChunk, HandlePlayerInfoUpdatePacket, HandlePlayerInfoRemovePacket,
       historyVars
  <2>3. CASE GameStart
    <3> DEFINE x == <<"gameStart", serial, player.eid>>
    <3>1. heard' = Append(heard, x) /\ UNCHANGED <<asked, serial>> /\ x[1] # "health" /\ x[2] = serial
      BY <2>3 DEF GameStart
    <3> HIDE DEF x
    <3>2. QED
      BY <1>1, <3>1, HeardTells
  <2>4. CASE NoticeHandler
    <3> DEFINE x == <<"notice", serial>>
    <3>1. heard' = Append(heard, x) /\ UNCHANGED <<asked, serial>> /\ x[1] # "health" /\ x[2] = serial
      BY <2>1, <2>4 DEF NoticeHandler, Tell
    <3> HIDE DEF x
    <3>2. QED
      BY <1>1, <3>1, HeardTells
  <2>5. CASE UpdateHealth \/ UpdateHealthFails
    BY <1>1, <2>1, <2>5, HeardHealth DEF UpdateHealth, UpdateHealthFails, HandlerFailed
  <2>6. CASE HandlePlayerChat
    <3> DEFINE x == <<"chat", serial, packet.sender, playerInfos[packet.sender].name>>
    <3>1. (heard' = heard \/ heard' = Append(heard, x)) /\ UNCHANGED <<asked, serial>>
          /\ x[1] # "health" /\ x[2] = serial
      BY <2>1, <2>6 DEF HandlePlayerChat
    <3> HIDE DEF x
    <3>2. QED
      BY <1>1, <3>1, HeardTells, HeardSame
  <2>7. QED
    BY <1>6, <2>2, <2>3, <2>4, <2>5, <2>6 DEF Handle
<1>7. QED
  BY <1>2, <1>3, <1>4, <1>5, <1>6 DEF Next

LEMMA RequestsInit == Init => AskedInv /\ HeardInv
BY SequenceEmpty DEF Init, EventsInit, AskedInv, HeardInv

(* Every keep-alive, ping, teleport and told death of a handled packet has *)
(* been answered once and in order, and death is told wherever the health  *)
(* that killed is: handleKeepAlivePacket, handlePingPacket and the wrapped *)
(* listeners of events.go.                                                 *)
THEOREM RequestsCorrect == Spec => []RequestsAreAnswered
<1>1. AskedInv /\ HeardInv => RequestsAreAnswered
  <2> SUFFICES ASSUME AskedInv, HeardInv PROVE RequestsAreAnswered
    OBVIOUS
  <2>1. ASSUME game = "playing", loop.over = "none" PROVE out = asked
    <3>1. Owed = <<>>
      BY <2>1, PendingNone DEF Owed
    <3>2. asked = out \o <<>> /\ Sequence(out)
      BY <2>1, <3>1 DEF AskedInv
    <3>3. QED
      BY <3>2, SequenceConcatEmpty
  <2>2. QED
    BY <2>1 DEF RequestsAreAnswered, Between, HeardInv, ToldAt
<1>2. QED
  BY <1>1, BaseInit, BaseStep, RequestsInit, AskedStep, HeardStep, PTL DEF Spec


-----------------------------------------------------------------------------
(* The player list *)

LEMMA AgreesWithUpdate ==
    ASSUME NEW list, NEW listed, NEW j \in Nat, j > 0, ListAgrees(list, listed, j),
           NEW S, NEW add, NEW s, NEW p, p = [id |-> "infoUpdate", add |-> add, uuids |-> S]
    PROVE  ListAgrees(ListWith(list, p, s, j),
                      [u \in DOMAIN listed \union (IF add THEN S ELSE {}) |->
                          IF u \notin S THEN listed[u]
                          ELSE [name |-> IF add THEN j ELSE listed[u].name, gamemode |-> s]],
                      j)
<1> DEFINE new == ListWith(list, p, s, j)
           told == [u \in DOMAIN listed \union (IF add THEN S ELSE {}) |->
                       IF u \notin S THEN listed[u]
                       ELSE [name |-> IF add THEN j ELSE listed[u].name, gamemode |-> s]]
<1>1. new = [u \in DOMAIN list \union S |->
                IF u \notin S THEN list[u]
                ELSE [name |-> IF add THEN j ELSE IF u \in DOMAIN list THEN list[u].name ELSE 0,
                      gamemode |-> s]]
  BY DEF ListWith
<1>2. ASSUME NEW u \in DOMAIN told PROVE u \in DOMAIN new /\ new[u] = told[u]
  <2>1. CASE u \notin S
    BY <1>1, <1>2, <2>1 DEF ListAgrees
  <2>2. CASE u \in S /\ add
    BY <1>1, <1>2, <2>2
  <2>3. CASE u \in S /\ ~add
    BY <1>1, <1>2, <2>3 DEF ListAgrees
  <2>4. QED
    BY <2>1, <2>2, <2>3
<1>3. ASSUME NEW u \in DOMAIN new \ DOMAIN told PROVE new[u].name # j
  <2>1. u \notin DOMAIN listed /\ ~(u \in S /\ add)
    BY <1>3
  <2>2. CASE u \in S
    BY <1>1, <1>3, <2>1, <2>2 DEF ListAgrees
  <2>3. CASE u \notin S
    BY <1>1, <1>3, <2>1, <2>3 DEF ListAgrees
  <2>4. QED
    BY <2>2, <2>3
<1>4. QED
  <2> HIDE DEF new, told
  <2>1. ListAgrees(new, told, j)
    BY <1>2, <1>3 DEF ListAgrees
  <2>2. QED
    BY <2>1 DEF new, told

LEMMA AgreesWithRemove ==
    ASSUME NEW list, NEW listed, NEW j, ListAgrees(list, listed, j),
           NEW S, NEW s, NEW p, p = [id |-> "infoRemove", uuids |-> S]
    PROVE  ListAgrees(ListWith(list, p, s, j), [u \in DOMAIN listed \ S |-> listed[u]], j)
<1>1. ListWith(list, p, s, j) = [u \in DOMAIN list \ S |-> list[u]]
  BY DEF ListWith
<1>2. QED
  BY <1>1 DEF ListAgrees

LEMMA ListSame ==
    ASSUME ListInv, UNCHANGED <<playerInfos, packet, serial, joins, game>>, truth'.listed = truth.listed,
           "players" \in made' => "players" \in made /\ (ListPending' <=> ListPending)
    PROVE  ListInv'
<1>1. ASSUME "players" \in made' PROVE ListAfter' = ListAfter
  BY <1>1 DEF ListAfter, ListWith
<1>2. QED
  BY <1>1 DEF ListInv

LEMMA ListIdle ==
    ASSUME ListInv, UNCHANGED <<playerInfos, joins>>, game' \notin {"joined", "playing"}
    PROVE  ListInv'
BY DEF ListInv

LEMMA ListSetup == BaseInv /\ ListInv /\ Setup => ListInv'
<1> SUFFICES ASSUME BaseInv, ListInv, Setup PROVE ListInv'
  OBVIOUS
<1>1. CASE ConnectionEnds
  BY <1>1, ListIdle DEF ConnectionEnds, stateVars
<1>2. CASE NewPlayer \/ NewWorld \/ NewPlayerList \/ NewChat \/ AddTap
  <2>1. UNCHANGED <<playerInfos, joins, game>> /\ game = "setup"
    BY <1>2 DEF NewPlayer, NewWorld, NewPlayerList, NewChat, AddTap, Makes, stateVars
  <2>2. QED
    BY <2>1, ListIdle
<1>3. CASE JoinServer
  <2>1. /\ joins' = joins + 1 /\ joins \in Nat /\ UNCHANGED <<playerInfos, loop>>
        /\ game \notin {"joined", "playing"} /\ truth' = [truth EXCEPT !.listed = NobodyHome]
    BY <1>3 DEF JoinServer, stateVars, eventsVars, BaseInv, StructInv, PlayTypeOK
  <2>2. loop'.over = "none"
    BY <2>1 DEF BaseInv, StructInv, LoopInv
  <2>3. ~ListPending'
    BY <2>2, PendingNoneNext DEF ListPending
  <2>4. truth'.listed = NobodyHome /\ DOMAIN NobodyHome = {}
    BY <2>1 DEF NobodyHome, BaseInv, TruthShape
  <2>5. \A u \in DOMAIN playerInfos : playerInfos[u].name \in Nat /\ playerInfos[u].name < joins'
    BY <2>1 DEF ListInv
  <2>6. ListAgrees(playerInfos', truth'.listed, joins')
    BY <2>1, <2>4, <2>5 DEF ListAgrees
  <2>7. ListAfter' = playerInfos'
    BY <2>3 DEF ListAfter
  <2>8. QED
    BY <2>1, <2>5, <2>6, <2>7 DEF ListInv
<1>4. QED
  BY <1>1, <1>2, <1>3 DEF Setup

(* The list agreed before the packet: it is the one the packet is read to. *)
LEMMA ListReceives ==
    ASSUME BaseInv, ListInv, NEW p, p.id \in SessionIds, Receives(p)
    PROVE  /\ joins \in Nat /\ joins > 0 /\ serial' = serial + 1 /\ packet' = p
           /\ UNCHANGED <<playerInfos, joins, made>> /\ game \in {"joined", "playing"}
           /\ "players" \in made => ListAgrees(playerInfos, truth.listed, joins)
           /\ ListPending' <=> p.id \in {"infoUpdate", "infoRemove"}
           /\ \A u \in DOMAIN playerInfos : playerInfos[u].name \in Nat /\ playerInfos[u].name <= joins
<1>1. StructInv
  BY DEF BaseInv
<1>2. \A name : ~Pending(name) /\ (Pending(name)' <=> name = p.id)
  BY <1>1, PendingReceives
<1>3. /\ serial' = serial + 1 /\ packet' = p /\ UNCHANGED <<playerInfos, joins, made>>
      /\ game \in {"joined", "playing"}
  BY DEF Receives, stateVars
<1>4. ~ListPending /\ (ListPending' <=> p.id \in {"infoUpdate", "infoRemove"})
  BY <1>2 DEF ListPending
<1>5. joins \in Nat /\ joins > 0
  BY <1>1, <1>3 DEF StructInv, PlayTypeOK
<1>6. ListAfter = playerInfos
  BY <1>4 DEF ListAfter
<1>7. QED
  BY <1>3, <1>4, <1>5, <1>6 DEF ListInv

LEMMA ListSends == BaseInv /\ ListInv /\ ServerSends => ListInv'
<1> SUFFICES ASSUME BaseInv, ListInv, ServerSends PROVE ListInv'
  OBVIOUS
<1>1. ASSUME NEW p, p.id \in SessionIds \ {"infoUpdate", "infoRemove"}, Receives(p),
             truth'.listed = truth.listed
      PROVE  ListInv'
  <2>1. /\ UNCHANGED <<playerInfos, joins, made>> /\ ~ListPending'
        /\ "players" \in made => ListAgrees(playerInfos, truth.listed, joins)
        /\ \A u \in DOMAIN playerInfos : playerInfos[u].name \in Nat /\ playerInfos[u].name <= joins
    BY <1>1, ListReceives
  <2>2. ListAfter' = playerInfos
    BY <2>1 DEF ListAfter
  <2>3. QED
    BY <1>1, <2>1, <2>2 DEF ListInv
<1>2. ASSUME NEW d, ServerSendsLogin(d) PROVE ListInv'
  <2> DEFINE p == [id |-> "login", eid |-> joins, dim |-> d]
  <2>1. p.id \in SessionIds \ {"infoUpdate", "infoRemove"} /\ Receives(p)
    BY <1>2 DEF ServerSendsLogin, SessionIds
  <2>2. truth'.listed = truth.listed
    BY <1>2 DEF ServerSendsLogin, BaseInv, TruthShape
  <2>3. QED
    BY <1>1, <2>1, <2>2
<1>3. ASSUME NEW d, ServerSendsRespawn(d) PROVE ListInv'
  <2> DEFINE p == [id |-> "respawn", dim |-> d]
  <2>1. p.id \in SessionIds \ {"infoUpdate", "infoRemove"} /\ Receives(p)
    BY <1>3 DEF ServerSendsRespawn, SessionIds
  <2>2. truth'.listed = truth.listed
    BY <1>3 DEF ServerSendsRespawn, BaseInv, TruthShape
  <2>3. QED
    BY <1>1, <2>1, <2>2
<1>4. ASSUME NEW id \in {"keepAlive", "ping", "position", "notice", "chunk"},
             ServerAsks(id) \/ ServerSendsPlain(id)
      PROVE  ListInv'
  <2>1. [id |-> id].id \in SessionIds \ {"infoUpdate", "infoRemove"}
    BY DEF SessionIds
  <2>2. QED
    BY <1>1, <1>4, <2>1 DEF ServerAsks, ServerSendsPlain
<1>5. ASSUME NEW dead, ServerSendsHealth(dead) PROVE ListInv'
  <2>1. [id |-> "health", dead |-> dead].id \in SessionIds \ {"infoUpdate", "infoRemove"}
    BY DEF SessionIds
  <2>2. QED
    BY <1>1, <1>5, <2>1 DEF ServerSendsHealth
<1>6. ASSUME NEW u, NEW unpacks, ServerSendsChat(u, unpacks) PROVE ListInv'
  <2>1. [id |-> "playerChat", sender |-> u, unpacks |-> unpacks].id \in SessionIds \ {"infoUpdate", "infoRemove"}
    BY DEF SessionIds
  <2>2. QED
    BY <1>1, <1>6, <2>1 DEF ServerSendsChat
<1>7. ASSUME NEW S, NEW add, ServerListsPlayers(S, add) PROVE ListInv'
  <2> DEFINE p == [id |-> "infoUpdate", add |-> add, uuids |-> S]
  <2>1. /\ p.id = "infoUpdate" /\ p.id \in SessionIds /\ Receives(p)
        /\ p = [id |-> "infoUpdate", add |-> add, uuids |-> S]
    BY <1>7 DEF ServerListsPlayers, SessionIds
  <2>2. truth'.listed = [u \in DOMAIN truth.listed \union (IF add THEN S ELSE {}) |->
                            IF u \notin S THEN truth.listed[u]
                            ELSE [name |-> IF add THEN joins ELSE truth.listed[u].name, gamemode |-> serial']]
    BY <1>7 DEF ServerListsPlayers, BaseInv, TruthShape
  <2> HIDE DEF p
  <2>3. /\ joins \in Nat /\ joins > 0 /\ packet' = p
        /\ UNCHANGED <<playerInfos, joins, made>>
        /\ "players" \in made => ListAgrees(playerInfos, truth.listed, joins)
        /\ ListPending'
        /\ \A u \in DOMAIN playerInfos : playerInfos[u].name \in Nat /\ playerInfos[u].name <= joins
    BY <2>1, ListReceives
  <2>4. ListAfter' = ListWith(playerInfos, p, serial', joins)
    BY <2>3 DEF ListAfter
  <2>5. PICK n : n = serial'
    OBVIOUS
  <2>6. "players" \in made => ListAgrees(ListAfter', truth'.listed, joins)
    <3> SUFFICES ASSUME "players" \in made PROVE ListAgrees(ListAfter', truth'.listed, joins)
      OBVIOUS
    <3>1. ListAgrees(ListWith(playerInfos, p, n, joins),
                     [u \in DOMAIN truth.listed \union (IF add THEN S ELSE {}) |->
                         IF u \notin S THEN truth.listed[u]
                         ELSE [name |-> IF add THEN joins ELSE truth.listed[u].name, gamemode |-> n]],
                     joins)
      BY <2>1, <2>3, AgreesWithUpdate
    <3>2. QED
      BY <2>2, <2>4, <2>5, <3>1
  <2>7. QED
    BY <2>3, <2>6 DEF ListInv
<1>8. ASSUME NEW S, ServerRemovesPlayers(S) PROVE ListInv'
  <2> DEFINE p == [id |-> "infoRemove", uuids |-> S]
  <2>1. /\ p.id = "infoRemove" /\ p.id \in SessionIds /\ Receives(p)
        /\ p = [id |-> "infoRemove", uuids |-> S]
    BY <1>8 DEF ServerRemovesPlayers, SessionIds
  <2>2. truth'.listed = [u \in DOMAIN truth.listed \ S |-> truth.listed[u]]
    BY <1>8 DEF ServerRemovesPlayers, BaseInv, TruthShape
  <2> HIDE DEF p
  <2>3. /\ packet' = p /\ UNCHANGED <<playerInfos, joins, made>>
        /\ "players" \in made => ListAgrees(playerInfos, truth.listed, joins)
        /\ ListPending'
        /\ \A u \in DOMAIN playerInfos : playerInfos[u].name \in Nat /\ playerInfos[u].name <= joins
    BY <2>1, ListReceives
  <2>4. ListAfter' = ListWith(playerInfos, p, serial', joins)
    BY <2>3 DEF ListAfter
  <2>5. PICK n : n = serial'
    OBVIOUS
  <2>6. "players" \in made => ListAgrees(ListAfter', truth'.listed, joins)
    <3> SUFFICES ASSUME "players" \in made PROVE ListAgrees(ListAfter', truth'.listed, joins)
      OBVIOUS
    <3>1. ListAgrees(ListWith(playerInfos, p, n, joins),
                     [u \in DOMAIN truth.listed \ S |-> truth.listed[u]], joins)
      BY <2>1, <2>3, AgreesWithRemove
    <3>2. QED
      BY <2>2, <2>4, <2>5, <3>1
  <2>7. QED
    BY <2>3, <2>6 DEF ListInv
<1>9. QED
  BY <1>2, <1>3, <1>4, <1>5, <1>6, <1>7, <1>8 DEF ServerSends

LEMMA ListLoops == BaseInv /\ ListInv /\ HandlePacketLoops => ListInv'
<1> SUFFICES ASSUME BaseInv, ListInv, HandlePacketLoops PROVE ListInv'
  OBVIOUS
<1>1. UNCHANGED <<playerInfos, game, made, packet, serial, joins, truth>> /\ StructInv
  BY DEF HandlePacketLoops, sessionVars, stateVars, historyVars, BaseInv
<1>2. ASSUME HandlePacketSpecific, "players" \in made PROVE ListPending' <=> ListPending
  <2>1. "infoUpdate" \in SessionIds /\ "infoRemove" \in SessionIds
        /\ Owner("infoUpdate") = "players" /\ Owner("infoRemove") = "players"
    BY DEF SessionIds, Owner
  <2>2. "players" \in Owners
    BY <1>2 DEF Owners
  <2>3. \A name \in SessionIds : Owner(name) \in Owners => (Pending(name)' <=> Pending(name))
    BY <1>1, <1>2, PendingSpecific
  <2>4. QED
    BY <2>1, <2>2, <2>3 DEF ListPending
<1>3. ASSUME HandlePacketReturn PROVE ListPending' <=> ListPending
  BY <1>1, <1>3, PendingReturn DEF ListPending
<1>4. QED
  BY <1>1, <1>2, <1>3, ListSame DEF HandlePacketLoops

LEMMA ListHandle == BaseInv /\ ListInv /\ Handle => ListInv'
<1> SUFFICES ASSUME BaseInv, ListInv, Handle PROVE ListInv'
  OBVIOUS
<1>1. StructInv /\ TruthShape
  BY DEF BaseInv
<1>2. ASSUME HandlerFailed, playerInfos' = playerInfos PROVE ListInv'
  BY <1>2, ListIdle DEF HandlerFailed
<1>3. ASSUME NEW n, HandlerRan(n), n \notin {"infoUpdate", "infoRemove"}, playerInfos' = playerInfos,
             truth' = truth
      PROVE  ListInv'
  <2>1. (Pending("infoUpdate")' <=> Pending("infoUpdate")) /\ (Pending("infoRemove")' <=> Pending("infoRemove"))
    BY <1>1, <1>3, PendingRan
  <2>2. UNCHANGED <<game, made, packet, serial, joins>>
    BY <1>1, <1>3, RanStruct
  <2>3. ListPending' <=> ListPending
    BY <2>1 DEF ListPending
  <2>4. QED
    BY <1>3, <2>2, <2>3, ListSame
<1>4. ASSUME NEW n \in {"infoUpdate", "infoRemove"}, HandlerRan(n),
             playerInfos' = ListWith(playerInfos, packet, serial, joins), truth' = truth
      PROVE  ListInv'
  <2>1. n \in AloneIds
    BY DEF AloneIds, SessionIds
  <2>2. n = packet.id /\ Pending(n) /\ ~Pending(n)'
    BY <1>1, <1>4, <2>1, PendingRan
  <2>3. UNCHANGED <<game, made, packet, serial, joins>> /\ joins \in Nat
    BY <1>1, <1>4, RanStruct DEF StructInv, PlayTypeOK
  <2>4. ListPending /\ ~ListPending'
    BY <2>2, <2>3 DEF ListPending, Pending
  <2>5. ListAfter' = playerInfos' /\ ListAfter = playerInfos'
    BY <1>4, <2>4 DEF ListAfter
  <2>6. ASSUME NEW u \in DOMAIN playerInfos'
        PROVE  playerInfos'[u].name \in Nat /\ playerInfos'[u].name <= joins
    BY <1>4, <2>3, <2>6 DEF ListWith, ListInv
  <2>7. QED
    BY <1>4, <2>3, <2>5, <2>6 DEF ListInv
<1>5. ASSUME NEW m, NEW f, GameStartAdds(m, f) PROVE ListInv'
  <2>1. /\ Runs("gameStart") /\ UNCHANGED <<game, packet, serial, joins, playerInfos>>
        /\ m \in {"world", "late"} /\ made' = made \union {m}
        /\ truth' = [truth EXCEPT !.disturbed = IF LoopAfter(f) = loop THEN @ ELSE joins]
    BY <1>5 DEF GameStartAdds, GameStartRegisters, stateVars
  <2>2. packet.id \in SessionIds /\ "gameStart" \in NamesFor(packet.id)
    BY <1>1, <2>1, RunsNow
  <2>3. packet.id = "login"
    BY <2>2 DEF NamesFor, SessionIds
  <2>4. ~ListPending /\ ~ListPending'
    BY <2>1, <2>3 DEF ListPending, Pending
  <2>5. truth'.listed = truth.listed
    BY <1>1, <2>1 DEF TruthShape
  <2>6. QED
    BY <2>1, <2>4, <2>5, ListSame
<1>6. CASE HandlerFails \/ UpdateHealthFails \/ HandleLoginPacketScanFails
  BY <1>2, <1>6 DEF HandlerFails, UpdateHealthFails, HandleLoginPacketScanFails, stateVars
<1>7. CASE GameStart
  <2>1. CASE HandlerRan("gameStart") /\ truth' = truth
    BY <1>3, <1>7, <2>1 DEF GameStart, stateVars
  <2>2. QED
    BY <1>5, <1>7, <2>1, GameStartKinds
<1>8. CASE HandlePlayerInfoUpdatePacket
  <2>1. HandlerRan("infoUpdate") /\ truth' = truth
        /\ playerInfos' = [u \in DOMAIN playerInfos \union packet.uuids |->
                              IF u \in packet.uuids THEN Updated(u) ELSE playerInfos[u]]
    BY <1>8 DEF HandlePlayerInfoUpdatePacket, historyVars
  <2>2. packet.id = "infoUpdate"
    BY <1>1, <2>1, PendingRan DEF AloneIds, SessionIds
  <2>3. \A u : InfoOf(u).name = IF u \in DOMAIN playerInfos THEN playerInfos[u].name ELSE 0
    BY DEF InfoOf, NoInfo
  <2>4. playerInfos' = ListWith(playerInfos, packet, serial, joins)
    BY <2>1, <2>2, <2>3 DEF ListWith, Updated
  <2>5. QED
    BY <1>4, <2>1, <2>4
<1>9. CASE HandlePlayerInfoRemovePacket
  <2>1. HandlerRan("infoRemove") /\ truth' = truth
        /\ playerInfos' = [u \in DOMAIN playerInfos \ packet.uuids |-> playerInfos[u]]
    BY <1>9 DEF HandlePlayerInfoRemovePacket, historyVars
  <2>2. packet.id = "infoRemove"
    BY <1>1, <2>1, PendingRan DEF AloneIds, SessionIds
  <2>3. playerInfos' = ListWith(playerInfos, packet, serial, joins)
    BY <2>1, <2>2 DEF ListWith
  <2>4. QED
    BY <1>4, <2>1, <2>3
<1>10. CASE \E id \in {"keepAlive", "ping", "position"} : HandleAsked(id)
  BY <1>3, <1>10 DEF HandleAsked, stateVars, historyVars
<1>11. CASE TapHandler \/ LateHandler \/ NoticeHandler \/ UpdateHealth \/ HandlePlayerChat
  BY <1>3, <1>11 DEF TapHandler, LateHandler, NoticeHandler, UpdateHealth, HandlePlayerChat,
     stateVars, historyVars
<1>12. CASE HandleLoginPacket \/ HandleRespawnPacket \/ OnPlayerSpawn \/ HandleLevelChunk
  BY <1>3, <1>12 DEF HandleLoginPacket, HandleRespawnPacket, OnPlayerSpawn, HandleLevelChunk, historyVars
<1>13. QED
  BY <1>6, <1>7, <1>8, <1>9, <1>10, <1>11, <1>12 DEF Handle

LEMMA ListStep == BaseInv /\ ListInv /\ [Next]_vars => ListInv'
<1> SUFFICES ASSUME BaseInv, ListInv, [Next]_vars PROVE ListInv'
  OBVIOUS
<1>1. CASE UNCHANGED vars
  <2>1. UNCHANGED <<loop, playerInfos, game, made, packet, serial, joins, truth>>
    BY <1>1 DEF vars, eventsVars, sessionVars, stateVars, historyVars
  <2>2. ListPending' <=> ListPending
    BY <2>1, PendingSame DEF ListPending
  <2>3. QED
    BY <2>1, <2>2, ListSame
<1>2. QED
  BY <1>1, ListSetup, ListSends, ListLoops, ListHandle DEF Next

LEMMA ListInit == Init => ListInv
BY DEF Init, NobodyHome, ListInv

(* After a packet the list has every player the server lists, as it lists  *)
(* them, and of the others none that was named in this session:            *)
(* handlePlayerInfoUpdatePacket and handlePlayerInfoRemovePacket, over any *)
(* number of sessions of one list.                                         *)
THEOREM ListCorrect == Spec => []PlayersFollowServer
<1>1. ListInv => PlayersFollowServer
  <2> SUFFICES ASSUME ListInv, game = "playing", loop.over = "none", "players" \in made
               PROVE  ListAgrees(playerInfos, truth.listed, joins)
    BY DEF PlayersFollowServer, Between, ListAgrees
  <2>1. ~ListPending
    BY PendingNone DEF ListPending
  <2>2. QED
    BY <2>1 DEF ListInv, ListAfter
<1>2. QED
  BY <1>1, BaseInit, BaseStep, ListInit, ListStep, PTL DEF Spec

-----------------------------------------------------------------------------
(* The chat *)

LEMMA KeptOfConcat ==
    ASSUME NEW s, Sequence(s), NEW t, Sequence(t), NEW K
    PROVE  Kept(s \o t, K) = Kept(s, K) \o Kept(t, K) /\ Sequence(Kept(s, K))
<1>1. PICK S, T : s \in Seq(S) /\ t \in Seq(T)
  BY DEF Sequence
<1>2. PICK R : R = S \union T
  OBVIOUS
<1>3. s \in Seq(R) /\ t \in Seq(R)
  BY <1>1, <1>2, SeqMonotonic
<1>4. Kept(s \o t, K) = Kept(s, K) \o Kept(t, K)
  BY <1>3, KeptConcat
<1>5. Kept(s, K) \in Seq(R)
  BY <1>3, KeptType
<1>6. QED
  BY <1>4, <1>5 DEF Sequence

LEMMA KeptAsOf ==
    ASSUME NEW s, Sequence(s), NEW K, NEW L, \A i \in DOMAIN s : s[i] \in K <=> s[i] \in L
    PROVE  Kept(s, K) = Kept(s, L)
<1>1. PICK S : s \in Seq(S)
  BY DEF Sequence
<1>2. \A i \in 1 .. Len(s) : s[i] \in K <=> s[i] \in L
  BY <1>1, LenProperties
<1>3. QED
  BY <1>1, <1>2, KeptSame

LEMMA KeptOfNone ==
    ASSUME NEW s, Sequence(s), NEW K, \A i \in DOMAIN s : s[i] \notin K
    PROVE  Kept(s, K) = <<>>
<1>1. PICK S : s \in Seq(S)
  BY DEF Sequence
<1>2. \A i \in 1 .. Len(s) : s[i] \notin K
  BY <1>1, LenProperties
<1>3. QED
  BY <1>1, <1>2, KeptNone

LEMMA KeptOfOne ==
    ASSUME NEW x, NEW K
    PROVE  Kept(<<x>>, K) = IF x \in K THEN <<x>> ELSE <<>>
<1>1. PICK s : s = <<x>>
  OBVIOUS
<1>2. s \in Seq({x}) /\ Len(s) = 1 /\ s[1] = x
  BY <1>1
<1>3. CASE x \in K
  <2>1. \A i \in 1 .. Len(s) : s[i] \in K
    BY <1>2, <1>3
  <2>2. Kept(s, K) = s
    BY <1>2, <2>1, KeptAll
  <2>3. QED
    BY <1>1, <1>3, <2>2
<1>4. CASE x \notin K
  <2>1. \A i \in 1 .. Len(s) : s[i] \notin K
    BY <1>2, <1>4
  <2>2. Kept(s, K) = <<>>
    BY <1>2, <2>1, KeptNone
  <2>3. QED
    BY <1>1, <1>4, <2>2
<1>5. QED
  BY <1>3, <1>4

SaidIn(q, s) == \E i \in DOMAIN q : q[i][2] = s
SaidChat(q, x) == x[1] = "chat" /\ SaidIn(q, x[2])

LEMMA SaidChatsAre ==
    ASSUME NEW i \in DOMAIN heard
    PROVE  heard[i] \in SaidChats <=> SaidChat(said, heard[i])
BY DEF SaidChats, SaidChat, SaidAt, SaidIn

LEMMA SaidChatsAreNext ==
    ASSUME NEW i \in DOMAIN heard'
    PROVE  heard'[i] \in SaidChats' <=> SaidChat(said', heard'[i])
BY DEF SaidChats, SaidChat, SaidAt, SaidIn

(* The listeners have been told t, and no more was said.                   *)
LEMMA ChatsAppend ==
    ASSUME Sequence(heard), said' = said, NEW t, Sequence(t), heard' = heard \o t
    PROVE  /\ Kept(heard', SaidChats') = Kept(heard, SaidChats) \o Kept(t, SaidChats')
           /\ \A i \in DOMAIN t : t[i] \in SaidChats' <=> SaidChat(said, t[i])
           /\ \A i \in DOMAIN heard' :
                 (i \in DOMAIN heard /\ heard'[i] = heard[i]) \/ \E j \in DOMAIN t : heard'[i] = t[j]
<1>0. /\ Sequence(heard \o t)
      /\ Len(heard) \in Nat /\ DOMAIN heard = 1 .. Len(heard) /\ Len(t) \in Nat
      /\ DOMAIN (heard \o t) = 1 .. Len(heard) + Len(t)
      /\ \A i \in 1 .. Len(heard) + Len(t) :
            (heard \o t)[i] = IF i <= Len(heard) THEN heard[i] ELSE t[i - Len(heard)]
  BY SequenceConcat
<1>1. DOMAIN t = 1 .. Len(t)
  BY LenProperties DEF Sequence
<1>2. /\ DOMAIN heard' = 1 .. Len(heard) + Len(t)
      /\ \A i \in 1 .. Len(heard) + Len(t) :
            heard'[i] = IF i <= Len(heard) THEN heard[i] ELSE t[i - Len(heard)]
  BY <1>0
<1>3. \A i \in DOMAIN heard : i \in DOMAIN heard' /\ heard'[i] = heard[i]
  BY <1>0, <1>2
<1>4. \A j \in DOMAIN t : Len(heard) + j \in DOMAIN heard' /\ heard'[Len(heard) + j] = t[j]
  BY <1>0, <1>1, <1>2
<1>5. \A i \in DOMAIN heard' :
         (i \in DOMAIN heard /\ heard'[i] = heard[i]) \/ \E j \in DOMAIN t : heard'[i] = t[j]
  <2> TAKE i \in DOMAIN heard'
  <2>1. CASE i <= Len(heard)
    BY <1>0, <1>2, <2>1
  <2>2. CASE ~(i <= Len(heard))
    <3>1. i - Len(heard) \in DOMAIN t /\ heard'[i] = t[i - Len(heard)]
      BY <1>0, <1>1, <1>2, <2>2
    <3>2. QED
      BY <3>1
  <2>3. QED
    BY <2>1, <2>2
<1>6. \A i \in DOMAIN heard' : heard'[i] \in SaidChats' <=> SaidChat(said, heard'[i])
  BY SaidChatsAreNext
<1>7. \A i \in DOMAIN heard : heard[i] \in SaidChats <=> SaidChat(said, heard[i])
  BY SaidChatsAre
<1>8. \A i \in DOMAIN heard : heard[i] \in SaidChats' <=> heard[i] \in SaidChats
  BY <1>3, <1>6, <1>7
<1>9. PICK K, L : K = SaidChats' /\ L = SaidChats
  OBVIOUS
<1>10. Kept(heard, K) = Kept(heard, L)
  <2>1. \A i \in DOMAIN heard : heard[i] \in K <=> heard[i] \in L
    BY <1>8, <1>9
  <2>2. QED
    BY <2>1, KeptAsOf
<1>11. Kept(heard \o t, K) = Kept(heard, K) \o Kept(t, K) /\ Sequence(Kept(heard, K))
  BY KeptOfConcat
<1>12. \A i \in DOMAIN t : t[i] \in SaidChats' <=> SaidChat(said, t[i])
  BY <1>4, <1>6
<1>13. QED
  BY <1>5, <1>9, <1>10, <1>11, <1>12

(* What is told is no message of a player.                                 *)
Silent(t) == Sequence(t) /\ heard' = heard \o t /\ \A i \in DOMAIN t : t[i][1] # "chat"

LEMMA SilentSame == Sequence(heard) /\ heard' = heard => Silent(<<>>)
BY SequenceEmpty, SequenceConcatEmpty DEF Silent

LEMMA SilentTells ==
    ASSUME Sequence(heard), NEW x, x[1] # "chat", heard' = Append(heard, x)
    PROVE  Silent(<<x>>)
<1>1. Append(heard, x) = heard \o <<x>>
  BY SequenceAppend
<1>2. <<x>> \in Seq({x})
  OBVIOUS
<1>3. Sequence(<<x>>)
  BY <1>2 DEF Sequence
<1>4. QED
  BY <1>1, <1>3 DEF Silent

LEMMA SilentHealth == Sequence(heard) /\ HealthEvents => \E t : Silent(t)
<1> SUFFICES ASSUME Sequence(heard), HealthEvents PROVE \E t : Silent(t)
  OBVIOUS
<1> DEFINE h == <<"health", serial>>
           d == <<"death", serial>>
<1>1. CASE packet.dead
  <2>1. PICK t : t = <<h, d>>
    OBVIOUS
  <2>2. t \in Seq({h, d}) /\ DOMAIN t = 1 .. 2 /\ t[1] = h /\ t[2] = d
    BY <2>1
  <2>3. heard' = heard \o t
    BY <1>1, <2>1 DEF HealthEvents
  <2>4. \A i \in DOMAIN t : t[i][1] # "chat"
    BY <2>2
  <2>5. Sequence(t)
    BY <2>2 DEF Sequence
  <2>6. QED
    BY <2>3, <2>4, <2>5 DEF Silent
<1>2. CASE ~packet.dead
  <2>1. heard' = Append(heard, h) /\ h[1] # "chat"
    BY <1>2 DEF HealthEvents
  <2> HIDE DEF h
  <2>2. QED
    BY <2>1, SilentTells
<1>3. QED
  BY <1>1, <1>2

LEMMA ChatSilent ==
    ASSUME HeardInv, ChatInv, NEW t, Silent(t), UNCHANGED <<said, serial, packet, joins, game>>,
           truth'.listed = truth.listed, "chat" \in made' <=> "chat" \in made, made \subseteq made',
           "chat" \in made => (Pending("playerChat")' <=> Pending("playerChat"))
    PROVE  ChatInv'
<1>1. Sequence(heard) /\ Sequence(t) /\ heard' = heard \o t
  BY DEF HeardInv, Silent
<1>2. /\ Kept(heard', SaidChats') = Kept(heard, SaidChats) \o Kept(t, SaidChats')
      /\ \A i \in DOMAIN t : t[i] \in SaidChats' <=> SaidChat(said, t[i])
      /\ \A i \in DOMAIN heard' :
            (i \in DOMAIN heard /\ heard'[i] = heard[i]) \/ \E j \in DOMAIN t : heard'[i] = t[j]
  BY <1>1, ChatsAppend
<1>3. Kept(heard', SaidChats') = Kept(heard, SaidChats)
  <2>1. PICK K, L : K = SaidChats' /\ L = SaidChats
    OBVIOUS
  <2>2. \A i \in DOMAIN t : t[i] \notin K
    BY <1>2, <2>1 DEF Silent, SaidChat
  <2>3. Kept(t, K) = <<>>
    BY <1>1, <2>2, KeptOfNone
  <2>4. Sequence(Kept(heard, L))
    BY <1>1, KeptOfConcat
  <2>5. Kept(heard, L) \o <<>> = Kept(heard, L)
    BY <2>4, SequenceConcatEmpty
  <2>6. QED
    BY <1>2, <2>1, <2>3, <2>5
<1>4. \A i \in DOMAIN heard' : heard'[i][1] = "chat" => i \in DOMAIN heard /\ heard'[i] = heard[i]
  BY <1>2 DEF Silent
<1>5. "chat" \in made => Coming' = Coming
  BY DEF Coming
<1>6. \A i \in DOMAIN heard : SaidAt(heard[i][2]) <=> SaidIn(said, heard[i][2])
  BY DEF SaidAt, SaidIn
<1>7. ASSUME "chat" \in made', game' \in {"joined", "playing"}
      PROVE  /\ Kept(heard', SaidChats') \o Coming' = said'
             /\ \A i \in DOMAIN heard' :
                   heard'[i][1] = "chat" /\ ~SaidIn(said', heard'[i][2]) => heard'[i][4] # joins'
  <2>1. /\ Kept(heard, SaidChats) \o Coming = said
        /\ \A i \in DOMAIN heard :
              heard[i][1] = "chat" /\ ~SaidAt(heard[i][2]) => heard[i][4] # joins
    BY <1>7 DEF ChatInv
  <2>2. \A i \in DOMAIN heard' :
           heard'[i][1] = "chat" /\ ~SaidIn(said', heard'[i][2]) => heard'[i][4] # joins'
    BY <1>4, <1>6, <2>1
  <2>3. QED
    BY <1>3, <1>5, <1>7, <2>1, <2>2
<1>9. /\ "chat" \in made' => "players" \in made'
      /\ Sequence(said')
      /\ \A i \in DOMAIN said' : said'[i][2] \in Nat /\ said'[i][2] <= serial'
      /\ (game' \in {"joined", "playing"} /\ SaidIn(said', serial')) =>
            packet'.id = "playerChat" /\ packet'.sender \in DOMAIN truth'.listed
  BY DEF ChatInv, SaidAt, SaidIn
<1>10. QED
  BY <1>7, <1>9 DEF ChatInv, SaidAt, SaidIn

LEMMA ChatIdle ==
    ASSUME ChatInv, "chat" \in made' => "players" \in made', UNCHANGED <<said, serial>>,
           game' \notin {"joined", "playing"}
    PROVE  ChatInv'
BY DEF ChatInv

LEMMA ChatSetup == BaseInv /\ HeardInv /\ ChatInv /\ Setup => ChatInv'
<1> SUFFICES ASSUME BaseInv, HeardInv, ChatInv, Setup PROVE ChatInv'
  OBVIOUS
<1>1. CASE ConnectionEnds
  BY <1>1, ChatIdle DEF ConnectionEnds, historyVars, ChatInv
<1>2. CASE NewPlayer \/ NewWorld \/ NewPlayerList \/ AddTap
  <2>1. UNCHANGED <<said, serial, game>> /\ game = "setup"
        /\ \E m : m # "chat" /\ made' = made \union {m}
    BY <1>2 DEF NewPlayer, NewWorld, NewPlayerList, AddTap, Makes, historyVars
  <2>2. "chat" \in made' => "players" \in made'
    BY <2>1 DEF ChatInv
  <2>3. QED
    BY <2>1, <2>2, ChatIdle
<1>3. CASE NewChat
  <2>1. UNCHANGED <<said, serial, game>> /\ game = "setup" /\ made' = made \union {"chat"} /\ "players" \in made
    BY <1>3 DEF NewChat, Makes, historyVars
  <2>2. QED
    BY <2>1, ChatIdle
<1>4. CASE JoinServer
  <2>1. /\ said' = <<>> /\ heard' = <<>> /\ UNCHANGED <<made, serial, loop>>
        /\ game \notin {"joined", "playing"}
    BY <1>4 DEF JoinServer, eventsVars
  <2>2. loop'.over = "none"
    BY <2>1 DEF BaseInv, StructInv, LoopInv
  <2>3. Coming' = <<>>
    BY <2>2, PendingNoneNext DEF Coming
  <2>4. Sequence(<<>>) /\ DOMAIN <<>> = {}
    BY SequenceEmpty
  <2>5. Kept(heard', SaidChats') \o Coming' = said'
    <3>1. PICK K : K = SaidChats'
      OBVIOUS
    <3>2. Kept(<<>>, K) = <<>>
      BY KeptEmpty
    <3>3. <<>> \o <<>> = <<>>
      BY <2>4, SequenceConcatEmpty
    <3>4. QED
      BY <2>1, <2>3, <3>1, <3>2, <3>3
  <2>6. \A s : ~SaidIn(said', s)
    BY <2>1, <2>4 DEF SaidIn
  <2>7. Sequence(said') /\ DOMAIN said' = {} /\ DOMAIN heard' = {}
    BY <2>1, <2>4
  <2>8. "chat" \in made' => "players" \in made'
    BY <2>1 DEF ChatInv
  <2>9. QED
    BY <2>5, <2>6, <2>7, <2>8 DEF ChatInv, SaidAt, SaidIn
<1>5. QED
  BY <1>1, <1>2, <1>3, <1>4 DEF Setup

(* A packet that is no message: nothing more is said, and none is coming.  *)
LEMMA ChatReceives ==
    ASSUME BaseInv, HeardInv, ChatInv, NEW p, p.id \in SessionIds, Receives(p)
    PROVE  /\ serial \in Nat /\ serial' = serial + 1 /\ packet' = p
           /\ UNCHANGED <<heard, joins, made>> /\ game' = "playing" /\ game \in {"joined", "playing"}
           /\ Pending("playerChat")' <=> p.id = "playerChat"
           /\ Coming = <<>> /\ Sequence(heard) /\ Sequence(said)
           /\ \A i \in DOMAIN heard : heard[i][2] \in Nat /\ heard[i][2] <= serial
           /\ \A i \in DOMAIN said : said[i][2] \in Nat /\ said[i][2] <= serial
           /\ ~SaidIn(said, serial + 1)
           /\ "chat" \in made =>
                 /\ Kept(heard, SaidChats) = said
                 /\ \A i \in DOMAIN heard :
                       heard[i][1] = "chat" /\ ~SaidIn(said, heard[i][2]) => heard[i][4] # joins
<1>1. StructInv
  BY DEF BaseInv
<1>2. \A name : ~Pending(name) /\ (Pending(name)' <=> name = p.id)
  BY <1>1, PendingReceives
<1>3. /\ serial' = serial + 1 /\ packet' = p /\ UNCHANGED <<heard, joins, made>>
      /\ game' = "playing" /\ game \in {"joined", "playing"}
  BY DEF Receives
<1>4. serial \in Nat
  BY <1>1 DEF StructInv, PlayTypeOK
<1>5. Coming = <<>>
  BY <1>2 DEF Coming
<1>6. /\ \A i \in DOMAIN heard : heard[i][2] \in Nat /\ heard[i][2] <= serial
      /\ Sequence(heard) /\ Sequence(said)
  BY DEF HeardInv, ChatInv
<1>7. /\ \A i \in DOMAIN said : said[i][2] \in Nat /\ said[i][2] <= serial
      /\ ~SaidIn(said, serial + 1)
  BY <1>4 DEF ChatInv, SaidIn
<1>8. ASSUME "chat" \in made
      PROVE  /\ Kept(heard, SaidChats) = said
             /\ \A i \in DOMAIN heard :
                   heard[i][1] = "chat" /\ ~SaidIn(said, heard[i][2]) => heard[i][4] # joins
  <2>1. /\ Kept(heard, SaidChats) \o <<>> = said
        /\ \A i \in DOMAIN heard :
              heard[i][1] = "chat" /\ ~SaidIn(said, heard[i][2]) => heard[i][4] # joins
    BY <1>3, <1>5, <1>8 DEF ChatInv, SaidAt, SaidIn
  <2>2. PICK K : K = SaidChats
    OBVIOUS
  <2>3. Sequence(Kept(heard, K))
    BY <1>6, SequenceEmpty, KeptOfConcat
  <2>4. Kept(heard, K) \o <<>> = Kept(heard, K)
    BY <2>3, SequenceConcatEmpty
  <2>5. QED
    BY <2>1, <2>2, <2>4
<1>9. QED
  BY <1>2, <1>3, <1>4, <1>5, <1>6, <1>7, <1>8

LEMMA ChatReceivesOther ==
    ASSUME BaseInv, HeardInv, ChatInv, NEW p, p.id \in SessionIds, Receives(p), said' = said,
           p.id = "playerChat" => p.sender \notin DOMAIN truth'.listed
    PROVE  ChatInv'
<1>1. /\ serial \in Nat /\ serial' = serial + 1 /\ packet' = p
      /\ UNCHANGED <<heard, joins, made>>
      /\ Pending("playerChat")' <=> p.id = "playerChat"
      /\ Coming = <<>> /\ Sequence(heard) /\ Sequence(said)
      /\ \A i \in DOMAIN said : said[i][2] \in Nat /\ said[i][2] <= serial
      /\ ~SaidIn(said, serial + 1)
      /\ "chat" \in made =>
            /\ Kept(heard, SaidChats) = said
            /\ \A i \in DOMAIN heard :
                  heard[i][1] = "chat" /\ ~SaidIn(said, heard[i][2]) => heard[i][4] # joins
  BY ChatReceives
<1>2. Coming' = <<>>
  BY <1>1 DEF Coming
<1>3. SaidChats' = SaidChats
  BY <1>1 DEF SaidChats, SaidAt
<1>4. "chat" \in made => Kept(heard', SaidChats') \o Coming' = said'
  BY <1>1, <1>2, <1>3, SequenceConcatEmpty
<1>5. \A i \in DOMAIN said' : said'[i][2] \in Nat /\ said'[i][2] <= serial'
  BY <1>1
<1>6. ~SaidIn(said', serial')
  BY <1>1
<1>7. "chat" \in made' => "players" \in made'
  BY <1>1 DEF ChatInv
<1>8. QED
  BY <1>1, <1>4, <1>5, <1>6, <1>7 DEF ChatInv, SaidAt, SaidIn

LEMMA ChatReceivesSaid ==
    ASSUME BaseInv, HeardInv, ChatInv, NEW p, p.id = "playerChat", Receives(p),
           truth' = truth, p.sender \in DOMAIN truth.listed,
           NEW e, e = <<"chat", serial + 1, p.sender, truth.listed[p.sender].name>>,
           said' = Append(said, e)
    PROVE  ChatInv'
<1>0. p.id \in SessionIds /\ e[2] = serial + 1
  BY DEF SessionIds
<1>1. /\ serial \in Nat /\ serial' = serial + 1 /\ packet' = p
      /\ UNCHANGED <<heard, joins, made>>
      /\ Pending("playerChat")' <=> p.id = "playerChat"
      /\ Coming = <<>> /\ Sequence(heard) /\ Sequence(said)
      /\ \A i \in DOMAIN heard : heard[i][2] \in Nat /\ heard[i][2] <= serial
      /\ \A i \in DOMAIN said : said[i][2] \in Nat /\ said[i][2] <= serial
      /\ ~SaidIn(said, serial + 1)
      /\ "chat" \in made =>
            /\ Kept(heard, SaidChats) = said
            /\ \A i \in DOMAIN heard :
                  heard[i][1] = "chat" /\ ~SaidIn(said, heard[i][2]) => heard[i][4] # joins
  BY <1>0, ChatReceives
<1>2. Coming' = <<e>>
  BY <1>1 DEF Coming
<1>3. /\ Sequence(said') /\ said' = said \o <<e>>
      /\ \A i \in DOMAIN said : i \in DOMAIN said' /\ said'[i] = said[i]
      /\ \A i \in DOMAIN said' : (i \in DOMAIN said /\ said'[i] = said[i]) \/ said'[i] = e
  <2>1. PICK x : x = e
    OBVIOUS
  <2>2. /\ Sequence(Append(said, x)) /\ Append(said, x) = said \o <<x>>
        /\ Len(said) \in Nat /\ DOMAIN said = 1 .. Len(said)
        /\ DOMAIN Append(said, x) = 1 .. Len(said) + 1
        /\ \A i \in DOMAIN said : Append(said, x)[i] = said[i]
        /\ Append(said, x)[Len(said) + 1] = x
        /\ \A i \in DOMAIN Append(said, x) : i \in DOMAIN said \/ i = Len(said) + 1
    <3>1. Sequence(said)
      BY <1>1
    <3>2. QED
      BY <3>1, SequenceAppend
  <2>3. said' = Append(said, x)
    BY <2>1
  <2>4. /\ Sequence(said') /\ said' = said \o <<x>>
        /\ \A i \in DOMAIN said : i \in DOMAIN said' /\ said'[i] = said[i]
        /\ \A i \in DOMAIN said' : (i \in DOMAIN said /\ said'[i] = said[i]) \/ said'[i] = x
    <3>1. \A i \in DOMAIN said : i \in DOMAIN Append(said, x)
      BY <2>2
    <3>2. QED
      BY <2>2, <2>3, <3>1
  <2>5. QED
    BY <2>1, <2>4
<1>4. \A i \in DOMAIN heard : SaidIn(said', heard[i][2]) <=> SaidIn(said, heard[i][2])
  <2> TAKE i \in DOMAIN heard
  <2>1. heard[i][2] # serial + 1
    BY <1>1
  <2>2. QED
    BY <1>0, <1>3, <2>1 DEF SaidIn
<1>5. SaidChats' = SaidChats
  <2>1. \A i \in DOMAIN heard : SaidAt(heard[i][2]) <=> SaidIn(said, heard[i][2])
    BY DEF SaidAt, SaidIn
  <2>2. SaidChats = { heard[i] : i \in { j \in DOMAIN heard : heard[j][1] = "chat" /\ SaidIn(said, heard[j][2]) } }
    BY DEF SaidChats, SaidAt, SaidIn
  <2>3. SaidChats' = { heard[i] : i \in { j \in DOMAIN heard : heard[j][1] = "chat" /\ SaidIn(said', heard[j][2]) } }
    BY <1>1 DEF SaidChats, SaidAt, SaidIn
  <2>4. QED
    BY <1>4, <2>2, <2>3
<1>6. "chat" \in made => Kept(heard', SaidChats') \o Coming' = said'
  BY <1>1, <1>2, <1>3, <1>5
<1>7. \A i \in DOMAIN said' : said'[i][2] \in Nat /\ said'[i][2] <= serial'
  BY <1>0, <1>1, <1>3
<1>8. "chat" \in made' => "players" \in made'
  BY <1>1 DEF ChatInv
<1>9. "chat" \in made =>
         \A i \in DOMAIN heard' :
            heard'[i][1] = "chat" /\ ~SaidIn(said', heard'[i][2]) => heard'[i][4] # joins'
  BY <1>1, <1>4
<1>10. QED
  BY <1>1, <1>3, <1>6, <1>7, <1>8, <1>9 DEF ChatInv, SaidAt, SaidIn

LEMMA ChatSends == BaseInv /\ HeardInv /\ ChatInv /\ ServerSends => ChatInv'
<1> SUFFICES ASSUME BaseInv, HeardInv, ChatInv, ServerSends PROVE ChatInv'
  OBVIOUS
<1>1. ASSUME NEW p, p.id \in SessionIds \ {"playerChat"}, Receives(p), said' = said
      PROVE  ChatInv'
  BY <1>1, ChatReceivesOther
<1>2. ASSUME NEW d, ServerSendsLogin(d) \/ ServerSendsRespawn(d) PROVE ChatInv'
  <2>1. [id |-> "login", eid |-> joins, dim |-> d].id \in SessionIds \ {"playerChat"}
        /\ [id |-> "respawn", dim |-> d].id \in SessionIds \ {"playerChat"}
    BY DEF SessionIds
  <2>2. QED
    BY <1>1, <1>2, <2>1 DEF ServerSendsLogin, ServerSendsRespawn
<1>3. ASSUME NEW id \in {"keepAlive", "ping", "position", "notice", "chunk"},
             ServerAsks(id) \/ ServerSendsPlain(id)
      PROVE  ChatInv'
  <2>1. [id |-> id].id \in SessionIds \ {"playerChat"}
    BY DEF SessionIds
  <2>2. QED
    BY <1>1, <1>3, <2>1 DEF ServerAsks, ServerSendsPlain
<1>4. ASSUME NEW dead, ServerSendsHealth(dead) PROVE ChatInv'
  <2>1. [id |-> "health", dead |-> dead].id \in SessionIds \ {"playerChat"}
    BY DEF SessionIds
  <2>2. QED
    BY <1>1, <1>4, <2>1 DEF ServerSendsHealth
<1>5. ASSUME NEW S, NEW add, ServerListsPlayers(S, add) PROVE ChatInv'
  <2>1. [id |-> "infoUpdate", add |-> add, uuids |-> S].id \in SessionIds \ {"playerChat"}
    BY DEF SessionIds
  <2>2. QED
    BY <1>1, <1>5, <2>1 DEF ServerListsPlayers
<1>6. ASSUME NEW S, ServerRemovesPlayers(S) PROVE ChatInv'
  <2>1. [id |-> "infoRemove", uuids |-> S].id \in SessionIds \ {"playerChat"}
    BY DEF SessionIds
  <2>2. QED
    BY <1>1, <1>6, <2>1 DEF ServerRemovesPlayers
<1>7. ASSUME NEW u, NEW unpacks, ServerSendsChat(u, unpacks) PROVE ChatInv'
  <2> DEFINE p == [id |-> "playerChat", sender |-> u, unpacks |-> unpacks]
  <2>1. p.id = "playerChat" /\ p.id \in SessionIds /\ p.sender = u /\ Receives(p) /\ truth' = truth
    BY <1>7 DEF ServerSendsChat, SessionIds
  <2>2. serial' = serial + 1
    BY <2>1 DEF Receives
  <2>3. PICK e : e = <<"chat", serial + 1, u, truth.listed[u].name>>
    OBVIOUS
  <2>4. said' = IF u \in DOMAIN truth.listed THEN Append(said, e) ELSE said
    BY <1>7, <2>2, <2>3 DEF ServerSendsChat
  <2> HIDE DEF p
  <2>5. CASE u \in DOMAIN truth.listed
    BY <2>1, <2>3, <2>4, <2>5, ChatReceivesSaid
  <2>6. CASE u \notin DOMAIN truth.listed
    BY <2>1, <2>4, <2>6, ChatReceivesOther
  <2>7. QED
    BY <2>5, <2>6
<1>8. QED
  BY <1>2, <1>3, <1>4, <1>5, <1>6, <1>7 DEF ServerSends

LEMMA ChatLoops == BaseInv /\ HeardInv /\ ChatInv /\ HandlePacketLoops => ChatInv'
<1> SUFFICES ASSUME BaseInv, HeardInv, ChatInv, HandlePacketLoops PROVE ChatInv'
  OBVIOUS
<1>1. /\ UNCHANGED <<heard, said, truth, game, made, packet, serial, joins>>
      /\ StructInv /\ Sequence(heard)
  BY DEF HandlePacketLoops, sessionVars, stateVars, historyVars, BaseInv, HeardInv
<1>2. ASSUME HandlePacketSpecific, "chat" \in made
      PROVE  Pending("playerChat")' <=> Pending("playerChat")
  <2>1. "playerChat" \in SessionIds /\ Owner("playerChat") = "chat"
    BY DEF SessionIds, Owner
  <2>2. "chat" \in Owners
    BY <1>2 DEF Owners
  <2>3. \A name \in SessionIds : Owner(name) \in Owners => (Pending(name)' <=> Pending(name))
    BY <1>1, <1>2, PendingSpecific
  <2>4. QED
    BY <2>1, <2>2, <2>3
<1>3. ASSUME HandlePacketReturn PROVE Pending("playerChat")' <=> Pending("playerChat")
  BY <1>1, <1>3, PendingReturn
<1>4. PICK t : t = <<>>
  OBVIOUS
<1>5. Silent(t)
  BY <1>1, <1>4, SilentSame
<1>6. "chat" \in made => (Pending("playerChat")' <=> Pending("playerChat"))
  BY <1>2, <1>3 DEF HandlePacketLoops
<1>7. QED
  BY <1>1, <1>5, <1>6, ChatSilent

(* The message in hand is told if its sender is in the list, which is then *)
(* what the server lists.                                                  *)
LEMMA ChatTells ==
    ASSUME BaseInv, HeardInv, ListInv, ChatInv, HandlePlayerChat
    PROVE  ChatInv'
<1> DEFINE u == packet.sender
           x == <<"chat", serial, u, playerInfos[u].name>>
<1>1. StructInv /\ Sequence(heard) /\ Sequence(said)
  BY DEF BaseInv, HeardInv, ChatInv
<1>2. /\ HandlerRan("playerChat") /\ packet.id = "playerChat"
      /\ heard' = IF u \in DOMAIN playerInfos THEN Append(heard, x) ELSE heard
      /\ UNCHANGED <<playerInfos, said, truth>>
  BY DEF HandlePlayerChat, stateVars
<1>3. UNCHANGED <<game, made, packet, serial, joins>> /\ Runs("playerChat")
  BY <1>1, <1>2, RanStruct
<1>4. game = "playing"
  BY <1>1, <1>3, RunsNow
<1>5. Pending("playerChat") /\ ~Pending("playerChat")'
  <2>1. "playerChat" \in AloneIds
    BY DEF AloneIds, SessionIds
  <2>2. QED
    BY <1>1, <1>2, <2>1, PendingRan
<1>6. ~ListPending
  BY <1>2 DEF ListPending, Pending
<1>7. "chat" \in made => ListAgrees(playerInfos, truth.listed, joins)
  BY <1>4, <1>6 DEF ChatInv, ListInv, ListAfter
<1>8. Coming' = <<>>
  BY <1>5 DEF Coming
<1>9. /\ x[1] = "chat" /\ x[2] = serial /\ x[4] = playerInfos[u].name
      /\ x = <<"chat", serial, u, playerInfos[u].name>>
  OBVIOUS
<1> HIDE DEF x, u
<1>10. PICK t : t = IF u \in DOMAIN playerInfos THEN <<x>> ELSE <<>>
  OBVIOUS
<1>11. Sequence(t) /\ heard' = heard \o t /\ \A i \in DOMAIN t : t[i] = x
  <2>1. CASE u \in DOMAIN playerInfos
    <3>1. Append(heard, x) = heard \o <<x>>
      BY <1>1, SequenceAppend
    <3>2. t = <<x>> /\ heard' = heard \o t
      BY <1>2, <1>10, <2>1, <3>1
    <3>3. t \in Seq({x}) /\ \A i \in DOMAIN t : t[i] = x
      BY <3>2
    <3>4. QED
      BY <3>2, <3>3 DEF Sequence
  <2>2. CASE u \notin DOMAIN playerInfos
    <3>1. t = <<>> /\ heard' = heard
      BY <1>2, <1>10, <2>2
    <3>2. heard \o <<>> = heard
      BY <1>1, SequenceConcatEmpty
    <3>3. QED
      BY <3>1, <3>2, SequenceEmpty
  <2>3. QED
    BY <2>1, <2>2
<1>12. /\ Kept(heard', SaidChats') = Kept(heard, SaidChats) \o Kept(t, SaidChats')
       /\ \A i \in DOMAIN t : t[i] \in SaidChats' <=> SaidChat(said, t[i])
       /\ \A i \in DOMAIN heard' :
             (i \in DOMAIN heard /\ heard'[i] = heard[i]) \/ \E j \in DOMAIN t : heard'[i] = t[j]
  BY <1>1, <1>2, <1>11, ChatsAppend
<1>13. PICK K, L : K = SaidChats' /\ L = SaidChats
  OBVIOUS
<1>14. Sequence(Kept(heard, L))
  BY <1>1, <1>11, KeptOfConcat
<1>15. ASSUME "chat" \in made
       PROVE  /\ Kept(heard', K) = said
              /\ \A i \in DOMAIN heard' :
                    heard'[i][1] = "chat" /\ ~SaidIn(said, heard'[i][2]) => heard'[i][4] # joins
  <2>1. /\ Kept(heard, L) \o Coming = said
        /\ \A i \in DOMAIN heard :
              heard[i][1] = "chat" /\ ~SaidIn(said, heard[i][2]) => heard[i][4] # joins
    BY <1>4, <1>13, <1>15 DEF ChatInv, SaidAt, SaidIn
  <2>2. CASE u \in DOMAIN truth.listed
    <3>1. u \in DOMAIN playerInfos /\ playerInfos[u] = truth.listed[u]
      BY <1>7, <1>15, <2>2 DEF ListAgrees
    <3>2. Coming = <<x>> /\ t = <<x>>
      BY <1>5, <1>9, <1>10, <2>2, <3>1 DEF Coming, u
    <3>3. SaidIn(said, serial)
      <4>1. Append(Kept(heard, L), x) = Kept(heard, L) \o <<x>>
            /\ Append(Kept(heard, L), x)[Len(Kept(heard, L)) + 1] = x
            /\ Len(Kept(heard, L)) \in Nat
            /\ DOMAIN Append(Kept(heard, L), x) = 1 .. Len(Kept(heard, L)) + 1
        BY <1>14, SequenceAppend
      <4>2. said = Append(Kept(heard, L), x)
        BY <2>1, <3>2, <4>1
      <4>3. Len(Kept(heard, L)) + 1 \in DOMAIN said /\ said[Len(Kept(heard, L)) + 1] = x
        BY <4>1, <4>2
      <4>4. QED
        BY <1>9, <4>3 DEF SaidIn
    <3>4. x \in K
      <4>1. 1 \in DOMAIN t /\ t[1] = x
        BY <3>2
      <4>2. SaidChat(said, x)
        BY <1>9, <3>3 DEF SaidChat
      <4>3. QED
        BY <1>12, <1>13, <4>1, <4>2
    <3>5. Kept(<<x>>, K) = <<x>>
      BY <3>4, KeptOfOne
    <3>6. Kept(heard', K) = said
      BY <1>12, <1>13, <2>1, <3>2, <3>5
    <3>7. \A i \in DOMAIN heard' :
             heard'[i][1] = "chat" /\ ~SaidIn(said, heard'[i][2]) => heard'[i][4] # joins
      BY <1>9, <1>11, <1>12, <2>1, <3>3
    <3>8. QED
      BY <3>6, <3>7
  <2>3. CASE u \notin DOMAIN truth.listed
    <3>1. Coming = <<>>
      BY <2>3 DEF Coming, u
    <3>2. ~SaidIn(said, serial)
      BY <1>4, <2>3 DEF ChatInv, SaidAt, SaidIn, u
    <3>3. \A i \in DOMAIN t : t[i] \notin K
      BY <1>9, <1>11, <1>12, <1>13, <3>2 DEF SaidChat
    <3>4. Kept(t, K) = <<>>
      BY <1>11, <3>3, KeptOfNone
    <3>5. Kept(heard', K) = said
      BY <1>12, <1>13, <2>1, <3>1, <3>4
    <3>6. \A i \in DOMAIN t : x[4] # joins
      <4> SUFFICES ASSUME NEW i \in DOMAIN t PROVE x[4] # joins
        OBVIOUS
      <4>1. u \in DOMAIN playerInfos
        BY <1>10
      <4>2. QED
        BY <1>7, <1>9, <1>15, <2>3, <4>1 DEF ListAgrees
    <3>7. \A i \in DOMAIN heard' :
             heard'[i][1] = "chat" /\ ~SaidIn(said, heard'[i][2]) => heard'[i][4] # joins
      BY <1>11, <1>12, <2>1, <3>6
    <3>8. QED
      BY <3>5, <3>7
  <2>4. QED
    BY <2>2, <2>3
<1>16. "chat" \in made' => Kept(heard', SaidChats') \o Coming' = said'
  BY <1>1, <1>2, <1>3, <1>8, <1>13, <1>15, SequenceConcatEmpty
<1>17. /\ "chat" \in made' => "players" \in made'
       /\ Sequence(said')
       /\ \A i \in DOMAIN said' : said'[i][2] \in Nat /\ said'[i][2] <= serial'
       /\ (game' \in {"joined", "playing"} /\ SaidIn(said', serial')) =>
             packet'.id = "playerChat" /\ packet'.sender \in DOMAIN truth'.listed
  BY <1>2, <1>3 DEF ChatInv, SaidAt, SaidIn
<1>18. "chat" \in made' =>
          \A i \in DOMAIN heard' :
             heard'[i][1] = "chat" /\ ~SaidIn(said', heard'[i][2]) => heard'[i][4] # joins'
  BY <1>2, <1>3, <1>15
<1>19. QED
  BY <1>16, <1>17, <1>18 DEF ChatInv, SaidAt, SaidIn

LEMMA ChatHandle == BaseInv /\ HeardInv /\ ListInv /\ ChatInv /\ Handle => ChatInv'
<1> SUFFICES ASSUME BaseInv, HeardInv, ListInv, ChatInv, Handle PROVE ChatInv'
  OBVIOUS
<1>1. StructInv /\ TruthShape /\ Sequence(heard)
  BY DEF BaseInv, HeardInv
<1>2. ASSUME HandlerFailed, said' = said PROVE ChatInv'
  BY <1>2, ChatIdle DEF HandlerFailed, ChatInv
<1>3. ASSUME NEW n, HandlerRan(n), n # "playerChat", said' = said, truth' = truth, NEW t, Silent(t)
      PROVE  ChatInv'
  <2>1. Pending("playerChat")' <=> Pending("playerChat")
    BY <1>1, <1>3, PendingRan
  <2>2. UNCHANGED <<game, made, packet, serial, joins>>
    BY <1>1, <1>3, RanStruct
  <2>3. QED
    BY <1>3, <2>1, <2>2, ChatSilent
<1>4. ASSUME NEW n, HandlerRan(n), n # "playerChat", UNCHANGED <<heard, said, truth>>
      PROVE  ChatInv'
  <2>1. PICK t : t = <<>>
    OBVIOUS
  <2>2. Silent(t)
    BY <1>1, <1>4, <2>1, SilentSame
  <2>3. QED
    BY <1>3, <1>4, <2>2
<1>5. ASSUME NEW x, x[1] # "chat", heard' = Append(heard, x) PROVE \E t : Silent(t)
  BY <1>1, <1>5, SilentTells
<1>6. CASE HandlerFails \/ UpdateHealthFails \/ HandleLoginPacketScanFails
  BY <1>2, <1>6 DEF HandlerFails, UpdateHealthFails, HandleLoginPacketScanFails, historyVars
<1>7. CASE GameStart
  <2> DEFINE x == <<"gameStart", serial, player.eid>>
  <2>1. x[1] # "chat" /\ heard' = Append(heard, x) /\ said' = said
    BY <1>7 DEF GameStart
  <2> HIDE DEF x
  <2>2. PICK t : Silent(t)
    BY <1>5, <2>1
  <2>3. CASE HandlerRan("gameStart") /\ truth' = truth
    BY <1>3, <2>1, <2>2, <2>3
  <2>4. ASSUME NEW m, NEW f, GameStartAdds(m, f) PROVE ChatInv'
    <3>1. /\ Runs("gameStart") /\ UNCHANGED <<game, packet, serial, joins>>
          /\ m \in {"world", "late"} /\ made' = made \union {m}
          /\ truth' = [truth EXCEPT !.disturbed = IF LoopAfter(f) = loop THEN @ ELSE joins]
      BY <2>4 DEF GameStartAdds, GameStartRegisters
    <3>2. packet.id \in SessionIds /\ "gameStart" \in NamesFor(packet.id)
      BY <1>1, <3>1, RunsNow
    <3>3. packet.id = "login"
      BY <3>2 DEF NamesFor, SessionIds
    <3>4. ~Pending("playerChat") /\ ~Pending("playerChat")'
      BY <3>1, <3>3 DEF Pending
    <3>5. truth'.listed = truth.listed
      BY <1>1, <3>1 DEF TruthShape
    <3>6. made \subseteq made' /\ ("chat" \in made' <=> "chat" \in made)
      BY <3>1
    <3>7. QED
      BY <2>1, <2>2, <3>1, <3>4, <3>5, <3>6, ChatSilent
  <2>5. QED
    BY <1>7, <2>3, <2>4, GameStartKinds
<1>8. CASE NoticeHandler
  <2> DEFINE x == <<"notice", serial>>
  <2>1. x[1] # "chat" /\ heard' = Append(heard, x) /\ HandlerRan("notice") /\ said' = said /\ truth' = truth
    BY <1>8 DEF NoticeHandler, Tell
  <2> HIDE DEF x
  <2>2. PICK t : Silent(t)
    BY <1>5, <2>1
  <2>3. QED
    BY <1>3, <2>1, <2>2
<1>9. CASE UpdateHealth
  <2>1. HealthEvents /\ HandlerRan("health") /\ said' = said /\ truth' = truth
    BY <1>9 DEF UpdateHealth
  <2>2. PICK t : Silent(t)
    BY <1>1, <2>1, SilentHealth
  <2>3. QED
    BY <1>3, <2>1, <2>2
<1>10. CASE HandlePlayerChat
  BY <1>10, ChatTells
<1>11. CASE \E id \in {"keepAlive", "ping", "position"} : HandleAsked(id)
  BY <1>4, <1>11 DEF HandleAsked, historyVars
<1>12. CASE \/ TapHandler \/ LateHandler \/ HandleLoginPacket \/ HandleRespawnPacket
            \/ OnPlayerSpawn \/ HandleLevelChunk
            \/ HandlePlayerInfoUpdatePacket \/ HandlePlayerInfoRemovePacket
  BY <1>4, <1>12 DEF TapHandler, LateHandler, HandleLoginPacket, HandleRespawnPacket,
     OnPlayerSpawn, HandleLevelChunk, HandlePlayerInfoUpdatePacket, HandlePlayerInfoRemovePacket,
     historyVars
<1>13. QED
  BY <1>6, <1>7, <1>8, <1>9, <1>10, <1>11, <1>12 DEF Handle

LEMMA ChatStep == BaseInv /\ HeardInv /\ ListInv /\ ChatInv /\ [Next]_vars => ChatInv'
<1> SUFFICES ASSUME BaseInv, HeardInv, ListInv, ChatInv, [Next]_vars PROVE ChatInv'
  OBVIOUS
<1>1. CASE UNCHANGED vars
  <2>1. UNCHANGED <<loop, heard, said, game, made, packet, serial, joins, truth>> /\ Sequence(heard)
    BY <1>1 DEF vars, eventsVars, sessionVars, historyVars, HeardInv
  <2>2. Pending("playerChat")' <=> Pending("playerChat")
    BY <2>1, PendingSame
  <2>3. PICK t : t = <<>>
    OBVIOUS
  <2>4. Silent(t)
    BY <2>1, <2>3, SilentSame
  <2>5. QED
    BY <2>1, <2>2, <2>4, ChatSilent
<1>2. QED
  BY <1>1, ChatSetup, ChatSends, ChatLoops, ChatHandle DEF Next

LEMMA ChatInit == Init => ChatInv
BY SequenceEmpty DEF Init, ChatInv, SaidAt

(* After a packet every message of a player the server lists was heard,    *)
(* once, in order and under the listed name, and no other under a name of  *)
(* this session: handlePlayerChat, which reads the list of                 *)
(* handlePlayerInfoUpdatePacket.                                           *)
THEOREM ChatCorrect == Spec => []ListedPlayersAreHeard
<1>1. HeardInv /\ ChatInv => ListedPlayersAreHeard
  <2> SUFFICES ASSUME HeardInv, ChatInv, game = "playing", loop.over = "none", "chat" \in made
               PROVE  /\ Kept(heard, SaidChats) = said
                      /\ \A i \in DOMAIN heard :
                            heard[i][1] = "chat" /\ ~SaidAt(heard[i][2]) => heard[i][4] # joins
    BY DEF ListedPlayersAreHeard, Between
  <2>1. Coming = <<>>
    BY PendingNone DEF Coming
  <2>2. /\ Kept(heard, SaidChats) \o <<>> = said
        /\ \A i \in DOMAIN heard :
              heard[i][1] = "chat" /\ ~SaidAt(heard[i][2]) => heard[i][4] # joins
    BY <2>1 DEF ChatInv
  <2>3. PICK K : K = SaidChats
    OBVIOUS
  <2>4. Sequence(Kept(heard, K))
    BY SequenceEmpty, KeptOfConcat DEF HeardInv
  <2>5. Kept(heard, K) \o <<>> = Kept(heard, K)
    BY <2>4, SequenceConcatEmpty
  <2>6. QED
    BY <2>2, <2>3, <2>5
<1>2. QED
  BY <1>1, BaseInit, BaseStep, RequestsInit, AskedStep, HeardStep, ListInit, ListStep, ChatInit, ChatStep,
     PTL DEF Spec
=============================================================================
