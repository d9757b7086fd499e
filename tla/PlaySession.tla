----------------------------- MODULE PlaySession ----------------------------
(***************************************************************************)
(* What a bot does with the packets of a play session: bot/basic (Player   *)
(* and its events), bot/playerlist and bot/msg, and of bot/world what it   *)
(* does at a login, all registered with Events and run by handlePacket on  *)
(* one packet after the other.  The client outlives a session: another     *)
(* join goes on with the handlers, the player and the lists of the last.   *)
(*                                                                         *)
(* The listeners the user passes are modelled by what the comments of      *)
(* EventsListener say of them: Death asks for a respawn, Teleported        *)
(* accepts, GameStart may make a World or add a listener of its own.       *)
(* Packets of a server are any, but for the first of a session, which is   *)
(* the login, and for players, which are added before they are removed.    *)
(***************************************************************************)
EXTENDS Events, FiniteSets

CONSTANTS
    Uuids,         (* players the server may list                           *)
    Dims,          (* dimensions                                            *)
    NoDim,         (* the zero value of a dimension                         *)
    LatePriorities,(* priorities of a listener that GameStart adds          *)
    Required,      (* bound: managers every bot makes before it joins       *)
    MaxPackets,    (* bound: packets of all sessions                        *)
    MaxJoins       (* bound: sessions                                       *)

VARIABLES
    game,          (* setup, joined (no packet yet), playing or ended       *)
    made,          (* managers the user has made, listeners added           *)
    packet,        (* the packet in hand                                    *)
    serial,        (* packets so far, of all sessions                       *)
    joins,         (* sessions so far                                       *)
    player,        (* player.PlayerInfo and WorldInfo                       *)
    playerInfos,   (* playerList.playerInfos                                *)
    chunksOf,      (* the session World's chunks are from, 0 if it has none *)
    out,           (* packets written in this session                       *)
    heard,         (* history: what the listeners were told                 *)
    asked,         (* history: answers owed in this session                 *)
    said,          (* history: messages listed players sent, as to be heard *)
    truth          (* history: what the server has said it is               *)

sessionVars == <<game, made, packet, serial, joins>>
stateVars == <<player, playerInfos, chunksOf>>
historyVars == <<heard, asked, said, truth>>
vars == <<eventsVars, sessionVars, stateVars, out, historyVars>>

-----------------------------------------------------------------------------

H(name, priority) == [name |-> name, priority |-> priority]

PlayerListeners ==
    [id \in {"login", "keepAlive", "respawn", "ping"} |-> H(id, 0)]
EventListeners ==
    [id \in {"login", "notice", "health", "position"} |->
        IF id = "login" THEN H("gameStart", 64) ELSE H(id, 64)]
WorldListeners ==
    [id \in {"login", "respawn", "chunk"} |->
        IF id = "chunk" THEN H("chunk", 0) ELSE H("spawn", 64)]
ListListeners == [id \in {"infoUpdate", "infoRemove"} |-> H(id, 64)]
ChatListeners == [id \in {"playerChat"} |-> H("playerChat", 64)]
LateListener(p) == [id \in {"login"} |-> H("late", p)]

SessionIds == {"login", "respawn", "keepAlive", "ping", "health", "position", "notice",
               "infoUpdate", "infoRemove", "playerChat", "chunk"}
SessionHandlers ==
    { H(name, p) : name \in SessionIds \union {"gameStart", "spawn", "late", "tap"},
                   p \in {0, 64} \union LatePriorities }

ASSUME PlayAssumption ==
    /\ SessionIds \subseteq PacketIds
    /\ SessionHandlers \subseteq Handlers
    /\ MaxPackets \in Nat /\ MaxJoins \in Nat

NoPacket == [id |-> "none"]
NobodyHome == [u \in {} |-> 0]

Init ==
    /\ EventsInit
    /\ game = "setup" /\ made = {} /\ packet = NoPacket /\ serial = 0 /\ joins = 0
    /\ player = [eid |-> 0, dimType |-> NoDim, dimName |-> NoDim]
    /\ playerInfos = NobodyHome
    /\ chunksOf = 0
    /\ out = <<>> /\ heard = <<>> /\ asked = <<>> /\ said = <<>>
    /\ truth = [eid |-> 0, loginDim |-> NoDim, dim |-> NoDim, listed |-> NobodyHome,
             disturbed |-> 0]

-----------------------------------------------------------------------------
(* Setup: the managers, in any order their constructors allow *)

Makes(manager) ==
    /\ game = "setup"
    /\ manager \notin made
    /\ made' = made \union {manager}
    /\ UNCHANGED <<loop, game, packet, serial, joins, stateVars, out, historyVars>>

(* Two calls of AddListener: its own handlers, then those of the events.   *)
NewPlayer ==
    /\ Makes("player")
    /\ handlers' = WithListeners(WithListeners(handlers, PlayerListeners), EventListeners)
    /\ registered' = WithRegistered(WithRegistered(registered, PlayerListeners), EventListeners)
    /\ UNCHANGED generic

NewWorld ==
    /\ "player" \in made
    /\ Makes("world")
    /\ AddListener(WorldListeners)

NewPlayerList == Makes("players") /\ AddListener(ListListeners)

NewChat ==
    /\ {"player", "players"} \subseteq made
    /\ Makes("chat")
    /\ AddListener(ChatListeners)

AddTap == Makes("tap") /\ AddGeneric(H("tap", 0))

(* JoinServer, at the start or when HandleGame has returned.  Nothing that *)
(* the last session left behind is reset.                                  *)
JoinServer ==
    /\ game \in {"setup", "ended"}
    /\ {"player"} \union Required \subseteq made
    /\ joins < MaxJoins
    /\ joins' = joins + 1
    /\ game' = "joined"
    /\ out' = <<>> /\ asked' = <<>> /\ said' = <<>>
    /\ heard' = <<>>
    /\ truth' = [truth EXCEPT !.listed = NobodyHome]
    /\ UNCHANGED <<eventsVars, made, packet, serial, stateVars>>

(* HandleGame returns between two packets: the socket or the context.      *)
ConnectionEnds ==
    /\ game \in {"joined", "playing"}
    /\ loop.over = "none"
    /\ game' = "ended"
    /\ UNCHANGED <<eventsVars, made, packet, serial, joins, stateVars, out, historyVars>>

-----------------------------------------------------------------------------
(* HandleGame takes the next packet *)

Receives(p) ==
    /\ serial < MaxPackets
    /\ game = IF p.id = "login" THEN "joined" ELSE "playing"
    /\ game' = "playing"
    /\ HandlePacket(p.id)
    /\ packet' = p
    /\ serial' = serial + 1
    /\ UNCHANGED <<generic, handlers, registered, made, joins, stateVars, out, heard>>

Owes(kind) == asked' = Append(asked, <<kind, serial'>>)

ServerSendsLogin(d) ==
    /\ Receives([id |-> "login", eid |-> joins, dim |-> d])
    /\ truth' = [truth EXCEPT !.eid = joins, !.loginDim = d, !.dim = d]
    /\ UNCHANGED <<asked, said>>

ServerSendsRespawn(d) ==
    /\ Receives([id |-> "respawn", dim |-> d])
    /\ truth' = [truth EXCEPT !.dim = d]
    /\ UNCHANGED <<asked, said>>

ServerAsks(id) ==
    /\ Receives([id |-> id])
    /\ Owes(id)
    /\ UNCHANGED <<said, truth>>

ServerSendsHealth(dead) ==
    /\ Receives([id |-> "health", dead |-> dead])
    /\ IF dead THEN Owes("performRespawn") ELSE UNCHANGED asked
    /\ UNCHANGED <<said, truth>>

ServerSendsPlain(id) ==
    /\ Receives([id |-> id])
    /\ UNCHANGED <<asked, said, truth>>

(* Bits of the update: a player is added with a name, and its gamemode is  *)
(* said; of a player the server does not list only the gamemode may come.  *)
ServerListsPlayers(S, add) ==
    /\ Receives([id |-> "infoUpdate", add |-> add, uuids |-> S])
    /\ truth' = [truth EXCEPT !.listed =
                    [u \in DOMAIN @ \union (IF add THEN S ELSE {}) |->
                        IF u \notin S THEN @[u]
                        ELSE [name |-> IF add THEN joins ELSE @[u].name, gamemode |-> serial']]]
    /\ UNCHANGED <<asked, said>>

ServerRemovesPlayers(S) ==
    /\ Receives([id |-> "infoRemove", uuids |-> S])
    /\ truth' = [truth EXCEPT !.listed = [u \in DOMAIN @ \ S |-> @[u]]]
    /\ UNCHANGED <<asked, said>>

ServerSendsChat(u, unpacks) ==
    /\ Receives([id |-> "playerChat", sender |-> u, unpacks |-> unpacks])
    /\ said' = IF u \in DOMAIN truth.listed
               THEN Append(said, <<"chat", serial', u, truth.listed[u].name>>) ELSE said
    /\ UNCHANGED <<asked, truth>>

-----------------------------------------------------------------------------
(* The handlers.  Each runs when its turn in the loop comes. *)

HandlerRan(name) ==
    /\ Runs(name)
    /\ NextHandler(loop)
    /\ UNCHANGED <<generic, handlers, registered, sessionVars>>

(* A handler returns an error: HandleGame returns it, and the rest of the  *)
(* handlers never run.  A packet that does not parse is one cause.         *)
HandlerFailed ==
    /\ loop' = NoLoop
    /\ game' = "ended"
    /\ UNCHANGED <<generic, handlers, registered, made, packet, serial, joins>>

HandlerFails ==
    /\ loop.over # "none" /\ ~LoopDone
    /\ HandlerFailed
    /\ UNCHANGED <<stateVars, out, historyVars>>

Tell(what) == heard' = Append(heard, <<what, serial>>)

(* conn.WritePacket took the answer; when it did not, the handler fails.   *)
Answer(kind) == out' = Append(out, <<kind, serial>>)

TapHandler ==
    /\ HandlerRan("tap")
    /\ UNCHANGED <<stateVars, out, historyVars>>

HandleLoginPacket ==
    /\ HandlerRan("login")
    /\ player' = [eid |-> packet.eid, dimType |-> packet.dim, dimName |-> packet.dim]
    /\ UNCHANGED <<playerInfos, chunksOf, out, historyVars>>

(* Scan fills the fields in one by one: what came before the field it      *)
(* fails at has changed.                                                   *)
HandleLoginPacketScanFails ==
    /\ Runs("login")
    /\ HandlerFailed
    /\ \/ player' = [player EXCEPT !.eid = packet.eid]
       \/ player' = [player EXCEPT !.eid = packet.eid, !.dimType = packet.dim]
    /\ UNCHANGED <<playerInfos, chunksOf, out, historyVars>>

(* Mutant: what is scanned is not kept.                                    *)
HandleRespawnPacketForgets ==
    /\ HandlerRan("respawn")
    /\ UNCHANGED <<stateVars, out, historyVars>>

(* The dimension type is scanned into a local variable and not kept.       *)
HandleRespawnPacket ==
    /\ HandlerRan("respawn")
    /\ player' = [player EXCEPT !.dimName = packet.dim]
    /\ UNCHANGED <<playerInfos, chunksOf, out, historyVars>>

(* Mutant: the ping is not answered.                                       *)
HandleAskedOnlyKeepAlive(id) ==
    /\ HandlerRan(id)
    /\ IF id = "ping" THEN UNCHANGED out ELSE Answer(id)
    /\ UNCHANGED <<stateVars, historyVars>>

(* handleKeepAlivePacket and handlePingPacket; Teleported.                 *)
HandleAsked(id) ==
    /\ HandlerRan(id)
    /\ Answer(id)
    /\ UNCHANGED <<stateVars, historyVars>>

(* GameStart makes a World or adds a listener; either registers for the    *)
(* packet that is being handled.                                           *)
GameStartRegisters(what, f) ==
    /\ what \notin made
    /\ made' = made \union {what}
    /\ AddListener(f)
    /\ NextHandler(LoopAfter(f))
    /\ truth' = [truth EXCEPT !.disturbed = IF LoopAfter(f) = loop THEN @ ELSE joins]

GameStart ==
    /\ Runs("gameStart")
    /\ heard' = Append(heard, <<"gameStart", serial, player.eid>>)
    /\ \/ /\ NextHandler(loop)
          /\ UNCHANGED <<generic, handlers, registered, made, truth>>
       \/ GameStartRegisters("world", WorldListeners)
       \/ \E p \in LatePriorities : GameStartRegisters("late", LateListener(p))
    /\ UNCHANGED <<game, packet, serial, joins, stateVars, out, asked, said>>

LateHandler ==
    /\ HandlerRan("late")
    /\ UNCHANGED <<stateVars, out, historyVars>>

NoticeHandler ==
    /\ HandlerRan("notice")
    /\ Tell("notice")
    /\ UNCHANGED <<stateVars, out, asked, said, truth>>

HealthEvents ==
    heard' = IF packet.dead
             THEN heard \o <<<<"health", serial>>, <<"death", serial>>>>
             ELSE Append(heard, <<"health", serial>>)

(* HealthChange, then Death, which asks for a respawn.                     *)
UpdateHealth ==
    /\ HandlerRan("health")
    /\ HealthEvents
    /\ IF packet.dead THEN Answer("performRespawn") ELSE UNCHANGED out
    /\ UNCHANGED <<stateVars, asked, said, truth>>

(* HealthChange or Death returns an error, and both have been called.      *)
UpdateHealthFails ==
    /\ Runs("health")
    /\ HandlerFailed
    /\ HealthEvents
    /\ packet.dead => Answer("performRespawn") \/ UNCHANGED out
    /\ ~packet.dead => UNCHANGED out
    /\ UNCHANGED <<stateVars, asked, said, truth>>

(* World.onPlayerSpawn and handleLevelChunkWithLightPacket, as to which    *)
(* session the chunks are from.                                            *)
OnPlayerSpawn ==
    /\ HandlerRan("spawn")
    /\ chunksOf' = 0
    /\ UNCHANGED <<player, playerInfos, out, historyVars>>

HandleLevelChunk ==
    /\ HandlerRan("chunk")
    /\ chunksOf' = joins
    /\ UNCHANGED <<player, playerInfos, out, historyVars>>

NoInfo == [name |-> 0, gamemode |-> 0]

InfoOf(u) == IF u \in DOMAIN playerInfos THEN playerInfos[u] ELSE NoInfo

(* Mutant: the name of a player that has an entry is kept.                 *)
UpdatedKeepsName(u) ==
    [name |-> IF packet.add /\ u \notin DOMAIN playerInfos THEN joins ELSE InfoOf(u).name,
     gamemode |-> serial]

(* The entry is made if there is none, and gets what the packet says.      *)
Updated(u) ==
    [name |-> IF packet.add THEN joins ELSE InfoOf(u).name, gamemode |-> serial]

HandlePlayerInfoUpdatePacket ==
    /\ HandlerRan("infoUpdate")
    /\ playerInfos' = [u \in DOMAIN playerInfos \union packet.uuids |->
                          IF u \in packet.uuids THEN Updated(u) ELSE playerInfos[u]]
    /\ UNCHANGED <<player, chunksOf, out, historyVars>>

(* Mutant: only the first of the packet's players is removed.              *)
RemoveOne ==
    /\ HandlerRan("infoRemove")
    /\ LET first == CHOOSE u \in packet.uuids : TRUE
       IN  playerInfos' = [u \in DOMAIN playerInfos \ {first} |-> playerInfos[u]]
    /\ UNCHANGED <<player, chunksOf, out, historyVars>>

HandlePlayerInfoRemovePacket ==
    /\ HandlerRan("infoRemove")
    /\ playerInfos' = [u \in DOMAIN playerInfos \ packet.uuids |-> playerInfos[u]]
    /\ UNCHANGED <<player, chunksOf, out, historyVars>>

(* handlePlayerChat: a body that does not unpack is an error whoever sent  *)
(* it; a message of a player who has no entry is ignored.                  *)
HandlePlayerChat ==
    /\ packet.id = "playerChat" /\ packet.unpacks
    /\ HandlerRan("playerChat")
    /\ heard' = IF packet.sender \in DOMAIN playerInfos
                THEN Append(heard, <<"chat", serial, packet.sender, playerInfos[packet.sender].name>>)
                ELSE heard
    /\ UNCHANGED <<stateVars, out, asked, said, truth>>

-----------------------------------------------------------------------------

Setup ==
    \/ NewPlayer \/ NewWorld \/ NewPlayerList \/ NewChat \/ AddTap
    \/ JoinServer \/ ConnectionEnds

ServerSends ==
    \/ \E d \in Dims : ServerSendsLogin(d) \/ ServerSendsRespawn(d)
    \/ \E id \in {"keepAlive", "ping", "position"} : ServerAsks(id)
    \/ \E dead \in BOOLEAN : ServerSendsHealth(dead)
    \/ \E id \in {"notice", "chunk"} : ServerSendsPlain(id)
    \/ \E S \in SUBSET Uuids \ {{}} :
          (\E add \in BOOLEAN : ServerListsPlayers(S, add)) \/ ServerRemovesPlayers(S)
    \/ \E u \in Uuids, unpacks \in BOOLEAN : ServerSendsChat(u, unpacks)

HandlePacketLoops ==
    /\ HandlePacketSpecific \/ HandlePacketReturn
    /\ UNCHANGED <<sessionVars, stateVars, out, historyVars>>

Handle ==
    \/ HandlerFails \/ TapHandler \/ LateHandler \/ GameStart
    \/ HandleLoginPacket \/ HandleLoginPacketScanFails \/ HandleRespawnPacket
    \/ \E id \in {"keepAlive", "ping", "position"} : HandleAsked(id)
    \/ NoticeHandler \/ UpdateHealth \/ UpdateHealthFails
    \/ OnPlayerSpawn \/ HandleLevelChunk
    \/ HandlePlayerInfoUpdatePacket \/ HandlePlayerInfoRemovePacket \/ HandlePlayerChat

Next == Setup \/ ServerSends \/ HandlePacketLoops \/ Handle

Spec == Init /\ [][Next]_vars

-----------------------------------------------------------------------------
(* Properties *)

(* HandleGame has handled all packets it took, and goes on.                *)
Between == game = "playing" /\ loop.over = "none"

(* The session's login was handled while no handler of it registered for   *)
(* the same packet in an array that had room.                              *)
Undisturbed == truth.disturbed # joins

(* A packet's handlers run each once: the generic ones, then those of its  *)
(* ID, by priority, with those a generic handler has added in time.  A     *)
(* listener that GameStart adds breaks this when the array has room: then  *)
(* one handler may run twice and the last is left out (ingame.go:124-135). *)
DispatchRunsAll ==
    (loop.over # "none" /\ ~loop.shifted) =>
        /\ loop.ran = SubSeq(loop.due, 1, Len(loop.ran))
        /\ LoopDone => loop.ran = loop.due

(* After each packet the player is what the last login said, and where the *)
(* last respawn said; the dimension type stays that of the login.  The     *)
(* chunks around it are of this session.                                   *)
PlayerFollowsPackets ==
    Between =>
        /\ Undisturbed =>
              player = [eid |-> joins, dimType |-> truth.loginDim, dimName |-> truth.dim]
        /\ "world" \in made => chunksOf \in {0, joins}

(* Keep-alives, pings and teleports handled, and deaths told, have each    *)
(* been answered once, in the order they came; and death is told of every  *)
(* packet with no health left that HealthChange is told of, also when      *)
(* HealthChange fails (events.go:105-116).                                 *)
RequestsAreAnswered ==
    /\ Between => out = asked
    /\ \A i \in DOMAIN asked :
          LET Told(what) == \E j \in DOMAIN heard : heard[j] = <<what, asked[i][2]>>
          IN  (asked[i][1] = "performRespawn" /\ Told("health")) => Told("death")

(* After each packet the list has every player the server lists, with the  *)
(* name and gamemode last said.  An entry the server does not list is a    *)
(* player of an earlier session, or one it updated without adding it: none *)
(* that was named in this session lingers.                                 *)
PlayersFollowServer ==
    (Between /\ "players" \in made) =>
        /\ \A u \in DOMAIN truth.listed :
              u \in DOMAIN playerInfos /\ playerInfos[u] = truth.listed[u]
        /\ \A u \in DOMAIN playerInfos \ DOMAIN truth.listed : playerInfos[u].name # joins

SaidAt(s) == \E i \in DOMAIN said : said[i][2] = s
SaidChats == { heard[i] : i \in { j \in DOMAIN heard : heard[j][1] = "chat" /\ SaidAt(heard[j][2]) } }

(* Every message of a player the server lists reached the listener, once   *)
(* and in order, under the name the server gave.  Others may be heard too, *)
(* but none under a name of this session (chat.go:141-147).                *)
ListedPlayersAreHeard ==
    (Between /\ "chat" \in made) =>
        /\ Kept(heard, SaidChats) = said
        /\ \A i \in DOMAIN heard :
              heard[i][1] = "chat" /\ ~SaidAt(heard[i][2]) => heard[i][4] # joins

=============================================================================
