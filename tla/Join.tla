-------------------------------- MODULE Join --------------------------------
(***************************************************************************)
(* bot/mcbot.go, login.go and configuration.go: JoinServer takes a         *)
(* connection from the dial through handshake, login and configuration to  *)
(* the play phase.  One goroutine does all of it, packet by packet: read,  *)
(* record, handle, answer.  Any read, parse or write may fail, which ends  *)
(* JoinServer with an error, and the same client may then join again; what *)
(* earlier sessions left in it (cookies, registries) is still there.       *)
(*                                                                         *)
(* trail is the history of the packets read and written; recorded says     *)
(* which of them were given to the replay recorder, by their place in it.  *)
(***************************************************************************)
EXTENDS Naturals, Sequences

CONSTANTS
    Keys,          (* cookie keys                                           *)
    Values,        (* cookie values, registry contents, report details      *)
    Titles,        (* titles of report details                              *)
    None,          (* no cookie, no registry                                *)
    Registries,    (* registry IDs                                          *)
    MaxPackets,    (* bound: packets the server sends in all                *)
    MaxJoins       (* bound: calls of JoinServer                            *)

ASSUME JoinAssumption ==
    /\ None \notin Values
    /\ MaxPackets \in Nat /\ MaxJoins \in Nat

VARIABLES
    handler,       (* client.versionHandler is set (SetVersionHandler)      *)
    phase,         (* how far the current or last JoinServer came           *)
    session,       (* the number of that call                               *)
    conn,          (* the session whose connection is in client.conn, or 0  *)
    cipher,        (* SetCipher was called on the session's connection      *)
    threshold,     (* SetThreshold was                                      *)
    cookies,       (* client.cookies                                        *)
    registryData,  (* client.registryData                                   *)
    details,       (* client.customReportDetails: title to description      *)
    packs,         (* DefaultConfigHandler.resourcesPack: IDs               *)
    trail,         (* history                                               *)
    recorded       (* history                                               *)

clientVars == <<cookies, registryData, details, packs>>
vars == <<handler, phase, session, conn, cipher, threshold, clientVars,
          trail, recorded>>

-----------------------------------------------------------------------------

(* A packet is its type and what it carries; only some carry both.         *)
Packet(type, key, value) == [type |-> type, key |-> key, value |-> value]
Bare(type) == Packet(type, None, None)

In(p)  == [dir |-> "in", packet |-> p, session |-> session]
Out(p) == [dir |-> "out", packet |-> p, session |-> session,
           cipher |-> cipher, threshold |-> threshold]

PacketsRead == Len(SelectSeq(trail, LAMBDA e : e.dir = "in"))

(* ReadPacket returns a packet, and the replay recorder is given it; only  *)
(* SetCompression is left out.                                             *)
Read(records) ==
    /\ PacketsRead < MaxPackets
    /\ recorded' = IF records THEN Append(recorded, Len(trail) + 1) ELSE recorded

(* The handler of the packet read goes on, or JoinServer ends.             *)
Continue(p)   == trail' = Append(trail, In(p)) /\ UNCHANGED phase
Fail(p)       == trail' = Append(trail, In(p)) /\ phase' = "failed"
Answer(p, a, next) ==
    \/ trail' = trail \o <<In(p), Out(a)>> /\ phase' = next
    \/ Fail(p)

Init ==
    /\ handler \in BOOLEAN
    /\ phase = "idle" /\ session = 0 /\ conn = 0
    /\ cipher = FALSE /\ threshold = FALSE
    /\ cookies = [k \in Keys |-> None]
    /\ registryData = [r \in Registries |-> None]
    /\ details = [t \in Titles |-> None]
    /\ packs = <<>>
    /\ trail = <<>> /\ recorded = <<>>

-----------------------------------------------------------------------------
(* mcbot.go: join up to the handshake, login.go: the login start *)

(* The address does not split or nobody answers, or there is a socket.     *)
Dial ==
    /\ phase \in {"idle", "failed"}
    /\ session < MaxJoins
    /\ session' = session + 1
    /\ cipher' = FALSE /\ threshold' = FALSE
    /\ phase' \in {"dialed", "failed"}
    /\ UNCHANGED <<handler, conn, clientVars, trail, recorded>>

Handshake ==
    /\ phase = "dialed"
    /\ \/ trail' = Append(trail, Out(Bare("handshake"))) /\ phase' = "hello"
       \/ UNCHANGED trail /\ phase' = "failed"
    /\ UNCHANGED <<handler, session, conn, cipher, threshold, clientVars, recorded>>

(* The client's UUID does not parse, or ServerboundLoginHello is written.  *)
LoginStart ==
    /\ phase = "hello"
    /\ \/ trail' = Append(trail, Out(Bare("loginStart"))) /\ phase' = "login"
       \/ UNCHANGED trail /\ phase' = "failed"
    /\ UNCHANGED <<handler, session, conn, cipher, threshold, clientVars, recorded>>

(* ReadPacket fails.                                                       *)
ReadFails ==
    /\ phase \in {"login", "config"}
    /\ phase' = "failed"
    /\ UNCHANGED <<handler, session, conn, cipher, threshold, clientVars,
                   trail, recorded>>

-----------------------------------------------------------------------------
(* login.go: the loop of joinLogin *)

(* Mutant: the cipher is set before the key response is written.           *)
EncryptTooEarly ==
    LET p == Bare("encryption") IN
    /\ phase = "login"
    /\ Read(TRUE)
    /\ trail' = trail \o <<In(p), [Out(Bare("keyResponse")) EXCEPT !.cipher = TRUE]>>
    /\ cipher' = TRUE
    /\ UNCHANGED <<handler, phase, session, conn, threshold, clientVars>>

(* The key response still leaves in the clear, then the cipher is set.     *)
OnEncryptionRequest ==
    LET p == Bare("encryption") IN
    /\ phase = "login"
    /\ Read(TRUE)
    /\ Answer(p, Bare("keyResponse"), "login")
    /\ cipher' = (cipher \/ phase' = "login")
    /\ UNCHANGED <<handler, session, conn, threshold, clientVars>>

OnSetCompression ==
    LET p == Bare("compression") IN
    /\ phase = "login"
    /\ Read(FALSE)
    /\ \/ Continue(p) /\ threshold' = TRUE
       \/ Fail(p) /\ UNCHANGED threshold
    /\ UNCHANGED <<handler, session, conn, cipher, clientVars>>

(* Login success.  Without a version handler the error of the acknowledge- *)
(* ment's write is assigned to a variable that shadows the one looked at.  *)
OnLoginSuccess ==
    LET p == Bare("success") IN
    /\ phase = "login"
    /\ Read(TRUE)
    /\ \/ Answer(p, Bare("acknowledged"), "config")
       \/ /\ ~handler
          /\ trail' = Append(trail, In(p))
          /\ phase' = "config"
    /\ UNCHANGED <<handler, session, conn, cipher, threshold, clientVars>>

OnCustomQuery ==
    LET p == Bare("customQuery") IN
    /\ phase = "login"
    /\ Read(TRUE)
    /\ Answer(p, Bare("customAnswer"), phase)
    /\ UNCHANGED <<handler, session, conn, cipher, threshold, clientVars>>

-----------------------------------------------------------------------------
(* configuration.go: the loop of joinConfiguration, and what both loops do; *)
(* cookies are also asked for and stored in the play phase (basic).         *)

OnCookieRequest(k) ==
    LET p == Packet("cookieRequest", k, None) IN
    /\ phase \in {"login", "config", "joined"}
    /\ Read(TRUE)
    /\ Answer(p, Packet("cookieResponse", k, cookies[k]), phase)
    /\ UNCHANGED <<handler, session, conn, cipher, threshold, clientVars>>

(* A disconnect, or a packet that does not parse.                          *)
OnDisconnect ==
    LET p == Bare("disconnect") IN
    /\ phase \in {"login", "config"}
    /\ Read(TRUE)
    /\ Fail(p)
    /\ UNCHANGED <<handler, session, conn, cipher, threshold, clientVars>>

(* Packets read for nothing: unknown IDs and, in configuration, custom     *)
(* payloads, resets of the chat, pops of resource packs, transfers,        *)
(* enabled features, tags and server links.                                *)
OnIgnored ==
    LET p == Bare("ignored") IN
    /\ phase \in {"login", "config"}
    /\ Read(TRUE)
    /\ Continue(p)
    /\ UNCHANGED <<handler, session, conn, cipher, threshold, clientVars>>

(* Keep-alive, ping and known packs get the answer of their kind.          *)
Echoes == {"keepAlive", "ping", "knownPacks"}

(* Mutant: an answer that is not written is no error.                      *)
EchoIgnoresError(type) ==
    LET p == Bare(type) IN
    /\ phase = "config"
    /\ Read(TRUE)
    /\ Answer(p, Bare(type), phase) \/ Continue(p)
    /\ UNCHANGED <<handler, session, conn, cipher, threshold, clientVars>>

OnEcho(type) ==
    LET p == Bare(type) IN
    /\ phase = "config"
    /\ Read(TRUE)
    /\ Answer(p, Bare(type), phase)
    /\ UNCHANGED <<handler, session, conn, cipher, threshold, clientVars>>

(* The registry is replaced as a whole; the callback is called right here. *)
OnRegistryData(r, v) ==
    LET p == Packet("registryData", r, v) IN
    /\ phase = "config"
    /\ Read(TRUE)
    /\ Continue(p)
    /\ registryData' = [registryData EXCEPT ![r] = v]
    /\ UNCHANGED <<handler, session, conn, cipher, threshold, cookies, details, packs>>

OnResourcePackPush(v) ==
    LET p == Packet("packPush", None, v) IN
    /\ phase = "config"
    /\ Read(TRUE)
    /\ Continue(p)
    /\ packs' = Append(packs, v)
    /\ UNCHANGED <<handler, session, conn, cipher, threshold, cookies, registryData, details>>

(* Mutant: a cookie that is there already is kept.                         *)
StoreCookieOnce(k, v) ==
    LET p == Packet("storeCookie", k, v) IN
    /\ phase \in {"config", "joined"}
    /\ Read(TRUE)
    /\ Continue(p)
    /\ cookies' = IF cookies[k] = None THEN [cookies EXCEPT ![k] = v] ELSE cookies
    /\ UNCHANGED <<handler, session, conn, cipher, threshold, registryData, details, packs>>

OnStoreCookie(k, v) ==
    LET p == Packet("storeCookie", k, v) IN
    /\ phase \in {"config", "joined"}
    /\ Read(TRUE)
    /\ Continue(p)
    /\ cookies' = [cookies EXCEPT ![k] = v]
    /\ UNCHANGED <<handler, session, conn, cipher, threshold, registryData, details, packs>>

(* The entries are stored one by one as they are parsed: read has those of *)
(* the whole packet, or those before the one that does not parse, on which *)
(* the join fails.                                                         *)
OnReportDetails(read) ==
    LET p == Bare("details") IN
    /\ phase = "config"
    /\ Read(TRUE)
    /\ Continue(p) \/ Fail(p)
    /\ details' = [t \in Titles |-> IF t \in DOMAIN read THEN read[t] ELSE details[t]]
    /\ UNCHANGED <<handler, session, conn, cipher, threshold, cookies, registryData, packs>>

(* The end of configuration, and of join: wrapConn, client.conn is set.    *)
OnFinishConfiguration ==
    LET p == Bare("finish") IN
    /\ phase = "config"
    /\ Read(TRUE)
    /\ Answer(p, Bare("finished"), "joined")
    /\ conn' = IF phase' = "joined" THEN session ELSE conn
    /\ UNCHANGED <<handler, session, cipher, threshold, clientVars>>

-----------------------------------------------------------------------------
(* The play phase, as far as it matters to the next join *)

(* HandleGame has returned.                                                *)
Leave ==
    /\ phase = "joined"
    /\ phase' = "idle"
    /\ UNCHANGED <<handler, session, conn, cipher, threshold, clientVars,
                   trail, recorded>>

-----------------------------------------------------------------------------

LoginPackets == OnEncryptionRequest \/ OnSetCompression \/ OnLoginSuccess \/ OnCustomQuery

ConfigPackets ==
    \/ \E type \in Echoes : OnEcho(type)
    \/ \E r \in Registries, v \in Values : OnRegistryData(r, v)
    \/ \E v \in Values : OnResourcePackPush(v)
    \/ \E T \in SUBSET Titles : \E read \in [T -> Values] : OnReportDetails(read)
    \/ \E k \in Keys, v \in Values : OnStoreCookie(k, v)
    \/ OnFinishConfiguration

CommonPackets ==
    \/ \E k \in Keys : OnCookieRequest(k)
    \/ OnDisconnect
    \/ OnIgnored

Next ==
    \/ Dial \/ Handshake \/ LoginStart \/ ReadFails
    \/ LoginPackets \/ ConfigPackets \/ CommonPackets
    \/ Leave

Spec == Init /\ [][Next]_vars

-----------------------------------------------------------------------------
(* Properties *)

Events(i) == trail[i].packet.type
IsIn(i)  == trail[i].dir = "in"

(* What each request is answered with.                                     *)
AnswerTo(type) ==
    CASE type = "encryption"    -> "keyResponse"
      [] type = "success"       -> "acknowledged"
      [] type = "customQuery"   -> "customAnswer"
      [] type = "cookieRequest" -> "cookieResponse"
      [] type = "finish"        -> "finished"
      [] type \in Echoes        -> type
      [] OTHER                  -> "none"

Answered(i) ==
    \/ i < Len(trail) /\ ~IsIn(i + 1) /\ Events(i + 1) = AnswerTo(Events(i))
    \/ i < Len(trail) /\ trail[i + 1].session # trail[i].session
    \/ i = Len(trail) /\ (phase = "failed" \/ session # trail[i].session)

(* The packets that the replay holds; those of a session from its login    *)
(* success on.                                                             *)
InReplay == { recorded[n] : n \in DOMAIN recorded }
SinceSuccess(i) ==
    \E j \in 1..i : Events(j) = "success" /\ trail[j].session = trail[i].session

(* Every request of the server is answered, with the answer of its kind,   *)
(* before the next packet is read; only the packet that a join fails on    *)
(* stays without its answer.  The login success is answered for sure with  *)
(* a version handler only.  And whatever fails, the replay holds the       *)
(* server's packets, each once and in order, none of those from the login  *)
(* success on missing; SetCompression is never in it.  What is recorded of *)
(* a session before its success is left open: login.go:73 "ReplayMod       *)
(* expects recordings to start from Login Success" speaks against it, and  *)
(* the code records all of it but SetCompression.                          *)
RequestsAreAnswered ==
    /\ \A i \in DOMAIN trail :
          (IsIn(i) /\ AnswerTo(Events(i)) # "none") =>
              Answered(i) \/ (Events(i) = "success" /\ ~handler)
    /\ \A m, n \in DOMAIN recorded : m < n => recorded[m] < recorded[n]
    /\ \A i \in InReplay : i \in DOMAIN trail /\ IsIn(i) /\ Events(i) # "compression"
    /\ \A i \in DOMAIN trail :
          (IsIn(i) /\ Events(i) # "compression" /\ SinceSuccess(i)) => i \in InReplay

(* login.go:125-127 returns LoginErr{"login success", err} when the        *)
(* acknowledgement was not written: a join does not go on without it.      *)
SuccessIsAcknowledged ==
    \A i \in DOMAIN trail : Events(i) = "success" => Answered(i)

(* The answer to a cookie request is what the last StoreCookie for the key *)
(* stored, in this session or an earlier one of the same client.           *)
CookiesAreLatest ==
    \A i \in DOMAIN trail :
        Events(i) = "cookieResponse" =>
            LET k == trail[i].packet.key
                stores == { j \in 1..(i - 1) : Events(j) = "storeCookie" /\ trail[j].packet.key = k }
            IN  trail[i].packet.value =
                    IF stores = {} THEN None
                    ELSE trail[CHOOSE j \in stores : \A l \in stores : l <= j].packet.value

(* Both ends switch format at the same packet: what is written after the   *)
(* key response of the session is enciphered, and nothing before it or the *)
(* response itself; what is written after SetCompression was read is       *)
(* framed with the threshold, and nothing before.                          *)
FramesAgree ==
    \A i \in DOMAIN trail :
        ~IsIn(i) =>
            LET before(type) == \E j \in 1..(i - 1) :
                    trail[j].session = trail[i].session /\ Events(j) = type
            IN  /\ trail[i].cipher = before("keyResponse")
                /\ trail[i].threshold = before("compression")

=============================================================================
