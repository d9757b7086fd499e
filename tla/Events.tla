------------------------------- MODULE Events -------------------------------
(***************************************************************************)
(* bot/event.go and handlePacket of bot/ingame.go: the handlers by packet  *)
(* ID, and the two loops that run them on a packet.                        *)
(*                                                                         *)
(* A Go slice is an array and a length.  `for range` takes both once;      *)
(* append writes into the array while it has room, and sortPacketHandlers  *)
(* then reorders the array a running loop reads.  Hence a slice here is    *)
(* [list, cap], and a loop keeps the length it started with but reads the  *)
(* array as it is, until append moves the slice to a new array.            *)
(*                                                                         *)
(* registered, and the fields due, ran and shifted of loop, are histories. *)
(***************************************************************************)
EXTENDS Naturals, Sequences, Filters

CONSTANTS
    PacketIds,     (* IDs of the protocol version: AddListener skips others *)
    Handlers       (* what may be registered: records [name, priority]      *)

ASSUME EventsAssumption == \A h \in Handlers : h.priority \in Nat

VARIABLES
    generic,       (* events.generic                                        *)
    handlers,      (* events.handlers                                       *)
    loop,          (* the loop of handlePacket that runs                    *)
    registered     (* history: per ID, the handlers in order of AddListener *)

eventsVars == <<generic, handlers, loop, registered>>

-----------------------------------------------------------------------------
(* Registration *)

NoSlice == [list |-> <<>>, cap |-> 0]

AtLeast(p) == { h \in Handlers : h.priority >= p }
Below(p)   == { h \in Handlers : h.priority < p }

(* Mutant: a handler goes before the others of its priority.               *)
SortedBeforePeers(list, h) ==
    Kept(list, AtLeast(h.priority + 1)) \o <<h>> \o Kept(list, Below(h.priority + 1))

(* append and sort.SliceStable on a list that is in order: h comes after   *)
(* the last handler of at least its priority.                              *)
SortedWith(list, h) ==
    Kept(list, AtLeast(h.priority)) \o <<h>> \o Kept(list, Below(h.priority))

HasRoom(s) == Len(s.list) < s.cap

(* append doubles a full array.                                            *)
Appended(s, h) ==
    [list |-> SortedWith(s.list, h),
     cap  |-> IF HasRoom(s) THEN s.cap ELSE IF s.cap = 0 THEN 1 ELSE 2 * s.cap]

(* One call of AddListener: f gives the handler for each of its IDs.       *)
WithListeners(hs, f) ==
    [id \in PacketIds |-> IF id \in DOMAIN f THEN Appended(hs[id], f[id]) ELSE hs[id]]

WithRegistered(rs, f) ==
    [id \in PacketIds |-> IF id \in DOMAIN f THEN Append(rs[id], f[id]) ELSE rs[id]]

(* The loop over s goes on over s with h in it, if the array had room.  A  *)
(* slice that was moved is longer than the array its loop still reads.     *)
LoopSees(s, h) ==
    IF Len(loop.array) = Len(s.list) /\ HasRoom(s)
    THEN [loop EXCEPT !.array = SortedWith(s.list, h), !.shifted = TRUE]
    ELSE loop

LoopAfter(f) ==
    IF loop.over = "specific" /\ loop.id \in DOMAIN f
    THEN LoopSees(handlers[loop.id], f[loop.id])
    ELSE loop

AddListener(f) ==
    /\ handlers' = WithListeners(handlers, f)
    /\ registered' = WithRegistered(registered, f)
    /\ UNCHANGED generic

AddGeneric(h) ==
    /\ generic' = Appended(generic, h)
    /\ UNCHANGED <<handlers, registered>>

-----------------------------------------------------------------------------
(* handlePacket *)

NoLoop == [over |-> "none", id |-> "none", array |-> <<>>, len |-> 0, next |-> 1,
           due |-> <<>>, ran |-> <<>>, shifted |-> FALSE]

EventsInit ==
    /\ generic = NoSlice
    /\ handlers = [id \in PacketIds |-> NoSlice]
    /\ registered = [id \in PacketIds |-> <<>>]
    /\ loop = NoLoop

RangeOver(over, id, s, due, ran) ==
    [over |-> over, id |-> id, array |-> s.list, len |-> Len(s.list), next |-> 1,
     due |-> due \o s.list, ran |-> ran, shifted |-> loop.shifted]

HandlePacket(id) ==
    /\ loop.over = "none"
    /\ loop' = RangeOver("generic", id, generic, <<>>, <<>>)

(* Mutant: the last handler is left out.                                   *)
LoopDoneEarly == loop.over # "none" /\ loop.next >= loop.len

LoopDone == loop.over # "none" /\ loop.next > loop.len

HandlePacketSpecific ==
    /\ LoopDone /\ loop.over = "generic"
    /\ loop' = RangeOver("specific", loop.id, handlers[loop.id], loop.due, loop.ran)
    /\ UNCHANGED <<generic, handlers, registered>>

HandlePacketReturn ==
    /\ LoopDone /\ loop.over = "specific"
    /\ loop' = NoLoop
    /\ UNCHANGED <<generic, handlers, registered>>

Runs(name) == loop.over # "none" /\ loop.next <= loop.len /\ loop.array[loop.next].name = name

(* The handler returned nil, with l the loop it left behind.               *)
NextHandler(l) ==
    loop' = [l EXCEPT !.next = @ + 1, !.ran = Append(@, loop.array[loop.next])]

-----------------------------------------------------------------------------
(* Properties *)

Position(s, x) == CHOOSE i \in DOMAIN s : s[i] = x

(* The handlers of an ID are by descending priority, and those of one      *)
(* priority in the order they were registered, whoever registered them     *)
(* when: no registration is lost or doubled (event.go:47-69).              *)
RegistryInOrder ==
    \A id \in PacketIds :
        LET list == handlers[id].list  reg == registered[id]
        IN  /\ Len(list) = Len(reg)
            /\ \A i \in DOMAIN reg : \E j \in DOMAIN list : list[j] = reg[i]
            /\ \A i, j \in DOMAIN list : i < j =>
                  \/ list[i].priority > list[j].priority
                  \/ list[i].priority = list[j].priority
                     /\ Position(reg, list[i]) < Position(reg, list[j])

=============================================================================
