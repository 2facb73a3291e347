--------------------------- MODULE SessionsProofs ---------------------------
(***************************************************************************)
(* Proofs about Sessions, for any finite set of slots and any timeouts.    *)
(* The inductive invariant joins the invariants the runs check: none of    *)
(* them is inductive alone, because a DISCONNECT event acts through the    *)
(* slot's pointer, the sweep through the silence table, and both trust     *)
(* that these agree with players_.                                         *)
(***************************************************************************)
EXTENDS Sessions, TLAPS, FiniteSetTheorems

IInv ==
    /\ TypeOK
    /\ SlotsMatchIds
    /\ NoIdLeaks
    /\ TablesMatchPlayers
    /\ StaleAreSilentPlayers

-----------------------------------------------------------------------------
(* The initial state satisfies the invariant. *)
LEMMA InitIInv == Init => IInv
<1> SUFFICES ASSUME Init PROVE IInv
    OBVIOUS
<1> USE SessionsAssumption DEF Init, PlayerIds
<1>1. TypeOK
  <2>1. DOMAIN players = {} /\ DOMAIN idle = {}
    OBVIOUS
  <2>2. players \in [DOMAIN players -> Peers] /\ idle \in [DOMAIN idle -> 0..IdleCap]
    BY <2>1
  <2>3. running \in BOOLEAN /\ phase \in Phases /\ stale \subseteq Nat
    BY DEF Phases
  <2>4. st \in [Peers -> PeerStates] /\ data \in [Peers -> Nat]
    BY DEF PeerStates
  <2>5. entries \in [Tables -> SUBSET Nat]
    OBVIOUS
  <2> QED
    BY <2>1, <2>2, <2>3, <2>4, <2>5 DEF TypeOK
<1>2. SlotsMatchIds
    BY DEF SlotsMatchIds
<1>3. NoIdLeaks
    BY DEF NoIdLeaks
<1>4. TablesMatchPlayers
    BY DEF TablesMatchPlayers, Tables, OpenedTables
<1>5. StaleAreSilentPlayers
    BY DEF StaleAreSilentPlayers
<1> QED
    BY <1>1, <1>2, <1>3, <1>4, <1>5 DEF IInv

-----------------------------------------------------------------------------
(* Steps *)

(* What every step that leaves the sessions alone must respect: slots may  *)
(* move on, but none becomes connected and none with a session becomes     *)
(* free; the sweep starts with silent players only.                        *)
LEMMA QuietStep ==
    ASSUME IInv,
           running' \in BOOLEAN, phase' \in Phases, stale' \subseteq Nat,
           phase = "down" => phase' = "down",
           phase' = "sweep" =>
               \A id \in stale' : id \in PlayerIds /\ idle[id] >= Timeout(id),
           st' \in [Peers -> PeerStates],
           \A p \in Peers : st'[p] = "connected" => st[p] = "connected",
           \A p \in Peers : st'[p] \in {"free", "connecting"} => data[p] = 0,
           UNCHANGED data, UNCHANGED tables
    PROVE  IInv'
<1> USE DEF IInv, PlayerIds, tables
<1>1. TypeOK'
    BY DEF TypeOK
<1>2. SlotsMatchIds'
    BY DEF SlotsMatchIds
<1>3. NoIdLeaks'
    BY DEF NoIdLeaks
<1>4. TablesMatchPlayers'
    BY DEF TablesMatchPlayers, MayBeOrphaned
<1>5. StaleAreSilentPlayers'
    BY DEF StaleAreSilentPlayers, Timeout
<1> QED
    BY <1>1, <1>2, <1>3, <1>4, <1>5

(* A slot with a session is neither free nor connecting. *)
LEMMA HeldSlotBusy ==
    ASSUME IInv, NEW id \in PlayerIds
    PROVE  /\ players[id] \in Peers
           /\ data[players[id]] = id
           /\ id \in Nat \ {0}
           /\ st[players[id]] \in PeerStates \ {"free", "connecting"}
    BY DEF IInv, TypeOK, SlotsMatchIds, PlayerIds

(* Asking a player to leave: its slot is no longer connected, and no other *)
(* slot is touched.                                                        *)
LEMMA DisconnectPlayerFacts ==
    ASSUME IInv, NEW id \in PlayerIds, DisconnectPlayer(id)
    PROVE  /\ st' \in [Peers -> PeerStates]
           /\ st'[players[id]] \in {"disconnecting", "closing"}
           /\ \A p \in Peers : p # players[id] => st'[p] = st[p]
<1>1. st[players[id]] \in {"connected", "disconnecting", "closing"}
    BY HeldSlotBusy DEF PeerStates
<1>2. st \in [Peers -> PeerStates] /\ players[id] \in Peers
    BY HeldSlotBusy DEF IInv, TypeOK
<1>3. st' = [st EXCEPT ![players[id]] =
                 IF @ = "connected" THEN "disconnecting" ELSE @]
    BY <1>1, <1>2 DEF DisconnectPlayer, EnetDisconnect
<1> QED
    BY <1>1, <1>2, <1>3 DEF PeerStates

(* The network moves a slot on. *)
LEMMA NetworkIInv ==
    ASSUME IInv, NEW p \in Peers,
           ClientConnects(p) \/ HandshakeLost(p) \/ ClientDisconnects(p)
    PROVE  IInv'
<1>1. /\ st \in [Peers -> PeerStates] /\ running \in BOOLEAN
      /\ phase \in Phases /\ stale \subseteq Nat
    BY DEF IInv, TypeOK
<1>2. /\ UNCHANGED server /\ UNCHANGED data /\ UNCHANGED tables
      /\ phase = "poll"
    BY DEF ClientConnects, HandshakeLost, ClientDisconnects
<1>3. PICK s \in {"connecting", "free", "closing"} :
          /\ st' = [st EXCEPT ![p] = s]
          /\ s \in {"connecting", "free"} => st[p] \in {"free", "connecting"}
    BY DEF ClientConnects, HandshakeLost, ClientDisconnects
<1>4. \A q \in Peers : st[q] \in {"free", "connecting"} => data[q] = 0
    BY DEF IInv, SlotsMatchIds
<1> QED
    BY <1>1, <1>2, <1>3, <1>4, QuietStep DEF server, PeerStates

(* The loop moves on without touching a session. *)
LEMMA LoopIInv ==
    ASSUME IInv, Run \/ EndPoll \/ EndSweep \/ QuitCommand \/ NoCommand \/ Update \/ Signal
    PROVE  IInv'
<1>1. /\ st \in [Peers -> PeerStates] /\ running \in BOOLEAN
      /\ phase \in Phases /\ stale \subseteq Nat
      /\ DOMAIN idle = PlayerIds /\ PlayerIds \subseteq Nat
    BY DEF IInv, TypeOK, TablesMatchPlayers
<1>2. \A q \in Peers : st[q] \in {"free", "connecting"} => data[q] = 0
    BY DEF IInv, SlotsMatchIds
<1>3. phase = "sweep" => \A id \in stale : id \in PlayerIds /\ idle[id] >= Timeout(id)
    BY DEF IInv, StaleAreSilentPlayers
<1>4. CASE EndPoll
    BY <1>1, <1>2, <1>4, QuietStep DEF EndPoll, StaleIds, enet, Phases
<1>5. CASE Run \/ EndSweep \/ QuitCommand \/ NoCommand \/ Update
    BY <1>1, <1>2, <1>5, QuietStep
       DEF Run, EndSweep, QuitCommand, NoCommand, Update, enet, Phases
<1>6. CASE Signal
    BY <1>1, <1>2, <1>3, <1>6, QuietStep DEF Signal, enet
<1> QED
    BY <1>4, <1>5, <1>6

(* A kick touches the slot, not the session. *)
LEMMA KickIInv ==
    ASSUME IInv, NEW id \in PlayerIds, Kick(id)
    PROVE  IInv'
<1>1. /\ running \in BOOLEAN /\ phase \in Phases /\ stale \subseteq Nat
      /\ \A q \in Peers : st[q] \in {"free", "connecting"} => data[q] = 0
    BY DEF IInv, TypeOK, SlotsMatchIds
<1>2. /\ st' \in [Peers -> PeerStates]
      /\ st'[players[id]] \in {"disconnecting", "closing"}
      /\ \A p \in Peers : p # players[id] => st'[p] = st[p]
    BY DisconnectPlayerFacts DEF Kick
<1>3. /\ phase = "stdin" /\ phase' = "update"
      /\ UNCHANGED running /\ UNCHANGED stale /\ UNCHANGED data /\ UNCHANGED tables
    BY DEF Kick
<1> QED
    BY <1>1, <1>2, <1>3, QuietStep DEF Phases

(* Only nextId, or the smallest released id, is handed out: nobody plays   *)
(* it, and taking it keeps the ids accounted for.                          *)
LEMMA AllocateFacts ==
    ASSUME IInv, NEW id \in AllocatableIds, AllocatePlayerId(id)
    PROVE  /\ id \in Nat \ {0}
           /\ id \notin PlayerIds
           /\ freeIds' \subseteq Nat \ {0}
           /\ nextId' \in Nat \ {0}
           /\ (PlayerIds \cup {id}) \cap freeIds' = {}
           /\ (PlayerIds \cup {id}) \cup freeIds' = 1..(nextId' - 1)
<1>1. /\ freeIds \subseteq Nat \ {0}
      /\ nextId \in Nat \ {0}
      /\ PlayerIds \cap freeIds = {}
      /\ PlayerIds \cup freeIds = 1..(nextId - 1)
      /\ PlayerIds \subseteq Nat \ {0}
    BY DEF IInv, TypeOK, NoIdLeaks
<1>2. CASE freeIds = {}
  <2>1. id = nextId /\ freeIds' = {} /\ nextId' = nextId + 1
      BY <1>2 DEF AllocatableIds, AllocatePlayerId
  <2>2. PlayerIds = 1..(nextId - 1)
      BY <1>1, <1>2
  <2>3. (1..(nextId - 1)) \cup {nextId} = 1..nextId /\ nextId \notin 1..(nextId - 1)
      BY <1>1
  <2>4. nextId + 1 - 1 = nextId /\ nextId + 1 \in Nat \ {0}
      BY <1>1
  <2> QED
      BY <1>1, <2>1, <2>2, <2>3, <2>4
<1>3. CASE freeIds # {}
  <2>1. id \in freeIds /\ freeIds' = freeIds \ {id} /\ nextId' = nextId
      BY <1>3 DEF AllocatableIds, AllocatePlayerId
  <2>2. (PlayerIds \cup {id}) \cup (freeIds \ {id}) = PlayerIds \cup freeIds
      BY <2>1
  <2> QED
      BY <1>1, <2>1, <2>2
<1> QED
    BY <1>2, <1>3

(* A CONNECT event opens a session. *)
LEMMA ConnectIInv ==
    ASSUME IInv, NEW p \in Peers, ConnectEvent(p)
    PROVE  IInv'
<1>1. PICK id \in AllocatableIds :
          /\ AllocatePlayerId(id)
          /\ data' = [data EXCEPT ![p] = id]
          /\ players' = With(players, id, p)
          /\ idle' = With(idle, id, 0)
          /\ entries' = [t \in Tables |->
                            IF t \in OpenedTables THEN entries[t] \cup {id}
                            ELSE IF t = "ready" THEN entries[t] \ {id}
                            ELSE entries[t]]
    BY DEF ConnectEvent
<1>2. PICK s \in {"connected", "closing"} : st' = [st EXCEPT ![p] = s]
    BY DEF ConnectEvent
<1>3. phase = "poll" /\ st[p] = "connecting" /\ UNCHANGED server
    BY DEF ConnectEvent
<1>4. /\ id \in Nat \ {0} /\ id \notin PlayerIds
      /\ freeIds' \subseteq Nat \ {0} /\ nextId' \in Nat \ {0}
      /\ (PlayerIds \cup {id}) \cap freeIds' = {}
      /\ (PlayerIds \cup {id}) \cup freeIds' = 1..(nextId' - 1)
    BY <1>1, AllocateFacts
<1>5. /\ PlayerIds' = PlayerIds \cup {id}
      /\ players'[id] = p
      /\ \A i \in PlayerIds : players'[i] = players[i]
  <2>1. players' = [i \in PlayerIds \cup {id} |-> IF i = id THEN p ELSE players[i]]
      BY <1>1 DEF With, PlayerIds
  <2>2. DOMAIN players' = PlayerIds \cup {id}
      BY <2>1
  <2> QED
      BY <1>4, <2>1, <2>2 DEF PlayerIds
<1>6. /\ DOMAIN idle' = DOMAIN idle \cup {id}
      /\ idle' \in [DOMAIN idle' -> 0..IdleCap]
  <2>1. IdleCap \in Nat
      BY SessionsAssumption DEF IdleCap
  <2>2. idle \in [DOMAIN idle -> 0..IdleCap]
      BY DEF IInv, TypeOK
  <2>3. DOMAIN idle' = DOMAIN idle \cup {id}
      BY <1>1 DEF With
  <2>4. idle' = [i \in DOMAIN idle \cup {id} |-> IF i = id THEN 0 ELSE idle[i]]
      BY <1>1 DEF With
  <2>5. \A i \in DOMAIN idle \cup {id} : (IF i = id THEN 0 ELSE idle[i]) \in 0..IdleCap
      BY <2>1, <2>2
  <2> QED
      BY <2>3, <2>4, <2>5
<1>7. TypeOK'
  <2>1. players' \in [PlayerIds' -> Peers]
    <3>1. players' = [i \in PlayerIds \cup {id} |-> IF i = id THEN p ELSE players[i]]
        BY <1>1 DEF With, PlayerIds
    <3>2. players \in [PlayerIds -> Peers]
        BY DEF IInv, TypeOK
    <3> QED
        BY <3>1, <3>2, <1>5
  <2>2. entries' \in [Tables -> SUBSET Nat]
      BY <1>1, <1>4 DEF IInv, TypeOK
  <2>3. st' \in [Peers -> PeerStates] /\ data' \in [Peers -> Nat]
      BY <1>1, <1>2, <1>4 DEF IInv, TypeOK, PeerStates
  <2>4. running' \in BOOLEAN /\ phase' \in Phases /\ stale' \subseteq Nat
      BY <1>3 DEF IInv, TypeOK, server
  <2>5. PlayerIds' \subseteq Nat \ {0}
      BY <1>4, <1>5 DEF IInv, TypeOK
  <2> QED
      BY <1>4, <1>6, <2>1, <2>2, <2>3, <2>4, <2>5 DEF TypeOK
<1>8. SlotsMatchIds'
  <2>1. data[p] = 0 /\ data \in [Peers -> Nat] /\ st \in [Peers -> PeerStates]
        /\ players \in [PlayerIds -> Peers]
      BY <1>3 DEF IInv, TypeOK, SlotsMatchIds
  <2>2. \A i \in PlayerIds : data[players[i]] = i /\ i # 0
      BY DEF IInv, TypeOK, SlotsMatchIds
  <2>3. \A i \in PlayerIds' : data'[players'[i]] = i
      BY <1>1, <1>5, <2>1, <2>2
  <2>4. \A q \in Peers : data'[q] # 0 => data'[q] \in PlayerIds' /\ players'[data'[q]] = q
      BY <1>1, <1>4, <1>5, <2>1 DEF IInv, SlotsMatchIds
  <2>5. \A q \in Peers : st'[q] = "connected" => data'[q] # 0
      BY <1>1, <1>2, <1>4, <2>1 DEF IInv, SlotsMatchIds
  <2>6. \A q \in Peers : st'[q] \in {"free", "connecting"} => data'[q] = 0
      BY <1>1, <1>2, <2>1 DEF IInv, SlotsMatchIds
  <2> QED
      BY <2>3, <2>4, <2>5, <2>6 DEF SlotsMatchIds
<1>9. NoIdLeaks'
    BY <1>4, <1>5 DEF NoIdLeaks
<1>10. TablesMatchPlayers'
  <2>1. DOMAIN idle' = PlayerIds'
      BY <1>5, <1>6 DEF IInv, TablesMatchPlayers
  <2>2. \A t \in Tables : MayBeOrphaned(t)' = MayBeOrphaned(t)
      BY <1>3 DEF MayBeOrphaned, server
  <2>3. \A t \in Tables : MayBeOrphaned(t)' \/ entries'[t] \subseteq PlayerIds'
      BY <1>1, <1>5, <2>2 DEF IInv, TablesMatchPlayers
  <2>4. \A t \in OpenedTables : entries'[t] = entries[t] \cup {id}
      BY <1>1 DEF Tables
  <2>5. \A t \in OpenedTables : PlayerIds' \subseteq entries'[t]
      BY <1>5, <2>4 DEF IInv, TablesMatchPlayers
  <2> QED
      BY <2>1, <2>3, <2>5 DEF TablesMatchPlayers
<1>11. StaleAreSilentPlayers'
    BY <1>3 DEF StaleAreSilentPlayers, server
<1> QED
    BY <1>7, <1>8, <1>9, <1>10, <1>11 DEF IInv

(* Ending a session, whoever asks for it: the slot may do anything but     *)
(* stay connected, and nobody else's session is touched.                   *)
LEMMA CleanupIInv ==
    ASSUME IInv, NEW id \in PlayerIds, Cleanup(id),
           phase \in {"poll", "sweep"}, UNCHANGED running, UNCHANGED phase,
           stale' \subseteq Nat,
           phase = "sweep" => stale' = stale \ {id},
           st' \in [Peers -> PeerStates],
           st'[players[id]] # "connected",
           \A q \in Peers : q # players[id] => st'[q] = st[q]
    PROVE  IInv'
<1>1. /\ players[id] \in Peers /\ data[players[id]] = id /\ id \in Nat \ {0}
    BY HeldSlotBusy
<1>2. /\ data' = [data EXCEPT ![players[id]] = 0]
      /\ entries' = [t \in Tables |-> entries[t] \ {id}]
      /\ freeIds' = freeIds \cup {id}
      /\ nextId' = nextId
    BY DEF Cleanup
<1>3. players' = [i \in PlayerIds \ {id} |-> players[i]] /\ PlayerIds' = PlayerIds \ {id}
  <2>1. players' = [i \in PlayerIds \ {id} |-> players[i]]
      BY DEF Cleanup, Without, PlayerIds
  <2> QED
      BY <2>1 DEF PlayerIds
<1>4. /\ DOMAIN idle = PlayerIds
      /\ idle' = [i \in PlayerIds \ {id} |-> idle[i]]
      /\ DOMAIN idle' = PlayerIds'
  <2>1. DOMAIN idle = PlayerIds
      BY DEF IInv, TablesMatchPlayers
  <2>2. idle' = [i \in PlayerIds \ {id} |-> idle[i]]
      BY <2>1 DEF Cleanup, Without
  <2> QED
      BY <1>3, <2>1, <2>2
<1>5. /\ players \in [PlayerIds -> Peers] /\ idle \in [PlayerIds -> 0..IdleCap]
      /\ data \in [Peers -> Nat] /\ entries \in [Tables -> SUBSET Nat]
      /\ PlayerIds \subseteq Nat \ {0} /\ freeIds \subseteq Nat \ {0}
      /\ nextId \in Nat \ {0} /\ running \in BOOLEAN /\ phase \in Phases
    BY <1>4 DEF IInv, TypeOK
<1>6. TypeOK'
  <2>1. players' \in [PlayerIds' -> Peers]
      BY <1>3, <1>5
  <2>2. idle' \in [DOMAIN idle' -> 0..IdleCap]
      BY <1>3, <1>4, <1>5
  <2>3. entries' \in [Tables -> SUBSET Nat]
      BY <1>2, <1>5
  <2>4. data' \in [Peers -> Nat]
      BY <1>2, <1>5
  <2>5. running' \in BOOLEAN
      BY <1>5
  <2> QED
      BY <1>1, <1>2, <1>3, <1>5, <2>1, <2>2, <2>3, <2>4, <2>5 DEF TypeOK
<1>7. SlotsMatchIds'
  <2>1. /\ \A i \in PlayerIds : data[players[i]] = i
        /\ \A q \in Peers : data[q] # 0 => data[q] \in PlayerIds /\ players[data[q]] = q
        /\ \A q \in Peers : st[q] = "connected" => data[q] # 0
        /\ \A q \in Peers : st[q] \in {"free", "connecting"} => data[q] = 0
      BY DEF IInv, SlotsMatchIds
  <2>2. /\ \A q \in Peers : q # players[id] => data'[q] = data[q]
        /\ data'[players[id]] = 0
      BY <1>1, <1>2, <1>5
  <2>3. \A i \in PlayerIds' : players'[i] = players[i] /\ players[i] # players[id]
      BY <1>3, <2>1
  <2>4. \A i \in PlayerIds' : data'[players'[i]] = i
      BY <1>3, <1>5, <2>1, <2>2, <2>3
  <2>5. \A q \in Peers : data'[q] # 0 => data'[q] \in PlayerIds' /\ players'[data'[q]] = q
      BY <1>1, <1>3, <2>1, <2>2, <2>3
  <2>6. \A q \in Peers : st'[q] = "connected" => data'[q] # 0
      BY <2>1, <2>2
  <2>7. \A q \in Peers : st'[q] \in {"free", "connecting"} => data'[q] = 0
      BY <2>1, <2>2
  <2> QED
      BY <2>4, <2>5, <2>6, <2>7 DEF SlotsMatchIds
<1>8. NoIdLeaks'
  <2>1. PlayerIds \cap freeIds = {} /\ PlayerIds \cup freeIds = 1..(nextId - 1)
      BY DEF IInv, NoIdLeaks
  <2> QED
      BY <1>2, <1>3, <2>1 DEF NoIdLeaks
<1>9. TablesMatchPlayers'
  <2>1. /\ \A t \in Tables : MayBeOrphaned(t) \/ entries[t] \subseteq PlayerIds
        /\ \A t \in OpenedTables : PlayerIds \subseteq entries[t]
        /\ \A t \in Tables : MayBeOrphaned(t)' = MayBeOrphaned(t)
      BY DEF IInv, TablesMatchPlayers, MayBeOrphaned
  <2>2. OpenedTables \subseteq Tables
      BY DEF Tables
  <2>3. \A t \in Tables : MayBeOrphaned(t)' \/ entries'[t] \subseteq PlayerIds'
      BY <1>2, <1>3, <2>1
  <2>4. \A t \in OpenedTables : PlayerIds' \subseteq entries'[t]
      BY <1>2, <1>3, <2>1, <2>2
  <2> QED
      BY <1>4, <2>3, <2>4 DEF TablesMatchPlayers
<1>10. StaleAreSilentPlayers'
  <2>1. ASSUME phase = "sweep", NEW i \in stale'
        PROVE  i \in PlayerIds' /\ idle'[i] >= Timeout(i)'
    <3>1. i \in PlayerIds /\ i # id /\ idle[i] >= Timeout(i)
        BY <2>1 DEF IInv, StaleAreSilentPlayers
    <3>2. i \in PlayerIds' /\ idle'[i] = idle[i]
        BY <1>3, <1>4, <3>1
    <3>3. "ready" \in Tables
        BY DEF Tables
    <3>4. Timeout(i)' = Timeout(i)
        BY <1>2, <3>1, <3>3 DEF Timeout
    <3> QED
        BY <3>1, <3>2, <3>4
  <2> QED
      BY <2>1 DEF StaleAreSilentPlayers
<1> QED
    BY <1>6, <1>7, <1>8, <1>9, <1>10 DEF IInv

(* A DISCONNECT event ends the session its slot's pointer names, or, when  *)
(* the sweep was first, none.                                              *)
LEMMA DisconnectEventIInv ==
    ASSUME IInv, NEW p \in Peers, DisconnectEvent(p)
    PROVE  IInv'
<1>1. /\ phase = "poll" /\ st' = [st EXCEPT ![p] = "free"]
      /\ UNCHANGED running /\ UNCHANGED phase /\ UNCHANGED stale
    BY DEF DisconnectEvent, server
<1>2. /\ st \in [Peers -> PeerStates] /\ data \in [Peers -> Nat]
      /\ stale \subseteq Nat /\ running \in BOOLEAN /\ phase \in Phases
    BY DEF IInv, TypeOK
<1>3. CASE data[p] > 0
  <2>1. data[p] \in PlayerIds /\ players[data[p]] = p
      BY <1>2, <1>3 DEF IInv, SlotsMatchIds
  <2>2. Cleanup(data[p])
      BY <1>3 DEF DisconnectEvent
  <2> QED
      BY <1>1, <1>2, <2>1, <2>2, CleanupIInv DEF PeerStates
<1>4. CASE ~(data[p] > 0)
  <2>1. data[p] = 0
      BY <1>2, <1>4
  <2>2. UNCHANGED data /\ UNCHANGED tables
      BY <1>2, <1>4, <2>1 DEF DisconnectEvent, tables
  <2>3. \A q \in Peers : st[q] \in {"free", "connecting"} => data[q] = 0
      BY DEF IInv, SlotsMatchIds
  <2> QED
      BY <1>1, <1>2, <2>1, <2>2, <2>3, QuietStep DEF PeerStates
<1> QED
    BY <1>3, <1>4

(* The sweep ends a silent player's session. *)
LEMMA TimeOutIInv ==
    ASSUME IInv, NEW id \in stale, TimeOut(id)
    PROVE  IInv'
<1>1. /\ phase = "sweep" /\ stale' = stale \ {id} /\ DisconnectPlayer(id)
      /\ Cleanup(id) /\ UNCHANGED running /\ UNCHANGED phase
    BY DEF TimeOut
<1>2. id \in PlayerIds /\ stale \subseteq Nat
    BY <1>1 DEF IInv, StaleAreSilentPlayers, TypeOK
<1>3. /\ st' \in [Peers -> PeerStates]
      /\ st'[players[id]] \in {"disconnecting", "closing"}
      /\ \A q \in Peers : q # players[id] => st'[q] = st[q]
    BY <1>1, <1>2, DisconnectPlayerFacts
<1> QED
    BY <1>1, <1>2, <1>3, CleanupIInv

(* What a packet or a script may do to the sessions there are: give a      *)
(* player more keys, take a key no handler relies on, end its silence.     *)
LEMMA PlayIInv ==
    ASSUME IInv, phase \in {"poll", "stdin", "update"}, UNCHANGED server,
           st' \in [Peers -> PeerStates],
           \A q \in Peers : st'[q] = "connected" => st[q] = "connected",
           \A q \in Peers : st'[q] \in {"free", "connecting"} => data[q] = 0,
           UNCHANGED <<data, players, freeIds, nextId>>,
           idle' \in [PlayerIds -> 0..IdleCap],
           entries' \in [Tables -> SUBSET Nat],
           \A t \in Tables : MayBeOrphaned(t) \/ entries'[t] \subseteq PlayerIds,
           \A t \in OpenedTables : entries[t] \subseteq entries'[t]
    PROVE  IInv'
<1>1. /\ PlayerIds' = PlayerIds /\ DOMAIN idle' = PlayerIds
      /\ PlayerIds \subseteq Nat \ {0}
    BY DEF IInv, TypeOK, PlayerIds
<1>2. TypeOK'
  <2>2. players' \in [PlayerIds' -> Peers]
      BY <1>1 DEF IInv, TypeOK
  <2>3. /\ st' \in [Peers -> PeerStates] /\ data' \in [Peers -> Nat]
        /\ freeIds' \subseteq Nat \ {0} /\ nextId' \in Nat \ {0}
      BY DEF IInv, TypeOK
  <2>4. running' \in BOOLEAN /\ phase' \in Phases /\ stale' \subseteq Nat
      BY DEF IInv, TypeOK, server
  <2> QED
      BY <1>1, <2>2, <2>3, <2>4 DEF TypeOK
<1>3. SlotsMatchIds'
    BY <1>1 DEF IInv, SlotsMatchIds
<1>4. NoIdLeaks'
    BY <1>1 DEF IInv, NoIdLeaks
<1>5. TablesMatchPlayers'
    BY <1>1 DEF IInv, TablesMatchPlayers, MayBeOrphaned, server
<1>6. StaleAreSilentPlayers'
    BY DEF StaleAreSilentPlayers, server
<1> QED
    BY <1>2, <1>3, <1>4, <1>5, <1>6 DEF IInv

(* A packet comes from a slot with a session. *)
LEMMA SenderPlays ==
    ASSUME IInv, NEW p \in Peers, SignOfLife(p)
    PROVE  /\ data[p] \in PlayerIds
           /\ players[data[p]] = p
           /\ idle' \in [PlayerIds -> 0..IdleCap]
<1>1. data[p] \in PlayerIds /\ players[data[p]] = p /\ data[p] > 0
    BY DEF SignOfLife, IInv, SlotsMatchIds, TypeOK
<1>2. idle \in [PlayerIds -> 0..IdleCap] /\ 0 \in 0..IdleCap
    BY SessionsAssumption DEF IInv, TypeOK, TablesMatchPlayers, IdleCap
<1>3. idle' = With(idle, data[p], 0)
    BY <1>1 DEF SignOfLife
<1> QED
    BY <1>1, <1>2, <1>3 DEF With

(* A packet is handled. *)
LEMMA ReceiveIInv ==
    ASSUME IInv, NEW p \in Peers, Receive(p) \/ ReceiveMalformed(p)
    PROVE  IInv'
<1>1. SignOfLife(p)
    BY DEF Receive, ReceiveMalformed
<1>2. /\ phase = "poll" /\ UNCHANGED server
      /\ UNCHANGED <<data, players, freeIds, nextId>>
    BY <1>1 DEF SignOfLife
<1>3. /\ data[p] \in PlayerIds /\ players[data[p]] = p
      /\ idle' \in [PlayerIds -> 0..IdleCap]
    BY <1>1, SenderPlays
<1>4. /\ st \in [Peers -> PeerStates] /\ entries \in [Tables -> SUBSET Nat]
      /\ PlayerIds \subseteq Nat
      /\ \A t \in Tables : MayBeOrphaned(t) \/ entries[t] \subseteq PlayerIds
      /\ \A q \in Peers : st[q] \in {"free", "connecting"} => data[q] = 0
    BY <1>2 DEF IInv, TypeOK, TablesMatchPlayers, SlotsMatchIds
<1>5. OpenedTables \subseteq Tables /\ "triggers" \notin OpenedTables
    BY DEF Tables, OpenedTables
<1>6. CASE Receive(p)
  <2>1. PICK kind \in PacketKinds : HandlePacket(data[p], kind)
      BY <1>6 DEF Receive
  <2>2. /\ entries' \in [Tables -> SUBSET Nat]
        /\ \A t \in Tables : MayBeOrphaned(t) \/ entries'[t] \subseteq PlayerIds
      BY <1>3, <1>4, <2>1 DEF HandlePacket
  <2>3. \A t \in OpenedTables : entries[t] \subseteq entries'[t]
      BY <1>4, <1>5, <2>1 DEF HandlePacket
  <2>4. st' = st
      BY <1>6 DEF Receive
  <2> QED
      BY <1>2, <1>3, <1>4, <2>2, <2>3, <2>4, PlayIInv
<1>7. CASE ReceiveMalformed(p)
  <2>1. /\ st' \in [Peers -> PeerStates]
        /\ st'[p] \in {"disconnecting", "closing"}
        /\ \A q \in Peers : q # p => st'[q] = st[q]
      BY <1>3, <1>7, DisconnectPlayerFacts DEF ReceiveMalformed
  <2>2. entries' = entries
      BY <1>7 DEF ReceiveMalformed
  <2> QED
      BY <1>2, <1>3, <1>4, <2>1, <2>2, PlayIInv
<1> QED
    BY <1>6, <1>7

(* A script sets a position, of a player or of nobody. *)
LEMMA ScriptIInv ==
    ASSUME IInv, NEW id \in 1..nextId, ScriptSetsPosition(id)
    PROVE  IInv'
<1>1. /\ phase \in {"stdin", "update"} /\ UNCHANGED server
      /\ ScriptsUseStaleIds \/ id \in PlayerIds
      /\ UNCHANGED enet /\ UNCHANGED <<players, freeIds, nextId, idle>>
      /\ entries' = [entries EXCEPT !["positions"] = @ \cup {id}]
    BY DEF ScriptSetsPosition
<1>2. /\ st \in [Peers -> PeerStates] /\ entries \in [Tables -> SUBSET Nat]
      /\ idle \in [PlayerIds -> 0..IdleCap] /\ id \in Nat
      /\ \A t \in Tables : MayBeOrphaned(t) \/ entries[t] \subseteq PlayerIds
      /\ \A q \in Peers : st[q] \in {"free", "connecting"} => data[q] = 0
    BY <1>1 DEF IInv, TypeOK, TablesMatchPlayers, SlotsMatchIds
<1>3. OpenedTables \subseteq Tables
    BY DEF Tables
<1>4. /\ entries' \in [Tables -> SUBSET Nat]
      /\ \A t \in Tables : entries'[t] \subseteq entries[t] \cup {id}
      /\ \A t \in Tables : t # "positions" => entries'[t] = entries[t]
      /\ \A t \in OpenedTables : entries[t] \subseteq entries'[t]
    BY <1>1, <1>2, <1>3
<1>5. \A t \in Tables : MayBeOrphaned(t) \/ entries'[t] \subseteq PlayerIds
  <2>1. CASE ScriptsUseStaleIds
      BY <1>2, <1>4, <2>1 DEF MayBeOrphaned
  <2>2. CASE id \in PlayerIds
      BY <1>2, <1>4, <2>2
  <2> QED
      BY <1>1, <2>1, <2>2
<1> QED
    BY <1>1, <1>2, <1>4, <1>5, PlayIInv DEF enet

(* The server stops. *)
LEMMA ShutdownIInv ==
    ASSUME IInv, Shutdown
    PROVE  IInv'
<1>1. /\ phase' = "down" /\ running' = FALSE
      /\ st' = [p \in Peers |-> "free"] /\ data' = [p \in Peers |-> 0]
      /\ players' = [id \in {} |-> 0] /\ idle' = [id \in {} |-> 0]
      /\ entries' = [t \in Tables |-> IF t = "inventory" THEN entries[t] ELSE {}]
      /\ freeIds' = {} /\ nextId' = 1 /\ UNCHANGED stale
    BY DEF Shutdown
<1>2. PlayerIds' = {} /\ DOMAIN idle' = {}
    BY <1>1 DEF PlayerIds
<1>3. TypeOK'
  <2>1. players' \in [PlayerIds' -> Peers] /\ idle' \in [DOMAIN idle' -> 0..IdleCap]
      BY <1>1, <1>2
  <2>2. entries' \in [Tables -> SUBSET Nat]
      BY <1>1 DEF IInv, TypeOK
  <2>3. running' \in BOOLEAN
      BY <1>1
  <2>4. /\ phase' \in Phases /\ stale' \subseteq Nat
        /\ st' \in [Peers -> PeerStates] /\ data' \in [Peers -> Nat]
        /\ freeIds' \subseteq Nat \ {0} /\ nextId' \in Nat \ {0}
      BY <1>1 DEF IInv, TypeOK, Phases, PeerStates
  <2> QED
      BY <1>2, <2>1, <2>2, <2>3, <2>4 DEF TypeOK
<1>4. SlotsMatchIds'
    BY <1>1, <1>2 DEF SlotsMatchIds
<1>5. NoIdLeaks'
    BY <1>1, <1>2 DEF NoIdLeaks
<1>6. TablesMatchPlayers'
  <2>1. \A t \in Tables : t = "inventory" \/ entries'[t] = {}
      BY <1>1
  <2> QED
      BY <1>1, <1>2, <2>1 DEF TablesMatchPlayers, MayBeOrphaned
<1>7. StaleAreSilentPlayers'
    BY <1>1 DEF StaleAreSilentPlayers
<1> QED
    BY <1>3, <1>4, <1>5, <1>6, <1>7 DEF IInv

(* Time passes: silence only grows. *)
LEMMA ClockIInv ==
    ASSUME IInv, Clock
    PROVE  IInv'
<1>1. /\ UNCHANGED server /\ UNCHANGED enet
      /\ UNCHANGED <<players, freeIds, nextId, entries>>
      /\ idle' = [id \in DOMAIN idle |-> IF idle[id] < IdleCap THEN idle[id] + 1 ELSE idle[id]]
    BY DEF Clock
<1>2. /\ idle \in [DOMAIN idle -> 0..IdleCap] /\ IdleCap \in Nat
      /\ DOMAIN idle = PlayerIds
    BY SessionsAssumption DEF IInv, TypeOK, TablesMatchPlayers, IdleCap
<1>3. /\ DOMAIN idle' = DOMAIN idle /\ PlayerIds' = PlayerIds
      /\ idle' \in [DOMAIN idle -> 0..IdleCap]
      /\ \A id \in DOMAIN idle : idle'[id] >= idle[id]
    BY <1>1, <1>2 DEF PlayerIds
<1>4. TypeOK'
  <2>1. players' \in [PlayerIds' -> Peers]
      BY <1>1, <1>3 DEF IInv, TypeOK
  <2>2. running' \in BOOLEAN /\ phase' \in Phases /\ stale' \subseteq Nat
      BY <1>1 DEF IInv, TypeOK, server
  <2>3. /\ st' \in [Peers -> PeerStates] /\ data' \in [Peers -> Nat]
        /\ freeIds' \subseteq Nat \ {0} /\ nextId' \in Nat \ {0}
        /\ entries' \in [Tables -> SUBSET Nat] /\ PlayerIds' \subseteq Nat \ {0}
      BY <1>1, <1>3 DEF IInv, TypeOK, enet
  <2> QED
      BY <1>3, <2>1, <2>2, <2>3 DEF TypeOK
<1>5. SlotsMatchIds'
    BY <1>1, <1>3 DEF IInv, SlotsMatchIds, enet
<1>6. NoIdLeaks'
    BY <1>1, <1>3 DEF IInv, NoIdLeaks
<1>7. TablesMatchPlayers'
    BY <1>1, <1>2, <1>3 DEF IInv, TablesMatchPlayers, MayBeOrphaned, server
<1>8. StaleAreSilentPlayers'
  <2>1. ASSUME phase = "sweep", NEW i \in stale
        PROVE  i \in PlayerIds' /\ idle'[i] >= Timeout(i)'
    <3>1. i \in PlayerIds /\ idle[i] >= Timeout(i)
        BY <2>1 DEF IInv, StaleAreSilentPlayers
    <3>2. Timeout(i)' = Timeout(i) /\ Timeout(i) \in Nat
        BY <1>1, SessionsAssumption DEF Timeout
    <3> QED
        BY <1>2, <1>3, <3>1, <3>2
  <2> QED
      BY <1>1, <2>1 DEF StaleAreSilentPlayers, server
<1> QED
    BY <1>4, <1>5, <1>6, <1>7, <1>8 DEF IInv

-----------------------------------------------------------------------------
(* The invariant, and the theorems *)

(* Every step of the server, the network and the clock preserves it. *)
LEMMA NextIInv == IInv /\ [Next]_vars => IInv'
<1> SUFFICES ASSUME IInv, [Next]_vars PROVE IInv'
    OBVIOUS
<1>1. CASE Network
    BY <1>1, NetworkIInv DEF Network
<1>2. CASE Poll
    BY <1>2, ConnectIInv, DisconnectEventIInv, ReceiveIInv DEF Poll
<1>3. CASE Loop
  <2>1. CASE Run \/ EndPoll \/ EndSweep \/ QuitCommand \/ NoCommand \/ Update
      BY <2>1, LoopIInv
  <2>2. CASE \E id \in stale : TimeOut(id)
      BY <2>2, TimeOutIInv
  <2>3. CASE \E id \in PlayerIds : Kick(id)
      BY <2>3, KickIInv
  <2>4. CASE \E id \in 1..nextId : ScriptSetsPosition(id)
      BY <2>4, ScriptIInv
  <2>5. CASE Shutdown
      BY <2>5, ShutdownIInv
  <2> QED
      BY <1>3, <2>1, <2>2, <2>3, <2>4, <2>5 DEF Loop
<1>4. CASE Signal
    BY <1>4, LoopIInv
<1>5. CASE Clock
    BY <1>5, ClockIInv
<1>6. CASE UNCHANGED vars
    BY <1>6 DEF IInv, TypeOK, SlotsMatchIds, NoIdLeaks, TablesMatchPlayers,
                StaleAreSilentPlayers, MayBeOrphaned, Timeout, PlayerIds,
                vars, server, enet, tables
<1> QED
    BY <1>1, <1>2, <1>3, <1>4, <1>5, <1>6 DEF Next

(* The invariant holds of the server, for any number of slots. *)
THEOREM Invariance == Spec => []IInv
    BY InitIInv, NextIInv, PTL DEF Spec

(* Every variable keeps its type. *)
THEOREM TypeCorrect == Spec => []TypeOK
<1>1. IInv => TypeOK
    BY DEF IInv
<1> QED
    BY <1>1, Invariance, PTL

(* The slots' pointers and the id table never disagree: no packet and no   *)
(* late DISCONNECT event reaches another player's session.                 *)
THEOREM SlotsAlwaysMatchIds == Spec => []SlotsMatchIds
<1>1. IInv => SlotsMatchIds
    BY DEF IInv
<1> QED
    BY <1>1, Invariance, PTL

(* The allocator's free list and the players partition the ids ever used.  *)
THEOREM IdsNeverLeak == Spec => []NoIdLeaks
<1>1. IInv => NoIdLeaks
    BY DEF IInv
<1> QED
    BY <1>1, Invariance, PTL

(* No table keeps a key of a player who left, and no player lacks one.     *)
THEOREM TablesAlwaysMatchPlayers == Spec => []TablesMatchPlayers
<1>1. IInv => TablesMatchPlayers
    BY DEF IInv
<1> QED
    BY <1>1, Invariance, PTL
-----------------------------------------------------------------------------
(***************************************************************************)
(* What follows from the invariant about the steps: ids stay as few as     *)
(* slots, every session ends for a reason of its own, and the server       *)
(* implements SessionDirectory.                                            *)
(***************************************************************************)

(* How players_ may change in one step. *)
Stays == UNCHANGED players /\ UNCHANGED nextId

Opens(p, id) ==
    /\ phase = "poll" /\ st[p] = "connecting"
    /\ id \in AllocatableIds
    /\ nextId' = IF freeIds = {} THEN nextId + 1 ELSE nextId
    /\ players' = [i \in PlayerIds \cup {id} |-> IF i = id THEN p ELSE players[i]]

Ends(id) ==
    /\ id \in PlayerIds
    /\ players' = [i \in PlayerIds \ {id} |-> players[i]]
    /\ UNCHANGED nextId
    /\ EnetLetGo(players[id]) \/ TimedOut(id)

StopsAll ==
    /\ phase = "exiting"
    /\ players' = [i \in {} |-> 0]
    /\ nextId' = 1

SessionsChange ==
    \/ Stays
    \/ \E p \in Peers, id \in AllocatableIds : Opens(p, id)
    \/ \E id \in PlayerIds : Ends(id)
    \/ StopsAll

(* A DISCONNECT event ends at most the session of its own slot. *)
LEMMA DisconnectEventChange ==
    ASSUME IInv, NEW p \in Peers, DisconnectEvent(p)
    PROVE  SessionsChange
<1>1. data[p] \in Nat /\ st \in [Peers -> PeerStates]
    BY DEF IInv, TypeOK
<1>2. CASE data[p] > 0
  <2>1. data[p] \in PlayerIds /\ players[data[p]] = p
      BY <1>1, <1>2 DEF IInv, SlotsMatchIds
  <2>2. Cleanup(data[p])
      BY <1>2 DEF DisconnectEvent
  <2>3. EnetLetGo(p)
      BY <1>1 DEF DisconnectEvent, EnetLetGo
  <2>4. Ends(data[p])
      BY <2>1, <2>2, <2>3 DEF Ends, Cleanup, Without, PlayerIds
  <2> QED
      BY <2>1, <2>4 DEF SessionsChange
<1>3. CASE ~(data[p] > 0)
    BY <1>3 DEF DisconnectEvent, SessionsChange, Stays
<1> QED
    BY <1>2, <1>3

(* A timeout ends the session of a silent player. *)
LEMMA TimeOutChange ==
    ASSUME IInv, NEW id \in stale, TimeOut(id)
    PROVE  SessionsChange
<1>1. id \in PlayerIds /\ TimedOut(id)
    BY DEF TimeOut, IInv, StaleAreSilentPlayers, TimedOut
<1>2. Cleanup(id)
    BY DEF TimeOut
<1>3. Ends(id)
    BY <1>1, <1>2 DEF Ends, Cleanup, Without, PlayerIds
<1> QED
    BY <1>1, <1>3 DEF SessionsChange

(* A CONNECT event opens one session. *)
LEMMA ConnectChange ==
    ASSUME IInv, NEW p \in Peers, ConnectEvent(p)
    PROVE  SessionsChange
<1>1. PICK id \in AllocatableIds : AllocatePlayerId(id) /\ players' = With(players, id, p)
    BY DEF ConnectEvent
<1>2. Opens(p, id)
    BY <1>1 DEF ConnectEvent, Opens, AllocatePlayerId, With, PlayerIds
<1> QED
    BY <1>2 DEF SessionsChange

(* Every step changes players_ in one of these ways. *)
LEMMA StepChange == IInv /\ [Next]_vars => SessionsChange
<1> SUFFICES ASSUME IInv, [Next]_vars PROVE SessionsChange
    OBVIOUS
<1>1. CASE Network
    BY <1>1 DEF Network, ClientConnects, HandshakeLost, ClientDisconnects,
                tables, SessionsChange, Stays
<1>2. CASE Poll
  <2>1. ASSUME NEW p \in Peers, Receive(p) \/ ReceiveMalformed(p)
        PROVE  Stays
      BY <2>1 DEF Receive, ReceiveMalformed, SignOfLife, Stays
  <2> QED
      BY <1>2, <2>1, ConnectChange, DisconnectEventChange DEF Poll, SessionsChange
<1>3. CASE Loop
  <2>1. CASE Run \/ EndPoll \/ EndSweep \/ QuitCommand \/ NoCommand \/ Update
      BY <2>1 DEF Run, EndPoll, EndSweep, QuitCommand, NoCommand, Update,
                  tables, SessionsChange, Stays
  <2>2. CASE \E id \in PlayerIds : Kick(id)
      BY <2>2 DEF Kick, tables, SessionsChange, Stays
  <2>3. CASE \E id \in 1..nextId : ScriptSetsPosition(id)
      BY <2>3 DEF ScriptSetsPosition, SessionsChange, Stays
  <2>4. CASE Shutdown
      BY <2>4 DEF Shutdown, SessionsChange, StopsAll
  <2> QED
      BY <1>3, <2>1, <2>2, <2>3, <2>4, TimeOutChange DEF Loop
<1>4. CASE Signal \/ Clock \/ UNCHANGED vars
    BY <1>4 DEF Signal, Clock, vars, tables, SessionsChange, Stays
<1> QED
    BY <1>1, <1>2, <1>3, <1>4 DEF Next

-----------------------------------------------------------------------------
(* Every session ends for a reason of its own. *)

LEMMA OwnEndStep == IInv /\ SessionsChange => SessionStep
<1> SUFFICES ASSUME IInv, SessionsChange PROVE SessionStep
    OBVIOUS
<1> USE DEF SessionStep, EndsItsOwn, Left, PlayerIds
<1>1. CASE Stays
    BY <1>1 DEF Stays
<1>2. CASE \E p \in Peers, id \in AllocatableIds : Opens(p, id)
  <2>1. PICK p \in Peers, id \in AllocatableIds : Opens(p, id)
      BY <1>2
  <2>2. id \notin PlayerIds
      BY IInv DEF AllocatableIds, IInv, NoIdLeaks, TypeOK
  <2> QED
      BY <2>1, <2>2 DEF Opens
<1>3. CASE \E id \in PlayerIds : Ends(id)
    BY <1>3 DEF Ends
<1>4. CASE StopsAll
    BY <1>4 DEF StopsAll
<1> QED
    BY <1>1, <1>2, <1>3, <1>4 DEF SessionsChange

(* A session ends because ENet let go of its own slot, because its own     *)
(* player was silent for the whole of its timeout, or because the server   *)
(* stops; an id never changes hands.                                       *)
THEOREM EverySessionEndsItsOwn == Spec => OnlyItsOwnEnd
<1>1. IInv /\ [Next]_vars => [SessionStep]_vars
    BY StepChange, OwnEndStep
<1> QED
    BY <1>1, Invariance, PTL DEF Spec, OnlyItsOwnEnd

-----------------------------------------------------------------------------
(* Ids are as few as slots. *)

(* When no two of the ids 1..n have one slot, n is at most the number of   *)
(* slots.                                                                  *)
LEMMA FewPlayers ==
    ASSUME NEW n \in Nat, NEW f \in [1..n -> Peers],
           \A i, j \in 1..n : f[i] = f[j] => i = j
    PROVE  n <= Cardinality(Peers)
<1>1. f \in Injection(1..n, Peers)
    BY DEF Injection, IsInjective
<1>2. Cardinality(1..n) <= Cardinality(Peers)
    BY <1>1, SessionsAssumption, FS_Injection
<1>3. Cardinality(1..n) = IF 1 > n THEN 0 ELSE n - 1 + 1
    BY FS_Interval
<1> QED
    BY <1>2, <1>3

(* A new id is handed out only when every smaller one is played; that no   *)
(* slot plays two makes it at most one beyond the slots.                   *)
LEMMA IdsBoundedStep ==
    IInv /\ IInv' /\ IdsBounded /\ SessionsChange /\ [Next]_vars => IdsBounded'
<1> SUFFICES ASSUME IInv, IInv', IdsBounded, SessionsChange, [Next]_vars PROVE IdsBounded'
    OBVIOUS
<1>0. Cardinality(Peers) \in Nat /\ nextId \in Nat \ {0} /\ nextId' \in Nat \ {0}
    BY SessionsAssumption, FS_CardinalityType DEF IInv, TypeOK
<1>1. CASE nextId' = nextId \/ nextId' = 1
    BY <1>0, <1>1 DEF IdsBounded
<1>2. CASE nextId' # nextId /\ nextId' # 1
  <2>1. PICK p \in Peers, id \in AllocatableIds : Opens(p, id)
      BY <1>2 DEF SessionsChange, Stays, Ends, StopsAll
  <2>2. freeIds = {} /\ id = nextId /\ nextId' = nextId + 1
      BY <1>2, <2>1 DEF Opens, AllocatableIds
  <2>3. PlayerIds' = 1..(nextId' - 1)
    <3>1. PlayerIds = 1..(nextId - 1)
        BY <2>2 DEF IInv, NoIdLeaks
    <3>2. PlayerIds' = PlayerIds \cup {nextId}
        BY <2>1, <2>2 DEF Opens, PlayerIds
    <3> QED
        BY <1>0, <2>2, <3>1, <3>2
  <2>4. players' \in [1..(nextId' - 1) -> Peers] /\ nextId' - 1 \in Nat
      BY <1>0, <2>3 DEF IInv, TypeOK
  <2>5. \A i, j \in 1..(nextId' - 1) : players'[i] = players'[j] => i = j
      BY <2>3 DEF IInv, SlotsMatchIds
  <2>6. nextId' - 1 <= Cardinality(Peers)
      BY <2>4, <2>5, FewPlayers
  <2> QED
      BY <1>0, <2>6 DEF IdsBounded
<1> QED
    BY <1>1, <1>2

(* However long the server runs, no id exceeds the number of slots: the    *)
(* spawn grid and the clients' tables may count on small ids.              *)
THEOREM IdsStayBounded == Spec => []IdsBounded
<1>1. Init => IdsBounded
    BY SessionsAssumption, FS_CardinalityType DEF Init, IdsBounded
<1>2. IInv /\ IInv' /\ IdsBounded /\ [Next]_vars => IdsBounded'
    BY StepChange, IdsBoundedStep
<1> QED
    BY <1>1, <1>2, Invariance, PTL DEF Spec

-----------------------------------------------------------------------------
(* The server implements SessionDirectory. *)

(* The id a CONNECT event takes is the smallest nobody plays. *)
LEMMA AllocatesSmallest ==
    ASSUME IInv, NEW id \in AllocatableIds
    PROVE  Directory!IsSmallestUnused(id)
<1>1. /\ PlayerIds \cup freeIds = 1..(nextId - 1) /\ PlayerIds \cap freeIds = {}
      /\ freeIds \subseteq Nat \ {0} /\ nextId \in Nat \ {0}
    BY DEF IInv, NoIdLeaks, TypeOK
<1>2. CASE freeIds = {}
    BY <1>1, <1>2 DEF AllocatableIds, PlayerIds, Directory!IsSmallestUnused, Directory!Ids
<1>3. CASE freeIds # {}
  <2>1. id \in freeIds /\ \A other \in freeIds : id <= other
      BY <1>3 DEF AllocatableIds
  <2>2. \A smaller \in 1..(id - 1) : smaller \in 1..(nextId - 1) /\ smaller \notin freeIds
      BY <1>1, <2>1
  <2> QED
      BY <1>1, <2>1, <2>2 DEF PlayerIds, Directory!IsSmallestUnused, Directory!Ids
<1> QED
    BY <1>2, <1>3

(* Each way players_ changes is a step of the directory. *)
LEMMA ChangeIsDirectoryStep ==
    IInv /\ IInv' /\ IdsBounded' /\ SessionsChange => [Directory!Next]_players
<1> SUFFICES ASSUME IInv, IInv', IdsBounded', SessionsChange
             PROVE  [Directory!Next]_players
    OBVIOUS
<1>1. CASE Stays
    BY <1>1 DEF Stays
<1>2. CASE \E p \in Peers, id \in AllocatableIds : Opens(p, id)
  <2>1. PICK p \in Peers, id \in AllocatableIds : Opens(p, id)
      BY <1>2
  <2>2. p \notin Directory!Range
    <3>1. data[p] = 0
        BY <2>1 DEF Opens, IInv, SlotsMatchIds
    <3>2. \A i \in PlayerIds : data[players[i]] # 0
        BY DEF IInv, SlotsMatchIds, TypeOK
    <3> QED
        BY <3>1, <3>2 DEF Directory!Range, Directory!Ids, PlayerIds
  <2>3. id \in 1..Cardinality(Peers)
    <3>1. id \in PlayerIds'
        BY <2>1 DEF Opens, PlayerIds
    <3>2. PlayerIds' \subseteq 1..(nextId' - 1) /\ nextId' \in Nat
        BY DEF IInv, NoIdLeaks, TypeOK
    <3>3. nextId' <= Cardinality(Peers) + 1 /\ Cardinality(Peers) \in Nat
        BY SessionsAssumption, FS_CardinalityType DEF IdsBounded
    <3>4. id \in 1..(nextId' - 1)
        BY <3>1, <3>2
    <3>5. \A n, c \in Nat : n <= c + 1 => 1..(n - 1) \subseteq 1..c
        OBVIOUS
    <3>6. 1..(nextId' - 1) \subseteq 1..Cardinality(Peers)
        BY <3>2, <3>3, <3>5
    <3> QED
        BY <3>4, <3>6
  <2>4. Directory!Join(p, id)
      BY <2>1, <2>2, AllocatesSmallest
         DEF Opens, Directory!Join, Directory!Ids, PlayerIds
  <2> QED
      BY <2>3, <2>4 DEF Directory!Next
<1>3. CASE \E id \in PlayerIds : Ends(id)
  <2>1. PICK id \in PlayerIds : Ends(id)
      BY <1>3
  <2>2. Directory!Leave(id)
      BY <2>1 DEF Ends, Directory!Leave, Directory!Ids, PlayerIds
  <2> QED
      BY <2>2 DEF Directory!Next, Directory!Ids, PlayerIds
<1>4. CASE StopsAll
  <2>1. players' = [id \in {} |-> CHOOSE p \in Peers : TRUE]
      BY <1>4 DEF StopsAll
  <2> QED
      BY <2>1 DEF Directory!Next, Directory!Stop
<1> QED
    BY <1>1, <1>2, <1>3, <1>4 DEF SessionsChange

(* Whatever the network, the clock and the clients do, players_ behaves as *)
(* a directory that gives every newcomer the smallest id nobody holds.     *)
THEOREM ServerImplementsDirectory == Spec => ImplementsDirectory
<1>1. Init => Directory!Init
  <2>1. Init => players = [id \in {} |-> CHOOSE p \in Peers : TRUE]
      BY DEF Init
  <2> QED
      BY <2>1 DEF Directory!Init
<1>2. IInv /\ IInv' /\ IdsBounded' /\ [Next]_vars => [Directory!Next]_players
    BY StepChange, ChangeIsDirectoryStep
<1> QED
    BY <1>1, <1>2, Invariance, IdsStayBounded, PTL
       DEF Spec, ImplementsDirectory, Directory!Spec
=============================================================================
