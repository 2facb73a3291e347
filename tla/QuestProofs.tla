---------------------------- MODULE QuestProofs ----------------------------
(***************************************************************************)
(* Proofs about Quest, for any maps, portals and number of players.        *)
(*                                                                         *)
(* That stages go in order and that clients follow holds wherever there    *)
(* are quests.  That nobody inherits a quest, and with it that Luna pays   *)
(* once, holds as long as the map players start on is the only one with a  *)
(* quest: OneQuest.  Where another map has one, nothing begins that quest  *)
(* anew for the next holder of an id, so the hypothesis cannot be left     *)
(* out.                                                                    *)
(***************************************************************************)
EXTENDS Quest, TLAPS, SequenceTheorems

OneQuest == QuestScripts \subseteq {ScriptOf[DefaultMap]}

(* What is on its way to a client ends with what it is to do now: nobody   *)
(* is left with a transfer, or with an objective that has changed.         *)
LastIsCurrent ==
    \A p \in online : sent[p] # <<>> => sent[p][Len(sent[p])] = Current(p)

(* Holds wherever there are quests. *)
ShownInv == TypeOK /\ ObjectiveFollowsStage /\ LastIsCurrent

(* Holds where the start map has the only quest. *)
IInv == ShownInv /\ NewcomersStartOver /\ PaidExactlyOnce

(* The last element stays the last, and is the head when it is alone.      *)
LEMMA LastOfTail ==
    ASSUME NEW T, NEW s \in Seq(T), s # <<>>
    PROVE  IF Len(s) = 1 THEN Tail(s) = <<>> /\ Head(s) = s[Len(s)]
           ELSE Tail(s) # <<>> /\ Tail(s)[Len(Tail(s))] = s[Len(s)]
<1>0. \A t \in Seq(T) : t = <<>> <=> Len(t) = 0
  <2>1. Len(<<>>) = 0 /\ \A t \in Seq(T) : t # <<>> => Len(t) \in Nat \ {0}
      BY EmptySeq, Zenon
  <2> QED
      BY <2>1
<1>1. Len(s) \in Nat \ {0}
    BY EmptySeq
<1>2. /\ Tail(s) \in Seq(T) /\ Len(Tail(s)) = Len(s) - 1
      /\ \A i \in 1 .. Len(Tail(s)) : Tail(s)[i] = s[i + 1]
    BY HeadTailProperties
<1>3. CASE Len(s) = 1
  <2>1. Tail(s) = <<>>
    <3>1. Len(Tail(s)) = 0
        BY <1>2, <1>3
    <3> QED
        BY <1>0, <1>2, <3>1, Zenon
  <2> QED
      BY <1>3, <2>1
<1>4. CASE Len(s) # 1
  <2>1. Len(Tail(s)) \in 1 .. Len(Tail(s)) /\ Len(Tail(s)) + 1 = Len(s)
      BY <1>1, <1>2, <1>4
  <2>2. Tail(s) # <<>>
    <3>1. Len(Tail(s)) # 0
        BY <2>1
    <3> QED
        BY <1>0, <1>2, <3>1, Zenon
  <2> QED
      BY <1>2, <1>4, <2>1, <2>2
<1> QED
    BY <1>3, <1>4

USE DEF NOT_STARTED, SCOUT_ROAD, RETURN_TO_NPC, DONE, Stages, Explore, Blank, Transfer, Texts

(* What sending does to the channels. *)
LEMMA SendFacts ==
    ASSUME TypeOK, NEW p \in Players, NEW ms \in Seq(Texts \cup {Transfer}),
           ms # <<>>, Send(p, ms)
    PROVE  /\ sent' \in [Players -> Seq(Texts \cup {Transfer})]
           /\ sent'[p] # <<>> /\ sent'[p][Len(sent'[p])] = ms[Len(ms)]
           /\ \A q \in Players \ {p} : sent'[q] = sent[q]
<1> DEFINE T == Texts \cup {Transfer}
           s == sent[p]
<1>1. sent \in [Players -> Seq(T)] /\ sent' = [sent EXCEPT ![p] = s \o ms]
    BY DEF TypeOK, Send
<1>2. s \in Seq(T) /\ s \o ms \in Seq(T)
    BY <1>1
<1>3. Len(ms) \in Nat \ {0}
    BY EmptySeq, LenProperties
<1>4. Len(s \o ms) = Len(s) + Len(ms) /\ (s \o ms)[Len(s) + Len(ms)] = ms[Len(ms)]
    BY <1>2, <1>3
<1>5. s \o ms # <<>>
    BY <1>2, <1>3, <1>4
<1>6. sent'[p] = s \o ms
    BY <1>1
<1> HIDE DEF s, T
<1>7. sent' \in [Players -> Seq(T)] /\ \A q \in Players \ {p} : sent'[q] = sent[q]
    BY <1>1, <1>2
<1> QED
    BY <1>4, <1>5, <1>6, <1>7 DEF T

(* How a quest moves on for one player on one script: stage, objective     *)
(* and, at the end, the pay together.                                      *)
Progress(p, n) ==
    /\ p \in online /\ HasQuest(p)
    /\ SetStage(p, n) /\ Objective(p, n)
    /\ UNCHANGED <<online, mapOf, client>>
    /\ \/ /\ n = SCOUT_ROAD /\ stage[Module(p)][p] = NOT_STARTED
          /\ met' = [met EXCEPT ![p] = @ \cup {Module(p)}] /\ paid' = paid
       \/ /\ n = RETURN_TO_NPC /\ stage[Module(p)][p] = SCOUT_ROAD
          /\ met' = met /\ paid' = paid
       \/ /\ n = DONE /\ stage[Module(p)][p] = RETURN_TO_NPC
          /\ met' = met /\ paid' = [paid EXCEPT ![p][Module(p)] = @ + 1]

(* Luna either moves the quest on or, when the pack is full, does nothing; *)
(* the marker moves it on.                                                 *)
LEMMA TalkIsProgress ==
    ASSUME NEW p \in Players, TalkToLuna(p)
    PROVE  Progress(p, SCOUT_ROAD) \/ Progress(p, DONE) \/ UNCHANGED vars
<1>1. CASE Welcome(p)
    BY <1>1 DEF TalkToLuna, Welcome, Progress
<1>2. ASSUME Reward(p) PROVE Progress(p, DONE) \/ UNCHANGED vars
  <2>1. CASE /\ SetStage(p, DONE) /\ Objective(p, DONE)
             /\ paid' = [paid EXCEPT ![p][Module(p)] = @ + 1]
      BY <1>2, <2>1 DEF TalkToLuna, Reward, Progress
  <2>2. CASE UNCHANGED <<stage, sent, paid>>
      BY <1>2, <2>2 DEF TalkToLuna, Reward, vars, client
  <2> QED
      BY <1>2, <2>1, <2>2 DEF Reward
<1> QED
    BY <1>1, <1>2 DEF TalkToLuna

LEMMA MarkerIsProgress ==
    ASSUME NEW p \in Players, ReachMarker(p)
    PROVE  Progress(p, RETURN_TO_NPC)
BY DEF ReachMarker, Progress

(* What progress changes. *)
LEMMA ProgressFacts ==
    ASSUME TypeOK, NEW p \in Players, NEW n \in Stages, Progress(p, n)
    PROVE  /\ Module(p) \in QuestScripts
           /\ UNCHANGED <<online, mapOf, shown, told, playing>>
           /\ n = stage[Module(p)][p] + 1
           /\ \A q \in Players, s \in QuestScripts :
                 stage'[s][q] = IF s = Module(p) /\ q = p THEN n ELSE stage[s][q]
           /\ sent' \in [Players -> Seq(Texts \cup {Transfer})]
           /\ sent'[p] # <<>> /\ sent'[p][Len(sent'[p])] = n
           /\ \A q \in Players \ {p} : sent'[q] = sent[q]
           /\ \A q \in Players, s \in QuestScripts :
                 paid'[q][s] = IF s = Module(p) /\ q = p /\ n = DONE
                                  THEN paid[q][s] + 1 ELSE paid[q][s]
<1> DEFINE m == Module(p)
<1>1. m \in QuestScripts /\ UNCHANGED <<online, mapOf, shown, told, playing>> /\ n = stage[m][p] + 1
    BY DEF Progress, HasQuest, client
<1>2. stage' = [stage EXCEPT ![m][p] = n] /\ Send(p, <<n>>)
    BY DEF Progress, SetStage, Objective
<1>3. paid' = (IF n = DONE THEN [paid EXCEPT ![p][m] = @ + 1] ELSE paid)
    BY DEF Progress
<1> HIDE DEF m
<1>4. \A q \in Players, s \in QuestScripts :
         stage'[s][q] = IF s = m /\ q = p THEN n ELSE stage[s][q]
    BY <1>1, <1>2 DEF TypeOK
<1>5. /\ sent' \in [Players -> Seq(Texts \cup {Transfer})]
      /\ sent'[p] # <<>> /\ sent'[p][Len(sent'[p])] = n
      /\ \A q \in Players \ {p} : sent'[q] = sent[q]
  <2>1. <<n>> \in Seq(Texts \cup {Transfer}) /\ <<n>> # <<>> /\ <<n>>[Len(<<n>>)] = n
      OBVIOUS
  <2> HIDE DEF Texts
  <2> QED
      BY <1>2, <2>1, SendFacts
<1>6. \A q \in Players, s \in QuestScripts :
         paid'[q][s] = IF s = m /\ q = p /\ n = DONE THEN paid[q][s] + 1 ELSE paid[q][s]
    BY <1>1, <1>3 DEF TypeOK
<1> QED
    BY <1>1, <1>4, <1>5, <1>6 DEF m

(* Who comes or goes leaves the others' stages alone. *)
LEMMA OthersStages ==
    ASSUME TypeOK, NEW p \in Players, Connect(p) \/ Disconnect(p), NEW q \in Players \ {p}
    PROVE  \A s \in QuestScripts : stage'[s][q] = stage[s][q]
<1>1. CASE stage' = stage
    BY <1>1
<1>2. ASSUME NEW m \in QuestScripts, stage' = [stage EXCEPT ![m][p] = NOT_STARTED]
      PROVE  \A s \in QuestScripts : stage'[s][q] = stage[s][q]
    BY <1>2 DEF TypeOK
<1>3. CASE Connect(p)
    BY <1>1, <1>2, <1>3 DEF Connect
<1>4. CASE Disconnect(p)
    BY <1>1, <1>2, <1>4 DEF Disconnect, SetStage, HasQuest
<1> QED
    BY <1>3, <1>4

-----------------------------------------------------------------------------
(* Types *)

(* What comes with a connection, and the client behind it. *)
LEMMA ConnectFacts ==
    ASSUME TypeOK, NEW p \in Players, Connect(p)
    PROVE  /\ online' = online \cup {p}
           /\ mapOf' = [mapOf EXCEPT ![p] = DefaultMap] /\ mapOf' \in [Players -> Maps]
           /\ stage' \in [QuestScripts -> [Players -> Stages]]
           /\ sent' \in [Players -> Seq(Texts \cup {Transfer})]
           /\ sent'[p] # <<>> /\ sent'[p][Len(sent'[p])] = Current(p)'
           /\ \A q \in Players \ {p} : sent'[q] = sent[q] /\ shown'[q] = shown[q]
           /\ shown' \in [Players -> Texts \cup {Blank}]
           /\ told' = told \ {p} /\ playing' = playing \ {p}
<1> DEFINE start == ScriptOf[DefaultMap]
           T == Texts \cup {Transfer}
<1>1. /\ online' = online \cup {p}
      /\ mapOf' = [mapOf EXCEPT ![p] = DefaultMap] /\ mapOf' \in [Players -> Maps]
      /\ mapOf'[p] = DefaultMap
    BY QuestAssumption DEF Connect, TypeOK
<1>2. /\ \A q \in Players \ {p} : shown'[q] = shown[q]
      /\ shown' \in [Players -> Texts \cup {Blank}]
      /\ told' = told \ {p} /\ playing' = playing \ {p}
    BY DEF Connect, NewClient, TypeOK
<1>3. /\ stage' \in [QuestScripts -> [Players -> Stages]]
      /\ \E ms \in Seq(T) : ms # <<>> /\ Send(p, ms) /\ ms[Len(ms)] = Current(p)'
  <2>1. CASE start \in QuestScripts
    <3>1. stage' = [stage EXCEPT ![start][p] = NOT_STARTED] /\ Send(p, <<NOT_STARTED, NOT_STARTED>>)
        BY <2>1 DEF Connect
    <3>2. stage' \in [QuestScripts -> [Players -> Stages]] /\ stage'[start][p] = NOT_STARTED
        BY <2>1, <3>1 DEF TypeOK
    <3>3. Current(p)' = NOT_STARTED
        BY <1>1, <2>1, <3>2 DEF Current, HasQuest, Module
    <3>4. /\ <<NOT_STARTED, NOT_STARTED>> \in Seq(T) /\ <<NOT_STARTED, NOT_STARTED>> # <<>>
          /\ <<NOT_STARTED, NOT_STARTED>>[Len(<<NOT_STARTED, NOT_STARTED>>)] = NOT_STARTED
        OBVIOUS
    <3> HIDE DEF T, NOT_STARTED
    <3> QED
        BY <3>1, <3>2, <3>3, <3>4
  <2>2. CASE start \notin QuestScripts
    <3>1. stage' = stage /\ Send(p, <<Explore>>)
        BY <2>2 DEF Connect, Objective
    <3>2. Current(p)' = Explore
        BY <1>1, <2>2 DEF Current, HasQuest, Module
    <3>3. <<Explore>> \in Seq(T) /\ <<Explore>> # <<>> /\ <<Explore>>[Len(<<Explore>>)] = Explore
        OBVIOUS
    <3> HIDE DEF T, Explore
    <3> QED
        BY <3>1, <3>2, <3>3 DEF TypeOK
  <2> QED
      BY <2>1, <2>2
<1>4. /\ sent' \in [Players -> Seq(T)]
      /\ sent'[p] # <<>> /\ sent'[p][Len(sent'[p])] = Current(p)'
      /\ \A q \in Players \ {p} : sent'[q] = sent[q]
    BY <1>3, SendFacts
<1> QED
    BY <1>1, <1>2, <1>3, <1>4

LEMMA ConnectTyped ==
    ASSUME TypeOK, NEW p \in Players, Connect(p)
    PROVE  TypeOK'
<1>1. /\ paid' \in [Players -> [QuestScripts -> Nat]]
      /\ met' \in [Players -> SUBSET QuestScripts]
    BY DEF Connect, TypeOK
<1> QED
    BY <1>1, ConnectFacts DEF TypeOK

LEMMA ProgressTyped ==
    ASSUME TypeOK, NEW p \in Players, NEW n \in Stages, Progress(p, n)
    PROVE  TypeOK'
<1> DEFINE m == Module(p)
<1>1. /\ m \in QuestScripts /\ UNCHANGED <<online, mapOf, shown, told, playing>>
      /\ sent' \in [Players -> Seq(Texts \cup {Transfer})]
    BY ProgressFacts
<1>2. stage' = [stage EXCEPT ![m][p] = n]
    BY DEF Progress, SetStage
<1>3. paid' = paid \/ paid' = [paid EXCEPT ![p][m] = @ + 1]
    BY DEF Progress
<1>4. met' = met \/ met' = [met EXCEPT ![p] = met[p] \cup {m}]
    BY DEF Progress
<1> HIDE DEF m
<1>5. stage' \in [QuestScripts -> [Players -> Stages]]
    BY <1>1, <1>2 DEF TypeOK
<1>6. paid' \in [Players -> [QuestScripts -> Nat]]
  <2>1. CASE paid' = [paid EXCEPT ![p][m] = @ + 1]
    <3>1. paid[p] \in [QuestScripts -> Nat] /\ paid[p][m] + 1 \in Nat
        BY <1>1 DEF TypeOK
    <3>2. paid' = [paid EXCEPT ![p] = [paid[p] EXCEPT ![m] = paid[p][m] + 1]]
        BY <2>1
    <3>3. [paid[p] EXCEPT ![m] = paid[p][m] + 1] \in [QuestScripts -> Nat]
        BY <3>1
    <3> QED
        BY <3>2, <3>3 DEF TypeOK
  <2> QED
      BY <1>3, <2>1 DEF TypeOK
<1>7. met' \in [Players -> SUBSET QuestScripts]
  <2>1. met[p] \cup {m} \in SUBSET QuestScripts
      BY <1>1 DEF TypeOK
  <2> QED
      BY <1>4, <2>1 DEF TypeOK
<1> QED
    BY <1>1, <1>5, <1>6, <1>7 DEF TypeOK

LEMMA TravelFacts ==
    ASSUME TypeOK, NEW p \in Players, NEW m \in Maps, Travel(p, m)
    PROVE  /\ UNCHANGED <<online, stage, shown, told, playing, paid, met>>
           /\ mapOf' \in [Players -> Maps] /\ mapOf' = [mapOf EXCEPT ![p] = m]
           /\ sent' \in [Players -> Seq(Texts \cup {Transfer})]
           /\ sent'[p] # <<>> /\ sent'[p][Len(sent'[p])] = Current(p)'
           /\ \A q \in Players \ {p} : sent'[q] = sent[q]
<1> DEFINE n == IF ScriptOf[m] \in QuestScripts THEN stage[ScriptOf[m]][p] ELSE Explore
<1>1. /\ UNCHANGED <<online, stage, shown, told, playing, paid, met>>
      /\ mapOf' \in [Players -> Maps] /\ mapOf' = [mapOf EXCEPT ![p] = m]
      /\ Send(p, <<Transfer, n>>)
    BY DEF Travel, client, TypeOK
<1>2. n \in Texts /\ n = Current(p)'
    BY <1>1 DEF Current, HasQuest, Module, TypeOK
<1> HIDE DEF n
<1>3. /\ <<Transfer, n>> \in Seq(Texts \cup {Transfer}) /\ <<Transfer, n>> # <<>>
      /\ <<Transfer, n>>[Len(<<Transfer, n>>)] = n
    BY <1>2
<1> HIDE DEF Texts, Transfer
<1>4. /\ sent' \in [Players -> Seq(Texts \cup {Transfer})]
      /\ sent'[p] # <<>> /\ sent'[p][Len(sent'[p])] = n
      /\ \A q \in Players \ {p} : sent'[q] = sent[q]
    BY <1>1, <1>3, SendFacts
<1> QED
    BY <1>1, <1>2, <1>4

LEMMA TravelTyped ==
    ASSUME TypeOK, NEW p \in Players, NEW m \in Maps, Travel(p, m)
    PROVE  TypeOK'
BY TravelFacts DEF TypeOK

LEMMA DisconnectTyped ==
    ASSUME TypeOK, NEW p \in Players, Disconnect(p)
    PROVE  TypeOK'
<1>1. /\ online' \subseteq Players
      /\ mapOf' \in [Players -> Maps]
      /\ sent' \in [Players -> Seq(Texts \cup {Transfer})]
      /\ shown' \in [Players -> Texts \cup {Blank}]
      /\ told' \subseteq online' /\ playing' \subseteq online'
      /\ UNCHANGED <<paid, met>>
    BY QuestAssumption DEF Disconnect, TypeOK
<1>2. CASE HasQuest(p)
  <2>1. stage' = [stage EXCEPT ![Module(p)][p] = NOT_STARTED] /\ Module(p) \in QuestScripts
      BY <1>2 DEF Disconnect, SetStage, HasQuest
  <2> QED
      BY <1>1, <2>1 DEF TypeOK
<1>3. CASE ~HasQuest(p)
    BY <1>1, <1>3 DEF Disconnect, TypeOK
<1> QED
    BY <1>2, <1>3

(* What a client hears: all but the oldest message is still on its way.    *)
LEMMA HearFacts ==
    ASSUME TypeOK, NEW p \in Players, Hear(p)
    PROVE  /\ UNCHANGED <<online, mapOf, stage, playing, paid, met>>
           /\ sent[p] # <<>> /\ Head(sent[p]) \in Texts \cup {Transfer}
           /\ sent' \in [Players -> Seq(Texts \cup {Transfer})]
           /\ sent'[p] = Tail(sent[p])
           /\ \A q \in Players \ {p} : sent'[q] = sent[q] /\ shown'[q] = shown[q]
           /\ shown' \in [Players -> Texts \cup {Blank}]
           /\ shown'[p] = IF Head(sent[p]) = Transfer THEN Blank ELSE Head(sent[p])
           /\ told' = IF Head(sent[p]) = Transfer THEN told \ {p} ELSE told \cup {p}
           /\ p \in online
<1> DEFINE T == Texts \cup {Transfer}
           h == Head(sent[p])
<1>1. /\ UNCHANGED <<online, mapOf, stage, playing, paid, met>> /\ p \in online
      /\ sent[p] # <<>> /\ sent' = [sent EXCEPT ![p] = Tail(sent[p])]
      /\ shown' = [shown EXCEPT ![p] = IF h = Transfer THEN Blank ELSE h]
      /\ told' = IF h = Transfer THEN told \ {p} ELSE told \cup {p}
    BY DEF Hear
<1>2. sent \in [Players -> Seq(T)] /\ sent[p] \in Seq(T) /\ shown \in [Players -> Texts \cup {Blank}]
    BY DEF TypeOK
<1>3. h \in T /\ Tail(sent[p]) \in Seq(T)
    BY <1>1, <1>2
<1>4. (IF h = Transfer THEN Blank ELSE h) \in Texts \cup {Blank}
    BY <1>3
<1> HIDE DEF T, h
<1>5. /\ sent' \in [Players -> Seq(T)] /\ sent'[p] = Tail(sent[p])
      /\ \A q \in Players \ {p} : sent'[q] = sent[q]
    BY <1>1, <1>2, <1>3
<1>6. /\ shown' \in [Players -> Texts \cup {Blank}]
      /\ shown'[p] = IF h = Transfer THEN Blank ELSE h
      /\ \A q \in Players \ {p} : shown'[q] = shown[q]
    BY <1>1, <1>2, <1>4
<1> QED
    BY <1>1, <1>3, <1>5, <1>6 DEF T, h

LEMMA HearTyped ==
    ASSUME TypeOK, NEW p \in Players, Hear(p)
    PROVE  TypeOK'
<1>1. told' \subseteq online'
  <2>1. /\ told \subseteq online /\ online' = online /\ p \in online
        /\ told' = IF Head(sent[p]) = Transfer THEN told \ {p} ELSE told \cup {p}
      BY HearFacts DEF TypeOK
  <2> QED
      BY <2>1
<1> QED
    BY <1>1, HearFacts DEF TypeOK

LEMMA StartLoginTyped ==
    ASSUME TypeOK, NEW p \in Players, StartLogin(p)
    PROVE  TypeOK'
<1>1. UNCHANGED <<online, mapOf, stage, sent, paid, met>>
    BY DEF StartLogin
<1>2. shown' \in [Players -> Texts \cup {Blank}] /\ told' \subseteq online
    BY DEF StartLogin, TypeOK
<1>3. playing' \subseteq online
    BY DEF StartLogin, TypeOK
<1> QED
    BY <1>1, <1>2, <1>3 DEF TypeOK

LEMMA InitTyped == Init => TypeOK
BY QuestAssumption DEF Init, TypeOK

LEMMA NextTyped == TypeOK /\ [Next]_vars => TypeOK'
<1> SUFFICES ASSUME TypeOK, [Next]_vars PROVE TypeOK'
    OBVIOUS
<1>1. CASE UNCHANGED vars
    BY <1>1 DEF vars, TypeOK
<1>2. ASSUME NEW p \in Players, TalkToLuna(p) PROVE TypeOK'
    BY <1>1, <1>2, TalkIsProgress, ProgressTyped
<1>3. ASSUME NEW p \in Players, ReachMarker(p) PROVE TypeOK'
    BY <1>3, MarkerIsProgress, ProgressTyped
<1> QED
    BY <1>1, <1>2, <1>3, ConnectTyped, TravelTyped, DisconnectTyped, HearTyped,
       StartLoginTyped DEF Next

(* Type correctness, wherever there are quests. *)
THEOREM TypeCorrect == Spec => []TypeOK
BY InitTyped, NextTyped, PTL DEF Spec

-----------------------------------------------------------------------------
(* Stages *)

(* A step moves a quest of a session that lasts one stage on, or none. *)
LEMMA NextQuestStep == TypeOK /\ [Next]_vars => QuestStep
<1> SUFFICES ASSUME TypeOK, [Next]_vars, NEW p \in online \cap online'
             PROVE  \/ \A s \in QuestScripts : stage'[s][p] = stage[s][p]
                    \/ /\ stage'[Module(p)][p] = stage[Module(p)][p] + 1
                       /\ \A s \in QuestScripts \ {Module(p)} : stage'[s][p] = stage[s][p]
    BY DEF QuestStep
<1>1. p \in Players
    BY DEF TypeOK
<1>2. CASE UNCHANGED vars
    BY <1>2 DEF vars
<1>3. ASSUME NEW q \in Players, Connect(q)
      PROVE  \A s \in QuestScripts : stage'[s][p] = stage[s][p]
  <2>1. p # q
      BY <1>3 DEF Connect
  <2> QED
      BY <1>1, <1>3, <2>1, OthersStages
<1>4. ASSUME NEW q \in Players, NEW n \in Stages, Progress(q, n)
      PROVE  \/ \A s \in QuestScripts : stage'[s][p] = stage[s][p]
             \/ /\ stage'[Module(p)][p] = stage[Module(p)][p] + 1
                /\ \A s \in QuestScripts \ {Module(p)} : stage'[s][p] = stage[s][p]
    BY <1>1, <1>4, ProgressFacts
<1>5. ASSUME NEW q \in Players, Disconnect(q)
      PROVE  \A s \in QuestScripts : stage'[s][p] = stage[s][p]
  <2>1. p # q
      BY <1>5 DEF Disconnect
  <2> QED
      BY <1>1, <1>5, <2>1, OthersStages
<1>6. ASSUME NEW q \in Players, NEW m \in Maps, Travel(q, m)
      PROVE  \A s \in QuestScripts : stage'[s][p] = stage[s][p]
    BY <1>6 DEF Travel
<1>7. ASSUME NEW q \in Players, Hear(q) \/ StartLogin(q)
      PROVE  \A s \in QuestScripts : stage'[s][p] = stage[s][p]
    BY <1>7 DEF Hear, StartLogin
<1>8. CASE \E q \in Players : TalkToLuna(q) \/ ReachMarker(q)
    BY <1>2, <1>4, <1>8, TalkIsProgress, MarkerIsProgress
<1> QED
    BY <1>2, <1>3, <1>5, <1>6, <1>7, <1>8 DEF Next

(* As long as a session lasts, its quests go forward, a stage at a time,   *)
(* one quest at a time, wherever there are quests.                         *)
THEOREM StagesGoInOrder == Spec => StagesInOrder
<1>1. TypeOK /\ [Next]_vars => [QuestStep]_vars
    BY NextQuestStep
<1> QED
    BY <1>1, TypeCorrect, PTL DEF Spec, StagesInOrder

-----------------------------------------------------------------------------
(* Objectives *)

(* A step that sends one client what it is to do, and leaves the others    *)
(* alone.                                                                  *)
LEMMA SendingShown ==
    ASSUME ShownInv, NEW p \in Players, online' \subseteq online \cup {p}, online \subseteq Players,
           sent'[p] # <<>>, sent'[p][Len(sent'[p])] = Current(p)',
           \A q \in online \ {p} :
               /\ sent'[q] = sent[q] /\ shown'[q] = shown[q]
               /\ q \in told' <=> q \in told
               /\ Current(q)' = Current(q)
    PROVE  ObjectiveFollowsStage' /\ LastIsCurrent'
<1>1. ASSUME NEW q \in online'
      PROVE  /\ sent'[q] = <<>> => shown'[q] = IF q \in told' THEN Current(q)' ELSE Blank
             /\ sent'[q] # <<>> => sent'[q][Len(sent'[q])] = Current(q)'
  <2>1. CASE q = p
      BY <2>1
  <2>2. CASE q # p
      BY <1>1, <2>2 DEF ShownInv, ObjectiveFollowsStage, LastIsCurrent
  <2> QED
      BY <2>1, <2>2
<1> QED
    BY <1>1 DEF ObjectiveFollowsStage, LastIsCurrent

LEMMA ConnectShown ==
    ASSUME ShownInv, NEW p \in Players, Connect(p)
    PROVE  ObjectiveFollowsStage' /\ LastIsCurrent'
<1>1. TypeOK /\ online \subseteq Players
    BY DEF ShownInv, TypeOK
<1>2. ASSUME NEW q \in online \ {p}
      PROVE  /\ sent'[q] = sent[q] /\ shown'[q] = shown[q]
             /\ q \in told' <=> q \in told
             /\ Current(q)' = Current(q)
  <2>1. \A s \in QuestScripts : stage'[s][q] = stage[s][q]
      BY <1>1, OthersStages
  <2>2. mapOf'[q] = mapOf[q]
      BY <1>1, ConnectFacts DEF TypeOK
  <2> QED
      BY <1>1, <2>1, <2>2, ConnectFacts DEF Current, HasQuest, Module
<1> QED
    BY <1>1, <1>2, ConnectFacts, SendingShown

LEMMA ProgressShown ==
    ASSUME ShownInv, NEW p \in Players, NEW n \in Stages, Progress(p, n)
    PROVE  ObjectiveFollowsStage' /\ LastIsCurrent'
<1>1. TypeOK /\ online \subseteq Players
    BY DEF ShownInv, TypeOK
<1>2. \A q \in Players : Module(q)' = Module(q) /\ (HasQuest(q)' <=> HasQuest(q))
    BY <1>1, ProgressFacts DEF HasQuest, Module
<1>3. Current(p)' = n
    BY <1>1, <1>2, ProgressFacts DEF Current, HasQuest
<1>4. \A q \in online \ {p} : Current(q)' = Current(q)
    BY <1>1, <1>2, ProgressFacts DEF Current, HasQuest
<1> QED
    BY <1>1, <1>3, <1>4, ProgressFacts, SendingShown

LEMMA TravelShown ==
    ASSUME ShownInv, NEW p \in Players, NEW m \in Maps, Travel(p, m)
    PROVE  ObjectiveFollowsStage' /\ LastIsCurrent'
<1>1. TypeOK /\ online \subseteq Players
    BY DEF ShownInv, TypeOK
<1>2. \A q \in online \ {p} : Current(q)' = Current(q)
    BY <1>1, TravelFacts DEF Current, HasQuest, Module, TypeOK
<1> QED
    BY <1>1, <1>2, TravelFacts, SendingShown

LEMMA DisconnectShown ==
    ASSUME ShownInv, NEW p \in Players, Disconnect(p)
    PROVE  ObjectiveFollowsStage' /\ LastIsCurrent'
<1>1. ASSUME NEW q \in online'
      PROVE  /\ q \in online
             /\ sent'[q] = sent[q] /\ shown'[q] = shown[q]
             /\ q \in told' <=> q \in told
             /\ Current(q)' = Current(q)
  <2>1. q \in online /\ q # p /\ q \in Players
      BY <1>1 DEF Disconnect, ShownInv, TypeOK
  <2>2. /\ mapOf'[q] = mapOf[q] /\ sent'[q] = sent[q] /\ shown'[q] = shown[q]
        /\ q \in told' <=> q \in told
      BY <2>1 DEF Disconnect, ShownInv, TypeOK
  <2>3. \A s \in QuestScripts : stage'[s][q] = stage[s][q]
      BY <2>1, OthersStages DEF ShownInv
  <2> QED
      BY <2>1, <2>2, <2>3 DEF Current, HasQuest, Module
<1> QED
    BY <1>1 DEF ShownInv, ObjectiveFollowsStage, LastIsCurrent

(* Only the last message counts: it is what the client is to do, and no    *)
(* transfer.                                                               *)
LEMMA HearShown ==
    ASSUME ShownInv, NEW p \in Players, Hear(p)
    PROVE  ObjectiveFollowsStage' /\ LastIsCurrent'
<1> DEFINE T == Texts \cup {Transfer}
           s == sent[p]
<1>1. TypeOK /\ online \subseteq Players /\ s \in Seq(T)
    BY DEF ShownInv, TypeOK
<1>2. \A q \in Players : Current(q)' = Current(q) /\ Current(q) \in Texts
  <2>1. UNCHANGED <<mapOf, stage>>
      BY <1>1, HearFacts
  <2> QED
      BY <1>1, <2>1 DEF Current, HasQuest, Module, TypeOK
<1>3. s # <<>> /\ s[Len(s)] = Current(p)
    BY <1>1, HearFacts DEF ShownInv, LastIsCurrent
<1> HIDE DEF T
<1>6. p \in Players /\ Current(p) # Transfer
    BY <1>2
<1>4. CASE Len(s) = 1
  <2>1. Head(s) = Current(p) /\ Tail(s) = <<>>
      BY <1>1, <1>3, <1>4, LastOfTail
  <2>2. sent'[p] = <<>> /\ shown'[p] = Current(p)' /\ p \in told'
    <3>1. Head(sent[p]) # Transfer /\ Current(p)' = Head(sent[p])
        BY <1>2, <1>6, <2>1
    <3> QED
        BY <1>1, <2>1, <3>1, HearFacts
  <2>3. ASSUME NEW q \in online', q # p
        PROVE  /\ q \in online
               /\ sent'[q] = sent[q] /\ shown'[q] = shown[q]
               /\ q \in told' <=> q \in told
               /\ Current(q)' = Current(q)
      BY <1>1, <1>2, <2>3, HearFacts
  <2> QED
      BY <2>2, <2>3 DEF ShownInv, ObjectiveFollowsStage, LastIsCurrent
<1>5. CASE Len(s) # 1
  <2>1. Tail(s) # <<>> /\ Tail(s)[Len(Tail(s))] = s[Len(s)]
      BY <1>1, <1>3, <1>5, LastOfTail
  <2>2. sent'[p] # <<>> /\ sent'[p][Len(sent'[p])] = Current(p)'
      BY <1>1, <1>2, <1>3, <2>1, HearFacts
  <2>3. \A q \in online \ {p} :
           /\ sent'[q] = sent[q] /\ shown'[q] = shown[q]
           /\ q \in told' <=> q \in told
           /\ Current(q)' = Current(q)
      BY <1>1, <1>2, HearFacts
  <2>4. online' \subseteq online \cup {p}
      BY <1>1, HearFacts
  <2> QED
      BY <1>1, <2>2, <2>3, <2>4, SendingShown
<1> QED
    BY <1>4, <1>5

LEMMA StartLoginShown ==
    ASSUME ShownInv, NEW p \in Players, StartLogin(p)
    PROVE  ObjectiveFollowsStage' /\ LastIsCurrent'
<1>1. /\ UNCHANGED <<online, mapOf, stage, sent>>
      /\ shown' = [shown EXCEPT ![p] = Blank] /\ told' = told \ {p}
      /\ online \subseteq Players /\ shown \in [Players -> Texts \cup {Blank}]
    BY DEF StartLogin, ShownInv, TypeOK
<1>2. \A q \in Players : Current(q)' = Current(q)
    BY <1>1 DEF Current, HasQuest, Module
<1>3. shown'[p] = Blank /\ \A q \in Players \ {p} : shown'[q] = shown[q]
    BY <1>1
<1> QED
    BY <1>1, <1>2, <1>3 DEF ShownInv, ObjectiveFollowsStage, LastIsCurrent

LEMMA InitShown == Init => ShownInv
BY InitTyped DEF Init, ShownInv, ObjectiveFollowsStage, LastIsCurrent

LEMMA NextShown == ShownInv /\ [Next]_vars => ShownInv'
<1> SUFFICES ASSUME ShownInv, [Next]_vars PROVE ObjectiveFollowsStage' /\ LastIsCurrent'
    BY NextTyped DEF ShownInv
<1>1. CASE UNCHANGED vars
    BY <1>1 DEF vars, client, ShownInv, ObjectiveFollowsStage, LastIsCurrent, Current, HasQuest,
                Module
<1>2. ASSUME NEW p \in Players, TalkToLuna(p) PROVE ObjectiveFollowsStage' /\ LastIsCurrent'
    BY <1>1, <1>2, TalkIsProgress, ProgressShown
<1>3. ASSUME NEW p \in Players, ReachMarker(p) PROVE ObjectiveFollowsStage' /\ LastIsCurrent'
    BY <1>3, MarkerIsProgress, ProgressShown
<1> QED
    BY <1>1, <1>2, <1>3, ConnectShown, TravelShown, DisconnectShown, HearShown,
       StartLoginShown DEF Next

(* A client that has heard all it was sent shows what the script of its    *)
(* map has it do now, or nothing since it cleared its objective, wherever  *)
(* there are quests.                                                       *)
THEOREM ObjectiveAlwaysFollows == Spec => []ObjectiveFollowsStage
<1>1. Spec => []ShownInv
    BY InitShown, NextShown, PTL DEF Spec
<1>2. ShownInv => ObjectiveFollowsStage
    BY DEF ShownInv
<1> QED
    BY <1>1, <1>2, PTL

-----------------------------------------------------------------------------
(* Newcomers and pay *)

LEMMA InitIInv == Init => IInv
BY InitShown DEF Init, IInv, NewcomersStartOver, PaidExactlyOnce

(* A newcomer's quest is not started. *)
LEMMA ConnectIInv ==
    ASSUME OneQuest, IInv, NEW p \in Players, Connect(p)
    PROVE  NewcomersStartOver' /\ PaidExactlyOnce'
<1> DEFINE start == ScriptOf[DefaultMap]
<1>1. \A s \in QuestScripts : s = start
    BY DEF OneQuest
<1>2. /\ online' = online \cup {p}
      /\ paid' = [paid EXCEPT ![p] = [s \in QuestScripts |-> 0]]
      /\ met' = [met EXCEPT ![p] = {}]
      /\ start \in QuestScripts => stage' = [stage EXCEPT ![start][p] = NOT_STARTED]
    BY DEF Connect
<1>3. \A s \in QuestScripts : stage'[s][p] = NOT_STARTED /\ paid'[p][s] = 0
    BY <1>1, <1>2 DEF IInv, ShownInv, TypeOK
<1>4. \A q \in online' \ {p} :
         /\ q \in online
         /\ \A s \in QuestScripts : stage'[s][q] = stage[s][q]
         /\ paid'[q] = paid[q] /\ met'[q] = met[q]
    BY <1>1, <1>2 DEF IInv, ShownInv, TypeOK
<1>5. NewcomersStartOver'
    BY <1>3, <1>4 DEF NewcomersStartOver, IInv
<1>6. PaidExactlyOnce'
    BY <1>3, <1>4 DEF PaidExactlyOnce, IInv
<1> QED
    BY <1>5, <1>6

LEMMA ProgressIInv ==
    ASSUME IInv, NEW p \in Players, NEW n \in Stages, Progress(p, n)
    PROVE  NewcomersStartOver' /\ PaidExactlyOnce'
<1> DEFINE m == Module(p)
<1>1. /\ m \in QuestScripts
      /\ online' = online
      /\ n = stage[m][p] + 1
      /\ \A q \in Players, s \in QuestScripts :
            stage'[s][q] = IF s = m /\ q = p THEN n ELSE stage[s][q]
      /\ \A q \in Players, s \in QuestScripts :
            paid'[q][s] = IF s = m /\ q = p /\ n = DONE THEN paid[q][s] + 1 ELSE paid[q][s]
    BY ProgressFacts DEF IInv, ShownInv
<1>2. p \in online
    BY DEF Progress
<1>3. m \in met'[p] /\ \A q \in Players : met[q] \subseteq met'[q]
  <2>1. CASE n = SCOUT_ROAD
    <3>1. met' = [met EXCEPT ![p] = met[p] \cup {m}]
        BY <2>1 DEF Progress
    <3> HIDE DEF m
    <3> QED
        BY <3>1 DEF IInv, ShownInv, TypeOK
  <2>2. CASE n # SCOUT_ROAD
    <3>1. met' = met /\ stage[m][p] # NOT_STARTED
        BY <2>2 DEF Progress
    <3> QED
        BY <1>1, <1>2, <3>1 DEF IInv, NewcomersStartOver
  <2> QED
      BY <2>1, <2>2
<1> HIDE DEF m
<1>4. online \subseteq Players
    BY DEF IInv, ShownInv, TypeOK
<1>5. NewcomersStartOver'
    BY <1>1, <1>3, <1>4 DEF IInv, NewcomersStartOver
<1>6. PaidExactlyOnce'
  <2>1. stage[m][p] # DONE /\ paid[p][m] = 0
      BY <1>1, <1>2 DEF IInv, PaidExactlyOnce
  <2> QED
      BY <1>1, <1>4, <2>1 DEF IInv, PaidExactlyOnce
<1> QED
    BY <1>5, <1>6

LEMMA TravelIInv ==
    ASSUME IInv, NEW p \in Players, NEW m \in Maps, Travel(p, m)
    PROVE  NewcomersStartOver' /\ PaidExactlyOnce'
BY DEF IInv, Travel, NewcomersStartOver, PaidExactlyOnce

LEMMA ClientIInv ==
    ASSUME IInv, NEW p \in Players, Hear(p) \/ StartLogin(p)
    PROVE  NewcomersStartOver' /\ PaidExactlyOnce'
<1>1. UNCHANGED <<online, stage, paid, met>>
    BY DEF Hear, StartLogin
<1> QED
    BY <1>1 DEF IInv, NewcomersStartOver, PaidExactlyOnce

LEMMA DisconnectIInv ==
    ASSUME IInv, NEW p \in Players, Disconnect(p)
    PROVE  NewcomersStartOver' /\ PaidExactlyOnce'
<1>1. online' = online \ {p} /\ paid' = paid /\ met' = met
    BY DEF Disconnect
<1>2. \A q \in online', s \in QuestScripts : stage'[s][q] = stage[s][q]
    BY <1>1, OthersStages DEF IInv, ShownInv, TypeOK
<1> QED
    BY <1>1, <1>2 DEF IInv, NewcomersStartOver, PaidExactlyOnce

LEMMA NextIInv ==
    ASSUME OneQuest
    PROVE  IInv /\ [Next]_vars => IInv'
<1> SUFFICES ASSUME IInv, [Next]_vars PROVE NewcomersStartOver' /\ PaidExactlyOnce'
    BY NextShown DEF IInv
<1>1. CASE UNCHANGED vars
    BY <1>1 DEF vars, IInv, NewcomersStartOver, PaidExactlyOnce
<1>2. ASSUME NEW p \in Players, TalkToLuna(p) PROVE NewcomersStartOver' /\ PaidExactlyOnce'
    BY <1>1, <1>2, TalkIsProgress, ProgressIInv
<1>3. ASSUME NEW p \in Players, ReachMarker(p) PROVE NewcomersStartOver' /\ PaidExactlyOnce'
    BY <1>3, MarkerIsProgress, ProgressIInv
<1> QED
    BY <1>1, <1>2, <1>3, ConnectIInv, TravelIInv, DisconnectIInv, ClientIInv DEF Next

(* What the next two theorems rest on: where only the start map has a      *)
(* quest, stages, welcomes and payments of a session stay in step.         *)
THEOREM Invariance ==
    ASSUME OneQuest
    PROVE  Spec => []IInv
<1>1. IInv /\ [Next]_vars => IInv'
    BY NextIInv
<1> QED
    BY <1>1, InitIInv, PTL DEF Spec

(* Nobody inherits a quest, on a server whose players start on the map     *)
(* with the quest, however ids are reused and whichever map players leave  *)
(* from.                                                                   *)
THEOREM NobodyInheritsAQuest ==
    ASSUME OneQuest
    PROVE  Spec => []NewcomersStartOver
<1>1. Spec => []IInv
    BY Invariance
<1>2. IInv => NewcomersStartOver
    BY DEF IInv
<1> QED
    BY <1>1, <1>2, PTL

(* On such a server Luna pays every session that finishes her quest, and   *)
(* once.                                                                   *)
THEOREM LunaPaysOnce ==
    ASSUME OneQuest
    PROVE  Spec => []PaidExactlyOnce
<1>1. Spec => []IInv
    BY Invariance
<1>2. IInv => PaidExactlyOnce
    BY DEF IInv
<1> QED
    BY <1>1, <1>2, PTL
=============================================================================
