--------------------------- MODULE MovementProofs ---------------------------
(***************************************************************************)
(* Proofs about Movement, for any maps, triggers, portals, distances and   *)
(* bounds: a player's triggers match the place, however reports,           *)
(* teleports and transfers follow each other.  That client and server come *)
(* to agree (Settles) is a matter of fairness and left to model checking.  *)
(***************************************************************************)
EXTENDS Movement, TLAPS

IInv == TypeOK /\ TriggersMatchPlace

LEMMA Bounds ==
    MaxIdle \in Nat /\ StillInterval \in Nat /\ MaxRemaining \in Nat /\ MaxPortals \in Nat
BY MovementAssumption

LEMMA AnswersAreAnswers ==
    ASSUME NEW place \in Int, NEW m \in Maps
    PROVE  /\ Position(place) \in Answers
           /\ Placed(place) \in Answers
           /\ Transfer(m, place) \in Answers
BY DEF Position, Placed, Transfer, Answers

LEMMA UnreliablySeq ==
    ASSUME NEW S, NEW s \in Seq(S), NEW e \in S
    PROVE  Unreliably(s, e) \in Seq(S)
BY DEF Unreliably

LEMMA ConcatSeq ==
    ASSUME NEW S, NEW s \in Seq(S), NEW t \in Seq(S)
    PROVE  s \o t \in Seq(S)
OBVIOUS

LEMMA TriggersOfTheMap ==
    ASSUME NEW m, NEW place
    PROVE  TriggersAt(m, place) \subseteq DOMAIN Triggers[m]
BY DEF TriggersAt

LEMMA ShareIsInt == ASSUME NEW d \in Int PROVE Share(d) \in Int
<1>1. Distance(d, 0) \in Nat
    BY DEF Distance
<1>2. \A part \in {35, 12} : (part * Distance(d, 0) + 99) \div 100 \in Int
    BY <1>1
<1> QED
    BY <1>1, <1>2 DEF Share

(* A frame's part of a correction never exceeds what remains of it. *)
LEMMA CorrectionEnds ==
    ASSUME remaining \in -MaxRemaining .. MaxRemaining
    PROVE  /\ CorrectionStep \in Int
           /\ remaining - CorrectionStep \in -MaxRemaining .. MaxRemaining
<1> DEFINE d == Distance(remaining, 0)
           size == (12 * d + 99) \div 100
<1>1. MaxRemaining \in Nat
    BY MovementAssumption
<1>2. d \in Nat /\ d = IF remaining >= 0 THEN remaining ELSE -remaining
    BY <1>1 DEF Distance
<1>3. size \in Int /\ 0 <= size /\ size <= d
    BY <1>2
<1>4. CorrectionStep = IF remaining > 0 THEN size ELSE -size
    BY DEF CorrectionStep
<1> HIDE DEF size
<1> QED
    BY <1>1, <1>2, <1>3, <1>4

LEMMA AddedIsBounded ==
    ASSUME remaining \in -MaxRemaining .. MaxRemaining, NEW d \in Int
    PROVE  Added(d) \in -MaxRemaining .. MaxRemaining
BY MovementAssumption DEF Added

LEMMA InitIInv == Init => IInv
<1> SUFFICES ASSUME Init PROVE IInv
    OBVIOUS
<1>1. TypeOK
    BY MovementAssumption DEF Init, TypeOK, Step
<1> QED
    BY <1>1 DEF Init, IInv, TriggersMatchPlace

(* Where the player is put, its triggers are those of the place. *)
LEMMA HandleReportIInv == IInv /\ HandleReport => IInv'
<1> SUFFICES ASSUME IInv, HandleReport PROVE IInv'
    OBVIOUS
<1> DEFINE place == Head(reports)
<1>1. reports \in Seq(Int) /\ pos \in Int /\ mapOf \in Maps
    BY DEF IInv, TypeOK
<1>2. place \in Int /\ reports' \in Seq(Int)
    BY <1>1 DEF HandleReport
<1>3. CASE MovementAccepted(place)
  <2>1. /\ pos' = place /\ idle' = 0 /\ active' = TriggersAt(mapOf, place)
        /\ UNCHANGED <<mapOf, answers, input, client, travelled>>
      BY <1>3 DEF HandleReport, updatePlayerTriggers
  <2>2. TypeOK'
      BY <2>1, <1>2, TriggersOfTheMap, Bounds DEF IInv, TypeOK, client
  <2> QED
      BY <2>1, <2>2 DEF IInv, TriggersMatchPlace, TriggersAt, client
<1>4. CASE ~MovementAccepted(place)
  <2>1. /\ answers' = Unreliably(answers, Position(pos))
        /\ UNCHANGED <<server, input, client, travelled>>
      BY <1>4 DEF HandleReport
  <2>2. answers' \in Seq(Answers)
      BY <2>1, <1>1, AnswersAreAnswers, UnreliablySeq DEF IInv, TypeOK
  <2>3. TypeOK'
      BY <2>1, <2>2, <1>2 DEF IInv, TypeOK, client, server
  <2> QED
      BY <2>1, <2>2, <2>3 DEF IInv, TriggersMatchPlace, TriggersAt, client, server
<1> QED
    BY <1>3, <1>4

LEMMA UsePortalIInv ==
    ASSUME IInv, NEW portal \in Portals, UsePortal(portal)
    PROVE  IInv'
<1>1. /\ portal.target \in Int /\ portal.target_map \in Maps /\ mapOf \in Maps
      /\ answers \in Seq(Answers)
    BY MovementAssumption DEF IInv, TypeOK
<1>2. /\ Placed(portal.target) \in Answers
      /\ Position(portal.target) \in Answers
      /\ Transfer(portal.target_map, portal.target) \in Answers
    BY <1>1, AnswersAreAnswers
<1>3. /\ travelled' \in 0 .. MaxPortals
      /\ UNCHANGED <<reports, input, client>>
    BY MovementAssumption DEF UsePortal, IInv, TypeOK
<1>4. CASE Teleport(portal.target)
  <2>1. /\ pos' = portal.target /\ idle' = 0 /\ mapOf' = mapOf
        /\ active' = TriggersAt(mapOf, portal.target)
        /\ answers' = Append(answers, Placed(portal.target))
      BY <1>4 DEF Teleport, updatePlayerTriggers
  <2>2. answers' \in Seq(Answers)
      BY <2>1, <1>1, <1>2
  <2>3. active' \subseteq DOMAIN Triggers[mapOf']
      BY <2>1, TriggersOfTheMap
  <2>4. TypeOK'
      BY <2>1, <2>2, <2>3, <1>1, <1>3, Bounds DEF IInv, TypeOK, client
  <2> QED
      BY <2>1, <2>4, <1>3 DEF IInv, TriggersMatchPlace, TriggersAt, client
<1>5. CASE TransferTo(portal.target_map, portal.target)
  <2>1. /\ pos' = portal.target /\ idle' = 0 /\ mapOf' = portal.target_map
        /\ active' = {}
        /\ answers' = Unreliably(Append(answers, Transfer(portal.target_map, portal.target)),
                                 Position(portal.target)) \o <<Placed(portal.target)>>
      BY <1>5 DEF TransferTo
  <2>2. answers' \in Seq(Answers)
    <3>1. Append(answers, Transfer(portal.target_map, portal.target)) \in Seq(Answers)
        BY <1>1, <1>2
    <3>2. Unreliably(Append(answers, Transfer(portal.target_map, portal.target)),
                     Position(portal.target)) \in Seq(Answers)
        BY <3>1, <1>1, <1>2, UnreliablySeq
    <3>3. <<Placed(portal.target)>> \in Seq(Answers)
        BY <1>1, <1>2
    <3> QED
        BY <2>1, <3>2, <3>3, ConcatSeq
  <2>3. TypeOK'
      BY <2>1, <2>2, <1>1, <1>3, Bounds DEF IInv, TypeOK, client
  <2> QED
      BY <2>1, <2>2, <2>3, <1>3 DEF IInv, TriggersMatchPlace, client
<1> QED
    BY <1>4, <1>5 DEF UsePortal

LEMMA FrameIInv == IInv /\ Frame => IInv'
<1> SUFFICES ASSUME IInv, Frame PROVE IInv'
    OBVIOUS
<1>1. UNCHANGED <<mapOf, pos, active, answers, input, ready, arrival, travelled>>
    BY DEF Frame
<1>2. /\ at \in Int /\ sent \in Int /\ input \in DOMAIN Step /\ reports \in Seq(Int)
      /\ remaining \in -MaxRemaining .. MaxRemaining
      /\ wait \in 0 .. StillInterval /\ idle \in 0 .. MaxIdle
    BY DEF IInv, TypeOK
<1>3. idle' \in 0 .. MaxIdle
    BY <1>2, MovementAssumption DEF Frame, Capped
<1>4. reports' \in Seq(Int) /\ sent' \in Int
    BY <1>2, UnreliablySeq DEF Frame, SendPosition, Report
<1>5. wait' \in 0 .. StillInterval
  <2>1. CASE ready /\ wait + 1 >= SendInterval
      BY <2>1, Bounds DEF Frame, SendPosition
  <2>2. CASE ~ready
      BY <2>2, <1>2 DEF Frame, SendPosition
  <2>3. CASE ready /\ ~(wait + 1 >= SendInterval)
    <3>1. wait' = wait + 1
        BY <2>3 DEF Frame, SendPosition
    <3>2. wait + 1 < StillInterval
        BY <2>3, <1>2, Bounds DEF SendInterval
    <3> QED
        BY <3>1, <3>2, <1>2, Bounds
  <2> QED
      BY <2>1, <2>2, <2>3
<1>6. at' \in Int /\ remaining' \in -MaxRemaining .. MaxRemaining
  <2>1. Walked \in Int
      BY <1>2 DEF Walked, Step
  <2> QED
      BY <1>2, <2>1, CorrectionEnds DEF Frame, UpdatePlayer
<1>7. TypeOK'
    BY <1>1, <1>3, <1>4, <1>5, <1>6 DEF IInv, TypeOK
<1> QED
    BY <1>1, <1>7 DEF IInv, TriggersMatchPlace, TriggersAt

LEMMA PressIInv == ASSUME IInv, NEW key \in DOMAIN Step, Press(key) PROVE IInv'
BY DEF IInv, Press, TypeOK, TriggersMatchPlace, TriggersAt, server, client

LEMMA HearIInv == IInv /\ Hear => IInv'
<1> SUFFICES ASSUME IInv, Hear PROVE IInv'
    OBVIOUS
<1> DEFINE answer == Head(answers)
<1>1. /\ answers \in Seq(Answers) /\ answers # <<>> /\ answers' = Tail(answers)
      /\ UNCHANGED <<server, reports, input, wait, travelled>>
    BY DEF IInv, TypeOK, Hear
<1>2. answer \in Answers /\ answers' \in Seq(Answers)
    BY <1>1
<1>3. answer.at \in Int /\ (answer.kind = "transfer" => answer.map \in Maps)
    BY <1>2 DEF Answers
<1>4. /\ at \in Int /\ remaining \in -MaxRemaining .. MaxRemaining
      /\ sent \in Int /\ MaxRemaining \in Nat
    BY MovementAssumption DEF IInv, TypeOK
<1>5. /\ at' \in Int /\ sent' \in Int
      /\ remaining' \in -MaxRemaining .. MaxRemaining
      /\ ready' \in BOOLEAN /\ arrival' \in [map : Maps, spawn : SUBSET Int]
      /\ ~ready' => arrival'.spawn # {}
  <2>1. CASE answer.kind = "position" /\ HearPosition
    <3>1. answer.at - at \in Int /\ Share(answer.at - at) \in Int
        BY <1>3, <1>4, ShareIsInt
    <3>2. Added(Share(answer.at - at)) \in -MaxRemaining .. MaxRemaining
        BY <3>1, <1>4, AddedIsBounded
    <3> QED
        BY <2>1, <3>1, <3>2, <1>3, <1>4 DEF HearPosition, IInv, TypeOK
  <2>2. CASE answer.kind = "placed" /\ HearPlaced
      BY <2>2, <1>3, <1>4 DEF HearPlaced, IInv, TypeOK
  <2>3. CASE answer.kind = "transfer" /\ HearTransfer
    <3>1. arrival' = [map |-> answer.map, spawn |-> {answer.at}]
        BY <2>3 DEF HearTransfer
    <3>2. arrival' \in [map : Maps, spawn : SUBSET Int] /\ arrival'.spawn # {}
        BY <3>1, <2>3, <1>3
    <3>3. at' = at /\ sent' = sent /\ remaining' = 0 /\ ready' = FALSE
        BY <2>3 DEF HearTransfer
    <3>4. 0 \in -MaxRemaining .. MaxRemaining
        BY <1>4
    <3> QED
        BY <3>2, <3>3, <3>4, <1>4
  <2> QED
      BY <2>1, <2>2, <2>3 DEF Hear
<1>6. TypeOK'
    BY <1>1, <1>2, <1>5 DEF IInv, TypeOK, server
<1> QED
    BY <1>1, <1>2, <1>5, <1>6 DEF IInv, TriggersMatchPlace, TriggersAt, server

LEMMA ApplyMapIInv == IInv /\ ApplyMap => IInv'
<1> SUFFICES ASSUME IInv, ApplyMap PROVE IInv'
    OBVIOUS
<1>1. /\ arrival.spawn # {} /\ arrival.spawn \subseteq Int
      /\ arrival \in [map : Maps, spawn : SUBSET Int]
    BY DEF IInv, TypeOK, ApplyMap
<1>2. (CHOOSE place \in arrival.spawn : TRUE) \in Int
    BY <1>1
<1>3. /\ at' \in Int /\ sent' \in Int /\ remaining' = 0 /\ ready' = TRUE
      /\ arrival' \in [map : Maps, spawn : SUBSET Int]
      /\ UNCHANGED <<server, reports, answers, input, wait, travelled>>
    BY <1>1, <1>2 DEF ApplyMap
<1>4. 0 \in -MaxRemaining .. MaxRemaining
    BY Bounds
<1>5. /\ mapOf' \in Maps /\ pos' \in Int /\ idle' \in 0 .. MaxIdle
      /\ active' \subseteq DOMAIN Triggers[mapOf']
      /\ reports' \in Seq(Int) /\ answers' \in Seq(Answers)
      /\ input' \in DOMAIN Step /\ wait' \in 0 .. StillInterval
      /\ travelled' \in 0 .. MaxPortals
    BY <1>3 DEF IInv, TypeOK, server
<1>6. TypeOK'
    BY <1>3, <1>4, <1>5 DEF TypeOK
<1> QED
    BY <1>3, <1>6 DEF IInv, TriggersMatchPlace, TriggersAt, server

LEMMA WithoutSeq ==
    ASSUME NEW S, NEW s \in Seq(S), NEW i \in DOMAIN s
    PROVE  Without(s, i) \in Seq(S)
<1>1. i \in 1 .. Len(s)
    OBVIOUS
<1>2. SubSeq(s, 1, i - 1) \in Seq(S)
    BY <1>1
<1>3. SubSeq(s, i + 1, Len(s)) \in Seq(S)
    BY <1>1
<1> QED
    BY <1>2, <1>3 DEF Without

LEMMA LoseIInv == IInv /\ Lose => IInv'
<1> SUFFICES ASSUME IInv, Lose PROVE IInv'
    OBVIOUS
<1>1. /\ UNCHANGED <<server, input, client, travelled>>
      /\ reports' \in Seq(Int) /\ answers' \in Seq(Answers)
    BY WithoutSeq DEF IInv, TypeOK, Lose
<1>2. TypeOK'
    BY <1>1 DEF IInv, TypeOK, server, client
<1> QED
    BY <1>1, <1>2 DEF IInv, TriggersMatchPlace, TriggersAt, server, client

LEMMA NextIInv == IInv /\ [Next]_vars => IInv'
<1> SUFFICES ASSUME IInv, [Next]_vars PROVE IInv'
    OBVIOUS
<1>1. CASE UNCHANGED vars
    BY <1>1 DEF vars, server, client, IInv, TypeOK, TriggersMatchPlace, TriggersAt
<1>2. CASE Next
    BY <1>2, HandleReportIInv, UsePortalIInv, FrameIInv, PressIInv, HearIInv,
       ApplyMapIInv, LoseIInv DEF Next
<1> QED
    BY <1>1, <1>2

LEMMA Inductive == Spec => []IInv
<1> QED
    BY InitIInv, NextIInv, PTL DEF Spec

(* Type correctness of both ends and of what is between them. *)
THEOREM TypeCorrect == Spec => []TypeOK
<1>1. IInv => TypeOK
    BY DEF IInv
<1> QED
    BY <1>1, Inductive, PTL

(* For any number and shape of triggers and portals: no trigger counts as  *)
(* entered that the player does not stand in, on the map the player is on. *)
THEOREM TriggersAlwaysMatch == Spec => []TriggersMatchPlace
<1>1. IInv => TriggersMatchPlace
    BY DEF IInv
<1> QED
    BY <1>1, Inductive, PTL
=============================================================================
