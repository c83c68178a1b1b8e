----------------------- MODULE SensorStatus_proofs -----------------------
(***************************************************************************)
(* Proofs about SensorStatus, for any sensors, bits and limits: the types, *)
(* that a bit is its flag whatever the camera thread does, the buzzer, and *)
(* that the two threads implement AlarmSource.                             *)
(***************************************************************************)
EXTENDS SensorStatus, TLAPS

\* A word read to be changed is as good as the one it was read from.
LoadedAgrees == loaded # NONE => Source!Agree(loaded, errorFlag)

IInv == TypeOK /\ BitIsFlag /\ LoadedAgrees /\ BuzzerIsAlarm

-----------------------------------------------------------------------------
LEMMA SensorAt == ASSUME keyAt \in 1 .. Len(Order) PROVE Sensor \in Sensors
BY DEF Sensor, Sensors

LEMMA SourceSets ==
  /\ Sensors \subseteq Sources /\ CAMERA \in Sources
  /\ \A s \in Sources : BitOf[s] \in Bits
BY DEF Sources, Source!Sources, Bits, Source!Bits

LEMMA LenOrder == Len(Order) \in Nat /\ Order \in Seq(Sensors)
BY StatusAssumption

LEMMA InitIInv == Init => IInv
<1> SUFFICES ASSUME Init PROVE IInv
  OBVIOUS
<1>1. TypeOK
  BY LenOrder, StatusAssumption DEF Init, Source!SourceInit, TypeOK, Sources, Source!Sources
<1>2. BitIsFlag /\ LoadedAgrees /\ BuzzerIsAlarm
  BY DEF Init, Source!SourceInit, BitIsFlag, Source!Agree, LoadedAgrees,
     BuzzerIsAlarm, Source!Sources
<1> QED BY <1>1, <1>2 DEF IInv

\* Setting or clearing a sensor's bit, and its flag, keeps the others' right.
LEMMA StoreAgrees ==
  ASSUME NEW word, NEW flag \in [Sources -> 0 .. 1], Source!Agree(word, flag),
         NEW s \in Sensors, NEW v \in 0 .. 1
  PROVE  Source!Agree(IF v = 1 THEN word \cup {BitOf[s]} ELSE word \ {BitOf[s]},
                      [flag EXCEPT ![s] = v])
BY SourceSets DEF Source!Agree, Source!OwnBit, Sources, Source!Sources

\* The camera's bit and flag are nobody's with a bit of its own.
LEMMA CameraBit ==
  ASSUME NEW word, NEW flag, Source!Agree(word, flag)
  PROVE  /\ Source!Agree(word \cup {BitOf[CAMERA]}, flag)
         /\ Source!Agree(word \ {BitOf[CAMERA]}, flag)
BY StatusAssumption DEF Source!Agree, Source!OwnBit, Sources, Source!Sources

LEMMA CameraFlag ==
  ASSUME NEW word, NEW flag \in [Sources -> 0 .. 1], NEW v, Source!Agree(word, flag)
  PROVE  Source!Agree(word, [flag EXCEPT ![CAMERA] = v])
BY StatusAssumption DEF Source!Agree, Source!OwnBit, Sources, Source!Sources

-----------------------------------------------------------------------------
LEMMA EnvironmentStep ==
  ASSUME IInv, SensorChanges \/ PressClr \/ Notice \/ UNCHANGED vars PROVE IInv'
<1>1. CASE SensorChanges
  BY <1>1 DEF SensorChanges, IInv, TypeOK, BitIsFlag, LoadedAgrees, BuzzerIsAlarm,
     wordVars, sampleVars, buzzVars, camVars, Sensor, Source!Agree
<1>2. CASE PressClr
  BY <1>2 DEF PressClr, IInv, TypeOK, BitIsFlag, LoadedAgrees, BuzzerIsAlarm,
     wordVars, sampleVars, buzzVars, camVars, Sensor, Source!Agree
<1>3. CASE Notice
  BY <1>3 DEF Notice, Source!Notice, IInv, TypeOK, BitIsFlag, LoadedAgrees, BuzzerIsAlarm,
     wordVars, sampleVars, buzzVars, camVars, Sensor, Source!Agree
<1>4. CASE UNCHANGED vars
  BY <1>4 DEF vars, IInv, TypeOK, BitIsFlag, LoadedAgrees, BuzzerIsAlarm,
     wordVars, sampleVars, buzzVars, camVars, Sensor, Source!Agree
<1> QED BY <1>1, <1>2, <1>3, <1>4

LEMMA SampleStep == ASSUME IInv, Sample PROVE IInv'
<1>1. keyAt \in 1 .. Len(Order) /\ Sensor \in Sensors /\ loaded = NONE
  BY SensorAt DEF Sample
<1>2. UNCHANGED <<wordVars, input, buzzVars, camVars>>
  BY DEF Sample
<1>3. valueCnt' \in [Sensors -> 0 .. Debounce - 1]
  <2>1. valueCnt[Sensor] \in 0 .. Debounce - 1 /\ 0 \in 0 .. Debounce - 1
    BY <1>1, StatusAssumption DEF IInv, TypeOK
  <2>2. \E c \in 0 .. Debounce - 1 : valueCnt' = [valueCnt EXCEPT ![Sensor] = c]
    BY <2>1, StatusAssumption DEF Sample
  <2> QED BY <2>2 DEF IInv, TypeOK
<1>4. CASE UNCHANGED <<valueOld, loaded>> /\ keyAt' = keyAt + 1
  BY <1>1, <1>2, <1>3, <1>4, LenOrder DEF IInv, TypeOK, BitIsFlag, LoadedAgrees,
     BuzzerIsAlarm, wordVars, buzzVars, camVars, Source!Agree
<1>5. CASE /\ valueOld' = [valueOld EXCEPT ![Sensor] = input[Sensor]]
           /\ loaded' = status /\ UNCHANGED keyAt
  <2>1. input[Sensor] \in 0 .. 1 /\ input[Sensor] # NONE
    BY <1>1, StatusAssumption DEF IInv, TypeOK
  <2>2. valueOld' \in [Sensors -> {0, 1, NONE}] /\ valueOld'[Sensor] = input[Sensor]
    BY <1>1, <1>5, <2>1 DEF IInv, TypeOK
  <2>3. Sensor' = Sensor /\ keyAt' <= Len(Order)
    BY <1>1, <1>5, LenOrder DEF Sensor
  <2>4. loaded' \subseteq Bits
    BY <1>5 DEF IInv, TypeOK
  <2>5. TypeOK'
    BY <1>2, <1>3, <1>5, <2>1, <2>2, <2>3, <2>4
       DEF IInv, TypeOK, wordVars, buzzVars, camVars
  <2>6. BitIsFlag' /\ LoadedAgrees' /\ BuzzerIsAlarm'
    BY <1>2, <1>5 DEF IInv, BitIsFlag, LoadedAgrees, BuzzerIsAlarm, wordVars,
       buzzVars, Source!Agree
  <2> QED BY <2>5, <2>6 DEF IInv
<1> QED BY <1>4, <1>5 DEF Sample

LEMMA StoreStep == ASSUME IInv, Store PROVE IInv'
<1>1. /\ keyAt \in 1 .. Len(Order) /\ Sensor \in Sensors
      /\ valueOld[Sensor] \in 0 .. 1 /\ Source!Agree(loaded, errorFlag)
      /\ loaded \subseteq Bits
  BY SensorAt, LenOrder DEF Store, IInv, TypeOK, LoadedAgrees
<1>2. Source!Agree(status', errorFlag')
  BY <1>1, StoreAgrees DEF Store, IInv, TypeOK
<1>3. TypeOK'
  BY <1>1, LenOrder, SourceSets DEF Store, IInv, TypeOK, buzzVars, camVars
<1>4. LoadedAgrees' /\ BuzzerIsAlarm'
  BY DEF Store, IInv, LoadedAgrees, BuzzerIsAlarm, buzzVars
<1> QED BY <1>2, <1>3, <1>4 DEF IInv, BitIsFlag, Source!Agree

\* The three steps after the last sensor.
LEMMA CompareStep == ASSUME IInv, Compare \/ TakeOver \/ Raise PROVE IInv'
<1>1. keyAt > Len(Order) /\ loaded = NONE /\ loaded' = NONE
  BY LenOrder DEF Compare, TakeOver, Raise, AtCompare, AtTake, AtRaise, IInv, TypeOK
<1>2. /\ UNCHANGED <<status, errorFlag, input, valueOld, valueCnt, mute, camOk, camErr>>
      /\ statusOld' \in {statusOld, status} /\ alarmChange' \in {alarmChange, 1}
      /\ buzzerChange' \in {buzzerChange, 0, 1} /\ buzzer' \in {buzzer, 0, 1}
  BY DEF Compare, TakeOver, Raise, Buzz, wordVars, buzzVars, camVars
<1>3. keyAt' \in 1 .. Len(Order) + 3
  BY LenOrder DEF Compare, TakeOver, Raise, AtCompare, AtTake, AtRaise
<1>4. TypeOK'
  BY <1>1, <1>2, <1>3 DEF IInv, TypeOK
<1>5. BitIsFlag' /\ LoadedAgrees'
  BY <1>1, <1>2 DEF IInv, BitIsFlag, LoadedAgrees, Source!Agree
<1>6. BuzzerIsAlarm'
  BY <1>1 DEF Compare, TakeOver, Raise, Buzz, wordVars, buzzVars, IInv, TypeOK, BuzzerIsAlarm
<1> QED BY <1>4, <1>5, <1>6 DEF IInv

LEMMA CameraStep == ASSUME IInv, Camera PROVE IInv'
<1>1. \E err \in 0 .. CamLimit, word \in {status, Recovered}, flag \in 0 .. 1 :
        CamVerdict(err, word, flag) /\ camOk' \in BOOLEAN
  <2>1. /\ errorFlag[CAMERA] \in 0 .. 1 /\ OneMore(camErr) \in 0 .. CamLimit
        /\ camErr \in 0 .. CamLimit /\ 0 \in 0 .. CamLimit /\ 0 \in 0 .. 1
    BY SourceSets, StatusAssumption DEF IInv, TypeOK, OneMore
  <2>2. CASE CamCapture
    BY <2>1, <2>2 DEF CamCapture
  <2>3. CASE CamIdle
    BY <2>1, <2>3 DEF CamIdle
  <2>4. CASE CamRetry
    BY <2>1, <2>4 DEF CamRetry
  <2> QED BY <2>2, <2>3, <2>4 DEF Camera
<1>p. PICK err \in 0 .. CamLimit, word \in {status, Recovered}, flag \in 0 .. 1 :
        CamVerdict(err, word, flag) /\ camOk' \in BOOLEAN
  BY <1>1
<1>2. /\ status' \in {word, word \cup {BitOf[CAMERA]}}
      /\ \E v \in 0 .. 1 : errorFlag' = [errorFlag EXCEPT ![CAMERA] = v]
  <2>1. (IF err >= CamLimit THEN 1 ELSE flag) \in 0 .. 1
    OBVIOUS
  <2> QED BY <1>p, <2>1 DEF CamVerdict
<1>3. Source!Agree(status', errorFlag') /\ (loaded # NONE => Source!Agree(loaded, errorFlag'))
  <2>1. errorFlag \in [Sources -> 0 .. 1] /\ Source!Agree(status, errorFlag)
    BY DEF IInv, TypeOK, BitIsFlag
  <2>2. Source!Agree(Recovered, errorFlag)
    BY <2>1, CameraBit DEF Recovered
  <2>3. Source!Agree(word, errorFlag)
    BY <1>p, <2>1, <2>2
  <2>4. Source!Agree(word \cup {BitOf[CAMERA]}, errorFlag)
    BY <2>3, CameraBit
  <2>5. PICK v \in 0 .. 1 : errorFlag' = [errorFlag EXCEPT ![CAMERA] = v]
    BY <1>2
  <2>6. Source!Agree(status', errorFlag)
    BY <1>2, <2>3, <2>4
  <2>7. Source!Agree(status', errorFlag')
    BY <2>1, <2>5, <2>6, CameraFlag
  <2>8. loaded # NONE => Source!Agree(loaded, errorFlag')
    BY <2>1, <2>5, CameraFlag DEF IInv, LoadedAgrees
  <2> QED BY <2>7, <2>8
<1>4. UNCHANGED <<statusOld, alarmChange, input, sampleVars, buzzVars>> /\ camErr' = err
  BY <1>p DEF CamVerdict
<1>5. TypeOK'
  BY <1>p, <1>2, <1>4, SourceSets
     DEF IInv, TypeOK, Recovered, sampleVars, buzzVars, Sensor
<1>6. BuzzerIsAlarm' /\ loaded' = loaded
  BY <1>4 DEF IInv, BuzzerIsAlarm, sampleVars, buzzVars
<1> QED BY <1>3, <1>5, <1>6 DEF IInv, BitIsFlag, LoadedAgrees, Source!Agree

LEMMA NextIInv == ASSUME IInv, [Next]_vars PROVE IInv'
BY EnvironmentStep, SampleStep, StoreStep, CompareStep, CameraStep DEF Next, Key

LEMMA Inductive == Spec => []IInv
<1>1. Init => IInv BY InitIInv
<1>2. IInv /\ [Next]_vars => IInv' BY NextIInv
<1> QED BY <1>1, <1>2, PTL DEF Spec

-----------------------------------------------------------------------------
\* Every step of the two threads is one AlarmSource allows, or none it sees.
LEMMA StepImplements ==
  ASSUME IInv, IInv', [Next]_vars PROVE [Source!SourceNext]_(Source!sourceVars)
<1> USE LenOrder DEF Source!SourceNext, Source!sourceVars, AtCompare, AtTake, AtRaise
<1>1. CASE SensorChanges \/ PressClr \/ Sample \/ Compare \/ UNCHANGED vars
  BY <1>1 DEF SensorChanges, PressClr, Sample, Compare, vars, wordVars, sampleVars
<1>2. CASE Store \/ Camera
  <2>1. UNCHANGED <<statusOld, alarmChange, AtRaise>>
    <3>1. CASE Store
      <4>1. keyAt \in Nat /\ keyAt <= Len(Order) /\ keyAt' = keyAt + 1
        BY <3>1 DEF Store, IInv, TypeOK
      <4>2. ~AtRaise /\ ~AtRaise'
        BY <4>1
      <4> QED BY <3>1, <4>2 DEF Store
    <3>2. CASE Camera
      BY <3>2 DEF Camera, CamCapture, CamIdle, CamRetry, CamVerdict, sampleVars
    <3> QED BY <3>1, <3>2, <1>2
  <2>2. status' \in SUBSET Source!Bits /\ errorFlag' \in [Source!Sources -> 0 .. 1]
        /\ Source!Agree(status', errorFlag')
    BY DEF IInv, TypeOK, BitIsFlag, Bits, Sources, Source!Agree
  <2> QED BY <2>1, <2>2 DEF Source!Sense
<1>3. CASE TakeOver \/ Raise
  BY <1>3 DEF TakeOver, Raise, Source!TakeOver, Source!Raise
<1>4. CASE Notice
  BY <1>4 DEF Notice, Source!Notice, sampleVars
<1> QED BY <1>1, <1>2, <1>3, <1>4 DEF Next, Key

\* Every variable of the key and camera threads keeps its type.
THEOREM TypeOKHolds == Spec => []TypeOK
<1>1. IInv => TypeOK BY DEF IInv
<1> QED BY <1>1, Inductive, PTL

\* The bit of a sensor that shares it with none is its flag, although the camera
\* thread may write error_status in the middle of the key thread's change.
THEOREM BitIsFlagHolds == Spec => []BitIsFlag
<1>1. IInv => BitIsFlag BY DEF IInv
<1> QED BY <1>1, Inductive, PTL

\* The buzzer sounds exactly while there is an alarm and it is not muted.
THEOREM BuzzerIsAlarmHolds == Spec => []BuzzerIsAlarm
<1>1. IInv => BuzzerIsAlarm BY DEF IInv
<1> QED BY <1>1, Inductive, PTL

\* The key and camera threads implement AlarmSource.
THEOREM SourceImplemented == Spec => ImplementsSource
<1>1. Init => Source!SourceInit BY DEF Init, Source!SourceInit
<1>2. IInv /\ IInv' /\ [Next]_vars => [Source!SourceNext]_(Source!sourceVars)
  BY StepImplements
<1> QED BY <1>1, <1>2, Inductive, PTL DEF Spec, ImplementsSource, Source!SourceSpec
=============================================================================
