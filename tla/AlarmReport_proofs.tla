------------------------ MODULE AlarmReport_proofs ------------------------
(***************************************************************************)
(* Proofs about AlarmReport, for every set of sensors and bits and without *)
(* the bound on events: an unpublished change is always pending, and the   *)
(* alarm messages have told of every sensor what it says, unless one of    *)
(* the four named events happened.                                         *)
(***************************************************************************)
EXTENDS AlarmReport, TLAPS

\* The typing the steps need.
Typed ==
  /\ errorFlag \in [Sources -> 0 .. 1] /\ told \in [Sources -> 0 .. 1]
  /\ message \in [Sources -> {0, 1, NONE}]
  /\ mqttPc \in Places

\* The bits the loop works on are the flags.
BitsAgree == Agree(status, errorFlag)

\* Between alarm messages the server has been told what error_status_mqtt says.
ToldIsMqtt ==
  ~disturbed /\ mqttPc # "sendAlarm" =>
    \A s \in Sensors : OwnBit(s) => (told[s] = 1 <=> BitOf[s] \in statusMqtt)

\* During one, it is being told what error_status_old says.
TellsOld ==
  ~disturbed /\ mqttPc = "sendAlarm" =>
    \A s \in Sensors : OwnBit(s) =>
      \/ message[s] # NONE /\ (message[s] = 1 <=> BitOf[s] \in statusOld)
      \/ message[s] = NONE /\ (told[s] = 1 <=> BitOf[s] \in statusOld)

IInv == Typed /\ BitsAgree /\ ChangeIsPending /\ ToldIsMqtt /\ TellsOld

-----------------------------------------------------------------------------
LEMMA NoneIsNoFlag == NONE \notin 0 .. 1
BY ReportAssumption

LEMMA InitIInv == Init => IInv
BY DEF Init, SourceInit, IInv, Typed, BitsAgree, Agree, ChangeIsPending,
       ToldIsMqtt, TellsOld, Nothing, Sources, Sending, Places

\* With nothing pending the three words are one, and so is what they say.
LEMMA Strengthened == IInv => ChangeIsPending /\ ToldUnlessDisturbed
<1>1. SUFFICES ASSUME IInv, Quiet, ~disturbed, NEW s \in Sensors, OwnBit(s)
               PROVE  told[s] = errorFlag[s]
  BY DEF IInv, ToldUnlessDisturbed
<1>2. mqttPc # "sendAlarm" /\ statusOld = statusMqtt /\ statusOld = status
  BY <1>1 DEF Quiet, Sending, IInv, ChangeIsPending
<1>3. told[s] = 1 <=> errorFlag[s] = 1
  BY <1>1, <1>2 DEF IInv, ToldIsMqtt, BitsAgree, Agree
<1>4. told[s] \in 0 .. 1 /\ errorFlag[s] \in 0 .. 1
  BY <1>1 DEF IInv, Typed, Sources
<1> QED BY <1>3, <1>4

\* The threads that make the alarms.
LEMMA SourceStep ==
  ASSUME IInv, SourceSenses \/ SourceTakesOver \/ SourceRaises PROVE IInv'
<1>1. CASE SourceSenses
  BY <1>1 DEF SourceSenses, Sense, loopVars, IInv, Typed, BitsAgree, Agree,
     ChangeIsPending, ToldIsMqtt, TellsOld, OwnBit
<1>2. CASE SourceTakesOver
  <2>1. /\ UNCHANGED <<errorFlag, told, message, mqttPc, status, statusMqtt>>
        /\ ~disturbed' => ~disturbed /\ (statusOld' = statusOld \/ mqttPc \notin Sending)
        /\ raising' = TRUE
    BY <1>2 DEF SourceTakesOver, TakeOver, loopVars
  <2>2. ChangeIsPending'
    BY <2>1 DEF IInv, ChangeIsPending
  <2>3. ToldIsMqtt' /\ TellsOld'
    BY <2>1 DEF IInv, ToldIsMqtt, TellsOld, Sending
  <2> QED BY <2>1, <2>2, <2>3 DEF IInv, Typed, BitsAgree
<1>3. CASE SourceRaises
  BY <1>3 DEF SourceRaises, Raise, loopVars, IInv, Typed, BitsAgree,
     ChangeIsPending, ToldIsMqtt, TellsOld
<1> QED BY <1>1, <1>2, <1>3

\* What takes no part in alarm messages.
LEMMA BystanderStep ==
  ASSUME IInv,
         \/ Upload \/ Command \/ Query \/ ListCheck \/ SetCheck \/ NotDue
         \/ UNCHANGED vars
  PROVE  IInv'
<1>1. /\ UNCHANGED <<sourceVars, statusMqtt, message, told, disturbed>>
      /\ mqttPc' = mqttPc \/ (mqttPc # "sendAlarm" /\
           mqttPc' \in {"turn", "list", "sendList", "set", "sendSet", "alarm"})
  BY DEF Upload, Command, Query, ListCheck, SetCheck, NotDue, vars, loopVars
<1> QED BY <1>1 DEF sourceVars, IInv, Typed, BitsAgree, ChangeIsPending,
           ToldIsMqtt, TellsOld, Sending, Places

\* The periodic report counts for no alarm.
LEMMA DataStep == ASSUME IInv, DataDue \/ SendData PROVE IInv'
<1>1. /\ UNCHANGED <<sourceVars, statusMqtt, told, disturbed>>
      /\ mqttPc # "sendAlarm" /\ mqttPc' \in {"sendData", "list"}
  BY DEF DataDue, SendData
<1>2. message' \in [Sources -> {0, 1, NONE}]
  <2>1. \A s \in Sensors : errorFlag[s] \in {0, 1, NONE}
    BY DEF IInv, Typed, Sources
  <2> QED BY <2>1 DEF DataDue, SendData, Nothing
<1> QED BY <1>1, <1>2 DEF sourceVars, IInv, Typed, BitsAgree, ChangeIsPending,
           ToldIsMqtt, TellsOld, Sending, Places

LEMMA AlarmCheckStep == ASSUME IInv, AlarmCheck PROVE IInv'
<1>1. CASE alarmChange = 0
  BY <1>1 DEF AlarmCheck, Notice, sourceVars, cmdVars, IInv, Typed, BitsAgree,
     ChangeIsPending, ToldIsMqtt, TellsOld, Sending, Places
<1>2. CASE alarmChange # 0
  <2>1. /\ UNCHANGED <<status, statusOld, errorFlag, statusMqtt, told>>
        /\ message' = Changes /\ mqttPc = "alarm" /\ mqttPc' = "sendAlarm"
        /\ ~disturbed' => ~disturbed /\ ~Ahead(message')
    BY <1>2 DEF AlarmCheck, Notice
  <2>2. Typed' /\ BitsAgree' /\ ChangeIsPending' /\ ToldIsMqtt'
    BY <2>1 DEF IInv, Typed, BitsAgree, ChangeIsPending, ToldIsMqtt, Changes, Sending, Places
  <2>3. ASSUME ~disturbed', NEW s \in Sensors, OwnBit(s)
        PROVE  \/ message'[s] # NONE /\ (message'[s] = 1 <=> BitOf[s] \in statusOld')
               \/ message'[s] = NONE /\ (told'[s] = 1 <=> BitOf[s] \in statusOld')
    <3>1. told[s] = 1 <=> BitOf[s] \in statusMqtt
      BY <2>1, <2>3 DEF IInv, ToldIsMqtt
    <3>2. CASE message'[s] # NONE
      BY <3>2, <2>1, <2>3 DEF Ahead, Sources
    <3>3. CASE message'[s] = NONE
      <4>1. errorFlag[s] # NONE
        BY NoneIsNoFlag DEF IInv, Typed, Sources
      <4>2. BitOf[s] \in statusOld <=> BitOf[s] \in statusMqtt
        BY <3>3, <4>1, <2>1 DEF Changes, Sources
      <4> QED BY <3>1, <3>3, <4>2, <2>1
    <3> QED BY <3>2, <3>3
  <2>4. TellsOld'
    BY <2>3 DEF TellsOld, OwnBit
  <2> QED BY <2>2, <2>4 DEF IInv
<1> QED BY <1>1, <1>2

LEMMA AnswerStep == ASSUME IInv, SendList \/ SendSet PROVE IInv'
<1>1. /\ UNCHANGED <<sourceVars, message, told>> /\ statusMqtt' = statusOld
      /\ mqttPc # "sendAlarm" /\ mqttPc' \in {"set", "alarm"}
      /\ ~disturbed' => ~disturbed /\ statusOld = statusMqtt
  BY DEF SendList, SendSet, Answered, Published
<1> QED BY <1>1 DEF sourceVars, IInv, Typed, BitsAgree, ChangeIsPending,
           ToldIsMqtt, TellsOld, Sending, Places

LEMMA SendAlarmStep == ASSUME IInv, SendAlarm PROVE IInv'
<1>1. /\ UNCHANGED sourceVars /\ statusMqtt' = statusOld /\ message' = Nothing
      /\ mqttPc = "sendAlarm" /\ mqttPc' = "turn"
      /\ \/ /\ told' = [s \in Sources |-> IF message[s] = NONE THEN told[s] ELSE message[s]]
            /\ UNCHANGED disturbed
         \/ disturbed' = TRUE /\ UNCHANGED told
  BY DEF SendAlarm, Published, Said, IInv, Typed
<1>2. Typed'
  BY <1>1 DEF IInv, Typed, Nothing, sourceVars, Places
<1>3. ToldIsMqtt'
  BY <1>1 DEF IInv, ToldIsMqtt, TellsOld, Sources, OwnBit
<1> QED BY <1>1, <1>2, <1>3 DEF sourceVars, IInv, BitsAgree, ChangeIsPending, TellsOld

LEMMA NextIInv == ASSUME IInv, [Next]_vars PROVE IInv'
BY SourceStep, BystanderStep, DataStep, AlarmCheckStep, AnswerStep, SendAlarmStep
   DEF Next, Loop

LEMMA Inductive == Spec => []IInv
<1>1. Init => IInv BY InitIInv
<1>2. IInv /\ [Next]_vars => IInv' BY NextIInv
<1> QED BY <1>1, <1>2, PTL DEF Spec

-----------------------------------------------------------------------------
\* No change of error_status_old is forgotten before a publish covers it
\* (report_gate_alarm, report_gate_set_ack, report_gate_list_ack).
THEOREM ChangeIsPendingHolds == Spec => []ChangeIsPending
BY Inductive, Strengthened, PTL

\* The alarm messages have told of every sensor what it says, whenever nothing is
\* pending and none of the four events happened that make one skip a change.
THEOREM ToldUnlessDisturbedHolds == Spec => []ToldUnlessDisturbed
BY Inductive, Strengthened, PTL

-----------------------------------------------------------------------------
\* What is counted: the answers owed.
LEMMA CountedStep ==
  ASSUME TypeOK, AckedOnce, [Next]_vars
  PROVE  TypeOK' /\ AckedOnce'
<1> USE ReportAssumption DEF TypeOK, AckedOnce, Sending, Places
<1>1. CASE SourceSenses
  BY <1>1 DEF SourceSenses, Sense, Event, loopVars, cmdVars
<1>2. CASE SourceTakesOver \/ SourceRaises
  <2>1. /\ UNCHANGED <<status, errorFlag, loopVars, cmdVars, upload, events>>
        /\ statusOld' \in {statusOld, status} /\ alarmChange' \in {alarmChange, 1}
    BY <1>2 DEF SourceTakesOver, TakeOver, SourceRaises, Raise, NoEvent
  <2>2. raising' \in BOOLEAN
    BY <1>2 DEF SourceTakesOver, TakeOver, SourceRaises, Raise
  <2>3. disturbed' \in BOOLEAN
    BY <1>2 DEF SourceTakesOver, SourceRaises
  <2> QED BY <2>1, <2>2, <2>3 DEF loopVars, cmdVars
<1>3. CASE Upload
  BY <1>3 DEF Upload, Event, NoEvent, sourceVars, loopVars, cmdVars
<1>4. CASE Command \/ Query
  BY <1>4 DEF Command, Query, Event, sourceVars, loopVars
<1>5. CASE ListCheck \/ SetCheck \/ NotDue
  BY <1>5 DEF ListCheck, SetCheck, NotDue, sourceVars, cmdVars
<1>d. CASE DataDue \/ SendData
  <2>1. /\ UNCHANGED <<sourceVars, statusMqtt, told, cmdVars, upload, disturbed>>
        /\ mqttPc' \in {"sendData", "list"}
    BY <1>d DEF DataDue, SendData
  <2>2. message' \in [Sources -> {0, 1, NONE}]
    <3>1. \A s \in Sensors : errorFlag[s] \in {0, 1, NONE}
      BY DEF Sources
    <3> QED BY <3>1, <1>d DEF DataDue, SendData, Nothing
  <2>3. shown' \in [Sensors -> 0 .. 1]
    <3>1. \A s \in Sensors : message[s] \in {0, 1, NONE}
      BY DEF Sources
    <3> QED BY <3>1, <1>d DEF DataDue, SendData, Said
  <2>4. events' \in 0 .. MaxEvents
    BY <1>d DEF DataDue, SendData, Event, NoEvent
  <2> QED BY <2>1, <2>2, <2>3, <2>4 DEF sourceVars, cmdVars
<1>6. CASE AlarmCheck
  <2>1. /\ UNCHANGED <<status, statusOld, errorFlag, raising, statusMqtt, told, shown>>
        /\ UNCHANGED <<upload, events, setFlag, setOk, unacked>>
        /\ mqttPc' \in {"sendAlarm", "turn"} /\ alarmChange' = 0
    BY <1>6 DEF AlarmCheck, Notice, NoEvent, sourceVars, cmdVars
  <2>2. message' \in [Sources -> {0, 1, NONE}]
    BY <1>6 DEF AlarmCheck, Changes
  <2>3. disturbed' \in BOOLEAN
    BY <1>6 DEF AlarmCheck
  <2> QED BY <2>1, <2>2, <2>3
<1>7. CASE SendList \/ SendSet
  <2>1. /\ UNCHANGED <<status, statusOld, errorFlag, alarmChange, raising, told, shown>>
        /\ UNCHANGED <<message, upload, events>>
        /\ statusMqtt' = statusOld /\ setFlag' = setFlag
    BY <1>7 DEF SendList, SendSet, Answered, Published, NoEvent, sourceVars, cmdVars
  <2>2. disturbed' \in BOOLEAN
    BY <1>7 DEF SendList, SendSet, Answered
  <2>3. \/ mqttPc = "sendList" /\ mqttPc' = "set" /\ UNCHANGED <<setOk, unacked>>
        \/ mqttPc = "sendSet" /\ mqttPc' = "alarm" /\ setOk' = 0 /\ unacked' = unacked - 1
    BY <1>7 DEF SendList, SendSet, cmdVars
  <2> QED BY <2>1, <2>2, <2>3
<1>8. CASE SendAlarm
  <2>1. told' \in [Sources -> 0 .. 1] /\ message' \in [Sources -> {0, 1, NONE}]
    BY <1>8 DEF SendAlarm, Nothing, Said
  <2>5. shown' \in [Sensors -> 0 .. 1]
    <3>1. \A s \in Sensors : message[s] \in {0, 1, NONE}
      BY DEF Sources
    <3> QED BY <3>1, <1>8 DEF SendAlarm, Said
  <2>2. /\ UNCHANGED <<status, statusOld, errorFlag, alarmChange, raising, upload>>
        /\ UNCHANGED <<setFlag, setOk, unacked>>
        /\ statusMqtt' = statusOld /\ mqttPc' = "turn"
    BY <1>8 DEF SendAlarm, Published, sourceVars, cmdVars
  <2>3. disturbed' \in BOOLEAN
    BY <1>8 DEF SendAlarm
  <2>4. events' \in 0 .. MaxEvents
    BY <1>8 DEF SendAlarm, Event, NoEvent
  <2> QED BY <2>1, <2>2, <2>3, <2>4, <2>5
<1>9. CASE UNCHANGED vars
  BY <1>9 DEF vars, sourceVars, loopVars, cmdVars
<1> QED
  BY <1>1, <1>2, <1>3, <1>4, <1>5, <1>d, <1>6, <1>7, <1>8, <1>9 DEF Next, Loop

LEMMA Counted == Spec => [](TypeOK /\ AckedOnce)
<1>1. ASSUME Init PROVE TypeOK /\ AckedOnce
  <2>1. errorFlag \in [Sources -> 0 .. 1] /\ told \in [Sources -> 0 .. 1]
        /\ message \in [Sources -> {0, 1, NONE}] /\ events \in 0 .. MaxEvents
        /\ shown \in [Sensors -> 0 .. 1]
    BY <1>1, ReportAssumption DEF Init, SourceInit, Nothing
  <2>2. {status, statusOld, statusMqtt} \subseteq SUBSET Bits
    BY <1>1 DEF Init, SourceInit
  <2>3. {alarmChange, upload, setFlag} \subseteq 0 .. 1 /\ setOk \in 0 .. 2 /\ setOk = 0
        /\ mqttPc \in Places /\ mqttPc # "sendSet"
    BY <1>1 DEF Init, SourceInit, Places
  <2>5. raising \in BOOLEAN
    BY <1>1 DEF Init, SourceInit
  <2>4. unacked \in Nat /\ disturbed \in BOOLEAN
    BY <1>1 DEF Init
  <2> QED BY <2>1, <2>2, <2>3, <2>4, <2>5 DEF TypeOK, AckedOnce
<1> QED BY <1>1, CountedStep, PTL DEF Spec

\* Every variable keeps its type; the answers owed never run below none.
THEOREM TypeOKHolds == Spec => []TypeOK
BY Counted, PTL

\* An answer owed or under way is to a command not yet answered: no command is
\* answered more than once (report_gate_set_ack).
THEOREM AckedOnceHolds == Spec => []AckedOnce
BY Counted, PTL
=============================================================================
