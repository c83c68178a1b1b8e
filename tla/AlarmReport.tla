---------------------------- MODULE AlarmReport ----------------------------
(***************************************************************************)
(* What the server gets to know of the alarms of AlarmSource.  The report  *)
(* loop of the mqtt task tells it in two ways: an alarm message names what *)
(* changed since the last publish, and every few minutes a periodic report *)
(* gives the flags of all sensors.  Answers to commands and queries are    *)
(* messages of their own, which move the same error_status_mqtt.  The      *)
(* callback of a command runs in the yield task, which cuts the loop       *)
(* anywhere; so do, while a publish waits for the socket and in the sleeps *)
(* of the periodic report, the threads that make the alarms.               *)
(***************************************************************************)
EXTENDS AlarmSource

CONSTANTS NONE,      \* nothing said of a source
          Losses,    \* can a publish (QoS 0, or without a session) be lost
          MaxEvents  \* bound: changes sensed, uploads, commands, queries, losses

ASSUME ReportAssumption ==
  NONE \notin 0 .. 1 /\ Losses \in BOOLEAN /\ MaxEvents \in Nat

VARIABLES
  statusMqtt,  \* device_data.error_status_mqtt
  upload,      \* device_data.camera_send_to_tcp_flag
  mqttPc,      \* where the report loop stands
  message,     \* what the report or alarm message being sent says of each source
  setFlag, setOk, \* set_flag, set_ok
  told,        \* what the alarm messages last told the server of each source
  shown,       \* what it was last told of each sensor by whatever message
  unacked,     \* commands handled and not answered
  disturbed,   \* did one of the events happen that make a report skip a change
  events       \* how much of the bound is used

cmdVars == <<setFlag, setOk, unacked>>
loopVars == <<statusMqtt, mqttPc, message, told, shown>>
vars == <<sourceVars, loopVars, cmdVars, upload, disturbed, events>>

Event == events < MaxEvents /\ events' = events + 1
NoEvent == UNCHANGED events

\* Where a message that counts as a report of the alarms is on its way.
Sending == {"sendList", "sendSet", "sendAlarm"}
Places == Sending \cup {"turn", "sendData", "list", "set", "alarm"}
Nothing == [s \in Sources |-> NONE]

Init ==
  /\ SourceInit
  /\ statusMqtt = {} /\ upload = 0
  /\ mqttPc = "turn" /\ message = Nothing
  /\ setFlag = 0 /\ setOk = 0 /\ unacked = 0
  /\ told = [s \in Sources |-> 0] /\ shown = [s \in Sensors |-> 0]
  /\ disturbed = FALSE /\ events = 0

-----------------------------------------------------------------------------
(* The other threads. *)

SourceSenses ==
  /\ Sense /\ Event
  /\ UNCHANGED <<loopVars, cmdVars, upload, disturbed>>

\* Taken over in the middle of a publish, a change will count as published.
SourceTakesOver ==
  /\ TakeOver /\ NoEvent
  /\ disturbed' = (disturbed \/ (statusOld # status /\ mqttPc \in Sending))
  /\ UNCHANGED <<loopVars, cmdVars, upload>>

SourceRaises ==
  /\ Raise /\ NoEvent
  /\ UNCHANGED <<loopVars, cmdVars, upload, disturbed>>

\* While a picture is uploaded no turn of the loop reports.
Upload ==
  /\ \/ upload = 0 /\ upload' = 1 /\ Event
     \/ upload = 1 /\ upload' = 0 /\ NoEvent
  /\ UNCHANGED <<sourceVars, loopVars, cmdVars, disturbed>>

\* set_ok is 2 until a known attribute makes it 1.
Command ==
  /\ Event /\ setOk' \in {1, 2} /\ unacked' = unacked + 1
  /\ UNCHANGED <<sourceVars, loopVars, upload, setFlag, disturbed>>

\* A query asks for the list instead, and drops an answer still owed.
Query ==
  /\ Event /\ setOk' = 0 /\ setFlag' = 1
  /\ UNCHANGED <<sourceVars, loopVars, upload, unacked, disturbed>>

-----------------------------------------------------------------------------
(* The report loop, a turn every 200 ms: now and then the flags, then the list, *)
(* the answer, the alarm.                                                      *)

Said(msg, before) == [s \in DOMAIN before |-> IF msg[s] = NONE THEN before[s] ELSE msg[s]]

\* Mutant: the periodic report gives what was last published as an alarm.
DataDueStale ==
  /\ mqttPc = "turn" /\ upload = 0 /\ mqttPc' = "sendData"
  /\ message' = [s \in Sources |->
       IF s \in Sensors THEN IF BitOf[s] \in statusMqtt THEN 1 ELSE 0 ELSE NONE]
  /\ NoEvent /\ UNCHANGED <<sourceVars, statusMqtt, told, shown, cmdVars, upload, disturbed>>

\* min_cnt has run out, at any turn as far as the alarms can tell; the flags of
\* the sensors are read, not the camera's.
DataDue ==
  /\ mqttPc = "turn" /\ upload = 0 /\ mqttPc' = "sendData"
  /\ message' = [s \in Sources |-> IF s \in Sensors THEN errorFlag[s] ELSE NONE]
  /\ NoEvent /\ UNCHANGED <<sourceVars, statusMqtt, told, shown, cmdVars, upload, disturbed>>

\* The report counts for none of the alarms.  The other boards' reports and the
\* sleeps between them follow, before the same turn comes to the alarms.
SendData ==
  /\ mqttPc = "sendData" /\ mqttPc' = "list"
  /\ \/ shown' = Said(message, shown) /\ NoEvent
     \/ Losses /\ Event /\ UNCHANGED shown
  /\ message' = Nothing
  /\ UNCHANGED <<sourceVars, statusMqtt, told, cmdVars, upload, disturbed>>

NotDue ==
  /\ mqttPc = "turn" /\ mqttPc' = "list"
  /\ UNCHANGED <<sourceVars, statusMqtt, message, told, shown, cmdVars, upload,
                 disturbed, events>>


\* Mutant: the flags are cleared before the upload is looked at.
ListCheckClears ==
  /\ mqttPc = "list" /\ setFlag' = 0 /\ alarmChange' = IF upload = 1 THEN 0 ELSE alarmChange
  /\ mqttPc' = IF upload = 1 THEN "turn" ELSE IF setFlag = 1 THEN "sendList" ELSE "set"
  /\ UNCHANGED <<status, statusOld, errorFlag, raising, statusMqtt, message, told,
                 shown, setOk, unacked, upload, disturbed, events>>

ListCheck ==
  /\ mqttPc = "list"
  /\ \/ upload = 1 /\ mqttPc' = "turn" /\ UNCHANGED setFlag
     \/ upload = 0 /\ setFlag = 1 /\ mqttPc' = "sendList" /\ setFlag' = 0
     \/ upload = 0 /\ setFlag = 0 /\ mqttPc' = "set" /\ UNCHANGED setFlag
  /\ UNCHANGED <<sourceVars, statusMqtt, message, told, shown, setOk, unacked, upload,
                 disturbed, events>>

SetCheck ==
  /\ mqttPc = "set"
  /\ mqttPc' = IF setOk # 0 THEN "sendSet" ELSE "alarm"
  /\ UNCHANGED <<sourceVars, statusMqtt, message, told, shown, cmdVars, upload,
                 disturbed, events>>

\* Mutant: the end of an alarm is no change.
ChangesRaised ==
  [s \in Sources |-> IF BitOf[s] \in statusOld \ statusMqtt THEN errorFlag[s] ELSE NONE]

\* The message names the sources whose bit changed since the last publish, with
\* what their flags say by now, which may be ahead of error_status_old.
Changes ==
  [s \in Sources |-> IF (BitOf[s] \in statusOld) # (BitOf[s] \in statusMqtt)
                     THEN errorFlag[s] ELSE NONE]
Ahead(msg) ==
  \E s \in Sources : msg[s] # NONE /\ (msg[s] = 1) # (BitOf[s] \in statusOld)

AlarmCheck ==
  /\ mqttPc = "alarm" /\ NoEvent
  /\ \/ Notice /\ message' = Changes /\ mqttPc' = "sendAlarm"
        /\ disturbed' = (disturbed \/ Ahead(message'))
     \/ alarmChange = 0 /\ mqttPc' = "turn"
        /\ UNCHANGED <<sourceVars, message, disturbed>>
  /\ UNCHANGED <<statusMqtt, told, shown, cmdVars, upload>>

\* An alarm, an answer and a list, also one that is lost, count all there is in
\* error_status_old by now as reported.
Published ==
  /\ statusMqtt' = statusOld
  /\ UNCHANGED <<sourceVars, upload>>

\* Whether an answer arrives does not matter below; it covers unreported changes.
Answered ==
  /\ Published /\ disturbed' = (disturbed \/ statusOld # statusMqtt)
  /\ NoEvent /\ UNCHANGED <<message, told, shown>>

SendList ==
  /\ mqttPc = "sendList" /\ mqttPc' = "set"
  /\ Answered /\ UNCHANGED cmdVars

\* set_ok is cleared after the answer is sent, with whatever came meanwhile.
SendSet ==
  /\ mqttPc = "sendSet" /\ mqttPc' = "alarm"
  /\ Answered /\ unacked' = unacked - 1 /\ setOk' = 0 /\ UNCHANGED setFlag

\* Mutant: a source the message does not name is forgotten.
SendAlarmPartly ==
  /\ mqttPc = "sendAlarm" /\ mqttPc' = "turn"
  /\ told' = message /\ UNCHANGED shown
  /\ NoEvent /\ Published /\ message' = Nothing
  /\ UNCHANGED <<disturbed, cmdVars>>

SendAlarm ==
  /\ mqttPc = "sendAlarm" /\ mqttPc' = "turn"
  /\ \/ told' = Said(message, told) /\ shown' = Said(message, shown)
        /\ NoEvent /\ UNCHANGED disturbed
     \/ Losses /\ Event /\ disturbed' = TRUE /\ UNCHANGED <<told, shown>>
  /\ Published /\ message' = Nothing
  /\ UNCHANGED cmdVars

Loop ==
  \/ DataDue \/ SendData \/ NotDue
  \/ ListCheck \/ SendList \/ SetCheck \/ SendSet \/ AlarmCheck \/ SendAlarm

-----------------------------------------------------------------------------
Next ==
  \/ SourceSenses \/ SourceTakesOver \/ SourceRaises \/ Upload
  \/ Command \/ Query \/ Loop

Spec == Init /\ [][Next]_vars

\* The loop runs, and min_cnt runs out again and again; a periodic report
\* that falls into an upload is left out, which happens at most MaxEvents times.
FairSpec == Spec /\ WF_vars(Loop) /\ SF_vars(DataDue)

-----------------------------------------------------------------------------
\* Every variable keeps its type.
TypeOK ==
  /\ {status, statusOld, statusMqtt} \subseteq SUBSET Bits
  /\ errorFlag \in [Sources -> 0 .. 1]
  /\ {alarmChange, upload, setFlag} \subseteq 0 .. 1 /\ setOk \in 0 .. 2
  /\ mqttPc \in Places /\ raising \in BOOLEAN
  /\ message \in [Sources -> {0, 1, NONE}] /\ told \in [Sources -> 0 .. 1]
  /\ shown \in [Sensors -> 0 .. 1]
  /\ unacked \in Nat /\ disturbed \in BOOLEAN /\ events \in 0 .. MaxEvents

\* A change that was never published (error_status_old differs from
\* error_status_mqtt) is known to the loop: alarm_change_flag stands for it, the key
\* thread is about to raise it, or the alarm is being sent.
ChangeIsPending ==
  statusOld # statusMqtt => alarmChange = 1 \/ raising \/ mqttPc = "sendAlarm"

Quiet == mqttPc \notin Sending /\ alarmChange = 0 /\ ~raising /\ statusOld = status

\* What the alarm messages have told of a sensor with a bit of its own is so
\* whenever nothing is pending, unless an alarm message was lost, a flag was
\* reported ahead of its bit, an answer was sent over an unreported change, or a
\* change was taken over during a send.  (Of the alarm messages only: the last
\* word may be an older one of the periodic report, see Learnt.)
ToldUnlessDisturbed ==
  Quiet /\ ~disturbed =>
    \A s \in Sensors : OwnBit(s) => told[s] = errorFlag[s]

\* Whatever went wrong with the alarm messages, and also if a periodic report was
\* overtaken by the end of the alarm it told of, the server comes to know every
\* sensor that holds still, once pictures are no longer uploaded and messages no
\* longer lost.
Learnt ==
  \A s \in Sensors : \A v \in 0 .. 1 :
    <>[](errorFlag[s] = v /\ upload = 0) => <>[](shown[s] = v)

\* No command is answered more than once: an answer owed or under way is to a
\* command not yet answered.
AckedOnce == setOk # 0 \/ mqttPc = "sendSet" => unacked > 0

\* doc, MQTT protocol, 3. (alarms): the alarm message names the smoke, spd, lock and
\* water alarms and their end.  With nothing pending, the alarm messages have told
\* of every sensor what it says.
AlarmsArrive ==
  Quiet => \A s \in Sensors : OwnBit(s) => told[s] = errorFlag[s]
=============================================================================
