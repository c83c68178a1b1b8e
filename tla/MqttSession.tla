---------------------------- MODULE MqttSession ----------------------------
(***************************************************************************)
(* The life of the gateway's MQTT session over Ethernet: the eth thread    *)
(* (w5500_control_thread) that watches the PHY link and creates the two    *)
(* MQTT tasks, the mqtt task that connects, subscribes, publishes and      *)
(* closes, the yield task that reads the socket, and the session state of  *)
(* the MQTT client they share.  What is published is in AlarmReport.       *)
(*                                                                         *)
(* The yield task has the highest priority of the three, then the mqtt     *)
(* task, then the eth thread: a task is cut only by a higher one or where  *)
(* it sleeps, so each action below runs from one such place to the next.   *)
(***************************************************************************)
EXTENDS Naturals

CONSTANTS Tasks,      \* identities of created tasks, reused once deleted
          NULL,       \* a task handle that holds none
          CheckTurns, \* turns between two PHY checks while up (5*2)
          DownTurns,  \* turns without link that end a session (6)
          MaxFaults   \* bound: link and network changes, refusals, bad packets,
                      \* lost connections

ASSUME SessionAssumption ==
  /\ NULL \notin Tasks
  /\ CheckTurns \in Nat \ {0} /\ DownTurns \in Nat \ {0} /\ MaxFaults \in Nat

VARIABLES
  link, broker,   \* is the cable plugged in; can the broker be reached over it
  socket,         \* is the W5500 socket's connection established
  phy,            \* device_data.phy_check_flag
  timeCnt,        \* phy_check_time_cnt
  errCnt,         \* phy_check_err_cnt
  ethPc,          \* where the eth thread stands in its turn
  startFlag,      \* device_data.mqtt_start_flag
  connectFlag,    \* device_data.mqtt_connect_flag
  mqttHandle, yieldHandle,  \* mqtt_thread, yield_thread
  mqttPc, yieldPc,          \* where each task stands
  session,        \* g_mqtt_client.isconnected
  handler,        \* is mqtt_subscribe_command among the message handlers
  faults          \* how much of the bound is used

ethVars == <<phy, timeCnt, errCnt, ethPc>>
taskVars == <<mqttHandle, yieldHandle, mqttPc, yieldPc>>
clientVars == <<session, handler>>
netVars == <<link, broker>>
Path == link /\ broker
vars == <<netVars, socket, ethVars, startFlag, connectFlag, taskVars, clientVars, faults>>

Absent == {"none", "deleted"}
MqttPlaces == Absent \cup {"network", "retryWait1", "connect", "retryWait2",
                           "subscribe", "stuck", "loop", "closing", "returned"}
YieldPlaces == Absent \cup {"run", "stuck"}

Init ==
  /\ link = TRUE /\ broker = TRUE /\ socket = FALSE
  /\ phy \in BOOLEAN /\ timeCnt = 0 /\ errCnt = 0 /\ ethPc = "turn"
  /\ startFlag = 0 /\ connectFlag = 0
  /\ mqttHandle = NULL /\ yieldHandle = NULL
  /\ mqttPc = [t \in Tasks |-> "none"] /\ yieldPc = [t \in Tasks |-> "none"]
  /\ session = FALSE /\ handler = FALSE
  /\ faults = 0

Fault == faults < MaxFaults /\ faults' = faults + 1
NoFault == UNCHANGED faults
Running(t) == mqttPc[t] \notin Absent
\* A task that returned from its function: the FreeRTOS port stops everything.
Halted == \E t \in Tasks : mqttPc[t] = "returned"
Closing == \E t \in Tasks : mqttPc[t] = "closing"

\* A task at work on the client: created, and not on its way out.
Working(t) == mqttPc[t] \notin Absent \cup {"closing", "returned"}

-----------------------------------------------------------------------------
(* The eth thread: one turn every 500 ms. *)

\* Also in the 10 ms in which a closed session deletes its tasks.
MayTurn == ethPc = "turn" /\ ~Halted

\* Mutant: a session is also started while the last one is told to end.
TurnUpTooEarly ==
  /\ MayTurn /\ phy /\ phy' = link /\ timeCnt' = 1
  /\ \/ startFlag # 1 /\ errCnt' = 0 /\ startFlag' = 1 /\ ethPc' = "createMqtt"
     \/ startFlag = 1 /\ UNCHANGED <<errCnt, startFlag, ethPc>>
  /\ UNCHANGED <<netVars, socket, connectFlag, taskVars, clientVars, faults>>

\* With link: the PHY is looked at every CheckTurns turns, and a session is
\* started if there is none.
TurnUp ==
  /\ MayTurn /\ phy
  /\ \/ timeCnt >= CheckTurns /\ phy' = link /\ timeCnt' = 1
     \/ timeCnt < CheckTurns /\ timeCnt' = timeCnt + 1 /\ UNCHANGED phy
  /\ \/ startFlag = 0 /\ errCnt' = 0 /\ startFlag' = 1 /\ ethPc' = "createMqtt"
     \/ startFlag # 0 /\ UNCHANGED <<errCnt, startFlag, ethPc>>
  /\ UNCHANGED <<netVars, socket, connectFlag, taskVars, clientVars, faults>>

\* Mutant: xTaskCreate is not given the address of mqtt_thread.
CreateMqttNoHandle ==
  /\ ethPc = "createMqtt" /\ ~Halted
  /\ ethPc' = "createYield"
  /\ \E t \in Tasks : ~Running(t) /\ mqttPc' = [mqttPc EXCEPT ![t] = "network"]
  /\ UNCHANGED <<netVars, socket, phy, timeCnt, errCnt, startFlag, connectFlag,
                 mqttHandle, yieldHandle, yieldPc, clientVars, faults>>

CreateMqtt ==
  /\ ethPc = "createMqtt" /\ ~Halted
  /\ ethPc' = "createYield"
  /\ \E t \in Tasks :
       /\ ~Running(t)
       /\ mqttPc' = [mqttPc EXCEPT ![t] = "network"] /\ mqttHandle' = t
  /\ UNCHANGED <<netVars, socket, phy, timeCnt, errCnt, startFlag, connectFlag,
                 yieldHandle, yieldPc, clientVars, faults>>

CreateYield ==
  /\ ethPc = "createYield" /\ ~Halted
  /\ ethPc' = "turn"
  /\ \E t \in Tasks :
       /\ yieldPc[t] \in Absent
       /\ yieldPc' = [yieldPc EXCEPT ![t] = "run"] /\ yieldHandle' = t
  /\ UNCHANGED <<netVars, socket, phy, timeCnt, errCnt, startFlag, connectFlag,
                 mqttHandle, mqttPc, clientVars, faults>>

\* Mutant: phy_check_err_cnt is not reset when it ends a session.
TurnDownKeepsCount ==
  /\ MayTurn /\ ~phy
  /\ phy' = link /\ timeCnt' = 1
  /\ \/ startFlag = 1 /\ errCnt' = errCnt + 1
        /\ ethPc' = IF errCnt + 1 >= DownTurns THEN "endSession" ELSE ethPc
     \/ startFlag # 1 /\ UNCHANGED <<errCnt, ethPc>>
  /\ UNCHANGED <<netVars, socket, startFlag, connectFlag, taskVars, clientVars, faults>>

\* Mutant: the outage counter starts over at its limit without ending the session.
TurnDownNeverEnds ==
  /\ MayTurn /\ ~phy
  /\ phy' = link /\ timeCnt' = 1
  /\ errCnt' = IF startFlag = 1 /\ errCnt + 1 < DownTurns THEN errCnt + 1 ELSE 0
  /\ UNCHANGED <<netVars, socket, ethPc, startFlag, connectFlag, taskVars,
                 clientVars, faults>>

\* Without link: the PHY is looked at every turn, and after DownTurns turns (in
\* all: an outage shorter than that is not forgotten) the session is told to end.
TurnDown ==
  /\ MayTurn /\ ~phy
  /\ phy' = link /\ timeCnt' = 1
  /\ \/ startFlag = 1 /\ errCnt + 1 < DownTurns
        /\ errCnt' = errCnt + 1 /\ UNCHANGED ethPc
     \/ startFlag = 1 /\ errCnt + 1 >= DownTurns
        /\ errCnt' = 0 /\ ethPc' = "endSession"
     \/ startFlag # 1 /\ UNCHANGED <<errCnt, ethPc>>
  /\ UNCHANGED <<netVars, socket, startFlag, connectFlag, taskVars, clientVars, faults>>

EndSession ==
  /\ ethPc = "endSession" /\ ~Halted
  /\ startFlag' = 2 /\ ethPc' = "turn"
  /\ UNCHANGED <<netVars, socket, phy, timeCnt, errCnt, connectFlag, taskVars,
                 clientVars, faults>>

Eth == TurnUp \/ CreateMqtt \/ CreateYield \/ TurnDown \/ EndSession

-----------------------------------------------------------------------------
(* The mqtt task. *)

At(t, place) == mqttPc[t] = place /\ ~Halted
Goto(t, place) == mqttPc' = [mqttPc EXCEPT ![t] = place]
handles == <<mqttHandle, yieldHandle, yieldPc>>

OpenNetwork(t) ==
  /\ At(t, "network")
  /\ \/ Path /\ socket' = TRUE /\ Goto(t, "connect") /\ NoFault
     \/ ~Path /\ socket' = FALSE /\ Goto(t, "retryWait1") /\ NoFault
     \/ socket' = FALSE /\ Goto(t, "retryWait1") /\ Fault
  /\ UNCHANGED <<netVars, ethVars, startFlag, connectFlag, handles, clientVars>>

\* MQTTClientInit, then MQTTConnect: a broker that refuses gives a positive
\* code, which the caller takes for success while the client stays unconnected.
Connect(t) ==
  /\ At(t, "connect")
  /\ handler' = FALSE
  /\ \/ Path /\ socket /\ session' = TRUE /\ Goto(t, "subscribe") /\ NoFault
     \/ Path /\ socket /\ session' = FALSE /\ Goto(t, "subscribe") /\ Fault
     \/ session' = FALSE /\ Goto(t, "retryWait2") /\ Fault
     \/ ~(Path /\ socket) /\ session' = FALSE /\ Goto(t, "retryWait2") /\ NoFault
  /\ UNCHANGED <<netVars, socket, ethVars, startFlag, connectFlag, handles>>

\* MQTTSubscribe: without a session or an answer the task waits for ever; a
\* broker that rejects the topic leaves no handler but counts as success.
Subscribed(t) ==
  /\ session /\ Path /\ socket
  /\ \/ handler' = TRUE /\ NoFault
     \/ handler' = FALSE /\ Fault
  /\ connectFlag' = 1 /\ Goto(t, "loop") /\ UNCHANGED session

NotSubscribed(t) ==
  /\ \/ session /\ Path /\ socket /\ Fault
     \/ ~(session /\ Path /\ socket) /\ NoFault
  /\ session' = FALSE /\ handler' = FALSE
  /\ Goto(t, "stuck") /\ UNCHANGED connectFlag

Subscribe(t) ==
  /\ At(t, "subscribe")
  /\ Subscribed(t) \/ NotSubscribed(t)
  /\ UNCHANGED <<netVars, socket, ethVars, startFlag, handles>>

\* One turn of the report loop.  A publish that cannot be sent closes the
\* session; nothing opens it again before the task ends.
Report(t) ==
  /\ At(t, "loop") /\ startFlag # 2
  /\ session' = (session /\ socket)
  /\ handler' = (handler /\ (session => socket))
  /\ UNCHANGED <<netVars, socket, ethVars, startFlag, connectFlag, taskVars,
                 faults>>

\* The ways to the end: MQTTUnsubscribe and MQTTDisconnect after the loop,
\* MQTTDisconnect after a failed connect, neither after a failed network.  A
\* session lasts seconds (the retry waits a minute): longer than the creation of
\* its tasks and than the 10 ms of one closed before it.
MayClose(t) ==
  /\ \/ At(t, "loop") /\ startFlag = 2
     \/ At(t, "retryWait2")
     \/ At(t, "retryWait1")
  /\ ethPc \in {"turn", "endSession"} /\ ~Closing

ClosedClient(t) ==
  \/ mqttPc[t] = "retryWait1" /\ UNCHANGED clientVars
  \/ mqttPc[t] # "retryWait1" /\ session' = FALSE /\ handler' = FALSE

\* Mutant: mqtt_connect_flag is not cleared.
CloseKeepsConnect(t) ==
  /\ MayClose(t) /\ ClosedClient(t) /\ Goto(t, "closing")
  /\ startFlag' = 0
  /\ UNCHANGED <<connectFlag, netVars, socket, ethVars, handles, faults>>

\* Mutant: mqtt_start_flag is not cleared.
CloseKeepsStart(t) ==
  /\ MayClose(t) /\ ClosedClient(t) /\ Goto(t, "closing")
  /\ connectFlag' = 0
  /\ UNCHANGED <<startFlag, netVars, socket, ethVars, handles, faults>>

\* ... and the flags are cleared.
CloseSession(t) ==
  /\ MayClose(t) /\ ClosedClient(t) /\ Goto(t, "closing")
  /\ startFlag' = 0 /\ connectFlag' = 0
  /\ UNCHANGED <<netVars, socket, ethVars, handles, faults>>

\* After 10 ms the task deletes whatever the two handles hold by now.  Deleting
\* NULL deletes the caller; deleting another mqtt task lets this one run past
\* its end.
DeleteTasks(t) ==
  /\ At(t, "closing")
  /\ \/ /\ yieldHandle = NULL
        /\ Goto(t, "deleted") /\ UNCHANGED handles
     \/ /\ yieldHandle # NULL
        /\ yieldPc' = [yieldPc EXCEPT ![yieldHandle] = "deleted"]
        /\ yieldHandle' = NULL
        /\ \/ mqttHandle \in {t, NULL}
              /\ Goto(t, "deleted") /\ UNCHANGED mqttHandle
           \/ mqttHandle \notin {t, NULL}
              /\ mqttPc' = [mqttPc EXCEPT ![mqttHandle] = "deleted",
                                          ![t] = "returned"]
              /\ mqttHandle' = NULL
  /\ UNCHANGED <<netVars, socket, ethVars, startFlag, connectFlag, clientVars, faults>>

Mqtt(t) ==
  \/ OpenNetwork(t) \/ Connect(t) \/ Subscribe(t) \/ Report(t)
  \/ CloseSession(t) \/ DeleteTasks(t)

-----------------------------------------------------------------------------
\* The yield task reads the socket once the session is announced: an unknown
\* packet closes the session, a read error also stops the task for good.
Yield(t) ==
  /\ yieldPc[t] = "run" /\ connectFlag = 1 /\ ~Halted
  /\ Fault
  /\ session' = FALSE /\ handler' = (handler /\ ~session)
  /\ \/ UNCHANGED yieldPc
     \/ yieldPc' = [yieldPc EXCEPT ![t] = "stuck"]
  /\ UNCHANGED <<netVars, socket, ethVars, startFlag, connectFlag, mqttHandle,
                 yieldHandle, mqttPc>>

LinkChanges ==
  /\ Fault /\ link' = ~link
  /\ UNCHANGED <<broker, socket, ethVars, startFlag, connectFlag, taskVars,
                 clientVars>>

BrokerChanges ==
  /\ Fault /\ broker' = ~broker
  /\ UNCHANGED <<link, socket, ethVars, startFlag, connectFlag, taskVars,
                 clientVars>>

\* The connection is given up after a time without a path, or reset by a peer.
ConnectionLost ==
  /\ socket /\ socket' = FALSE
  /\ (~Path /\ NoFault) \/ (Path /\ Fault)
  /\ UNCHANGED <<netVars, ethVars, startFlag, connectFlag, taskVars, clientVars>>

\* What the port does when a task returns: interrupts off, for ever.
ExitError == Halted /\ UNCHANGED vars

Next ==
  \/ Eth
  \/ \E t \in Tasks : Mqtt(t) \/ Yield(t)
  \/ LinkChanges \/ BrokerChanges \/ ConnectionLost \/ ExitError

\* The scheduler lets every task run; nothing is assumed of the network.
Fairness == WF_vars(Eth) /\ \A t \in Tasks : WF_vars(Mqtt(t))

Spec == Init /\ [][Next]_vars
FairSpec == Spec /\ Fairness

-----------------------------------------------------------------------------
\* Every variable keeps its type.
TypeOK ==
  /\ {link, broker, socket, phy, session, handler} \subseteq BOOLEAN
  /\ timeCnt \in 0 .. CheckTurns /\ errCnt \in 0 .. DownTurns - 1
  /\ ethPc \in {"turn", "createMqtt", "createYield", "endSession"}
  /\ startFlag \in 0 .. 2 /\ connectFlag \in 0 .. 1
  /\ {mqttHandle, yieldHandle} \subseteq Tasks \cup {NULL}
  /\ mqttPc \in [Tasks -> MqttPlaces] /\ yieldPc \in [Tasks -> YieldPlaces]
  /\ faults \in 0 .. MaxFaults

\* One mqtt task at most is at work on the client, and it is the one mqtt_thread
\* names: none while mqtt_start_flag is 0, one while it is 1 (once created), also
\* when a session is started in the 10 ms in which the last one deletes its tasks.
OneClient ==
  /\ \A t \in Tasks : Working(t) => mqttHandle = t /\ startFlag # 0
  /\ startFlag = 1 /\ ethPc # "createMqtt" /\ ~Halted =>
       mqttHandle \in Tasks /\ Working(mqttHandle)

\* The yield task is let at the client (mqtt_connect_flag) only while an mqtt
\* task is past its subscription: never while one connects or subscribes, when
\* both would read the same socket and wait for each other's packets.
SoleReader ==
  connectFlag = 1 /\ ~Halted => \E t \in Tasks : mqttPc[t] = "loop"

\* A task about to delete what the handles hold deletes itself, unless the eth
\* thread has started a session in the 10 ms since it cleared the flags: nothing
\* else makes it return from its function (mqtt_overlap shows that this does).
DeletesItself ==
  \A t \in Tasks : mqttPc[t] = "closing" =>
    mqttHandle = t \/ (startFlag # 0 /\ Working(mqttHandle))

Serving ==
  /\ connectFlag = 1 /\ socket /\ session /\ handler
  /\ \E t \in Tasks : mqttPc[t] = "loop"

\* The flag tells a session to end that has closed itself between the eth
\* thread's test of the flag and its store: no session is started any more.
StopLost == startFlag = 2 /\ \A t \in Tasks : ~Working(t)

\* The places the code has no way out of but a long loss of link, or none.
DeadEnd ==
  \/ \E t \in Tasks : mqttPc[t] = "stuck"
  \/ \E t \in Tasks : mqttPc[t] = "loop" /\ ~(socket /\ session /\ handler)
  \/ StopLost \/ Halted

\* Once link and network stay good the gateway is connected and listening for
\* commands for good, unless it ran into one of the four dead ends.
Reconnects == <>[]Path => <>[](Serving \/ DeadEnd)

\* When the link stays away the session is ended and its tasks are deleted, so
\* that the next link starts afresh; only a failed subscription prevents it, or
\* that everything has stopped.
LinkLossReleases ==
  <>[]~link => <>[](\/ \A t \in Tasks : ~Running(t) /\ yieldPc[t] \in Absent
                    \/ \E t \in Tasks : mqttPc[t] = "stuck"
                    \/ Halted)

\* components/freertos/portable/GCC/ARM_CM4F/port.c: a function that implements
\* a task must not exit or attempt to return to its caller.
NoTaskReturns == ~Halted
=============================================================================
