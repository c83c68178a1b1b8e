------------------------ MODULE MqttSession_proofs ------------------------
(***************************************************************************)
(* Proofs about MqttSession, for every number of tasks, turns and faults,  *)
(* and wherever the closing of a session falls among the turns of the eth  *)
(* thread: one mqtt task at most is at work, mqtt_thread names it, the     *)
(* yield task reads only behind its subscription, and a closing task finds *)
(* itself under the handle or the task of a session started since.         *)
(***************************************************************************)
EXTENDS MqttSession, TLAPS

\* The typing the steps need.
Typed ==
  /\ startFlag \in 0 .. 2 /\ connectFlag \in 0 .. 1
  /\ mqttPc \in [Tasks -> MqttPlaces]

\* The eth thread creates tasks only where none is at work, under the flag it set.
NoneYet ==
  ethPc = "createMqtt" => startFlag # 0 /\ \A t \in Tasks : ~Working(t)

\* No second session closes while one does.
OneCloses ==
  \A t, u \in Tasks : mqttPc[t] = "closing" /\ mqttPc[u] = "closing" => t = u

IInv ==
  Typed /\ NoneYet /\ OneCloses /\ OneClient /\ SoleReader /\ DeletesItself

-----------------------------------------------------------------------------
LEMMA InitIInv == Init => IInv
BY DEF Init, IInv, Typed, NoneYet, OneCloses, OneClient, SoleReader, DeletesItself,
       Working, Absent, MqttPlaces

LEMMA EthStep == ASSUME IInv, Eth PROVE IInv'
<1> USE DEF IInv, Typed, NoneYet, OneCloses, OneClient, SoleReader, DeletesItself,
            Working, Halted, Absent, MqttPlaces
<1>1. CASE TurnUp
  BY <1>1 DEF TurnUp, MayTurn, taskVars
<1>2. CASE CreateMqtt
  <2>1. PICK t \in Tasks :
          ~Running(t) /\ mqttPc' = [mqttPc EXCEPT ![t] = "network"] /\ mqttHandle' = t
    BY <1>2 DEF CreateMqtt
  <2>2. ethPc = "createMqtt" /\ ethPc' = "createYield" /\ ~Halted
        /\ UNCHANGED <<startFlag, connectFlag>>
    BY <1>2 DEF CreateMqtt
  <2>3. mqttPc[t] \in Absent /\ mqttPc'[t] = "network"
        /\ \A u \in Tasks : u # t => mqttPc'[u] = mqttPc[u]
    BY <2>1 DEF Running
  <2> QED BY <2>1, <2>2, <2>3
<1>3. CASE CreateYield
  BY <1>3 DEF CreateYield
<1>4. CASE TurnDown
  BY <1>4 DEF TurnDown, MayTurn, taskVars
<1>5. CASE EndSession
  BY <1>5 DEF EndSession, taskVars
<1> QED BY <1>1, <1>2, <1>3, <1>4, <1>5 DEF Eth

\* Where the task can go before its session is closed.
OpenPlaces == {"retryWait1", "connect", "retryWait2", "subscribe", "stuck", "loop"}

\* Moving between the places of an open session disturbs nothing.
LEMMA OpenStep ==
  ASSUME IInv, NEW t \in Tasks,
         NEW p \in OpenPlaces,
         mqttPc[t] \in {"network", "connect", "subscribe"}, Goto(t, p), ~Halted,
         connectFlag' = connectFlag \/ (connectFlag' = 1 /\ p = "loop"),
         UNCHANGED <<ethVars, startFlag, handles>>
  PROVE  IInv'
<1>1. /\ Working(t) /\ Working(t)' /\ mqttPc'[t] = p
      /\ \A u \in Tasks : u # t => mqttPc'[u] = mqttPc[u] /\ (Working(u)' <=> Working(u))
      /\ \A u \in Tasks : mqttPc'[u] = "closing" <=> mqttPc[u] = "closing"
  BY DEF Goto, IInv, Typed, Working, OpenPlaces, Absent
<1>2. Typed' /\ ~Halted'
  BY <1>1 DEF Goto, IInv, Typed, OpenPlaces, MqttPlaces, Halted
<1>3. \A u \in Tasks : Working(u)' <=> Working(u)
  BY <1>1
<1>4. NoneYet' /\ OneCloses' /\ OneClient' /\ DeletesItself'
  BY <1>1, <1>3 DEF IInv, NoneYet, OneCloses, OneClient, DeletesItself, ethVars, handles
<1>5. SoleReader'
  BY <1>1 DEF IInv, SoleReader
<1> QED BY <1>2, <1>4, <1>5 DEF IInv

LEMMA MqttStep == ASSUME IInv, NEW t \in Tasks, Mqtt(t) PROVE IInv'
<1>1. CASE OpenNetwork(t)
  <2>1. mqttPc[t] \in {"network", "connect", "subscribe"} /\ ~Halted
    BY <1>1 DEF OpenNetwork, At
  <2>2. UNCHANGED <<ethVars, startFlag, handles>>
    BY <1>1 DEF OpenNetwork
  <2>3. \E p \in OpenPlaces :
          /\ Goto(t, p)
          /\ connectFlag' = connectFlag \/ (connectFlag' = 1 /\ p = "loop")
    BY <1>1 DEF OpenNetwork, OpenPlaces
  <2> QED BY <2>1, <2>2, <2>3, OpenStep
<1>2. CASE Connect(t)
  <2>1. mqttPc[t] \in {"network", "connect", "subscribe"} /\ ~Halted
    BY <1>2 DEF Connect, At
  <2>2. UNCHANGED <<ethVars, startFlag, handles>>
    BY <1>2 DEF Connect
  <2>3. \E p \in OpenPlaces :
          /\ Goto(t, p)
          /\ connectFlag' = connectFlag \/ (connectFlag' = 1 /\ p = "loop")
    BY <1>2 DEF Connect, OpenPlaces
  <2> QED BY <2>1, <2>2, <2>3, OpenStep
<1>3. CASE Subscribe(t)
  <2>1. mqttPc[t] \in {"network", "connect", "subscribe"} /\ ~Halted
    BY <1>3 DEF Subscribe, At
  <2>2. UNCHANGED <<ethVars, startFlag, handles>>
    BY <1>3 DEF Subscribe
  <2>3. \E p \in OpenPlaces :
          /\ Goto(t, p)
          /\ connectFlag' = connectFlag \/ (connectFlag' = 1 /\ p = "loop")
    BY <1>3 DEF Subscribe, Subscribed, NotSubscribed, OpenPlaces
  <2> QED BY <2>1, <2>2, <2>3, OpenStep
<1>4. CASE Report(t)
  BY <1>4 DEF Report, IInv, Typed, NoneYet, OneCloses, OneClient, SoleReader,
     DeletesItself, Working, Halted, ethVars, taskVars
\* It was the only one at work, and now it is the only one closing.
<1>5. CASE CloseSession(t)
  <2>1. /\ ethPc \in {"turn", "endSession"} /\ UNCHANGED ethPc /\ UNCHANGED mqttHandle
        /\ startFlag' = 0 /\ connectFlag' = 0
        /\ \A u \in Tasks : mqttPc[u] # "closing"
    BY <1>5 DEF CloseSession, MayClose, Closing, ethVars, handles
  <2>2. Working(t) /\ mqttHandle = t /\ \A u \in Tasks : Working(u) => u = t
    BY <1>5 DEF CloseSession, MayClose, At, IInv, OneClient, Working, Absent
  <2>3. Typed' /\ mqttPc'[t] = "closing" /\ \A u \in Tasks : u # t => mqttPc'[u] = mqttPc[u]
    BY <1>5, <2>1 DEF CloseSession, Goto, IInv, Typed, MqttPlaces, Absent
  <2>4. \A u \in Tasks : ~Working(u)'
    BY <2>2, <2>3 DEF Working, Absent
  <2> QED BY <2>1, <2>2, <2>3, <2>4 DEF IInv, NoneYet, OneCloses, OneClient, SoleReader,
       DeletesItself
<1>6. CASE DeleteTasks(t)
  <2>1. /\ mqttPc[t] = "closing" /\ ~Working(t) /\ ~Halted
        /\ UNCHANGED <<ethPc, startFlag, connectFlag>>
        /\ mqttHandle = t \/ (startFlag # 0 /\ Working(mqttHandle))
        /\ \A u \in Tasks : u # t => mqttPc[u] # "closing"
    BY <1>6 DEF DeleteTasks, At, IInv, DeletesItself, OneCloses, Working, ethVars
  <2>2. CASE Goto(t, "deleted") /\ UNCHANGED mqttHandle
    <3>1. /\ Typed' /\ mqttPc'[t] = "deleted"
          /\ \A u \in Tasks : u # t => mqttPc'[u] = mqttPc[u]
      BY <2>1, <2>2 DEF Goto, IInv, Typed, MqttPlaces, Absent
    <3>2. \A u \in Tasks : Working(u)' <=> Working(u)
      BY <2>1, <3>1 DEF Working, Absent
    <3>3. ~Halted' /\ \A u \in Tasks : mqttPc'[u] # "closing"
      BY <2>1, <3>1 DEF Halted
    <3>4. SoleReader'
      BY <2>1, <3>1 DEF IInv, SoleReader
    <3> QED BY <2>1, <2>2, <3>1, <3>2, <3>3, <3>4 DEF IInv, NoneYet, OneCloses, OneClient,
         DeletesItself
  <2>3. CASE mqttHandle \notin {t, NULL} /\ mqttHandle' = NULL /\
             mqttPc' = [mqttPc EXCEPT ![mqttHandle] = "deleted", ![t] = "returned"]
    <3>1. Working(mqttHandle) /\ \A u \in Tasks : Working(u) => u = mqttHandle
      BY <2>1, <2>3 DEF IInv, OneClient
    <3>2. /\ Typed' /\ mqttPc'[t] = "returned"
          /\ \A u \in Tasks : u # t => mqttPc'[u] \in {mqttPc[u], "deleted"}
          /\ mqttHandle \in Tasks => mqttPc'[mqttHandle] = "deleted"
      BY <2>1, <2>3 DEF IInv, Typed, MqttPlaces, Absent
    <3>3. \A u \in Tasks : ~Working(u)' /\ mqttPc'[u] # "closing"
      BY <2>1, <3>1, <3>2 DEF Working, Absent
    <3>4. Halted'
      BY <3>2 DEF Halted
    <3> QED BY <2>1, <3>2, <3>3, <3>4 DEF IInv, NoneYet, OneCloses, OneClient, SoleReader,
         DeletesItself
  <2>4. \/ Goto(t, "deleted") /\ UNCHANGED mqttHandle
        \/ /\ mqttHandle \notin {t, NULL} /\ mqttHandle' = NULL
           /\ mqttPc' = [mqttPc EXCEPT ![mqttHandle] = "deleted", ![t] = "returned"]
    BY <1>6 DEF DeleteTasks, handles
  <2> QED BY <2>2, <2>3, <2>4
<1> QED BY <1>1, <1>2, <1>3, <1>4, <1>5, <1>6 DEF Mqtt

LEMMA OtherStep ==
  ASSUME IInv,
         \/ \E t \in Tasks : Yield(t)
         \/ LinkChanges \/ BrokerChanges \/ ConnectionLost \/ ExitError
         \/ UNCHANGED vars
  PROVE  IInv'
<1>1. UNCHANGED <<ethPc, startFlag, connectFlag, mqttHandle, mqttPc>>
  BY DEF Yield, LinkChanges, BrokerChanges, ConnectionLost, ExitError, vars, ethVars, taskVars
<1> QED BY <1>1 DEF IInv, Typed, NoneYet, OneCloses, OneClient, SoleReader,
           DeletesItself, Working, Halted

LEMMA NextIInv == ASSUME IInv, [Next]_vars PROVE IInv'
BY EthStep, MqttStep, OtherStep DEF Next

LEMMA Inductive == Spec => []IInv
<1>1. Init => IInv BY InitIInv
<1>2. IInv /\ [Next]_vars => IInv' BY NextIInv
<1> QED BY <1>1, <1>2, PTL DEF Spec

-----------------------------------------------------------------------------
\* One mqtt task at most is at work on the client, and it is the one mqtt_thread
\* names, also when the eth thread starts a session (mqtt_process_init) while
\* mqtt_control_thread is about to delete the tasks of the last one.
THEOREM OneClientHolds == Spec => []OneClient
<1>1. IInv => OneClient BY DEF IInv
<1> QED BY <1>1, Inductive, PTL

\* mqtt_connect_flag lets the yield task read only behind a subscription.
THEOREM SoleReaderHolds == Spec => []SoleReader
<1>1. IInv => SoleReader BY DEF IInv
<1> QED BY <1>1, Inductive, PTL

\* At the end of mqtt_control_thread mqtt_thread is the task itself, or the task of
\* a session started in the 10 ms before: the only way a task returns.
THEOREM DeletesItselfHolds == Spec => []DeletesItself
<1>1. IInv => DeletesItself BY DEF IInv
<1> QED BY <1>1, Inductive, PTL

-----------------------------------------------------------------------------
(* The types. *)

LEMMA EthTypes == ASSUME TypeOK, Eth PROVE TypeOK'
<1> USE SessionAssumption DEF SessionAssumption, TypeOK
<1>1. CASE TurnUp
  <2>1. phy' \in BOOLEAN
    BY <1>1, Zenon DEF TurnUp
  <2>2. timeCnt' \in 0 .. CheckTurns /\ errCnt' \in 0 .. DownTurns - 1
    <3>1. timeCnt' = 1 \/ (timeCnt < CheckTurns /\ timeCnt' = timeCnt + 1)
      BY <1>1, Zenon DEF TurnUp
    <3>2. errCnt' = 0 \/ errCnt' = errCnt
      BY <1>1, Zenon DEF TurnUp
    <3> QED BY <3>1, <3>2
  <2>3. startFlag' \in 0 .. 2 /\ ethPc' \in {"turn", "createMqtt", "createYield", "endSession"}
    BY <1>1 DEF TurnUp
  <2> QED BY <1>1, <2>1, <2>2, <2>3 DEF TurnUp, netVars, taskVars, clientVars
<1>2. CASE CreateMqtt
  <2>1. mqttPc' \in [Tasks -> MqttPlaces] /\ mqttHandle' \in Tasks
    BY <1>2 DEF CreateMqtt, MqttPlaces
  <2> QED BY <1>2, <2>1 DEF CreateMqtt, netVars, clientVars
<1>3. CASE CreateYield
  <2>1. yieldPc' \in [Tasks -> YieldPlaces] /\ yieldHandle' \in Tasks
    BY <1>3 DEF CreateYield, YieldPlaces
  <2> QED BY <1>3, <2>1 DEF CreateYield, netVars, clientVars
<1>4. CASE TurnDown
  <2>1. phy' \in BOOLEAN
    BY <1>4, Zenon DEF TurnDown
  <2>2. timeCnt' \in 0 .. CheckTurns /\ errCnt' \in 0 .. DownTurns - 1
    BY <1>4 DEF TurnDown
  <2>3. ethPc' \in {"turn", "createMqtt", "createYield", "endSession"}
    BY <1>4 DEF TurnDown
  <2> QED BY <1>4, <2>1, <2>2, <2>3 DEF TurnDown, netVars, taskVars, clientVars
<1>5. CASE EndSession
  BY <1>5 DEF EndSession, netVars, taskVars, clientVars
<1> QED BY <1>1, <1>2, <1>3, <1>4, <1>5 DEF Eth

LEMMA FaultTyped == ASSUME TypeOK, Fault \/ NoFault PROVE faults' \in 0 .. MaxFaults
BY SessionAssumption DEF SessionAssumption, TypeOK, Fault, NoFault

LEMMA GotoTyped ==
  ASSUME TypeOK, NEW t \in Tasks, NEW p \in MqttPlaces, Goto(t, p)
  PROVE  mqttPc' \in [Tasks -> MqttPlaces]
BY DEF TypeOK, Goto

\* Until its session is closed the task moves between its places and works on
\* socket, client and connect flag.
LEMMA OpenTypes ==
  ASSUME TypeOK, NEW t \in Tasks, OpenNetwork(t) \/ Connect(t) \/ Subscribe(t)
  PROVE  TypeOK'
<1>1. \E p \in MqttPlaces : Goto(t, p)
  BY DEF OpenNetwork, Connect, Subscribe, Subscribed, NotSubscribed, MqttPlaces
<1>2. Fault \/ NoFault
  BY DEF OpenNetwork, Connect, Subscribe, Subscribed, NotSubscribed
<1>3. {socket', session', handler'} \subseteq BOOLEAN
  <2>1. CASE OpenNetwork(t)
    BY <2>1 DEF OpenNetwork, clientVars, TypeOK
  <2>2. CASE Connect(t)
    BY <2>2 DEF Connect, TypeOK
  <2>3. CASE Subscribe(t)
    BY <2>3 DEF Subscribe, Subscribed, NotSubscribed, TypeOK
  <2> QED BY <2>1, <2>2, <2>3
<1>4. connectFlag' \in 0 .. 1
  BY DEF OpenNetwork, Connect, Subscribe, Subscribed, NotSubscribed, TypeOK
<1>5. UNCHANGED <<link, broker, phy, timeCnt, errCnt, ethPc, startFlag, mqttHandle,
                  yieldHandle, yieldPc>>
  BY DEF OpenNetwork, Connect, Subscribe, netVars, ethVars, handles
<1> QED BY <1>1, <1>2, <1>3, <1>4, <1>5, FaultTyped, GotoTyped DEF TypeOK

LEMMA MqttTypes == ASSUME TypeOK, NEW t \in Tasks, Mqtt(t) PROVE TypeOK'
<1>1. CASE OpenNetwork(t) \/ Connect(t) \/ Subscribe(t)
  BY <1>1, OpenTypes
<1>2. CASE Report(t)
  <2>1. {session', handler'} \subseteq BOOLEAN
    BY <1>2, Zenon DEF Report
  <2> QED BY <1>2, <2>1 DEF Report, TypeOK, netVars, ethVars, taskVars
<1>3. CASE CloseSession(t)
  <2>1. {session', handler'} \subseteq BOOLEAN
    BY <1>3 DEF CloseSession, ClosedClient, clientVars, TypeOK
  <2>2. mqttPc' \in [Tasks -> MqttPlaces]
    BY <1>3, GotoTyped DEF CloseSession, MqttPlaces
  <2> QED BY <1>3, <2>1, <2>2 DEF CloseSession, TypeOK, netVars, ethVars, handles
<1>4. CASE DeleteTasks(t)
  <2>1. mqttPc' \in [Tasks -> MqttPlaces]
    BY <1>4 DEF DeleteTasks, Goto, TypeOK, MqttPlaces, Absent
  <2>2. yieldPc' \in [Tasks -> YieldPlaces]
    BY <1>4 DEF DeleteTasks, handles, TypeOK, YieldPlaces, Absent
  <2>3. {mqttHandle', yieldHandle'} \subseteq Tasks \cup {NULL}
    BY <1>4 DEF DeleteTasks, handles, TypeOK
  <2> QED BY <1>4, <2>1, <2>2, <2>3 DEF DeleteTasks, TypeOK, netVars, ethVars, clientVars
<1> QED BY <1>1, <1>2, <1>3, <1>4 DEF Mqtt

LEMMA OtherTypes ==
  ASSUME TypeOK,
         \/ \E t \in Tasks : Yield(t)
         \/ LinkChanges \/ BrokerChanges \/ ConnectionLost \/ ExitError
         \/ UNCHANGED vars
  PROVE  TypeOK'
<1>1. ASSUME NEW t \in Tasks, Yield(t) PROVE TypeOK'
  <2>1. {session', handler'} \subseteq BOOLEAN
    BY <1>1, Zenon DEF Yield
  <2>2. yieldPc' \in [Tasks -> YieldPlaces]
    BY <1>1 DEF Yield, TypeOK, YieldPlaces
  <2>3. faults' \in 0 .. MaxFaults
    BY <1>1, FaultTyped DEF Yield
  <2> QED BY <1>1, <2>1, <2>2, <2>3 DEF Yield, TypeOK, netVars, ethVars
<1>2. CASE LinkChanges \/ BrokerChanges \/ ConnectionLost
  <2>1. {link', broker', socket'} \subseteq BOOLEAN
    BY <1>2 DEF LinkChanges, BrokerChanges, ConnectionLost, netVars, TypeOK
  <2>2. faults' \in 0 .. MaxFaults
    BY <1>2, FaultTyped DEF LinkChanges, BrokerChanges, ConnectionLost
  <2> QED BY <1>2, <2>1, <2>2 DEF LinkChanges, BrokerChanges, ConnectionLost, TypeOK,
             ethVars, taskVars, clientVars
<1>3. CASE ExitError \/ UNCHANGED vars
  BY <1>3 DEF ExitError, vars, netVars, ethVars, taskVars, clientVars, TypeOK
<1> QED BY <1>1, <1>2, <1>3

\* Every variable keeps its type: the counters of w5500_control_thread stay at their
\* limits and the handles name tasks.
THEOREM TypeOKHolds == Spec => []TypeOK
<1>1. ASSUME Init PROVE TypeOK
  <2>1. {link, broker, socket, phy, session, handler} \subseteq BOOLEAN
    BY <1>1, Zenon DEF Init
  <2>2. timeCnt \in 0 .. CheckTurns /\ errCnt \in 0 .. DownTurns - 1 /\ faults \in 0 .. MaxFaults
    BY <1>1, SessionAssumption DEF SessionAssumption, Init
  <2>3. mqttPc \in [Tasks -> MqttPlaces] /\ yieldPc \in [Tasks -> YieldPlaces]
    BY <1>1 DEF Init, MqttPlaces, YieldPlaces, Absent
  <2> QED BY <1>1, <2>1, <2>2, <2>3 DEF Init, TypeOK
<1>2. TypeOK /\ [Next]_vars => TypeOK'
  BY EthTypes, MqttTypes, OtherTypes DEF Next
<1> QED BY <1>1, <1>2, PTL DEF Spec
=============================================================================
