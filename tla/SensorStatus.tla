---------------------------- MODULE SensorStatus ----------------------------
(***************************************************************************)
(* The cabinet's alarms: the key thread debounces the sensors, keeps       *)
(* error_status, takes it over into error_status_old and drives the buzzer *)
(* with its mute; the camera thread adds the camera's fault to the same    *)
(* word.                                                                   *)
(*                                                                         *)
(* The key thread has the lowest priority and is cut anywhere, also        *)
(* between reading error_status and writing it back; the camera thread's   *)
(* own changes are not cut by it.                                          *)
(***************************************************************************)
EXTENDS Integers, Sequences

CONSTANTS Order,     \* the sensors, in the order key_control_thread reads them
          CAMERA, BitOf,
          NONE,      \* no value
          Debounce,  \* samples a change must last (3)
          CamLimit   \* failures in a row that make the camera faulty (5)

Sensors == {Order[i] : i \in 1 .. Len(Order)}

VARIABLES
  status, statusOld, errorFlag, alarmChange,  \* as in AlarmSource
  input,         \* what the sensors' pins read
  valueOld,      \* smoke_value_old, water_value_old, ... (NONE: 0xff)
  valueCnt,      \* smoke_value_cnt, ...
  keyAt,         \* the sensor, or the step after the last, the key thread has come to
  loaded,        \* error_status as read for the change under way
  buzzerChange,  \* buzzer_change_flag
  mute,          \* buzzer_enable_flag: the CLR key silenced the buzzer
  buzzer,
  camOk, camErr  \* the camera thread's ret and camera_err_cnt

\* The last three places of the turn: the words are compared, the new one is taken
\* over, alarm_change_flag is raised and the buzzer set.
AtCompare == keyAt = Len(Order) + 1
AtTake == keyAt = Len(Order) + 2
AtRaise == keyAt = Len(Order) + 3

Source == INSTANCE AlarmSource WITH raising <- AtRaise
Sources == Source!Sources
Bits == Source!Bits
OwnBit(s) == Source!OwnBit(s)

ASSUME StatusAssumption ==
  /\ Order \in Seq(Sensors)
  /\ \A i, j \in 1 .. Len(Order) : BitOf[Order[i]] = BitOf[Order[j]] => i = j
  /\ CAMERA \notin Sensors /\ DOMAIN BitOf = Sources
  /\ NONE \notin 0 .. 1 /\ \A word \in SUBSET Bits : word # NONE
  /\ Debounce \in Nat \ {0} /\ CamLimit \in Nat \ {0}

wordVars == <<status, statusOld, errorFlag, alarmChange>>
sampleVars == <<valueOld, valueCnt, keyAt, loaded>>
buzzVars == <<buzzerChange, mute, buzzer>>
camVars == <<camOk, camErr>>
vars == <<wordVars, input, sampleVars, buzzVars, camVars>>

Init ==
  /\ keyAt = 1 /\ loaded = NONE
  /\ Source!SourceInit
  /\ input \in [Sensors -> 0 .. 1]
  /\ valueOld = [s \in Sensors |-> NONE] /\ valueCnt = [s \in Sensors |-> 0]
  /\ buzzerChange = 0 /\ mute = 0 /\ buzzer = 0
  /\ camOk \in BOOLEAN /\ camErr = 0

-----------------------------------------------------------------------------
(* The key thread's turn: the CLR key, each sensor, then the comparison. *)

SensorChanges ==
  /\ \E s \in Sensors : input' = [input EXCEPT ![s] = 1 - @]
  /\ UNCHANGED <<wordVars, sampleVars, buzzVars, camVars>>

PressClr ==
  /\ keyAt = 1 /\ loaded = NONE /\ status # {}
  /\ mute' = 1 - mute /\ buzzerChange' = 1
  /\ UNCHANGED <<wordVars, input, sampleVars, buzzer, camVars>>

Sensor == Order[keyAt]

\* Mutant: the counter of a sensor goes on over its limit.
SampleKeepsCount ==
  /\ keyAt \in 1 .. Len(Order) /\ loaded = NONE
  /\ valueCnt' = [valueCnt EXCEPT ![Sensor] =
                    IF input[Sensor] = valueOld[Sensor] THEN 0 ELSE @ + 1]
  /\ \/ /\ input[Sensor] = valueOld[Sensor] \/ valueCnt[Sensor] + 1 < Debounce
        /\ keyAt' = keyAt + 1 /\ UNCHANGED <<valueOld, loaded>>
     \/ /\ input[Sensor] # valueOld[Sensor] /\ valueCnt[Sensor] + 1 >= Debounce
        /\ valueOld' = [valueOld EXCEPT ![Sensor] = input[Sensor]]
        /\ loaded' = status /\ UNCHANGED keyAt
  /\ UNCHANGED <<wordVars, input, buzzVars, camVars>>

\* A change that lasted is taken over, and error_status read to be changed.
Sample ==
  /\ keyAt \in 1 .. Len(Order) /\ loaded = NONE
  /\ \/ /\ input[Sensor] = valueOld[Sensor]
        /\ valueCnt' = [valueCnt EXCEPT ![Sensor] = 0]
        /\ keyAt' = keyAt + 1 /\ UNCHANGED <<valueOld, loaded>>
     \/ /\ input[Sensor] # valueOld[Sensor] /\ valueCnt[Sensor] + 1 < Debounce
        /\ valueCnt' = [valueCnt EXCEPT ![Sensor] = @ + 1]
        /\ keyAt' = keyAt + 1 /\ UNCHANGED <<valueOld, loaded>>
     \/ /\ input[Sensor] # valueOld[Sensor] /\ valueCnt[Sensor] + 1 >= Debounce
        /\ valueCnt' = [valueCnt EXCEPT ![Sensor] = 0]
        /\ valueOld' = [valueOld EXCEPT ![Sensor] = input[Sensor]]
        /\ loaded' = status /\ UNCHANGED keyAt
  /\ UNCHANGED <<wordVars, input, buzzVars, camVars>>

\* Mutant: only alarms are stored, their end is not.
StoreOnlyAlarms ==
  /\ loaded # NONE
  /\ status' = IF valueOld[Sensor] = 1 THEN loaded \cup {BitOf[Sensor]} ELSE loaded
  /\ errorFlag' = [errorFlag EXCEPT ![Sensor] = valueOld[Sensor]]
  /\ loaded' = NONE /\ keyAt' = keyAt + 1
  /\ UNCHANGED <<statusOld, alarmChange, input, valueOld, valueCnt, buzzVars, camVars>>

\* ... and written back, over whatever the camera thread wrote meanwhile, and the
\* flag after it; no other thread reads error_status itself.
Store ==
  /\ loaded # NONE
  /\ status' = IF valueOld[Sensor] = 1 THEN loaded \cup {BitOf[Sensor]}
                                       ELSE loaded \ {BitOf[Sensor]}
  /\ errorFlag' = [errorFlag EXCEPT ![Sensor] = valueOld[Sensor]]
  /\ loaded' = NONE /\ keyAt' = keyAt + 1
  /\ UNCHANGED <<statusOld, alarmChange, input, valueOld, valueCnt, buzzVars, camVars>>

\* The buzzer sounds when there is an alarm and it is not muted.
Buzz == buzzer' = IF statusOld # {} /\ mute = 0 THEN 1 ELSE 0

\* Mutant: the word is taken over only when it has got a bit more.
CompareMissesEnd ==
  /\ AtCompare
  /\ \/ ~(status \subseteq statusOld) /\ keyAt' = keyAt + 1 /\ UNCHANGED buzzVars
     \/ status \subseteq statusOld /\ keyAt' = 1 /\ buzzerChange' = 0
        /\ (IF buzzerChange = 1 THEN Buzz ELSE UNCHANGED buzzer)
        /\ UNCHANGED mute
  /\ UNCHANGED <<wordVars, input, valueOld, valueCnt, loaded, camVars>>

\* With no new word only a press of CLR has to be heard.
Compare ==
  /\ AtCompare
  /\ \/ statusOld # status /\ keyAt' = keyAt + 1 /\ UNCHANGED buzzVars
     \/ statusOld = status /\ keyAt' = 1 /\ buzzerChange' = 0
        /\ (IF buzzerChange = 1 THEN Buzz ELSE UNCHANGED buzzer)
        /\ UNCHANGED mute
  /\ UNCHANGED <<wordVars, input, valueOld, valueCnt, loaded, camVars>>

\* error_status is read again, with what the camera thread made of it.
TakeOver ==
  /\ AtTake /\ keyAt' = keyAt + 1
  /\ statusOld' = status /\ buzzerChange' = 1
  /\ UNCHANGED <<status, errorFlag, alarmChange, input, valueOld, valueCnt, loaded,
                 mute, buzzer, camVars>>

\* Mutant: the flag of the buzzer is cleared before the mute is looked at.
RaiseIgnoresMute ==
  /\ AtRaise /\ keyAt' = 1
  /\ alarmChange' = 1 /\ buzzerChange' = 0
  /\ buzzer' = IF statusOld # {} THEN 1 ELSE 0
  /\ UNCHANGED <<status, statusOld, errorFlag, input, valueOld, valueCnt, loaded,
                 mute, camVars>>

Raise ==
  /\ AtRaise /\ keyAt' = 1
  /\ alarmChange' = 1 /\ buzzerChange' = 0 /\ Buzz
  /\ UNCHANGED <<status, statusOld, errorFlag, input, valueOld, valueCnt, loaded,
                 mute, camVars>>

Key == Sample \/ Store \/ Compare \/ TakeOver \/ Raise

-----------------------------------------------------------------------------
(* The camera thread: one turn per action. *)

\* The end of each turn: too many failures in a row are an alarm, each turn anew.
CamVerdict(err, word, flag) ==
  /\ camErr' = err
  /\ status' = IF err >= CamLimit THEN word \cup {BitOf[CAMERA]} ELSE word
  /\ errorFlag' = [errorFlag EXCEPT ![CAMERA] = IF err >= CamLimit THEN 1 ELSE flag]
  /\ UNCHANGED <<statusOld, alarmChange, input, sampleVars, buzzVars>>

\* camera_err_cnt, which the code lets grow, is told apart up to CamLimit.
OneMore(err) == IF err < CamLimit THEN err + 1 ELSE err

Recovered == status \ {BitOf[CAMERA]}

\* A picture is taken when the door opens; a failed one resets the camera.
CamCapture ==
  /\ camOk
  /\ \/ camOk' = TRUE /\ CamVerdict(0, Recovered, 0)
     \/ camOk' \in BOOLEAN /\ CamVerdict(OneMore(camErr), status, errorFlag[CAMERA])

CamIdle ==
  /\ camOk /\ camOk' = TRUE /\ CamVerdict(camErr, status, errorFlag[CAMERA])

\* Mutant: the camera's recovery clears the whole word.
CamRetryClears ==
  /\ ~camOk /\ camOk' = TRUE /\ CamVerdict(0, {}, errorFlag[CAMERA])

\* A camera that answers again clears the bit, but not camera_error_flag.
CamRetry ==
  /\ ~camOk
  /\ \/ camOk' = TRUE /\ CamVerdict(0, Recovered, errorFlag[CAMERA])
     \/ camOk' = FALSE /\ CamVerdict(OneMore(camErr), status, errorFlag[CAMERA])

Camera == CamCapture \/ CamIdle \/ CamRetry

\* The report loop (AlarmReport) takes notice of a change.
Notice ==
  /\ UNCHANGED <<input, sampleVars, buzzVars, camVars>>
  /\ Source!Notice

-----------------------------------------------------------------------------
Next == SensorChanges \/ PressClr \/ Key \/ Camera \/ Notice

Spec == Init /\ [][Next]_vars

\* The key thread runs although it comes last: every other thread sleeps in
\* each of its turns.
FairSpec == Spec /\ WF_vars(Key)

-----------------------------------------------------------------------------
\* Every variable keeps its type.
TypeOK ==
  /\ status \subseteq Bits /\ statusOld \subseteq Bits
  /\ errorFlag \in [Sources -> 0 .. 1]
  /\ input \in [Sensors -> 0 .. 1] /\ valueOld \in [Sensors -> {0, 1, NONE}]
  /\ valueCnt \in [Sensors -> 0 .. Debounce - 1]
  /\ keyAt \in 1 .. Len(Order) + 3 /\ (loaded = NONE \/ loaded \subseteq Bits)
  /\ loaded # NONE => keyAt <= Len(Order) /\ valueOld[Sensor] # NONE
  /\ {alarmChange, buzzerChange, mute, buzzer} \subseteq 0 .. 1
  /\ camOk \in BOOLEAN /\ camErr \in 0 .. CamLimit

\* The bit of a sensor that shares it with none is its flag, although the camera
\* thread may write error_status in the middle of the key thread's change.
BitIsFlag == Source!Agree(status, errorFlag)

\* The buzzer sounds exactly while there is an alarm and it is not muted; after
\* a press of CLR, once the turn is over.
BuzzerIsAlarm ==
  buzzerChange = 0 => (buzzer = 1 <=> statusOld # {} /\ mute = 0)

\* A sensor with a bit of its own that holds still is heard: the word the
\* display, the buzzer and the report work on comes to show it, for good.
Heard ==
  \A s \in Sensors : \A v \in 0 .. 1 : OwnBit(s) =>
    (<>[](input[s] = v) =>
       <>[](errorFlag[s] = v /\ (BitOf[s] \in statusOld <=> v = 1)))

\* The two threads keep the promise the report loop relies on.
ImplementsSource == Source!SourceSpec
=============================================================================
