---------------------------- MODULE AlarmSource ----------------------------
(***************************************************************************)
(* What the key and camera threads promise the rest of the gateway about   *)
(* alarms, and all the report loop relies on: the bit of a sensor that     *)
(* shares it with no other source says what its flag says, and every       *)
(* change of error_status that is taken over into error_status_old raises  *)
(* alarm_change_flag, two statements later.  SensorStatus implements it;   *)
(* AlarmReport builds on it.                                               *)
(***************************************************************************)
EXTENDS Integers, Sequences

CONSTANTS Sensors,  \* smoke, water, door (lock) and surge protector (SPD)
          CAMERA,   \* the camera, a source of alarms that is not a sensor
          BitOf     \* the bit of error_status of every source

Sources == Sensors \cup {CAMERA}
Bits == {BitOf[s] : s \in Sources}

ASSUME SourceAssumption == CAMERA \notin Sensors /\ DOMAIN BitOf = Sources

VARIABLES
  status,      \* device_data.error_status, as a set of bits
  statusOld,   \* device_data.error_status_old
  errorFlag,   \* smoke_in_error_flag, ..., camera_error_flag
  alarmChange, \* device_data.alarm_change_flag
  raising      \* is the key thread between taking the word over and raising it

sourceVars == <<status, statusOld, errorFlag, alarmChange, raising>>

OwnBit(s) == \A u \in Sources \ {s} : BitOf[u] # BitOf[s]

\* The bit of a sensor that has it to itself is its flag.
Agree(word, flag) ==
  \A s \in Sensors : OwnBit(s) => (BitOf[s] \in word <=> flag[s] = 1)

SourceInit ==
  /\ status = {} /\ statusOld = {}
  /\ errorFlag = [s \in Sources |-> 0] /\ alarmChange = 0
  /\ raising = FALSE

\* A sensor is heard, or the camera fails or recovers.
Sense ==
  /\ status' \in SUBSET Bits /\ errorFlag' \in [Sources -> 0 .. 1]
  /\ Agree(status', errorFlag')
  /\ UNCHANGED <<statusOld, alarmChange, raising>>

\* The key thread takes the word over at the end of its turn if it differs; the
\* camera thread may have made the two equal between the test and the copy.
TakeOver ==
  /\ ~raising /\ raising' = TRUE
  /\ statusOld' = status
  /\ UNCHANGED <<status, errorFlag, alarmChange>>

\* It then raises the flag; the report loop, which comes first, may run between.
Raise ==
  /\ raising /\ raising' = FALSE
  /\ alarmChange' = 1
  /\ UNCHANGED <<status, statusOld, errorFlag>>

\* The report loop takes notice.
Notice ==
  /\ alarmChange = 1 /\ alarmChange' = 0
  /\ UNCHANGED <<status, statusOld, errorFlag, raising>>

SourceNext == Sense \/ TakeOver \/ Raise \/ Notice
SourceSpec == SourceInit /\ [][SourceNext]_sourceVars
=============================================================================
