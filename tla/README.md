# AnhuiGS gateway firmware: TLA+ models, checks and proofs

The program is the firmware of a cabinet gateway (HC32F4A0, FreeRTOS, C). It
polls and switches power-monitoring boards over RS485, watches the cabinet's
sensors, switches its light, fan and heater, takes pictures when the door is
opened, and reports all this to a server over MQTT, from which it also takes
commands. There are no tests in the repository; the hard part is that about a
dozen threads and several interrupts share one global record, `device_data`,
without locks. These models are about that sharing.

Paths below are relative to `src/`. FreeRTOS runs with preemption and without
time slicing (`FreeRTOSConfig.h`), so a thread is cut by a higher one anywhere
and never by an equal or a lower one. `OS_PRIO_n` counts upwards
(`components/os/sys_os.h:315`; the comment at line 163 says the opposite).

## Inventory

| Component | Threads and priority | State | Operations | Modelled in |
|---|---|---|---|---|
| RS485 relay master, `app/monitor_board_handle.c` | modbus 3, USART4 interrupt | wanted and believed relay words, two cursors, poll timer | poll, compare, latch, write; credit a reply | RelayService, RelayBus |
| Board search and stored list, same file, `project_psm_control.c`, `main.c` | modbus 3, interrupt, key 2 | search address and rounds, reply buffer, list in RAM and flash, slave_ok | query, record, seal, load, rescan, power-up | SlaveScan |
| MQTT session, `app/eth_handle.c`, `eth_mqtt_handle.c`, `eth_to_mqtt.c` | eth 11, mqtt 12, yield 15 | start and connect flags, two task handles, client and socket | watch the link, create and delete tasks, connect, subscribe, report, read | MqttSession |
| Sensors, alarms, buzzer, `app/key_handle.c`, `camera_handle.c` | key 2, camera 10 | error_status and its copy, flags per source, debounce counters, mute | sample, store, take over, mute; camera fault and recovery | AlarmSource, SensorStatus |
| Alarm report, `app/eth_mqtt_handle.c` | mqtt 12, yield 15, camera client 9 | error_status_mqtt, set_ok, set_flag, alarm_change_flag | list, answer, alarm message; command, query, upload | AlarmSource, AlarmReport |
| Light, fan, heater, `app/key_handle.c`, `oled_handle.c`, `eth_mqtt_handle.c` | key 2, oled 5, yield 15 | relay word of board 0, timed-light flags, open_fan, open_heat | door light, timed light, climate, commands | Cabinet |
| Parameter store, `components/psm`, `project_psm_control.c` | callers, under a lock | log of settings in one flash partition, its swap area and descriptor, three counters in RAM | start, set, get, compact, recover | ParamMap, ParamStore, ParamFlash |
| Camera and upload, `app/camera_handle.c`, `camera_com_pro.c` | camera 10, its client 9 | picture buffer and the five flags around it | notice the door, take, offer, give up, send | PictureUpload |
| Circuit breaker, autoreclosing breaker | 5, 2, interrupts | frame buffers, addresses found, requests | search, query, control | planned |
| Lock relay, `app/lock_rs485_handle.c`, `eth_lock_to_tcp.c` | 4, 11 | two frame buffers and flags | pass frames both ways | planned |
| MQTT client, `app/eth_to_mqtt.c` | 12, 15 | packet buffers, ping, mutex | connect, publish, cycle, unsubscribe | planned |
| Power-up, thresholds, factory reset, `app/main.c` | main 3 | thresholds and flags | store, reset, restart NB | partly, in SlaveScan |
| Key FIFO and display, web page, NB-IoT, GPS, OS layer, health monitor | various | small | see PROJECT.json | not modelled |
| FreeRTOS, paho packets, jsmn, AT client, drivers, CMSIS, W5500 library | | | vendored | left aside |

How they interact: everything goes through `device_data`. The display thread,
the key thread and the command callback write wanted relay words; the bus thread
brings them to the boards. The key thread requests a new board search from the
bus thread by writing its counters. The key and camera threads make the alarm
word; the report loop reads its copy. The door wakes the camera's thread, whose
picture silences the report loop while it is sent. Every list, address and
threshold that outlives a restart goes through the parameter store. The eth thread
starts the mqtt and yield tasks, which end themselves when it clears or changes a flag.

What is hard, and listed line by line in PROJECT.json under "hazards":

- **Read-modify-write without a lock** of the relay word and of the alarm word
  by threads of different priorities.
- **Replies credited by position**: the interrupt matches a late reply with the
  entry a cursor points at by now.
- **Flags for queues**: one flag holds a command, an answer or an alarm, and is
  cleared after the work, so what arrives meanwhile is lost.
- **A value believed before it is so**: relay words, published alarms.
- **Creation and deletion of tasks** by each other, through shared handles.
- **Power failure** between the writes of a list of records, and at any flash
  command of the store below them, in the middle of its recovery as well.
- **One buffer for two threads**, handed over by flags while a send may last ten
  times longer than the wait for it.
- **Dead ends**: waits without a way out after an error.

Correctness, per component: a board only ever drives what was commanded for it,
and comes to; a stored list is whole and complete; one session at a time, and it
comes back; sensors are heard, shown and reported; light, fan and heater run as
last decided; a setting is stored as a whole or not at all; a picture arrives as
it was taken or is known to be disturbed.

## The modules

Each model keeps the code's control at the granularity at which another thread
can tell a difference: a step ends where a thread reads shared state that it
later acts on, sleeps, waits for a peer, or writes flash.

**RelayService / RelayBus** (`monitor_board_handle.c`, list known). The abstract
service has only what the rest of the gateway relies on: a wanted word per board,
and boards that drive some word wanted of them. RelayBus is the thread's loop as
it stands (`StartTurn`, `ReadBoard`, `ReadNext`, `SkipBoard`, `LatchBoard`,
`WriteBoard`, `EndTurn`), the interrupt (`Receive`), the wire as a sequence of
replies, boards that hear a request zero, one or two times (the code sends it
twice), restart, or answer after the wait. `commanded` is a history variable.

**SlaveScan** (search, stored list). The search half of the same loop down to the
single flash write: `HalfWrite` and `FullWrite` split a record in two, so that
`PowerFail` can come between. `found` and `sealed` are history: what the running
search has recorded, and what the one that set slave_ok had.

**MqttSession**. The eth thread's link watch, the mqtt task from creation to
deletion of itself and its yield task, and the client's connection state with
refusals, bad packets, lost connections and outages. Task identities are
recycled. The eth thread takes its turns whenever it likes (`MayTurn`), also in the
10 ms between the clearing of the flags and the deletions, so that a closing task
may meet the tasks of the next session (`Working` names the ones that are not
closing). A task that returns from its function stops everything (`Halted`,
`ExitError`), as the FreeRTOS port does.

**AlarmSource / SensorStatus / AlarmReport**. AlarmSource is an abstract
specification with two sides: SensorStatus (key and camera threads, with the
debounce, the cut read-modify-write, the buzzer and its mute) is shown to
implement it, and AlarmReport (report loop, command callback, upload) is built on
it instead of on the sensors. So the reports are examined against every source of
alarms that keeps the promise. The key thread takes the word over and raises
alarm_change_flag in two steps (`TakeOver`, `Raise`, with `raising` between them),
since the mqtt task can run in between. The report loop's turn begins with the
periodic report when it is due (`DataDue`, `SendData`, else `NotDue`), then come list,
answer and alarm message. `told` is what the alarm messages have told of a source,
`shown` the last word on a sensor of either kind of message. BitOf maps sources to bits; SPD and camera share
one (`project_config.h:63`), and `OwnBit` says which sources are not affected.

**Cabinet**. The relay word of board 0 under the key thread (door, timed light),
the display thread (fan, heater) and the callback. Each read-modify-write is two
steps; `MayKey` is the priority: the key thread stands still while the display
thread is in its turn. Temperature and humidity may ask for anything at each
decision. `lit`, `served` and `clobbered` are history: the last decision about
the light, the server's last word on a relay, and whether some write put back
an older value of another's relay. RelayBus carries such a word to the board.

**ParamMap / ParamStore / ParamFlash** (`psm_v2.c`). ParamMap is what the callers
rely on: a table whose sets are atomic. ParamStore is the log: the data area and
the swap area as sequences of objects, the swap descriptor by what the start
makes of it (`clean`, `offset`, `valid`, `zero`), one action per flash command, from
the start (`BootToData`, `BootScan`) through the checkpoints of handle_recovery
(`EraseSwap` to `FinalErase`, `Rescan`) to psm_set_variable (`OpenObject`,
`WriteObject`, `CloseObject`, `RetireOld`). `PowerCut` may follow any step or leave
the command of the next one half done (`CutCommand`): a torn object, a length
without its checksum, an erase that went part of the way. `Map == INSTANCE ParamMap
WITH value <- Recovered` is the refinement: the value of a setting is what a
restart at this moment would read. ParamFlash adds the offsets and counters that
decide when a set fits, compacts or is refused and where the swap area starts. Each
of its steps is a step of ParamStore but one: `Overrun`, the erase of a swap area that
begins below the end of the live objects (`InTheWay`). It erases them, an object
erased in part counts as lost, and the model ends there; the table's `Wreck` is what
the callers see of it. The refinement is checked of ParamFlash, that step included.

**PictureUpload** (`camera_handle.c`, `camera_com_pro.c`). The camera's thread from
the door to the last part (`Notice`, `Begin`, `Shoot`, `Empty`, `Offer`, `Heard` or
`GiveUp`, `NextPart`, `Cleared`, `Failed`) and the client's half that sends
(`TakeHead`, `TakeFrame`, `TakeLast`, `HeadOut`, `Copy`, `FrameSent`, `LastSent`,
`SendFails`). A part is a number, the buffer holds the number of the part in it, or
`Old` or `Mixed`; `Copy` takes the buffer as it is when there is room in the chip.
`got` and `clean` are history: what went out since the picture was taken, and
whether nothing was given up or lost meanwhile. Between a test of the flags and
the send it leads to nothing waits, so that a test and the assignments behind it
are one step; send itself waits. A VGA picture is taken to be longer than one
part (N_BYTE, 3072 bytes).

## The runs

| Run | Question | Bounds | Distinct states |
|---|---|---|---|
| relay_bus | Does every board drive its own words, and in the end the wanted one? | 2 boards, 3 words, 2 commands, 2 faults | 313 851 |
| slave_scan | Is the stored list whole, and complete when nothing was lost? | 3 addresses, 2 boards, 1 rescan request, 1 power failure, 1 late reply at a time | 491 340 |
| slave_scan_bounds | Does the number of boards stay within the tables? (no) | 3 addresses, 2 boards, 1 request | |
| mqtt_session | One task at work, one reader, what does a closing task find under its handle, back after outages? | 2 task identities, 6 faults | 134 212 |
| mqtt_overlap | Does a task ever return from its function? (yes, when the eth thread takes a turn in the 10 ms) | 2 task identities, 2 faults | |
| sensor_status | Do word, flags and buzzer agree; is a steady sensor heard? | 2 sensors and the camera, real debounce 3, camera limit 2 | 289 524 |
| alarm_report | Is an unreported change always pending, have the alarm messages told what is so when nothing is, does the server come to know a steady sensor? | 2 sensors and the camera, 3 events | 373 899 |
| alarms_arrive | Do the alarm messages tell of every alarm when nothing is lost? (no) | the same, 2 events, no losses | |
| param_flash | Is a set applied as a whole or not at all, wherever the power goes; are the counters and the areas right; does a start always end? | 2 settings, values of 2 lengths, 4 blocks of 16 | 152 256 |
| picture_upload | Is an undisturbed picture whole; when does the upload stay silent; does the thread come back? | pictures of 1 to 3 parts, error limit 2 | 372 244 |
| cabinet | Is the light ever undone; are fan and heater; does the light go out? | real debounce 3, a minute of 2 turns, 2 commands | 703 696 |
| fan_is_servers | Does the server alone switch off what it switched on? (no) | the same | |

Why these bounds suffice. Two boards are the least with a cursor at the wrong
one, and cross-talk needs only one reply too late; two faults allow a lost write
followed by a stale reply. Three addresses and two boards leave one address
silent, so that searches go past it, and one power failure can fall at any write;
a second failure starts from a state the first one reaches as well. Two task
identities are what one overlap needs, and the six faults of mqtt_session are a
link change, its end, a refusal, a bad packet and two more. A sensor with its own
bit and one that shares the camera's are the two kinds there are; for more
sensors there are the proofs. Two commands in Cabinet allow the second to come in
the middle of the first one's execution. Counters whose length does not matter
(50*60 turns of light, 50 turns between polls, 16 records) are shortened by
constants; those that interleave with pins are real (debounce 3).

In param_flash four blocks are the least with a data area, a swap area and a
border that moves between them; after two to four sets the next one compacts,
values of two lengths put the end of the active objects at several distances from
a block's edge, the fatal one included, and cuts are not bounded at all.
`LongLength` is what a half-written length field shows: 9, longer than every value and short enough for sets to go on behind it, so that
the overrun happens (TLC reaches it from several hundred states). One periodic
report may come at any turn of alarm_report: minutes are not counted. In picture_upload two full
parts and a rest make a first, a middle and a last part; doors, links,
connections and failures of the camera are not bounded.

Deadlock is checked in every passing run.

**Fairness.** Each thread loops for ever and sleeps in each turn, so weak fairness
of a thread's step is what preemptive scheduling gives to every thread below
which the higher ones sleep. It is assumed of the bus thread and the receive
interrupt, of the eth and mqtt tasks, of the report loop, and of the key thread in
SensorStatus. The periodic report is strongly fair (`SF(DataDue)`): it is possible
only at the start of a turn, and min_cnt brings it round every few minutes. In
Cabinet the key thread's step is disabled again and again by the display thread's
turns; strong fairness says that it is not starved by them, which the display
thread's sleep of 200 ms justifies; the display thread's own turn, once begun, is
weakly fair. In ParamFlash the code running on (`RunsOn`) is weakly fair: it is
sequential, holds the store's lock and waits for nobody; ComesUp names in its
premise that the power stays. In PictureUpload the camera's thread is weakly
fair: it has the higher priority of the two and waits a second at most; nothing
is assumed of the sender, whose send may last. Nothing is assumed of the environment: of
buttons, doors, sensors, links, the broker, commands or faults. Those of them
that could go on for ever are bounded or named in the premise of the property
(`Reconnects` from a path that stays, `LightGoesOut` from a door that stays shut,
`Learnt` from a sensor that holds still while no picture is uploaded).

## What the checks found

Four runs show a disagreement between the code and a statement of the
repository; PROJECT.json quotes each under "findings".

1. `slave_scan_bounds`: a rescan request in the middle of a search restarts the
   addresses without resetting `slave_device_max`, which passes the end of the
   tables (`monitor_board_handle.c:467`, `key_handle.c:148`).
2. `mqtt_overlap`: the closing mqtt task can delete its successors and return from
   its task function (`eth_mqtt_handle.c:2729`).
3. `alarms_arrive`: the answer to a command marks an unreported alarm as reported;
   the alarm message that follows is empty (`eth_mqtt_handle.c:1043`). Of a sensor
   still in alarm the next periodic report tells, minutes later (`Learnt`); of an
   alarm that has ended by then no message does.
4. `fan_is_servers`: the display thread switches off a fan that the server switched
   on, which the protocol document says only the server does (`oled_handle.c:85`).

Met on the way, without a run: the circuit breaker's thread is never created,
since `main.c:282` compares bit 0x02 with 0x04; a short press of RST sets the
factory flag as a long one does; the lower threshold of the fan's temperature is
stored as the heater's (`main.c:329`), and that of humidity never
(`eth_mqtt_handle.c:343` sets the other bit); `camera_handle.c:272` clears the
camera's bit and not its flag; readers of the second to seventh DC voltage all
return the first (`monitor_board_handle.c:571`).

Of the parameter store:

- The swap start leaves out the 4 bytes of demarcation in front of the copies
  (`psm_v2.c:638`, unlike line 1797). When the active objects end within those 4
  bytes of a block's edge every compaction fails, in the place of which the code
  says that it "should never occur" (line 1264), and a start that has to recover
  fails each time. EdgeOnly says that, half-written
  lengths apart, this is the only way to lose the store.
- An object whose checksum does not match is returned with length 0 and success
  (`psm_v2.c:2795`): the setting reads as 0. This is `Bad` in ParamMap, and only a
  setting that was never stored before can come to it.
- After the first store of a setting, cut in the write of its length, the length
  field may show anything the scan accepts (`psm_v2.c:215`), and the object is
  counted with it although no room was checked. A compaction then starts its swap
  area below live data, and its erase (line 1313) takes settings that were good,
  whatever CHECKPOINT_1 says of the data area; the copy stops at the free space it
  has made, and the marker makes that copy the good one. param_flash reaches it
  (`Overrun`). In the real partition of 1 MB it takes such an object in the last
  64 kB or so of a log that is nearly full. SwapClear says that without such an
  object the erase touches nothing of the data area.
- psm_format, which nobody calls, would leave a half-erased partition when cut.

Of the picture:

- A last part that is given up, a picture whose last part is full, or a send that
  outlives it leaves camera_send_to_tcp_flag at 1 for good: no further picture, no
  list and no alarm over MQTT until a restart. SilentOnlyUnheard says when.
- A failed send makes the parts that follow go out on the next connection without
  a header; a stale last_flag sends the first part of the next picture as a last
  one. CleanArrivesWhole says that nothing else disturbs a picture.
- Frames of the lock relay go out on the same connection between two parts.

## The proofs

Each module `X_proofs` extends `X` and holds, for all values of its constants
that meet the named assumptions, an inductive invariant `IInv`, its three facts,
and the theorems. The steps follow the disjuncts of Next.

- **RelayBus_proofs**: TypeCorrect, NoCrossTalkHolds, CursorsAgreeHolds, and
  Implements (every behaviour is one of RelayService). No cross-talk is not
  inductive: what a board will drive is already on the wire or in a latched word.
  `IInv` adds that every reply on the line carries a word its sender may drive
  (LineSound), that a word about to be written was commanded for its board, even
  if an interrupt replaced it since (WriteSound), and that wanted words are.
  Rests on AddrAssumption: addresses are distinct. SlaveScan's ListCompleteHolds
  proves that of every list whose searches were not disturbed. BeliefLastsHolds is
  the safety half of Converges: while no fault has happened, the line holds only the
  answers to the request being waited for (AnswersOnly), so that a poll ends with the
  state of every board (PollSound), and from then on `relay_status`, which is set
  before the write, differs from the board only between that latch and that write
  (Trust).
- **SlaveScan_proofs**: StoredListIntactHolds, ListMatchesFlashHolds,
  NoSealedOverwriteHolds, TypeOKHolds, ListIsFoundHolds, ListCompleteHolds, for any
  table size and any number of failures. `IInv` adds that slave_ok in RAM and in
  flash differ only between the two assignments, that during a search the records
  up to `slave_device_max` are what was found, and how far the clean-up behind them
  has come. Reading the list back out of such records gives the found list, cut to
  the table (ListReadBack, by induction along the records); so the list in use is
  that of the search that set slave_ok (ListIsFound), although a disturbed search
  counts on behind the tables. QuietInv is what an undisturbed past adds: one reply
  at most is on its way, to the query that waits for it (OneReply), the boards found
  are exactly those below the address searched, in ascending order (FoundSoFar),
  and the list flash calls good is that of all boards (SealedAll). ListComplete
  follows when the table has a record for each address, as in the code, where both
  are 16. It is the safety half of AllFound. SearchOnwardHolds is that of ScanEnds:
  each step of a search ends it or brings it nearer to its end, counted in empty
  rounds, addresses, records and places of the code (Closer).
- **MqttSession_proofs**: OneClientHolds, SoleReaderHolds, DeletesItselfHolds and
  TypeOKHolds, wherever the closing of a session falls among the eth thread's turns.
  One task at most is at work and mqtt_thread names it; a closing task finds itself
  under that handle or the task of a session started since, which is the way the
  run mqtt_overlap shows a task returning. `IInv` adds that tasks are created only
  where none is at work, and that no two close at a time.
- **SensorStatus_proofs**: TypeOKHolds, BitIsFlagHolds, BuzzerIsAlarmHolds,
  SourceImplemented, for any number of sensors and any assignment of bits in
  which no two sensors share one. The added part: a word read to be changed
  agrees with the flags as much as the word itself.
- **AlarmReport_proofs**: TypeOKHolds, AckedOnceHolds (no command is answered twice),
  ChangeIsPendingHolds, ToldUnlessDisturbedHolds, for any number of events. The last
  is about the alarm messages, as its property is: the periodic report may have said
  something older since. The added parts say what the alarm messages have told
  between reports (what error_status_mqtt says) and what they will have told after
  the one under way (what error_status_old says). Types and AckedOnce are inductive
  together.
- **Cabinet_proofs**: TypeOKHolds, LightAsDecidedHolds, AutoAsDecidedHolds, for any
  debounce, minute and number of commands. The added part: the word the display
  thread has read agrees with the present one on the light, because the key thread
  does not run in between; for the types, that the minute's counter is below its
  limit whenever it is counted.
- **ParamStore_proofs**: StoreTypes, MapHolds: the log implements the table, for every
  set of names and values, every number of objects and every history of cuts. The
  invariant is about order: below the scan's end one id belongs to one name and
  one object at most is active under an id (Good), and the scan stops exactly
  there (Edge). From it the restart finds the value of the newest active object.
  A compaction's target holds a copy of each readable object it has passed and
  nothing else, numbered anew (Copied), and the descriptor turns valid and invalid
  only when that copy is complete, so that the recovered table is the same on both
  sides of the turn. During a set the object under way is the first behind the end,
  and the one it replaces is the active one of its name. Then every step is mapped:
  a set that begins is Ask; CloseObject of a new setting, and RetireOld, are Apply;
  WriteMarker is Scrub, because it is the point from which unreadable objects are
  gone; SetRefused and CopyFails are Refuse; a cut is Lose, or Spoil if it left a
  new setting with a length and no checksum; all others change nothing.

  The second half of the module is about space: FlashTypeOKHolds,
  CountersRightHolds, CopyBackFitsHolds, SwapClearHolds and EdgeOnlyHolds, for every
  geometry. The last two speak of states in which no active object shows a
  half-written length (`~Spoiled`, in the properties themselves), and SwapClear also
  of all states: a start always finds room for a swap area. A sum over a log is
  the last of its prefix sums (AddUp), so that appending an object, changing its
  state and cutting a log short each have a lemma, by induction along the log.
  The invariant (SpaceInv) says what the logs are like (Laid: a
  compaction's result has room below its swap area, a half-written length adds to
  the active bytes once at most, and without one the objects lie below the swap
  area of the next compaction), that the counters in RAM are these sums, or behind them by
  the object under way (Counted), that a set that goes on has its room
  (Fitting), and that a copy holds the bytes of what it has passed (Moving,
  Moved). No set writes when it does not fit; that is where the room comes from,
  and why the check at a start (NoSpace) never refuses a compaction. `~Spoiled`
  is needed because a half-written length is taken at its word by the scan. With
  one, the erase may reach live objects, and FlashMapHolds says what that does to
  the table, for every geometry: the erase leaves objects below the swap start as
  they are (OverrunLeaves), reaches live ones only while a setting is unreadable
  (OverrunIsSpoiled), and so is a Wreck (OverrunMaps); every other step of the store
  with its space is a step of the log. RoomAssumption is the one
  assumption on the numbers: a half-written object and one of any value fill
  half the room at most (16-bit lengths against a partition of 1 MB in the
  code). OnwardHolds is the safety half of ComesUp: in the order of the stages
  no step but a cut leads back, and a copy has one object less to go after each
  step; so a start, a set and the compaction in it end after a number of steps
  that the objects in flash bound.
- **PictureUpload_proofs**: TypeOKHolds, CleanArrivesWholeHolds,
  SilentOnlyUnheardHolds, for pictures of any length. A part is on offer only
  while the camera's thread waits (OfferedInWait). As long as nothing was given up
  or lost the two threads are in step (InStep): the sender is at rest whenever the
  other does not wait, and what went out is a function of the part and of the
  places of both.

Only model-checked: liveness, which is beyond the prover (Converges, AllFound,
ScanEnds, Reconnects, LinkLossReleases, Heard, Learnt, LightGoesOut, ComesUp,
CameraReturns); of four of them the part that is not liveness is proved, as said
above: a measure that falls, or what holds once the goal is reached. That a step
is always possible (ENABLED) is for the deadlock check of the runs. Every
invariant and every action property of the passing runs is also a theorem.
CursorsAgree and AckedOnce are proved and in no run: the first is a part of the
inductive invariant behind NoCrossTalk, the second is about answers alone.

Sums and lists are recursive functions on the naturals, no RECURSIVE operators; an
induction along one is about the set of the numbers for which the fact holds
(OneByOne in SlaveScan_proofs and its like, from WFMin).

## What is not modelled, and why

Bytes of frames and messages, checksums and JSON: a message is a value, and a
corrupted one is a lost one. Measured voltages and currents: nothing in these
components decides on them. Heap and stacks. The start-up order of the threads
(the bus thread resets the relay words when it starts; the models begin there).
Cabinet leaves out how thresholds are taken over and stored. What the firmware makes
of a store whose erase took live objects (after `Overrun`). The periodic data of the
other boards, which follow the gateway's own in its turn. A flash command that
fails while the power stays, which leaves a half-written object that the next set
writes over; deletion, the index and psm_format of the store, which nothing calls.
The bytes of the camera's protocol; the sizes of sockets and chips. The components
marked "planned" follow below; for the others the reason stands with them in
PROJECT.json.

## Plan

1. *Done*: RelayBus (the gateway's purpose), SlaveScan (what its lists rest on),
   MqttSession, SensorStatus and AlarmReport over AlarmSource, Cabinet, each with
   the theorems of its runs.
2. *Done*: ParamStore and ParamFlash under ParamMap, with the refinement and the
   space proved.
   SlaveScan's records are written through it, one set for each entry; that each
   of these is atomic is no assumption any more.
3. *Done*: PictureUpload, with its two safety properties proved.
4. **LockRelay** (`lock_rs485_handle.c`, the lock's half of camera_tcpc): frames
   both ways through single buffers; a stale lock_rev_tcp_flag can be delivered as
   the answer to a new question. To be composed with PictureUpload, whose
   connection it shares.
5. **MqttClient**: two readers of one socket with the client's mutex, refining the
   connection states that MqttSession assumes.
6. **Thresholds** of `main.c` with the callback that sets their flags, over ParamMap.
7. **RecloserBus**, and **BreakerBus** should `main.c:284` ever choose it: requests as
   flags, replies matched by address on the second RS485 line. **KeyFifo**.
8. Composition: Cabinet's word under RelayBus (a commanded light comes to burn),
   and SensorStatus under AlarmReport directly.
