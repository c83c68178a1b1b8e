------------------------------ MODULE RelayBus ------------------------------
(***************************************************************************)
(* The RS485 master of the power-monitoring boards while a device list is  *)
(* known (sys_psm.slave_ok == 1): modbus_control_thread, the USART4        *)
(* receive interrupt that handles the boards' replies, the threads that    *)
(* command relay words, and the boards at the other end of the bus.        *)
(*                                                                         *)
(* The thread reads every board once per poll period and writes a board's  *)
(* relay word when the word it believes the board has differs from the     *)
(* word wanted.  A request or its reply may be lost or corrupted (the CRC  *)
(* check drops it), a board may restart, and a reply may arrive after the  *)
(* fixed 200 ms wait, when the thread is already busy with another board.  *)
(***************************************************************************)
EXTENDS Naturals, Sequences

CONSTANTS BoardCount,   \* slave_device_max: entries of own_slave_device in use
          SlaveAddr,    \* own_slave_device[].slave_addr
          PowerBoards,  \* entries whose device_type is POWER_MONITOR_BOARD
          Words,        \* relay words
          AllOff,       \* the word 0x0000, what power_board_data starts with
          BootWord,     \* word a board drives when it powers up
          InitWord,     \* word modbus_control_thread wants of each board at start
          PollTicks,    \* loop turns between two polls (10*5 in the code)
          MaxCommands,  \* bound: commands from the other threads
          MaxFaults     \* bound: lost frames, late replies and board restarts

Slots == 0 .. BoardCount - 1
Addrs == {SlaveAddr[s] : s \in Slots}

ASSUME BusAssumption ==
  /\ BoardCount \in Nat /\ PollTicks \in Nat \ {0}
  /\ MaxCommands \in Nat /\ MaxFaults \in Nat
  /\ PowerBoards \subseteq Slots
  /\ {AllOff, BootWord} \subseteq Words
  /\ InitWord \in [Slots -> Words]

\* The boards are told apart by their address switches.
ASSUME AddrAssumption ==
  \A s, t \in Slots : SlaveAddr[s] = SlaveAddr[t] => s = t

VARIABLES
  desired,    \* device_data.power_monitoring_relay_data
  known,      \* power_board_data[].relay_status
  readCnt,    \* device_data.read_slave_device_cnt
  ctlCnt,     \* control_slave_relay_cnt
  timer,      \* timer_5s_cnt
  pc,         \* where the thread stands
  i,          \* its loop variable
  line,       \* replies the boards have sent and the interrupt not yet handled
  actual,     \* the relay outputs of the boards, per address
  commanded,  \* history: words each board may legitimately drive
  commands, faults  \* how much of each bound is used

vars == <<desired, known, readCnt, ctlCnt, timer, pc, i, line, actual,
          commanded, commands, faults>>
threadVars == <<readCnt, ctlCnt, timer, pc, i>>
busVars == <<line, actual>>

Places == {"loop", "read", "readWait", "check", "write", "writeWait"}
Replies == [fun : {"read", "write"}, addr : Addrs, word : Words]
ReplyOf(fun, s, w) == [fun |-> fun, addr |-> SlaveAddr[s], word |-> w]

\* timer_5s_cnt is an uninitialised local: any first value (PollTicks stands
\* for all the values that make the first turn poll).
Init ==
  /\ desired = InitWord
  /\ known = [s \in Slots |-> AllOff]
  /\ readCnt = 0 /\ ctlCnt = 0
  /\ timer \in 0 .. PollTicks
  /\ pc = "loop" /\ i = 0
  /\ line = <<>>
  /\ actual \in [Addrs -> Words]
  /\ commanded = [a \in Addrs |->
       {actual[a]} \cup {desired[s] : s \in {t \in Slots : SlaveAddr[t] = a}}]
  /\ commands = 0 /\ faults = 0

Fault == faults < MaxFaults /\ faults' = faults + 1

\* Mutant: a poll goes on from where the last one left the cursor.
StartTurnKeepsCursor ==
  /\ pc = "loop"
  /\ i' = 0 /\ timer' = timer + 1
  /\ pc' = IF timer + 1 >= PollTicks THEN "read" ELSE "check"
  /\ UNCHANGED <<desired, known, readCnt, ctlCnt, busVars, commanded, commands,
                 faults>>

\* Mutant: the boards are never read back.
StartTurnNeverPolls ==
  /\ pc = "loop"
  /\ i' = 0 /\ pc' = "check"
  /\ UNCHANGED <<desired, known, readCnt, ctlCnt, timer, busVars, commanded,
                 commands, faults>>

\* Top of the loop: every PollTicks turns the boards are read before the
\* relay words are compared.
StartTurn ==
  /\ pc = "loop"
  /\ i' = 0
  /\ timer' = timer + 1
  /\ \/ /\ timer + 1 >= PollTicks
        /\ pc' = "read" /\ readCnt' = 0
     \/ /\ timer + 1 < PollTicks
        /\ pc' = "check" /\ UNCHANGED readCnt
  /\ UNCHANGED <<desired, known, ctlCnt, busVars, commanded, commands, faults>>

\* read_slave_data puts the same request on the wire twice, so a board that
\* hears it answers once or twice; or nothing usable comes back.
ReadBoard ==
  /\ pc = "read" /\ i < BoardCount
  /\ pc' = "readWait"
  /\ LET reply == ReplyOf("read", i, actual[SlaveAddr[i]])
     IN \/ line' = Append(line, reply) /\ UNCHANGED faults
        \/ line' = Append(Append(line, reply), reply) /\ UNCHANGED faults
        \/ Fault /\ UNCHANGED line
  /\ UNCHANGED <<desired, known, readCnt, ctlCnt, timer, i, actual, commanded,
                 commands>>

\* The 200 ms wait is over, whether or not the replies came.
Expire == (line = <<>> /\ UNCHANGED faults) \/ (line # <<>> /\ Fault)

ReadNext ==
  /\ pc = "readWait" /\ Expire
  /\ readCnt' = readCnt + 1 /\ i' = i + 1 /\ pc' = "read"
  /\ UNCHANGED <<desired, known, ctlCnt, timer, busVars, commanded, commands>>

ReadDone ==
  /\ pc = "read" /\ i = BoardCount
  /\ timer' = 0 /\ i' = 0 /\ pc' = "check"
  /\ UNCHANGED <<desired, known, readCnt, ctlCnt, busVars, commanded, commands,
                 faults>>

Differs(s) == s \in PowerBoards /\ known[s] # desired[s]

SkipBoard ==
  /\ pc = "check" /\ i < BoardCount /\ ~Differs(i)
  /\ i' = i + 1
  /\ UNCHANGED <<desired, known, readCnt, ctlCnt, timer, pc, busVars, commanded,
                 commands, faults>>

\* relay_status takes the wanted word before the board has it.
LatchBoard ==
  /\ pc = "check" /\ i < BoardCount /\ Differs(i)
  /\ known' = [known EXCEPT ![i] = desired[i]]
  /\ ctlCnt' = i /\ pc' = "write"
  /\ UNCHANGED <<desired, readCnt, timer, i, busVars, commanded, commands, faults>>

\* The frame carries relay_status as it is now: an interrupt may have changed
\* it since it was latched.
WriteBoard ==
  /\ pc = "write"
  /\ pc' = "writeWait"
  /\ \/ /\ actual' = [actual EXCEPT ![SlaveAddr[i]] = known[i]]
        /\ \/ /\ line' = Append(line, ReplyOf("write", i, known[i]))
              /\ UNCHANGED faults
           \/ Fault /\ UNCHANGED line
     \/ Fault /\ UNCHANGED busVars
  /\ UNCHANGED <<desired, known, readCnt, ctlCnt, timer, i, commanded, commands>>

WriteNext ==
  /\ pc = "writeWait" /\ Expire
  /\ i' = i + 1 /\ pc' = "check"
  /\ UNCHANGED <<desired, known, readCnt, ctlCnt, timer, busVars, commanded,
                 commands>>

EndTurn ==
  /\ pc = "check" /\ i = BoardCount
  /\ pc' = "loop"
  /\ UNCHANGED <<desired, known, readCnt, ctlCnt, timer, i, busVars, commanded,
                 commands, faults>>

\* Mutant: the reply's address is not compared with the entry's.
CreditedByCursorOnly(reply) ==
  {s \in PowerBoards : s = IF reply.fun = "read" THEN readCnt ELSE ctlCnt}

\* The entry a reply is credited to: the one the thread is (or was last)
\* reading or writing, if the reply's address is its own.  After a poll
\* readCnt is one past the list and matches nothing.
Credited(reply) ==
  {s \in PowerBoards : /\ SlaveAddr[s] = reply.addr
                       /\ s = IF reply.fun = "read" THEN readCnt ELSE ctlCnt}

\* USART4_RxFull_IrqCallback on the last byte of a reply with a good CRC.
Receive ==
  /\ line # <<>>
  /\ line' = Tail(line)
  /\ known' = [s \in Slots |->
       IF s \in Credited(Head(line)) THEN Head(line).word ELSE known[s]]
  /\ UNCHANGED <<desired, threadVars, actual, commanded, commands, faults>>

\* The key, OLED and MQTT threads want another word of a board.
Command(s, w) ==
  /\ commands < MaxCommands /\ commands' = commands + 1
  /\ desired' = [desired EXCEPT ![s] = w]
  /\ commanded' = [commanded EXCEPT ![SlaveAddr[s]] = @ \cup {w}]
  /\ UNCHANGED <<known, threadVars, busVars, faults>>

RestartBoard(a) ==
  /\ Fault
  /\ actual' = [actual EXCEPT ![a] = BootWord]
  /\ commanded' = [commanded EXCEPT ![a] = @ \cup {BootWord}]
  /\ UNCHANGED <<desired, known, threadVars, line, commands>>

Thread ==
  \/ StartTurn \/ ReadBoard \/ ReadNext \/ ReadDone
  \/ SkipBoard \/ LatchBoard \/ WriteBoard \/ WriteNext \/ EndTurn

Next ==
  \/ Thread
  \/ Receive
  \/ \E s \in Slots, w \in Words : Command(s, w)
  \/ \E a \in Addrs : RestartBoard(a)

\* FreeRTOS keeps running the thread, and the interrupt of a received byte is
\* not held off for ever.  Nothing is assumed of the other threads.
Fairness == WF_vars(Thread) /\ WF_vars(Receive)

Spec == Init /\ [][Next]_vars
FairSpec == Spec /\ Fairness

-----------------------------------------------------------------------------
\* Every variable keeps its type; the cursors stay within one past the list.
TypeOK ==
  /\ desired \in [Slots -> Words] /\ known \in [Slots -> Words]
  /\ readCnt \in 0 .. BoardCount /\ ctlCnt \in 0 .. BoardCount
  /\ timer \in 0 .. PollTicks + 1
  /\ timer > PollTicks => pc \in {"read", "readWait"}
  /\ pc \in Places /\ i \in 0 .. BoardCount
  /\ line \in Seq(Replies)
  /\ actual \in [Addrs -> Words]
  /\ commanded \in [Addrs -> SUBSET Words]
  /\ commands \in 0 .. MaxCommands /\ faults \in 0 .. MaxFaults

\* No cross-talk: whatever is lost or late, a board only ever drives words that
\* were commanded for it (or its own power-on word), and no reply of one board
\* is taken for the state of another.  The interrupt credits a reply through
\* cursors that the thread may have moved on since the request was sent.
NoCrossTalk ==
  \A s \in Slots :
    /\ actual[SlaveAddr[s]] \in commanded[SlaveAddr[s]]
    /\ known[s] \in commanded[SlaveAddr[s]] \cup {AllOff}

\* While the thread is reading boards its two cursors agree, and a write in
\* progress is the one acknowledgements are credited to.
CursorsAgree ==
  /\ pc \in {"read", "readWait"} => readCnt = i
  /\ pc = "readWait" => i \in Slots
  /\ pc \in {"write", "writeWait"} => ctlCnt = i /\ i \in PowerBoards

Service == INSTANCE RelayService

\* The bus master implements the relay service.
ServiceSpec == Service!ServiceSpec

\* Once commands and faults stop, every board drives the word wanted of it and
\* the gateway knows it, however the belief was spoilt by a lost write, a
\* stale reply or a restart, and the bus falls silent of relay writes.
Converges ==
  <>[](/\ pc \notin {"write", "writeWait"}
       /\ \A s \in PowerBoards :
            /\ actual[SlaveAddr[s]] = desired[s]
            /\ known[s] = desired[s])
=============================================================================
