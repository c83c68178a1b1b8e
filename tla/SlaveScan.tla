----------------------------- MODULE SlaveScan -----------------------------
(***************************************************************************)
(* How the gateway learns which boards hang on its RS485 bus and keeps the *)
(* list in flash: the search half of modbus_control_thread (slave_ok == 0) *)
(* and its handling of a rescan request, the interrupt that takes a search *)
(* reply, the key thread's rescan request, data_init at power-up, and      *)
(* power failures between any two flash writes.  What the thread does with *)
(* a list once it has one is in RelayBus.                                  *)
(***************************************************************************)
EXTENDS Naturals, Sequences, FiniteSets

CONSTANTS QueryMax,    \* addresses searched, 0 .. QueryMax-1 (16 in the code)
          SlotMax,     \* SLAVE_MAX_NUM, records in flash (16 in the code)
          Boards,      \* addresses at which a board answers
          TimesMax,    \* empty rounds after which a search gives up (3)
          Unused,      \* a record whose type is DAT_SLAVE_TYPE
          Torn,        \* a record of which only some entries are written
          MaxPresses,  \* bound: rescan requests from the keys
          MaxLate,     \* bound: late replies on their way at one time
          MaxFailures  \* bound: power failures

ASSUME ScanAssumption ==
  /\ QueryMax \in Nat \ {0} /\ SlotMax \in Nat \ {0} /\ TimesMax \in Nat
  /\ MaxPresses \in Nat /\ MaxLate \in Nat /\ MaxFailures \in Nat
  /\ Boards \subseteq 0 .. QueryMax - 1
  /\ Unused # Torn /\ {Unused, Torn} \cap Nat = {}

VARIABLES
  scanFlag,   \* device_data.set_scan_flag
  ackFlag,    \* device_data.slave_device_have_ack_flag
  tmp,        \* slave_device_tmp
  draft,      \* sys_psm.slave_device[slave_device_max], being written to flash
  queryCnt,   \* device_data.query_slave_cnt
  timesCnt,   \* device_data.query_slave_times_cnt
  saveFlag,   \* device_data.save_slave_device_flag
  finish,     \* device_data.query_slave_finish_flag
  max,        \* device_data.slave_device_max
  own,        \* device_data.own_slave_device, its first slave_device_max entries
  ok,         \* sys_psm.slave_ok
  pc, slot,   \* where modbus_control_thread stands, and its loop variable
  line,       \* search replies sent and not yet taken by the interrupt
  flashOk,    \* slave_ok in flash
  flashRec,   \* the slave records in flash
  found,      \* history: addresses recorded since the search began
  sealed,     \* history: what was found when flash last said slave_ok
  hurried,    \* history: a rescan was requested while a search was on
  lossy,      \* history: some reply was lost or late
  presses, failures  \* how much of each bound is used

keyVars == <<scanFlag, ackFlag, queryCnt, timesCnt, saveFlag, finish>>
listVars == <<max, own, ok>>
flashVars == <<flashOk, flashRec>>
histVars == <<found, sealed>>
caseVars == <<hurried, lossy>>
used == <<presses, failures>>
ramVars == <<keyVars, tmp, draft, listVars, pc, slot>>
vars == <<ramVars, line, flashVars, histVars, caseVars, used>>

Addrs == 0 .. QueryMax - 1
RecordSlots == 0 .. SlotMax - 1
Places == {"loop", "ackWait", "save1", "save2", "saved", "next", "defaults",
           "default1", "default2", "setOk", "rebuild", "clearOk"}

\* What every power-up sets, and zero-initialised globals.
RamReset ==
  /\ scanFlag' = 0 /\ ackFlag' = 0 /\ tmp' = Unused /\ draft' = Unused
  /\ queryCnt' = 0 /\ timesCnt' = 0 /\ saveFlag' = 0 /\ finish' = 0
  /\ pc' = "loop" /\ slot' = 0 /\ line' = <<>>

\* A fresh board: flash holds what conf_default_psm puts there.
Init ==
  /\ scanFlag = 0 /\ ackFlag = 0 /\ tmp = Unused /\ draft = Unused
  /\ queryCnt = 0 /\ timesCnt = 0 /\ saveFlag = 0 /\ finish = 0
  /\ max = 0 /\ own = <<>> /\ ok = 0
  /\ pc = "loop" /\ slot = 0 /\ line = <<>>
  /\ flashOk = 0 /\ flashRec = [n \in RecordSlots |-> Unused]
  /\ found = <<>> /\ sealed = <<>>
  /\ hurried = FALSE /\ lossy = FALSE /\ presses = 0 /\ failures = 0

\* The list after the first n records: each whose type is not DAT_SLAVE_TYPE
\* goes behind those before it.
ListUpTo(rec, n) ==
  LET list[k \in Nat] ==
        IF k = 0 THEN <<>>
        ELSE IF rec[k - 1] = Unused THEN list[k - 1]
        ELSE Append(list[k - 1], rec[k - 1])
  IN  list[n]

UsedOf(rec) == ListUpTo(rec, SlotMax)
UsedRecords == UsedOf(flashRec)

\* A record is three values, written one after the other: between the first
\* and the last it is neither the old record nor the new one.
HalfWrite(n, new) ==
  flashRec' = IF n \in RecordSlots /\ flashRec[n] # new
              THEN [flashRec EXCEPT ![n] = Torn] ELSE flashRec
FullWrite(n, new) ==
  flashRec' = IF n \in RecordSlots
              THEN [flashRec EXCEPT ![n] = new] ELSE flashRec

-----------------------------------------------------------------------------
(* modbus_control_thread *)

\* search_slave_driver_id; the board at that address, if any, answers once.
SendQuery ==
  /\ pc = "loop" /\ ok = 0 /\ finish = 0
  /\ pc' = "ackWait"
  /\ \/ queryCnt \in Boards /\ line' = Append(line, queryCnt) /\ UNCHANGED lossy
     \/ queryCnt \in Boards /\ lossy' = TRUE /\ UNCHANGED line
     \/ queryCnt \notin Boards /\ UNCHANGED <<line, lossy>>
  /\ UNCHANGED <<keyVars, tmp, draft, listVars, slot, flashVars, histVars,
                 hurried, used>>

\* Mutant: the acknowledgement flag stays up after its reply was recorded.
CheckAckKeepsFlag ==
  /\ pc = "ackWait"
  /\ \/ line = <<>> /\ UNCHANGED lossy
     \/ Len(line) \in 1 .. MaxLate /\ lossy' = TRUE
  /\ \/ ackFlag = 1 /\ draft' = tmp /\ pc' = "save1"
     \/ ackFlag = 0 /\ pc' = "next" /\ UNCHANGED draft
  /\ UNCHANGED <<keyVars, tmp, listVars, slot, line, flashVars, histVars,
                 hurried, used>>

\* The 100 ms wait ends, with the reply or (late) without it, and a reply is
\* taken into the table.
CheckAck ==
  /\ pc = "ackWait"
  /\ \/ line = <<>> /\ UNCHANGED lossy
     \/ Len(line) \in 1 .. MaxLate /\ lossy' = TRUE
  /\ \/ /\ ackFlag = 1
        /\ ackFlag' = 0 /\ draft' = tmp /\ pc' = "save1"
     \/ /\ ackFlag = 0
        /\ pc' = "next" /\ UNCHANGED <<ackFlag, draft>>
  /\ UNCHANGED <<scanFlag, queryCnt, timesCnt, saveFlag, finish, tmp, listVars,
                 slot, line, flashVars, histVars, hurried, used>>

\* read_write_slave_information_flash(WRITE_PSM, slave_device_max).
SaveFirst ==
  /\ pc = "save1"
  /\ HalfWrite(max, draft)
  /\ pc' = "save2"
  /\ UNCHANGED <<keyVars, tmp, draft, listVars, slot, line, flashOk, histVars,
                 caseVars, used>>

SaveRest ==
  /\ pc = "save2"
  /\ FullWrite(max, draft)
  /\ max' = max + 1
  /\ found' = Append(found, draft)
  /\ pc' = "saved"
  /\ UNCHANGED <<keyVars, tmp, draft, own, ok, slot, line, flashOk, sealed,
                 caseVars, used>>

Saved ==
  /\ pc = "saved"
  /\ saveFlag' = 1 /\ pc' = "next"
  /\ UNCHANGED <<scanFlag, ackFlag, queryCnt, timesCnt, finish, tmp, draft,
                 listVars, slot, line, flashVars, histVars, caseVars, used>>

\* Mutant: the round goes one address too far.
RoundOverLate == queryCnt >= QueryMax

RoundOver == queryCnt + 1 >= QueryMax

\* Mutant: an empty round is not counted.
EndQueryNoGiveUp ==
  /\ pc = "next"
  /\ \/ /\ queryCnt + 1 < QueryMax
        /\ queryCnt' = queryCnt + 1 /\ pc' = "loop" /\ UNCHANGED <<saveFlag, slot>>
     \/ /\ queryCnt + 1 >= QueryMax
        /\ queryCnt' = 0 /\ saveFlag' = 0 /\ slot' = max
        /\ pc' = IF saveFlag = 1 THEN "defaults" ELSE "loop"
  /\ UNCHANGED <<scanFlag, ackFlag, timesCnt, finish, tmp, draft, listVars, line,
                 flashVars, histVars, caseVars, used>>

\* The next address; past the last one the round is over.
EndQuery ==
  /\ pc = "next"
  /\ \/ /\ ~RoundOver
        /\ queryCnt' = queryCnt + 1 /\ pc' = "loop"
        /\ UNCHANGED <<timesCnt, saveFlag, finish, slot>>
     \/ /\ RoundOver /\ saveFlag = 1
        /\ queryCnt' = 0 /\ saveFlag' = 0 /\ slot' = max /\ pc' = "defaults"
        /\ UNCHANGED <<timesCnt, finish>>
     \/ /\ RoundOver /\ saveFlag # 1
        /\ queryCnt' = 0 /\ timesCnt' = timesCnt + 1
        /\ finish' = IF timesCnt + 1 > TimesMax THEN 1 ELSE finish
        /\ pc' = "loop" /\ UNCHANGED <<saveFlag, slot>>
  /\ UNCHANGED <<scanFlag, ackFlag, tmp, draft, listVars, line, flashVars,
                 histVars, caseVars, used>>

\* Mutant: slave_ok is set without cleaning the records behind the list.
DefaultLoopSkipped ==
  /\ pc = "defaults"
  /\ pc' = "setOk"
  /\ UNCHANGED <<keyVars, tmp, draft, listVars, slot, line, flashVars, histVars,
                 caseVars, used>>

\* The records behind the list go back to their defaults, then slave_ok is set.
DefaultLoop ==
  /\ pc = "defaults"
  /\ pc' = IF slot < SlotMax THEN "default1" ELSE "setOk"
  /\ UNCHANGED <<keyVars, tmp, draft, listVars, slot, line, flashVars, histVars,
                 caseVars, used>>

DefaultFirst ==
  /\ pc = "default1"
  /\ HalfWrite(slot, Unused)
  /\ pc' = "default2"
  /\ UNCHANGED <<keyVars, tmp, draft, listVars, slot, line, flashOk, histVars,
                 caseVars, used>>

DefaultRest ==
  /\ pc = "default2"
  /\ FullWrite(slot, Unused)
  /\ slot' = slot + 1 /\ pc' = "defaults"
  /\ UNCHANGED <<keyVars, tmp, draft, listVars, line, flashOk, histVars, caseVars,
                 used>>

SetOk ==
  /\ pc = "setOk"
  /\ ok' = 1 /\ flashOk' = 1 /\ sealed' = found
  /\ pc' = "rebuild"
  /\ UNCHANGED <<keyVars, tmp, draft, max, own, slot, line, flashRec, found,
                 caseVars, used>>

\* Mutant: the list is counted without being read back.
LoadListCountOnly == max' = Len(UsedRecords) /\ UNCHANGED own

LoadList == own' = UsedRecords /\ max' = Len(UsedRecords)

Rebuild ==
  /\ pc = "rebuild"
  /\ LoadList
  /\ pc' = "loop"
  /\ UNCHANGED <<keyVars, tmp, draft, ok, slot, line, flashVars, histVars,
                 caseVars, used>>

\* A rescan was requested: slave_ok is cleared in RAM, then in flash.
RescanBegin ==
  /\ pc = "loop" /\ ok = 1 /\ scanFlag = 1
  /\ scanFlag' = 0 /\ timesCnt' = 0 /\ queryCnt' = 0
  /\ ok' = 0 /\ pc' = "clearOk"
  /\ UNCHANGED <<ackFlag, saveFlag, finish, tmp, draft, max, own, slot, line,
                 flashVars, histVars, caseVars, used>>

\* Mutant: flash goes on calling the old list good during a rescan.
ClearOkRamOnly ==
  /\ pc = "clearOk"
  /\ max' = 0 /\ found' = <<>> /\ pc' = "loop"
  /\ UNCHANGED <<keyVars, tmp, draft, own, ok, slot, line, flashVars, sealed,
                 caseVars, used>>

ClearOk ==
  /\ pc = "clearOk"
  /\ flashOk' = 0 /\ max' = 0 /\ found' = <<>>
  /\ pc' = "loop"
  /\ UNCHANGED <<keyVars, tmp, draft, own, ok, slot, line, flashRec, sealed,
                 caseVars, used>>

\* With a list and no request, or after giving up, the loop has no search to do.
IdleTurn ==
  /\ pc = "loop" /\ \/ ok = 1 /\ scanFlag # 1
                    \/ ok = 0 /\ finish # 0
  /\ UNCHANGED vars

Thread ==
  \/ SendQuery \/ CheckAck \/ SaveFirst \/ SaveRest \/ Saved \/ EndQuery
  \/ DefaultLoop \/ DefaultFirst \/ DefaultRest \/ SetOk \/ Rebuild
  \/ RescanBegin \/ ClearOk \/ IdleTurn

-----------------------------------------------------------------------------
\* USART4_RxFull_IrqCallback on the last byte of a good search reply.
Receive ==
  /\ line # <<>>
  /\ line' = Tail(line)
  /\ tmp' = Head(line) /\ ackFlag' = 1
  /\ UNCHANGED <<scanFlag, queryCnt, timesCnt, saveFlag, finish, draft, listVars,
                 pc, slot, flashVars, histVars, caseVars, used>>

\* KEY_DOWN_LONG_OK and a short KEY_UP_RST, at any moment.
KeyRescan ==
  /\ presses < MaxPresses /\ presses' = presses + 1
  /\ scanFlag' = 1 /\ ackFlag' = 0 /\ queryCnt' = 0 /\ timesCnt' = 0
  /\ saveFlag' = 0 /\ finish' = 0
  /\ hurried' = (hurried \/ ok = 0)
  /\ UNCHANGED <<tmp, draft, listVars, pc, slot, line, flashVars, histVars,
                 lossy, failures>>

\* The power fails between any two steps; data_init reads the flash back.
PowerFail ==
  /\ failures < MaxFailures /\ failures' = failures + 1
  /\ RamReset
  /\ ok' = flashOk
  /\ \/ flashOk = 1 /\ LoadList
     \/ flashOk # 1 /\ max' = 0 /\ own' = <<>>
  /\ found' = <<>>
  /\ UNCHANGED <<flashVars, sealed, caseVars, presses>>

Next == Thread \/ Receive \/ KeyRescan \/ PowerFail

\* The thread keeps running and a received byte is handled; nothing is assumed
\* of the keys or the power.
Fairness == WF_vars(Thread) /\ WF_vars(Receive)

Spec == Init /\ [][Next]_vars
FairSpec == Spec /\ Fairness

-----------------------------------------------------------------------------
Entries == Addrs \cup {Unused, Torn}

\* Every variable keeps its type.
TypeOK ==
  /\ {scanFlag, ackFlag, saveFlag, finish, ok, flashOk} \subseteq {0, 1}
  /\ tmp \in Addrs \cup {Unused} /\ draft \in Addrs \cup {Unused}
  /\ queryCnt \in Addrs /\ timesCnt \in Nat
  /\ max \in Nat /\ own \in Seq(Entries)
  /\ pc \in Places /\ slot \in Nat
  /\ line \in Seq(Addrs)
  /\ flashRec \in [RecordSlots -> Entries]
  /\ found \in Seq(Addrs) /\ sealed \in Seq(Addrs)
  /\ hurried \in BOOLEAN /\ lossy \in BOOLEAN
  /\ presses \in 0 .. MaxPresses
  /\ failures \in 0 .. MaxFailures

\* A list that flash calls good (slave_ok) is whole: exactly the boards the
\* search that set slave_ok recorded, in that order, then defaults, with no
\* half-written record, wherever the power failed and whenever a rescan was
\* requested.
StoredListIntact ==
  flashOk = 1 =>
    \A n \in RecordSlots :
      flashRec[n] = IF n < Len(sealed) THEN sealed[n + 1] ELSE Unused

\* While the thread works on a list, RAM and flash agree on it: the entries
\* other threads index with slave_device_max are the stored ones.
ListMatchesFlash ==
  pc = "loop" /\ ok = 1 => /\ flashOk = 1
                           /\ own = UsedRecords /\ max = Len(own)

\* A search never runs with flash still calling the old list good: slave_ok is
\* cleared in flash before the first record is overwritten.
NoSealedOverwrite == [][flashRec' # flashRec => flashOk = 0]_vars

\* With no reply lost and no request during a search, the search ends with
\* every board in the list, once, in address order, even if the power failed
\* in the middle of it or between the writes of its result.
AllFound ==
  <>[](~lossy /\ ~hurried /\ Boards # {} =>
         /\ ok = 1 /\ Len(own) = Cardinality(Boards)
         /\ {own[n] : n \in 1 .. Len(own)} = Boards
         /\ \A m, n \in 1 .. Len(own) : m < n => own[m] < own[n])

\* Every search ends, with a list or by giving up, whatever is lost and
\* whenever a rescan is requested.
ScanEnds == []<>(ok = 1 \/ finish = 1)

\* project_config.h:178 calls slave_device_max the greatest number of boards,
\* and the tables it indexes have SLAVE_MAX_NUM entries.
SlotsInBounds == max <= SlotMax
=============================================================================
