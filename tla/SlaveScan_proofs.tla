-------------------------- MODULE SlaveScan_proofs --------------------------
(***************************************************************************)
(* Proofs about SlaveScan for every table size, every set of boards and    *)
(* any number of lost replies, rescan requests and power failures: a list  *)
(* that flash calls good is whole, is the one the thread works on, and is  *)
(* never written over while flash calls it good; the list in RAM is what   *)
(* the last complete search found, as far as it has room, and every board  *)
(* exactly once if nothing disturbed the searches.                         *)
(***************************************************************************)
EXTENDS SlaveScan, TLAPS, WellFoundedInduction

\* The types of what the argument about the stored list is about.
DataTypes ==
  /\ {flashOk, ok} \subseteq {0, 1}
  /\ tmp \in Addrs \cup {Unused} /\ draft \in Addrs \cup {Unused}
  /\ queryCnt \in Addrs /\ slot \in Nat
  /\ line \in Seq(Addrs)
  /\ flashRec \in [RecordSlots -> Entries]
  /\ found \in Seq(Addrs) /\ sealed \in Seq(Addrs)

\* An acknowledged reply is in slave_device_tmp, and then in the record saved.
AckHasReply ==
  /\ ackFlag = 1 => tmp \in Addrs
  /\ pc \in {"save1", "save2"} => draft \in Addrs

\* slave_ok in RAM and in flash differ only between the two assignments.
OkMirrored ==
  /\ ok = 1 => flashOk = 1 /\ pc \in {"loop", "rebuild"}
  /\ flashOk = 1 => ok = 1 \/ pc = "clearOk"
  /\ pc = "rebuild" => ok = 1

\* During a search the records up to slave_device_max are what was found.
SavedSoFar ==
  flashOk # 1 => /\ max = Len(found)
                 /\ \A n \in RecordSlots : n < max => flashRec[n] = found[n + 1]

\* The clean-up has reached the record slot.
DefaultsSoFar ==
  pc \in {"defaults", "default1", "default2", "setOk"} =>
    /\ \A n \in RecordSlots : max <= n /\ n < slot => flashRec[n] = Unused
    /\ max <= slot
    /\ pc = "setOk" => slot >= SlotMax

IInv == /\ DataTypes /\ AckHasReply /\ OkMirrored /\ SavedSoFar /\ DefaultsSoFar
        /\ StoredListIntact /\ ListMatchesFlash

-----------------------------------------------------------------------------
LEMMA InitIInv == Init => IInv
<1> SUFFICES ASSUME Init PROVE IInv
  OBVIOUS
<1> USE ScanAssumption
<1>1. DataTypes
  BY DEF Init, DataTypes, Addrs, RecordSlots, Entries
<1>2. AckHasReply /\ OkMirrored /\ SavedSoFar /\ DefaultsSoFar
  BY DEF Init, AckHasReply, OkMirrored, SavedSoFar, DefaultsSoFar, RecordSlots
<1>3. StoredListIntact /\ ListMatchesFlash
  BY DEF Init, StoredListIntact, ListMatchesFlash
<1>4. QED
  BY <1>1, <1>2, <1>3 DEF IInv

\* A step that leaves the records alone leaves the list they hold alone.
LEMMA SameRecordsSameList ==
  ASSUME flashRec' = flashRec PROVE UsedRecords' = UsedRecords
BY Zenon DEF UsedRecords

\* Writing half of a record or all of it keeps the table a table and touches
\* no other record.
LEMMA RecordWrite ==
  ASSUME flashRec \in [RecordSlots -> Entries],
         NEW n, NEW new \in Addrs \cup {Unused},
         HalfWrite(n, new) \/ FullWrite(n, new)
  PROVE  /\ flashRec' \in [RecordSlots -> Entries]
         /\ \A k \in RecordSlots : k # n => flashRec'[k] = flashRec[k]
         /\ FullWrite(n, new) /\ n \in RecordSlots => flashRec'[n] = new
BY DEF HalfWrite, FullWrite, Entries

\* Steps of a search before the clean-up that change no record and no list.
LEMMA QuietStep ==
  ASSUME IInv, UNCHANGED <<max, own, ok, flashOk, flashRec, found, sealed>>,
         pc \notin {"defaults", "default1", "default2", "setOk", "rebuild",
                    "clearOk"},
         pc' \notin {"defaults", "default1", "default2", "setOk", "rebuild",
                     "clearOk"},
         pc = "loop" /\ ok = 1 => pc' = "loop",
         pc' = "loop" => pc = "loop" \/ ok # 1
  PROVE  /\ OkMirrored' /\ SavedSoFar' /\ DefaultsSoFar'
         /\ StoredListIntact' /\ ListMatchesFlash'
<1>1. UsedRecords' = UsedRecords
  BY SameRecordsSameList
<1>2. OkMirrored'
  BY DEF IInv, OkMirrored
<1>3. SavedSoFar' /\ DefaultsSoFar' /\ StoredListIntact'
  BY DEF IInv, SavedSoFar, DefaultsSoFar, StoredListIntact
<1>4. ListMatchesFlash'
  BY <1>1 DEF IInv, ListMatchesFlash
<1>5. QED
  BY <1>2, <1>3, <1>4

LEMMA NextIInv == IInv /\ [Next]_vars => IInv'
<1> SUFFICES ASSUME IInv, [Next]_vars PROVE IInv'
  OBVIOUS
<1> USE ScanAssumption
<1>0. /\ DataTypes /\ AckHasReply /\ OkMirrored /\ SavedSoFar /\ DefaultsSoFar
      /\ StoredListIntact /\ ListMatchesFlash
  BY DEF IInv
<1>t. 0 \in Addrs
  BY DEF Addrs
<1>1. CASE SendQuery
  <2>1. OkMirrored' /\ SavedSoFar' /\ DefaultsSoFar' /\ StoredListIntact'
        /\ ListMatchesFlash'
    BY <1>1, QuietStep DEF SendQuery, listVars, flashVars, histVars
  <2>2. line' \in Seq(Addrs)
    <3>1. line \in Seq(Addrs) /\ queryCnt \in Addrs
      BY <1>0 DEF DataTypes
    <3>2. line' \in {line, Append(line, queryCnt)}
      BY <1>1 DEF SendQuery
    <3>3. QED
      BY <3>1, <3>2
  <2>3. DataTypes' /\ AckHasReply'
    BY <1>0, <1>1, <2>2 DEF SendQuery, DataTypes, AckHasReply, keyVars, listVars,
       flashVars, histVars, RecordSlots, Addrs, Entries
  <2>4. QED
    BY <2>1, <2>3 DEF IInv
<1>2. CASE CheckAck
  <2>0. pc' \in {"save1", "next"} /\ pc = "ackWait"
    BY <1>2 DEF CheckAck
  <2>1. OkMirrored' /\ SavedSoFar' /\ DefaultsSoFar' /\ StoredListIntact'
        /\ ListMatchesFlash'
    BY <2>0, <1>2, QuietStep DEF CheckAck, listVars, flashVars, histVars
  <2>2. AckHasReply'
    BY <1>0, <1>2 DEF CheckAck, AckHasReply, Addrs
  <2>3. DataTypes'
    BY <1>0, <1>2 DEF CheckAck, DataTypes, listVars, flashVars, histVars,
       RecordSlots, Addrs, Entries
  <2>4. QED
    BY <2>1, <2>2, <2>3 DEF IInv
<1>3. CASE SaveFirst
  <2>0. /\ pc = "save1" /\ pc' = "save2" /\ ok # 1 /\ flashOk # 1
        /\ draft \in Addrs
    BY <1>0, <1>3 DEF SaveFirst, OkMirrored, AckHasReply
  <2>1. /\ flashRec' \in [RecordSlots -> Entries]
        /\ \A k \in RecordSlots : k # max => flashRec'[k] = flashRec[k]
    BY <1>0, <1>3, <2>0, RecordWrite DEF SaveFirst, DataTypes
  <2>2. DataTypes'
    BY <1>0, <1>3, <2>1 DEF SaveFirst, DataTypes, keyVars, listVars, histVars,
       RecordSlots, Addrs, Entries
  <2>3. AckHasReply' /\ OkMirrored' /\ DefaultsSoFar' /\ StoredListIntact'
        /\ ListMatchesFlash'
    BY <1>0, <1>3, <2>0 DEF SaveFirst, AckHasReply, OkMirrored, DefaultsSoFar,
       StoredListIntact, ListMatchesFlash, keyVars, listVars, histVars, Addrs
  <2>4. SavedSoFar'
    BY <1>0, <1>3, <2>0, <2>1 DEF SaveFirst, SavedSoFar, listVars, histVars,
       DataTypes, RecordSlots
  <2>5. QED
    BY <2>2, <2>3, <2>4 DEF IInv
<1>4. CASE SaveRest
  <2>0. /\ pc = "save2" /\ pc' = "saved" /\ ok # 1 /\ flashOk # 1
        /\ draft \in Addrs /\ max' = max + 1
    BY <1>0, <1>4 DEF SaveRest, OkMirrored, AckHasReply
  <2>1. /\ flashRec' \in [RecordSlots -> Entries]
        /\ \A k \in RecordSlots : k # max => flashRec'[k] = flashRec[k]
        /\ max \in RecordSlots => flashRec'[max] = draft
    BY <1>0, <1>4, <2>0, RecordWrite DEF SaveRest, DataTypes
  <2>2. /\ found \in Seq(Addrs) /\ found' = Append(found, draft)
        /\ max = Len(found)
    BY <1>0, <1>4, <2>0 DEF SaveRest, DataTypes, SavedSoFar
  <2>a. /\ found' \in Seq(Addrs) /\ max' = Len(found')
        /\ \A n \in 1 .. Len(found) : found'[n] = found[n]
        /\ found'[max + 1] = draft
    BY <2>0, <2>2
  <2>3. DataTypes'
    BY <1>0, <1>4, <2>1, <2>a DEF SaveRest, DataTypes, keyVars, RecordSlots,
       Addrs, Entries
  <2>4. AckHasReply' /\ OkMirrored' /\ DefaultsSoFar' /\ StoredListIntact'
        /\ ListMatchesFlash'
    BY <1>0, <1>4, <2>0 DEF SaveRest, AckHasReply, OkMirrored, DefaultsSoFar,
       StoredListIntact, ListMatchesFlash, keyVars, Addrs
  <2>5. SavedSoFar'
    <3>1. ASSUME NEW n \in RecordSlots, n < max'
          PROVE  flashRec'[n] = found'[n + 1]
      <4>1. CASE n = max
        BY <4>1, <2>1, <2>a
      <4>2. CASE n # max
        <5>1. n < max /\ n + 1 \in 1 .. Len(found)
          BY <3>1, <4>2, <2>0, <2>2 DEF RecordSlots
        <5>2. QED
          BY <5>1, <4>2, <2>1, <2>a, <1>0, <2>0 DEF SavedSoFar
      <4>3. QED
        BY <4>1, <4>2
    <3>2. QED
      BY <3>1, <2>a DEF SavedSoFar
  <2>6. QED
    BY <2>3, <2>4, <2>5 DEF IInv
<1>5. CASE Saved
  <2>1. OkMirrored' /\ SavedSoFar' /\ DefaultsSoFar' /\ StoredListIntact'
        /\ ListMatchesFlash'
    BY <1>5, QuietStep DEF Saved, listVars, flashVars, histVars
  <2>2. DataTypes' /\ AckHasReply'
    BY <1>0, <1>5 DEF Saved, DataTypes, AckHasReply, listVars, flashVars,
       histVars, RecordSlots, Addrs, Entries
  <2>3. QED
    BY <2>1, <2>2 DEF IInv
<1>6. CASE EndQuery
  <2>0. /\ pc = "next" /\ pc' \in {"loop", "defaults"} /\ ok # 1 /\ flashOk # 1
        /\ UNCHANGED <<ackFlag, tmp, draft, max, own, ok, line, flashOk, flashRec,
                       found, sealed>>
    BY <1>0, <1>6 DEF EndQuery, OkMirrored, listVars, flashVars, histVars
  <2>1. /\ queryCnt' \in Addrs
        /\ pc' = "loop" => slot' = slot
        /\ pc' = "defaults" => slot' = max
    BY <1>0, <1>6, <1>t DEF EndQuery, DataTypes, RoundOver, Addrs
  <2>2. max \in Nat
    BY <1>0, <2>0 DEF SavedSoFar, DataTypes
  <2>3. DataTypes' /\ AckHasReply'
    BY <1>0, <2>0, <2>1, <2>2 DEF DataTypes, AckHasReply, RecordSlots, Addrs,
       Entries
  <2>4. OkMirrored' /\ SavedSoFar' /\ StoredListIntact' /\ ListMatchesFlash'
    BY <1>0, <2>0 DEF OkMirrored, SavedSoFar, StoredListIntact, ListMatchesFlash
  <2>5. DefaultsSoFar'
    BY <2>0, <2>1, <2>2 DEF DefaultsSoFar, RecordSlots
  <2>6. QED
    BY <2>3, <2>4, <2>5 DEF IInv
<1>7. CASE DefaultLoop
  <2>0. /\ pc = "defaults" /\ pc' \in {"default1", "setOk"} /\ ok # 1
        /\ flashOk # 1
        /\ pc' = "setOk" => ~(slot < SlotMax)
        /\ UNCHANGED <<keyVars, tmp, draft, listVars, slot, line, flashVars,
                       histVars>>
    BY <1>0, <1>7 DEF DefaultLoop, OkMirrored
  <2>1. DataTypes' /\ AckHasReply'
    BY <1>0, <2>0 DEF DataTypes, AckHasReply, keyVars, listVars, flashVars,
       histVars, RecordSlots, Addrs, Entries
  <2>2. OkMirrored' /\ SavedSoFar' /\ StoredListIntact' /\ ListMatchesFlash'
    BY <1>0, <2>0 DEF OkMirrored, SavedSoFar, StoredListIntact, ListMatchesFlash,
       listVars, flashVars, histVars
  <2>3. DefaultsSoFar'
    BY <1>0, <2>0 DEF DefaultsSoFar, DataTypes, listVars, flashVars, RecordSlots
  <2>4. QED
    BY <2>1, <2>2, <2>3 DEF IInv
<1>8. CASE DefaultFirst
  <2>0. /\ pc = "default1" /\ pc' = "default2" /\ ok # 1 /\ flashOk # 1
        /\ UNCHANGED <<keyVars, tmp, draft, listVars, slot, line, flashOk,
                       histVars>>
    BY <1>0, <1>8 DEF DefaultFirst, OkMirrored
  <2>1. /\ flashRec' \in [RecordSlots -> Entries]
        /\ \A k \in RecordSlots : k # slot => flashRec'[k] = flashRec[k]
    BY <1>0, <1>8, RecordWrite DEF DefaultFirst, DataTypes
  <2>2. DataTypes' /\ AckHasReply'
    BY <1>0, <2>0, <2>1 DEF DataTypes, AckHasReply, keyVars, listVars, histVars,
       RecordSlots, Addrs, Entries
  <2>3. OkMirrored' /\ StoredListIntact' /\ ListMatchesFlash'
    BY <1>0, <2>0 DEF OkMirrored, StoredListIntact, ListMatchesFlash, listVars,
       histVars
  <2>4. SavedSoFar' /\ DefaultsSoFar'
    BY <1>0, <2>0, <2>1 DEF SavedSoFar, DefaultsSoFar, DataTypes, listVars,
       histVars, RecordSlots
  <2>5. QED
    BY <2>2, <2>3, <2>4 DEF IInv
<1>9. CASE DefaultRest
  <2>0. /\ pc = "default2" /\ pc' = "defaults" /\ ok # 1 /\ flashOk # 1
        /\ slot' = slot + 1
        /\ UNCHANGED <<keyVars, tmp, draft, listVars, line, flashOk, histVars>>
    BY <1>0, <1>9 DEF DefaultRest, OkMirrored
  <2>1. /\ flashRec' \in [RecordSlots -> Entries]
        /\ \A k \in RecordSlots : k # slot => flashRec'[k] = flashRec[k]
        /\ slot \in RecordSlots => flashRec'[slot] = Unused
    BY <1>0, <1>9, RecordWrite DEF DefaultRest, DataTypes
  <2>2. DataTypes' /\ AckHasReply'
    BY <1>0, <2>0, <2>1 DEF DataTypes, AckHasReply, keyVars, listVars, histVars,
       RecordSlots, Addrs, Entries
  <2>3. OkMirrored' /\ StoredListIntact' /\ ListMatchesFlash'
    BY <1>0, <2>0 DEF OkMirrored, StoredListIntact, ListMatchesFlash, listVars,
       histVars
  <2>4. SavedSoFar' /\ DefaultsSoFar'
    BY <1>0, <2>0, <2>1 DEF SavedSoFar, DefaultsSoFar, DataTypes, listVars,
       histVars, RecordSlots
  <2>5. QED
    BY <2>2, <2>3, <2>4 DEF IInv
<1>10. CASE SetOk
  <2>0. /\ pc = "setOk" /\ pc' = "rebuild" /\ ok' = 1 /\ flashOk' = 1
        /\ flashOk # 1 /\ sealed' = found
        /\ UNCHANGED <<keyVars, tmp, draft, max, slot, line, flashRec, found>>
    BY <1>0, <1>10 DEF SetOk, OkMirrored
  <2>1. DataTypes' /\ AckHasReply'
    BY <1>0, <2>0 DEF DataTypes, AckHasReply, keyVars, RecordSlots, Addrs, Entries
  <2>2. OkMirrored' /\ SavedSoFar' /\ DefaultsSoFar' /\ ListMatchesFlash'
    BY <2>0 DEF OkMirrored, SavedSoFar, DefaultsSoFar, ListMatchesFlash
  <2>3. StoredListIntact'
    BY <1>0, <2>0 DEF StoredListIntact, SavedSoFar, DefaultsSoFar, DataTypes,
       RecordSlots
  <2>4. QED
    BY <2>1, <2>2, <2>3 DEF IInv
<1>11. CASE Rebuild
  <2>0. /\ pc = "rebuild" /\ pc' = "loop" /\ ok = 1 /\ flashOk = 1 /\ LoadList
        /\ UNCHANGED <<keyVars, tmp, draft, ok, slot, line, flashVars, histVars>>
    BY <1>0, <1>11 DEF Rebuild, OkMirrored
  <2>1. DataTypes' /\ AckHasReply'
    BY <1>0, <2>0 DEF DataTypes, AckHasReply, keyVars, flashVars, histVars,
       RecordSlots, Addrs, Entries
  <2>2. OkMirrored' /\ SavedSoFar' /\ DefaultsSoFar' /\ StoredListIntact'
    BY <1>0, <2>0 DEF OkMirrored, SavedSoFar, DefaultsSoFar, StoredListIntact,
       flashVars, histVars
  <2>3. ListMatchesFlash'
    BY <2>0, SameRecordsSameList DEF ListMatchesFlash, LoadList, flashVars
  <2>4. QED
    BY <2>1, <2>2, <2>3 DEF IInv
<1>12. CASE RescanBegin
  <2>0. /\ pc = "loop" /\ ok = 1 /\ flashOk = 1 /\ ok' = 0 /\ pc' = "clearOk"
        /\ queryCnt' = 0
        /\ UNCHANGED <<ackFlag, tmp, draft, max, own, slot, line, flashVars,
                       histVars>>
    BY <1>0, <1>12 DEF RescanBegin, OkMirrored
  <2>1. DataTypes' /\ AckHasReply'
    BY <1>0, <1>t, <2>0 DEF DataTypes, AckHasReply, flashVars, histVars,
       RecordSlots, Addrs, Entries
  <2>2. OkMirrored' /\ SavedSoFar' /\ DefaultsSoFar' /\ StoredListIntact'
        /\ ListMatchesFlash'
    BY <1>0, <2>0 DEF OkMirrored, SavedSoFar, DefaultsSoFar, StoredListIntact,
       ListMatchesFlash, flashVars, histVars
  <2>3. QED
    BY <2>1, <2>2 DEF IInv
<1>13. CASE ClearOk
  <2>0. /\ pc = "clearOk" /\ pc' = "loop" /\ ok # 1 /\ flashOk' = 0 /\ max' = 0
        /\ found' = <<>>
        /\ UNCHANGED <<keyVars, tmp, draft, own, ok, slot, line, flashRec, sealed>>
    BY <1>0, <1>13 DEF ClearOk, OkMirrored
  <2>1. DataTypes' /\ AckHasReply'
    BY <1>0, <2>0 DEF DataTypes, AckHasReply, keyVars, RecordSlots, Addrs, Entries
  <2>2. OkMirrored' /\ SavedSoFar' /\ DefaultsSoFar' /\ StoredListIntact'
        /\ ListMatchesFlash'
    BY <2>0 DEF OkMirrored, SavedSoFar, DefaultsSoFar, StoredListIntact,
       ListMatchesFlash, RecordSlots
  <2>3. QED
    BY <2>1, <2>2 DEF IInv
<1>14. CASE Receive
  <2>0. /\ line # <<>> /\ line' = Tail(line) /\ tmp' = Head(line)
        /\ UNCHANGED <<queryCnt, draft, listVars, pc, slot, flashVars, histVars>>
    BY <1>14 DEF Receive
  <2>1. line' \in Seq(Addrs) /\ tmp' \in Addrs
    BY <1>0, <2>0 DEF DataTypes
  <2>2. DataTypes' /\ AckHasReply'
    BY <1>0, <2>0, <2>1 DEF DataTypes, AckHasReply, listVars, flashVars, histVars,
       RecordSlots, Addrs, Entries
  <2>3. OkMirrored' /\ SavedSoFar' /\ DefaultsSoFar' /\ StoredListIntact'
    BY <1>0, <2>0 DEF OkMirrored, SavedSoFar, DefaultsSoFar, StoredListIntact,
       listVars, flashVars, histVars
  <2>4. ListMatchesFlash'
    BY <1>0, <2>0, SameRecordsSameList DEF ListMatchesFlash, listVars, flashVars
  <2>5. QED
    BY <2>2, <2>3, <2>4 DEF IInv
<1>15. CASE KeyRescan
  <2>0. /\ ackFlag' = 0 /\ queryCnt' = 0
        /\ UNCHANGED <<tmp, draft, listVars, pc, slot, line, flashVars, histVars>>
    BY <1>15 DEF KeyRescan
  <2>2. DataTypes' /\ AckHasReply'
    BY <1>0, <1>t, <2>0 DEF DataTypes, AckHasReply, listVars, flashVars, histVars,
       RecordSlots, Addrs, Entries
  <2>3. OkMirrored' /\ SavedSoFar' /\ DefaultsSoFar' /\ StoredListIntact'
    BY <1>0, <2>0 DEF OkMirrored, SavedSoFar, DefaultsSoFar, StoredListIntact,
       listVars, flashVars, histVars
  <2>4. ListMatchesFlash'
    BY <1>0, <2>0, SameRecordsSameList DEF ListMatchesFlash, listVars, flashVars
  <2>5. QED
    BY <2>2, <2>3, <2>4 DEF IInv
<1>16. CASE PowerFail
  <2>0. /\ ackFlag' = 0 /\ tmp' = Unused /\ draft' = Unused /\ queryCnt' = 0
        /\ pc' = "loop" /\ slot' = 0 /\ line' = <<>> /\ found' = <<>>
        /\ ok' = flashOk /\ flashOk' = flashOk /\ flashRec' = flashRec
        /\ sealed' = sealed
    BY <1>16 DEF PowerFail, RamReset, flashVars
  <2>1. DataTypes' /\ AckHasReply'
    BY <1>0, <1>t, <2>0 DEF DataTypes, AckHasReply, RecordSlots, Addrs, Entries
  <2>2. OkMirrored' /\ DefaultsSoFar' /\ StoredListIntact'
    BY <1>0, <2>0 DEF OkMirrored, DefaultsSoFar, StoredListIntact
  <2>3. SavedSoFar' /\ ListMatchesFlash'
    <3>1. CASE flashOk = 1
      <4>1. LoadList
        BY <3>1, <1>16 DEF PowerFail
      <4>2. QED
        BY <2>0, <3>1, <4>1, SameRecordsSameList
        DEF SavedSoFar, ListMatchesFlash, LoadList
    <3>2. CASE flashOk # 1
      BY <2>0, <3>2, <1>16 DEF PowerFail, SavedSoFar, ListMatchesFlash, RecordSlots
    <3>3. QED
      BY <3>1, <3>2
  <2>4. QED
    BY <2>1, <2>2, <2>3 DEF IInv
<1>17. CASE UNCHANGED vars
  <2>0. UNCHANGED <<keyVars, tmp, draft, listVars, pc, slot, line, flashVars,
                    histVars>>
    BY <1>17 DEF vars, ramVars
  <2>1. DataTypes' /\ AckHasReply'
    BY <1>0, <2>0 DEF DataTypes, AckHasReply, keyVars, listVars, flashVars,
       histVars, RecordSlots, Addrs, Entries
  <2>2. OkMirrored' /\ SavedSoFar' /\ DefaultsSoFar' /\ StoredListIntact'
    BY <1>0, <2>0 DEF OkMirrored, SavedSoFar, DefaultsSoFar, StoredListIntact,
       listVars, flashVars, histVars
  <2>3. ListMatchesFlash'
    BY <1>0, <2>0, SameRecordsSameList DEF ListMatchesFlash, listVars, flashVars
  <2>4. QED
    BY <2>1, <2>2, <2>3 DEF IInv
<1>18. QED
  BY <1>1, <1>2, <1>3, <1>4, <1>5, <1>6, <1>7, <1>8, <1>9, <1>10, <1>11, <1>12,
     <1>13, <1>14, <1>15, <1>16, <1>17 DEF Next, Thread, IdleTurn

-----------------------------------------------------------------------------
\* A list that flash calls good is whole, whenever the power fails.
THEOREM StoredListIntactHolds == Spec => []StoredListIntact
<1>1. IInv => StoredListIntact
  BY DEF IInv
<1>2. QED
  BY <1>1, InitIInv, NextIInv, PTL DEF Spec

\* The list in RAM that the thread works on is the list in flash.
THEOREM ListMatchesFlashHolds == Spec => []ListMatchesFlash
<1>1. IInv => ListMatchesFlash
  BY DEF IInv
<1>2. QED
  BY <1>1, InitIInv, NextIInv, PTL DEF Spec

\* No record is written while flash calls the list good.
THEOREM NoSealedOverwriteHolds == Spec => NoSealedOverwrite
<1>1. IInv /\ [Next]_vars => [flashRec' # flashRec => flashOk = 0]_vars
  <2> SUFFICES ASSUME IInv, Next, flashRec' # flashRec PROVE flashOk = 0
    OBVIOUS
  <2>1. SaveFirst \/ SaveRest \/ DefaultFirst \/ DefaultRest
    BY DEF Next, Thread, SendQuery, CheckAck, Saved, EndQuery, DefaultLoop, SetOk,
       Rebuild, RescanBegin, ClearOk, IdleTurn, Receive, KeyRescan, PowerFail,
       flashVars, vars
  <2>2. pc \in {"save1", "save2", "default1", "default2"}
    BY <2>1 DEF SaveFirst, SaveRest, DefaultFirst, DefaultRest
  <2>3. flashOk # 1
    BY <2>2 DEF IInv, OkMirrored
  <2>4. QED
    BY <2>3 DEF IInv, DataTypes
<1>2. QED
  BY <1>1, InitIInv, NextIInv, PTL DEF Spec, NoSealedOverwrite

-----------------------------------------------------------------------------
(***************************************************************************)
(* The list the thread makes of the records.                               *)
(***************************************************************************)

\* A set of numbers that holds 0 and with each number the next holds all.
LEMMA OneByOne ==
  ASSUME NEW S, 0 \in S, \A n \in Nat : n \in S => n + 1 \in S
  PROVE  \A n \in Nat : n \in S
<1> DEFINE T == Nat \ S
<1> SUFFICES ASSUME T # {} PROVE FALSE
  OBVIOUS
<1>1. IsWellFoundedOn({ss \in Nat \X Nat : ss[1] < ss[2]}, Nat)
  BY NatLessThanWellFounded DEF OpToRel
<1>2. PICK m \in T : \A j \in T : ~ (<<j, m>> \in {ss \in Nat \X Nat : ss[1] < ss[2]})
  BY <1>1, WFMin
<1>3. m # 0 /\ m - 1 \in Nat /\ m - 1 < m
  OBVIOUS
<1>4. m - 1 \in S
  BY <1>2, <1>3
<1>5. (m - 1) + 1 \in S
  BY <1>3, <1>4
<1>6. QED
  BY <1>3, <1>5

NextList(rec, g, k) ==
  IF k = 0 THEN <<>>
  ELSE IF rec[k - 1] = Unused THEN g[k - 1]
  ELSE Append(g[k - 1], rec[k - 1])

\* The loop's recursion defines a function: a list for the first n records
\* exists for every n, and those for n and n + 1 agree.
LEMMA ListExists ==
  ASSUME NEW rec
  PROVE  \E g : g = [k \in Nat |->
                       IF k = 0 THEN <<>>
                       ELSE IF rec[k - 1] = Unused THEN g[k - 1]
                       ELSE Append(g[k - 1], rec[k - 1])]
<1> DEFINE Upto(n, g) == g = [k \in 0 .. n |-> NextList(rec, g, k)]
           S == {n \in Nat : \E g : Upto(n, g)}
<1>1. 0 \in S
  <2>1. Upto(0, [k \in 0 .. 0 |-> <<>>])
    BY DEF NextList
  <2>2. QED
    BY <2>1
<1>2. ASSUME NEW n \in Nat, n \in S PROVE n + 1 \in S
  <2>1. PICK g : Upto(n, g)
    BY <1>2
  <2> DEFINE h == [k \in 0 .. (n + 1) |-> IF k <= n THEN g[k] ELSE NextList(rec, g, k)]
  <2>2. \A k \in 0 .. (n + 1) : h[k] = NextList(rec, h, k)
    <3> TAKE k \in 0 .. (n + 1)
    <3>1. CASE k = 0
      BY <2>1, <3>1 DEF NextList
    <3>2. CASE k # 0 /\ k <= n
      <4>1. k \in 0 .. n /\ k - 1 \in 0 .. (n + 1) /\ k - 1 <= n
        BY <3>2
      <4>2. h[k] = g[k] /\ h[k - 1] = g[k - 1]
        BY <3>2, <4>1
      <4>3. g[k] = NextList(rec, g, k)
        BY <2>1, <4>1
      <4>4. QED
        BY <4>2, <4>3 DEF NextList
    <3>3. CASE k = n + 1
      BY <2>1, <3>3 DEF NextList
    <3>4. QED
      BY <3>1, <3>2, <3>3
  <2>3. Upto(n + 1, h)
    BY <2>2
  <2> HIDE DEF h
  <2>4. QED
    BY <2>3
<1>3. \A n \in Nat : n \in S
  <2> HIDE DEF S
  <2>1. QED
    BY <1>1, <1>2, OneByOne
<1> DEFINE G(n) == CHOOSE g : Upto(n, g)
<1>4. \A n \in Nat : Upto(n, G(n))
  BY <1>3
<1>5. ASSUME NEW n \in Nat
      PROVE  \A k \in Nat : k <= n => G(n)[k] = G(n + 1)[k]
  <2> DEFINE E == {k \in Nat : k <= n => G(n)[k] = G(n + 1)[k]}
  <2> HIDE DEF G
  <2>1. 0 \in E
    BY <1>4 DEF NextList
  <2>2. ASSUME NEW k \in Nat, k \in E PROVE k + 1 \in E
    <3>1. CASE ~(k + 1 <= n)
      BY <3>1
    <3>2. CASE k + 1 <= n
      <4>1. G(n)[k] = G(n + 1)[k]
        BY <2>2, <3>2
      <4>2. G(n)[k + 1] = NextList(rec, G(n), k + 1)
        BY <1>4, <3>2
      <4>3. G(n + 1)[k + 1] = NextList(rec, G(n + 1), k + 1)
        <5>1. n + 1 \in Nat /\ k + 1 \in 0 .. (n + 1)
          BY <3>2
        <5>2. Upto(n + 1, G(n + 1))
          BY <1>4, <5>1
        <5>3. QED
          BY <5>1, <5>2
      <4>4. QED
        BY <4>1, <4>2, <4>3 DEF NextList
    <3>3. QED
      BY <3>1, <3>2
  <2> HIDE DEF E
  <2>3. \A k \in Nat : k \in E
    BY <2>1, <2>2, OneByOne
  <2>4. QED
    BY <2>3 DEF E
<1> DEFINE g == [n \in Nat |-> G(n)[n]]
<1>6. \A k \in Nat : g[k] = IF k = 0 THEN <<>>
                            ELSE IF rec[k - 1] = Unused THEN g[k - 1]
                            ELSE Append(g[k - 1], rec[k - 1])
  <2> TAKE k \in Nat
  <2> HIDE DEF G
  <2>1. G(k)[k] = NextList(rec, G(k), k)
    BY <1>4
  <2>2. k # 0 => k - 1 \in Nat /\ (k - 1) + 1 = k
    OBVIOUS
  <2>3. k # 0 => G(k - 1)[k - 1] = G(k)[k - 1]
    BY <1>5, <2>2
  <2>4. QED
    BY <2>1, <2>2, <2>3 DEF NextList
<1>7. g = [k \in Nat |-> IF k = 0 THEN <<>>
                         ELSE IF rec[k - 1] = Unused THEN g[k - 1]
                         ELSE Append(g[k - 1], rec[k - 1])]
  BY <1>6
<1> HIDE DEF g
<1>8. QED
  BY <1>7

\* One turn of the loop.
LEMMA ListStep ==
  ASSUME NEW rec
  PROVE  /\ ListUpTo(rec, 0) = <<>>
         /\ \A n \in Nat : ListUpTo(rec, n + 1) = IF rec[n] = Unused THEN ListUpTo(rec, n)
                                                  ELSE Append(ListUpTo(rec, n), rec[n])
<1> DEFINE list == CHOOSE g : g = [k \in Nat |->
                                     IF k = 0 THEN <<>>
                                     ELSE IF rec[k - 1] = Unused THEN g[k - 1]
                                     ELSE Append(g[k - 1], rec[k - 1])]
<1>1. list = [k \in Nat |-> IF k = 0 THEN <<>>
                            ELSE IF rec[k - 1] = Unused THEN list[k - 1]
                            ELSE Append(list[k - 1], rec[k - 1])]
  BY ListExists
<1>2. \A n : ListUpTo(rec, n) = list[n]
  BY DEF ListUpTo
<1> HIDE DEF list
<1>3. list[0] = <<>>
  BY <1>1
<1>4. ASSUME NEW n \in Nat
      PROVE  list[n + 1] = IF rec[n] = Unused THEN list[n] ELSE Append(list[n], rec[n])
  <2>1. n + 1 \in Nat /\ n + 1 # 0 /\ (n + 1) - 1 = n
    OBVIOUS
  <2>2. list[n + 1] = IF n + 1 = 0 THEN <<>>
                      ELSE IF rec[(n + 1) - 1] = Unused THEN list[(n + 1) - 1]
                      ELSE Append(list[(n + 1) - 1], rec[(n + 1) - 1])
    BY <1>1, <2>1
  <2>3. QED
    BY <2>1, <2>2
<1>5. QED
  BY <1>2, <1>3, <1>4

\* The list holds entries, and no more of them than there are records.
LEMMA ListIsList ==
  ASSUME NEW rec \in [RecordSlots -> Entries]
  PROVE  UsedOf(rec) \in Seq(Entries) /\ Len(UsedOf(rec)) <= SlotMax
<1> DEFINE S == {n \in Nat : n <= SlotMax => /\ ListUpTo(rec, n) \in Seq(Entries)
                                             /\ Len(ListUpTo(rec, n)) <= n}
<1>1. SlotMax \in Nat
  BY ScanAssumption
<1>2. 0 \in S
  <2>1. <<>> \in Seq(Entries) /\ Len(<<>>) <= 0
    OBVIOUS
  <2>2. ListUpTo(rec, 0) = <<>>
    BY ListStep
  <2>3. QED
    BY <2>1, <2>2
<1>3. ASSUME NEW n \in Nat, n \in S PROVE n + 1 \in S
  <2> SUFFICES ASSUME n + 1 <= SlotMax
               PROVE  /\ ListUpTo(rec, n + 1) \in Seq(Entries)
                      /\ Len(ListUpTo(rec, n + 1)) <= n + 1
    OBVIOUS
  <2> DEFINE l == ListUpTo(rec, n)
  <2>1. l \in Seq(Entries) /\ Len(l) <= n
    BY <1>1, <1>3
  <2>2. rec[n] \in Entries
    BY <1>1 DEF RecordSlots
  <2>3. ListUpTo(rec, n + 1) = l \/ ListUpTo(rec, n + 1) = Append(l, rec[n])
    BY ListStep
  <2> HIDE DEF l
  <2>4. QED
    BY <2>1, <2>2, <2>3
<1> HIDE DEF S
<1>4. \A n \in Nat : n \in S
  BY <1>2, <1>3, OneByOne
<1>5. QED
  BY <1>1, <1>4 DEF S, UsedOf

\* Records that hold a list in their first slots and defaults behind it are
\* read back as that list, as far as there are records for it.
LEMMA ListReadBack ==
  ASSUME NEW rec \in [RecordSlots -> Entries], NEW l \in Seq(Addrs),
         \A n \in RecordSlots : rec[n] = IF n < Len(l) THEN l[n + 1] ELSE Unused
  PROVE  UsedOf(rec) = SubSeq(l, 1, IF Len(l) <= SlotMax THEN Len(l) ELSE SlotMax)
<1> DEFINE Cut(n) == SubSeq(l, 1, IF Len(l) <= n THEN Len(l) ELSE n)
           S == {n \in Nat : n <= SlotMax => ListUpTo(rec, n) = Cut(n)}
<1>1. SlotMax \in Nat /\ Unused \notin Nat /\ Len(l) \in Nat
  BY ScanAssumption
<1>2. 0 \in S
  <2>1. Cut(0) = <<>>
    BY <1>1
  <2>2. QED
    BY <2>1, ListStep
<1>3. ASSUME NEW n \in Nat, n \in S PROVE n + 1 \in S
  <2> SUFFICES ASSUME n + 1 <= SlotMax PROVE ListUpTo(rec, n + 1) = Cut(n + 1)
    OBVIOUS
  <2>1. n \in RecordSlots
    BY <1>1 DEF RecordSlots
  <2>2. ListUpTo(rec, n) = Cut(n)
    BY <1>1, <1>3
  <2>3. CASE n < Len(l)
    <3>1. rec[n] = l[n + 1] /\ l[n + 1] \in Addrs
      BY <1>1, <2>1, <2>3
    <3>2. rec[n] # Unused
      BY <1>1, <3>1 DEF Addrs
    <3>3. ListUpTo(rec, n + 1) = Append(SubSeq(l, 1, n), l[n + 1])
      <4>1. ListUpTo(rec, n + 1) = Append(ListUpTo(rec, n), rec[n])
        BY <3>2, ListStep
      <4>2. Cut(n) = SubSeq(l, 1, n)
        BY <1>1, <2>3
      <4>3. QED
        BY <2>2, <3>1, <4>1, <4>2
    <3>4. Cut(n + 1) = SubSeq(l, 1, n + 1)
      BY <1>1, <2>3
    <3>5. Append(SubSeq(l, 1, n), l[n + 1]) = SubSeq(l, 1, n + 1)
      BY <1>1, <2>3
    <3>6. QED
      BY <3>3, <3>4, <3>5
  <2>4. CASE ~(n < Len(l))
    <3>1. rec[n] = Unused
      BY <2>1, <2>4
    <3>2. ListUpTo(rec, n + 1) = ListUpTo(rec, n)
      BY <3>1, ListStep
    <3>3. Cut(n + 1) = Cut(n)
      BY <1>1, <2>4
    <3>4. QED
      BY <2>2, <3>2, <3>3
  <2>5. QED
    BY <2>3, <2>4
<1> HIDE DEF S
<1>4. \A n \in Nat : n \in S
  BY <1>2, <1>3, OneByOne
<1>5. QED
  BY <1>1, <1>4 DEF S, UsedOf

-----------------------------------------------------------------------------
(* The remaining types. *)

OtherTypes ==
  /\ {scanFlag, ackFlag, saveFlag, finish} \subseteq {0, 1}
  /\ timesCnt \in Nat /\ max \in Nat /\ own \in Seq(Entries)
  /\ pc \in Places
  /\ hurried \in BOOLEAN /\ lossy \in BOOLEAN
  /\ presses \in 0 .. MaxPresses /\ failures \in 0 .. MaxFailures

LEMMA InitOther == Init => OtherTypes
<1> SUFFICES ASSUME Init PROVE OtherTypes
  OBVIOUS
<1>1. own \in Seq(Entries)
  BY DEF Init
<1>2. presses \in 0 .. MaxPresses /\ failures \in 0 .. MaxFailures
  BY ScanAssumption DEF Init
<1>3. QED
  BY <1>1, <1>2 DEF Init, OtherTypes, Places

LEMMA NextOther ==
  ASSUME IInv, OtherTypes, [Next]_vars
  PROVE  OtherTypes'
<1> USE ScanAssumption
<1>0. DataTypes /\ OtherTypes
  BY DEF IInv
<1>1. CASE SendQuery
  BY <1>0, <1>1 DEF SendQuery, OtherTypes, keyVars, listVars, caseVars, used, Places
<1>2. CASE CheckAck
  BY <1>0, <1>2 DEF CheckAck, OtherTypes, keyVars, listVars, caseVars, used, Places
<1>3. CASE SaveFirst
  BY <1>0, <1>3 DEF SaveFirst, OtherTypes, keyVars, listVars, caseVars, used, Places
<1>4. CASE SaveRest
  BY <1>0, <1>4 DEF SaveRest, OtherTypes, keyVars, listVars, caseVars, used, Places
<1>5. CASE Saved
  BY <1>0, <1>5 DEF Saved, OtherTypes, keyVars, listVars, caseVars, used, Places
<1>6. CASE EndQuery
  BY <1>0, <1>6 DEF EndQuery, OtherTypes, keyVars, listVars, caseVars, used, Places
<1>7. CASE DefaultLoop
  BY <1>0, <1>7 DEF DefaultLoop, OtherTypes, keyVars, listVars, caseVars, used, Places
<1>8. CASE DefaultFirst
  BY <1>0, <1>8 DEF DefaultFirst, OtherTypes, keyVars, listVars, caseVars, used, Places
<1>9. CASE DefaultRest
  BY <1>0, <1>9 DEF DefaultRest, OtherTypes, keyVars, listVars, caseVars, used, Places
<1>10. CASE SetOk
  BY <1>0, <1>10 DEF SetOk, OtherTypes, keyVars, listVars, caseVars, used, Places
<1>11. CASE Rebuild
  <2>1. own' \in Seq(Entries) /\ max' \in Nat
    BY <1>0, <1>11, ListIsList DEF Rebuild, LoadList, UsedRecords, DataTypes
  <2>2. QED
    BY <1>0, <1>11, <2>1 DEF Rebuild, OtherTypes, keyVars, caseVars, used, Places
<1>12. CASE RescanBegin
  BY <1>0, <1>12 DEF RescanBegin, OtherTypes, keyVars, listVars, caseVars, used, Places
<1>13. CASE ClearOk
  BY <1>0, <1>13 DEF ClearOk, OtherTypes, keyVars, listVars, caseVars, used, Places
<1>14. CASE Receive
  BY <1>0, <1>14 DEF Receive, OtherTypes, keyVars, listVars, caseVars, used, Places
<1>15. CASE KeyRescan
  BY <1>0, <1>15 DEF KeyRescan, OtherTypes, keyVars, listVars, caseVars, used, Places
<1>16. CASE PowerFail
  <2>1. own' \in Seq(Entries) /\ max' \in Nat
    <3>1. CASE LoadList
      BY <1>0, <3>1, ListIsList DEF LoadList, UsedRecords, DataTypes
    <3>2. CASE max' = 0 /\ own' = <<>>
      BY <3>2
    <3>3. QED
      BY <1>16, <3>1, <3>2 DEF PowerFail
  <2>2. QED
    BY <1>0, <1>16, <2>1 DEF PowerFail, RamReset, OtherTypes, caseVars, Places
<1>17. CASE UNCHANGED vars
  BY <1>0, <1>17 DEF vars, ramVars, keyVars, listVars, caseVars, used, OtherTypes
<1>18. QED
  BY <1>1, <1>2, <1>3, <1>4, <1>5, <1>6, <1>7, <1>8, <1>9, <1>10, <1>11, <1>12,
     <1>13, <1>14, <1>15, <1>16, <1>17 DEF Next, Thread, IdleTurn

TypedIInv == IInv /\ OtherTypes

LEMMA TypedHolds == Spec => []TypedIInv
<1>1. Init => TypedIInv
  BY InitIInv, InitOther DEF TypedIInv
<1>2. TypedIInv /\ [Next]_vars => TypedIInv'
  BY NextIInv, NextOther DEF TypedIInv
<1>3. QED
  BY <1>1, <1>2, PTL DEF Spec

\* Every variable keeps its type, the list read back from any records included.
THEOREM TypeOKHolds == Spec => []TypeOK
<1>1. TypedIInv => TypeOK
  BY DEF TypedIInv, IInv, DataTypes, OtherTypes, TypeOK
<1>2. QED
  BY <1>1, TypedHolds, PTL

\* The list the thread and the other users of own_slave_device work on is what
\* the search that set slave_ok recorded, in that order, cut to the tables'
\* length: after every power failure, and although a search behind its tables'
\* end counts on (SlotsInBounds).
ListIsFound ==
  pc = "loop" /\ ok = 1 =>
    /\ own = SubSeq(sealed, 1, IF Len(sealed) <= SlotMax THEN Len(sealed) ELSE SlotMax)
    /\ max <= SlotMax

LEMMA FoundList == IInv => ListIsFound
<1> SUFFICES ASSUME IInv, pc = "loop", ok = 1
             PROVE  /\ own = SubSeq(sealed, 1, IF Len(sealed) <= SlotMax
                                               THEN Len(sealed) ELSE SlotMax)
                    /\ max <= SlotMax
  BY DEF ListIsFound
<1>1. flashOk = 1 /\ own = UsedOf(flashRec) /\ max = Len(own)
  BY DEF IInv, ListMatchesFlash, UsedRecords
<1>2. flashRec \in [RecordSlots -> Entries] /\ sealed \in Seq(Addrs)
  BY DEF IInv, DataTypes
<1>3. \A n \in RecordSlots : flashRec[n] = IF n < Len(sealed) THEN sealed[n + 1] ELSE Unused
  BY <1>1 DEF IInv, StoredListIntact
<1>4. UsedOf(flashRec) = SubSeq(sealed, 1, IF Len(sealed) <= SlotMax
                                           THEN Len(sealed) ELSE SlotMax)
  BY <1>2, <1>3, ListReadBack
<1>5. Len(UsedOf(flashRec)) <= SlotMax
  BY <1>2, ListIsList
<1>6. QED
  BY <1>1, <1>4, <1>5

\* The list in use is what the last complete search found, and lies within the
\* tables whatever the search did.
THEOREM ListIsFoundHolds == Spec => []ListIsFound
<1>1. QED
  BY FoundList, InitIInv, NextIInv, PTL DEF Spec

-----------------------------------------------------------------------------
(***************************************************************************)
(* A search without losses and without a rescan request in its middle.     *)
(***************************************************************************)

Quiet == ~lossy /\ ~hurried

Ascends(l) == \A m, n \in 1 .. Len(l) : m < n => l[m] < l[n]

\* l lists the set S, each member once, in ascending order.
Lists(l, S) == Ascends(l) /\ {l[n] : n \in 1 .. Len(l)} = S

Below(q) == {b \in Boards : b < q}
UpTo(q) == {b \in Boards : b <= q}

\* One reply at a time is on its way, to the query that is waiting for it.
OneReply ==
  /\ line # <<>> => /\ pc = "ackWait" /\ ackFlag = 0
                    /\ line = <<queryCnt>> /\ queryCnt \in Boards
  /\ ackFlag = 1 => pc = "ackWait" /\ tmp = queryCnt /\ queryCnt \in Boards
  /\ pc = "ackWait" /\ queryCnt \in Boards => line # <<>> \/ ackFlag = 1
  /\ pc \in {"save1", "save2"} => draft = queryCnt /\ queryCnt \in Boards

\* The search has found the boards at the addresses behind it.
FoundSoFar ==
  /\ pc = "clearOk" => queryCnt = 0
  /\ ok = 0 /\ pc \in {"loop", "ackWait", "save1", "save2"} => Lists(found, Below(queryCnt))
  /\ ok = 0 /\ pc \in {"saved", "next"} => Lists(found, UpTo(queryCnt))
  /\ ok = 0 /\ pc \in {"defaults", "default1", "default2", "setOk"} => Lists(found, Boards)
  /\ ok = 0 /\ pc \in {"loop", "ackWait", "save1", "save2", "next"} =>
       (found # <<>> => saveFlag = 1)

SealedAll == flashOk = 1 => Lists(sealed, Boards)

QuietInv == Quiet => OneReply /\ FoundSoFar /\ SealedAll

LEMMA ListsNone ==
  /\ Lists(<<>>, Below(0))
  /\ Lists(<<>>, {})
<1>0. \A b \in Boards : b \in Nat
  BY ScanAssumption
<1>1. Len(<<>>) = 0 /\ 1 .. 0 = {} /\ Below(0) = {}
  <2>1. \A b \in Boards : ~(b < 0)
    BY <1>0
  <2>2. Len(<<>>) = 0 /\ 1 .. 0 = {}
    OBVIOUS
  <2>3. Below(0) = {}
    BY <2>1 DEF Below
  <2>4. QED
    BY <2>2, <2>3
<1>2. Ascends(<<>>)
  BY <1>1 DEF Ascends
<1>3. {(<<>>)[n] : n \in 1 .. Len(<<>>)} = {}
  BY <1>1
<1>4. QED
  BY <1>1, <1>2, <1>3 DEF Lists

LEMMA ListsNext ==
  ASSUME NEW l \in Seq(Addrs), NEW q \in Boards, Lists(l, Below(q))
  PROVE  Lists(Append(l, q), UpTo(q))
<1> DEFINE new == Append(l, q)
           N == Len(l)
<1>1. /\ N \in Nat /\ Len(new) = N + 1 /\ new[N + 1] = q
      /\ \A n \in 1 .. N : new[n] = l[n]
      /\ 1 .. (N + 1) = (1 .. N) \cup {N + 1}
  OBVIOUS
<1>2. q \in Nat /\ \A b \in Boards : b \in Nat
  BY ScanAssumption
<1>3. {l[n] : n \in 1 .. N} = Below(q)
  BY DEF Lists
<1>4. \A n \in 1 .. N : l[n] < q
  BY <1>3 DEF Below
<1> HIDE DEF new, N
<1>5. Ascends(new)
  <2> SUFFICES ASSUME NEW m \in 1 .. (N + 1), NEW n \in 1 .. (N + 1), m < n
               PROVE  new[m] < new[n]
    BY <1>1 DEF Ascends
  <2>1. m \in 1 .. N
    BY <1>1
  <2>2. CASE n \in 1 .. N
    <3>1. l[m] < l[n]
      BY <2>1, <2>2 DEF Lists, Ascends, N
    <3>2. QED
      BY <1>1, <2>1, <2>2, <3>1
  <2>3. CASE n = N + 1
    BY <1>1, <1>4, <2>1, <2>3
  <2>4. QED
    BY <1>1, <2>2, <2>3
<1>6. {new[n] : n \in 1 .. Len(new)} = {l[n] : n \in 1 .. N} \cup {q}
  <2>1. Len(new) = N + 1 /\ N + 1 \in 1 .. (N + 1)
    BY <1>1
  <2>2. {new[n] : n \in 1 .. (N + 1)} = {new[n] : n \in 1 .. N} \cup {new[N + 1]}
    BY <1>1
  <2>3. {new[n] : n \in 1 .. N} = {l[n] : n \in 1 .. N}
    BY <1>1
  <2>4. QED
    BY <1>1, <2>1, <2>2, <2>3
<1>7. UpTo(q) = Below(q) \cup {q}
  <2>1. \A b \in Boards : b <= q <=> b < q \/ b = q
    BY <1>2
  <2>2. QED
    BY <2>1 DEF UpTo, Below
<1>8. Lists(new, UpTo(q))
  BY <1>3, <1>5, <1>6, <1>7 DEF Lists
<1>9. QED
  BY <1>8 DEF new

LEMMA Bounds ==
  ASSUME NEW q \in Addrs
  PROVE  /\ q \notin Boards => UpTo(q) = Below(q)
         /\ Below(q + 1) = UpTo(q)
         /\ q + 1 >= QueryMax => UpTo(q) = Boards
<1>1. q \in Nat /\ q < QueryMax /\ QueryMax \in Nat
  BY ScanAssumption DEF Addrs
<1>2. \A b \in Boards : b \in Nat /\ b < QueryMax
  BY ScanAssumption
<1>3. q \notin Boards => UpTo(q) = Below(q)
  BY <1>1, <1>2 DEF UpTo, Below
<1>4. Below(q + 1) = UpTo(q)
  BY <1>1, <1>2 DEF UpTo, Below
<1>5. q + 1 >= QueryMax => UpTo(q) = Boards
  BY <1>1, <1>2 DEF UpTo
<1>6. QED
  BY <1>3, <1>4, <1>5

LEMMA InitQuiet == Init => QuietInv
<1> SUFFICES ASSUME Init PROVE OneReply /\ FoundSoFar /\ SealedAll
  BY DEF QuietInv
<1>1. OneReply /\ SealedAll
  BY DEF Init, OneReply, SealedAll
<1>2. FoundSoFar
  BY ListsNone DEF Init, FoundSoFar
<1>3. QED
  BY <1>1, <1>2

LEMMA NextQuiet ==
  ASSUME TypedIInv, QuietInv, [Next]_vars, Quiet'
  PROVE  OneReply' /\ FoundSoFar' /\ SealedAll'
<1>0. DataTypes /\ OtherTypes /\ OkMirrored
  BY DEF TypedIInv, IInv
<1>t. /\ ok \in {0, 1} /\ flashOk \in {0, 1} /\ ackFlag \in {0, 1} /\ queryCnt \in Addrs
      /\ 0 \in Addrs
      /\ ok = 1 => flashOk = 1 /\ pc \in {"loop", "rebuild"}
      /\ flashOk = 1 => ok = 1 \/ pc = "clearOk"
      /\ pc = "rebuild" => ok = 1
  BY <1>0, ScanAssumption DEF DataTypes, OtherTypes, OkMirrored, Addrs
<1>q. Quiet => OneReply /\ FoundSoFar /\ SealedAll
  BY DEF QuietInv
<1>1. CASE SendQuery
  <2>1. /\ pc = "loop" /\ ok = 0 /\ pc' = "ackWait" /\ Quiet
        /\ \/ queryCnt \in Boards /\ line' = Append(line, queryCnt)
           \/ queryCnt \notin Boards /\ line' = line
        /\ UNCHANGED <<keyVars, tmp, draft, listVars, flashVars, histVars>>
    BY <1>1 DEF SendQuery, Quiet
  <2>2. line = <<>> /\ ackFlag = 0
    BY <1>q, <1>t, <2>1 DEF OneReply
  <2>3. OneReply'
    <3>1. CASE queryCnt \in Boards
      <4>1. line' = <<queryCnt>>
        BY <2>1, <2>2, <3>1
      <4>2. QED
        BY <2>1, <2>2, <3>1, <4>1 DEF OneReply, keyVars
    <3>2. CASE queryCnt \notin Boards
      BY <2>1, <2>2, <3>2 DEF OneReply, keyVars
    <3>3. QED
      BY <3>1, <3>2
  <2>4. FoundSoFar' /\ SealedAll'
    BY <1>q, <2>1 DEF FoundSoFar, SealedAll, Below, keyVars, listVars, flashVars, histVars
  <2>5. QED
    BY <2>3, <2>4
<1>2. CASE CheckAck
  <2>1. /\ pc = "ackWait" /\ Quiet /\ line = <<>>
        /\ \/ ackFlag = 1 /\ ackFlag' = 0 /\ draft' = tmp /\ pc' = "save1"
           \/ ackFlag = 0 /\ ackFlag' = 0 /\ draft' = draft /\ pc' = "next"
        /\ UNCHANGED <<queryCnt, saveFlag, tmp, listVars, line, flashVars, histVars>>
    BY <1>2 DEF CheckAck, Quiet
  <2>2. ok = 0
    BY <1>t, <2>1
  <2>3. OneReply'
    BY <1>q, <2>1 DEF OneReply
  <2>4. CASE ackFlag = 1
    <3>1. /\ pc' = "save1" /\ Lists(found, Below(queryCnt)) /\ SealedAll
          /\ found # <<>> => saveFlag = 1
          /\ UNCHANGED <<queryCnt, saveFlag, found, ok, flashOk, sealed>>
      BY <1>q, <2>1, <2>2, <2>4 DEF FoundSoFar, listVars, flashVars, histVars
    <3>2. FoundSoFar' /\ SealedAll'
      BY <3>1 DEF FoundSoFar, SealedAll, Below
    <3>3. QED
      BY <2>3, <3>2
  <2>5. CASE ackFlag = 0
    <3>1. pc' = "next" /\ queryCnt \notin Boards
      BY <1>q, <2>1, <2>5 DEF OneReply
    <3>2. Lists(found, UpTo(queryCnt))
      BY <1>q, <1>t, <2>1, <2>2, <3>1, Bounds DEF FoundSoFar
    <3>3. found # <<>> => saveFlag = 1
      BY <1>q, <2>1, <2>2 DEF FoundSoFar
    <3>4. UNCHANGED <<queryCnt, saveFlag, found, ok, flashOk, sealed>>
      BY <2>1 DEF listVars, flashVars, histVars
    <3>5. FoundSoFar' /\ SealedAll'
      BY <1>q, <2>1, <3>1, <3>2, <3>3, <3>4 DEF FoundSoFar, SealedAll, UpTo
    <3>6. QED
      BY <2>3, <3>5
  <2>6. QED
    BY <1>t, <2>3, <2>4, <2>5
<1>3. CASE SaveFirst
  <2>1. /\ pc = "save1" /\ pc' = "save2" /\ Quiet
        /\ UNCHANGED <<keyVars, tmp, draft, listVars, line, flashOk, histVars>>
    BY <1>3 DEF SaveFirst, Quiet, caseVars
  <2>2. QED
    BY <1>q, <2>1 DEF OneReply, FoundSoFar, SealedAll, Below, keyVars, listVars, histVars
<1>4. CASE SaveRest
  <2>1. /\ pc = "save2" /\ pc' = "saved" /\ Quiet /\ found' = Append(found, draft)
        /\ UNCHANGED <<keyVars, tmp, draft, ok, line, flashOk, sealed>>
    BY <1>4 DEF SaveRest, Quiet, caseVars
  <2>2. ok = 0 /\ draft = queryCnt /\ queryCnt \in Boards
    BY <1>q, <1>t, <2>1 DEF OneReply
  <2>3. Lists(found, Below(queryCnt)) /\ found \in Seq(Addrs)
    BY <1>0, <1>q, <2>1, <2>2 DEF FoundSoFar, DataTypes
  <2>4. Lists(found', UpTo(queryCnt))
    BY <2>1, <2>2, <2>3, ListsNext
  <2>5. OneReply' /\ SealedAll'
    BY <1>q, <2>1 DEF OneReply, SealedAll, keyVars
  <2>6. FoundSoFar'
    BY <2>1, <2>4 DEF FoundSoFar, UpTo, keyVars
  <2>7. QED
    BY <2>5, <2>6
<1>5. CASE Saved
  <2>1. /\ pc = "saved" /\ pc' = "next" /\ Quiet /\ saveFlag' = 1
        /\ UNCHANGED <<ackFlag, queryCnt, tmp, draft, ok, line, flashOk, found, sealed>>
    BY <1>5 DEF Saved, Quiet, caseVars, listVars, flashVars, histVars
  <2>2. OneReply' /\ SealedAll'
    BY <1>q, <2>1 DEF OneReply, SealedAll
  <2>3. FoundSoFar'
    BY <1>q, <2>1 DEF FoundSoFar, UpTo
  <2>4. QED
    BY <2>2, <2>3
<1>6. CASE EndQuery
  <2>1. /\ pc = "next" /\ Quiet
        /\ UNCHANGED <<ackFlag, tmp, draft, ok, line, flashOk, found, sealed>>
    BY <1>6 DEF EndQuery, Quiet, caseVars, listVars, flashVars, histVars
  <2>2. ok = 0 /\ Lists(found, UpTo(queryCnt)) /\ (found # <<>> => saveFlag = 1)
    BY <1>q, <1>t, <2>1 DEF FoundSoFar
  <2>3. line = <<>> /\ ackFlag = 0
    BY <1>q, <1>t, <2>1 DEF OneReply
  <2>4. pc' \in {"loop", "defaults"}
    BY <1>6 DEF EndQuery
  <2>5. OneReply' /\ SealedAll'
    BY <1>q, <2>1, <2>3, <2>4 DEF OneReply, SealedAll
  <2>6. CASE ~RoundOver
    <3>1. pc' = "loop" /\ queryCnt' = queryCnt + 1 /\ saveFlag' = saveFlag
      BY <1>6, <2>6 DEF EndQuery
    <3>2. Below(queryCnt') = UpTo(queryCnt)
      BY <1>t, <3>1, Bounds
    <3>3. Lists(found', Below(queryCnt'))
      BY <2>1, <2>2, <3>2
    <3>4. Lists(found, Below(queryCnt))'
      BY <3>3 DEF Lists, Ascends, Below
    <3>5. FoundSoFar'
      BY <2>1, <2>2, <3>1, <3>4 DEF FoundSoFar
    <3>6. QED
      BY <2>5, <3>5
  <2>7. CASE RoundOver /\ saveFlag = 1
    <3>1. pc' = "defaults" /\ queryCnt' = 0
      BY <1>6, <2>7 DEF EndQuery
    <3>2. Lists(found, Boards)
      BY <1>t, <2>2, <2>7, Bounds DEF RoundOver
    <3>3. FoundSoFar'
      BY <2>1, <3>1, <3>2 DEF FoundSoFar
    <3>4. QED
      BY <2>5, <3>3
  <2>8. CASE RoundOver /\ saveFlag # 1
    <3>1. pc' = "loop" /\ queryCnt' = 0 /\ found = <<>>
      BY <1>6, <2>2, <2>8 DEF EndQuery
    <3>2. FoundSoFar'
      BY <2>1, <3>1, ListsNone DEF FoundSoFar, Below
    <3>3. QED
      BY <2>5, <3>2
  <2>9. QED
    BY <2>6, <2>7, <2>8
<1>7. CASE DefaultLoop \/ DefaultFirst \/ DefaultRest
  <2>1. /\ pc \in {"defaults", "default1", "default2"}
        /\ pc' \in {"defaults", "default1", "default2", "setOk"} /\ Quiet
        /\ UNCHANGED <<keyVars, tmp, draft, listVars, line, flashOk, histVars>>
    BY <1>7 DEF DefaultLoop, DefaultFirst, DefaultRest, Quiet, caseVars, flashVars
  <2>2. OneReply' /\ SealedAll'
    BY <1>q, <2>1 DEF OneReply, SealedAll, keyVars, histVars
  <2>3. FoundSoFar'
    BY <1>q, <2>1 DEF FoundSoFar, keyVars, listVars, histVars
  <2>4. QED
    BY <2>2, <2>3
<1>8. CASE SetOk
  <2>1. /\ pc = "setOk" /\ pc' = "rebuild" /\ Quiet /\ ok' = 1 /\ sealed' = found
        /\ UNCHANGED <<keyVars, tmp, draft, line, found>>
    BY <1>8 DEF SetOk, Quiet, caseVars
  <2>2. ok = 0
    BY <1>t, <2>1
  <2>3. Lists(found, Boards)
    BY <1>q, <2>1, <2>2 DEF FoundSoFar
  <2>4. OneReply' /\ FoundSoFar'
    BY <1>q, <2>1 DEF OneReply, FoundSoFar, keyVars
  <2>5. SealedAll'
    BY <2>1, <2>3 DEF SealedAll
  <2>6. QED
    BY <2>4, <2>5
<1>9. CASE Rebuild
  <2>1. /\ pc = "rebuild" /\ pc' = "loop" /\ Quiet /\ ok = 1
        /\ UNCHANGED <<keyVars, tmp, draft, ok, line, flashVars, histVars>>
    BY <1>9, <1>t DEF Rebuild, Quiet, caseVars
  <2>2. QED
    BY <1>q, <2>1 DEF OneReply, FoundSoFar, SealedAll, keyVars, flashVars, histVars
<1>10. CASE RescanBegin
  <2>1. /\ pc = "loop" /\ pc' = "clearOk" /\ Quiet /\ ok = 1 /\ ok' = 0 /\ queryCnt' = 0
        /\ UNCHANGED <<ackFlag, tmp, draft, line, flashVars, histVars>>
    BY <1>10 DEF RescanBegin, Quiet, caseVars
  <2>2. line = <<>> /\ ackFlag = 0
    BY <1>q, <1>t, <2>1 DEF OneReply
  <2>3. OneReply' /\ FoundSoFar' /\ SealedAll'
    BY <1>q, <2>1, <2>2 DEF OneReply, FoundSoFar, SealedAll, flashVars, histVars
  <2>4. QED
    BY <2>3
<1>11. CASE ClearOk
  <2>1. /\ pc = "clearOk" /\ pc' = "loop" /\ Quiet /\ flashOk' = 0 /\ found' = <<>>
        /\ UNCHANGED <<keyVars, tmp, draft, ok, line, sealed>>
    BY <1>11 DEF ClearOk, Quiet, caseVars
  <2>2. queryCnt' = 0
    BY <1>q, <2>1 DEF FoundSoFar, keyVars
  <2>3. OneReply' /\ SealedAll'
    BY <1>q, <2>1 DEF OneReply, SealedAll, keyVars
  <2>4. FoundSoFar'
    BY <2>1, <2>2, ListsNone DEF FoundSoFar, Below
  <2>5. QED
    BY <2>3, <2>4
<1>12. CASE Receive
  <2>1. /\ line # <<>> /\ line' = Tail(line) /\ tmp' = Head(line) /\ ackFlag' = 1 /\ Quiet
        /\ UNCHANGED <<queryCnt, saveFlag, draft, ok, pc, flashVars, histVars>>
    BY <1>12 DEF Receive, Quiet, caseVars, listVars
  <2>2. pc = "ackWait" /\ line = <<queryCnt>> /\ queryCnt \in Boards
    BY <1>q, <2>1 DEF OneReply
  <2>3. line' = <<>> /\ tmp' = queryCnt
    BY <2>1, <2>2
  <2>4. OneReply'
    BY <2>1, <2>2, <2>3 DEF OneReply
  <2>5. FoundSoFar' /\ SealedAll'
    BY <1>q, <2>1, <2>2 DEF FoundSoFar, SealedAll, Below, flashVars, histVars
  <2>6. QED
    BY <2>4, <2>5
<1>13. CASE KeyRescan
  <2>1. /\ Quiet /\ ok # 0 /\ ackFlag' = 0
        /\ UNCHANGED <<tmp, draft, ok, pc, line, flashVars, histVars>>
    BY <1>13 DEF KeyRescan, Quiet, listVars
  <2>2. pc \in {"loop", "rebuild"} /\ ok = 1
    BY <1>t, <2>1
  <2>3. line = <<>>
    BY <1>q, <2>1, <2>2 DEF OneReply
  <2>4. OneReply' /\ FoundSoFar' /\ SealedAll'
    BY <1>q, <2>1, <2>2, <2>3 DEF OneReply, FoundSoFar, SealedAll, flashVars, histVars
  <2>5. QED
    BY <2>4
<1>14. CASE PowerFail
  <2>1. /\ Quiet /\ pc' = "loop" /\ line' = <<>> /\ ackFlag' = 0 /\ queryCnt' = 0
        /\ found' = <<>> /\ UNCHANGED <<flashOk, sealed>>
    BY <1>14 DEF PowerFail, RamReset, Quiet, caseVars, flashVars
  <2>2. OneReply' /\ SealedAll'
    BY <1>q, <2>1 DEF OneReply, SealedAll
  <2>3. FoundSoFar'
    BY <2>1, ListsNone DEF FoundSoFar, Below
  <2>4. QED
    BY <2>2, <2>3
<1>15. CASE UNCHANGED vars
  <2>1. /\ Quiet
        /\ UNCHANGED <<ackFlag, queryCnt, saveFlag, tmp, draft, ok, pc, line, flashOk,
                       found, sealed>>
    BY <1>15 DEF vars, ramVars, keyVars, listVars, flashVars, histVars, caseVars, Quiet
  <2>2. OneReply' /\ SealedAll'
    BY <1>q, <2>1 DEF OneReply, SealedAll
  <2>3. FoundSoFar'
    BY <1>q, <2>1 DEF FoundSoFar, Below, UpTo
  <2>4. QED
    BY <2>2, <2>3
<1>16. QED
  BY <1>1, <1>2, <1>3, <1>4, <1>5, <1>6, <1>7, <1>8, <1>9, <1>10, <1>11, <1>12,
     <1>13, <1>14, <1>15 DEF Next, Thread, IdleTurn

QuietIInv == TypedIInv /\ QuietInv

LEMMA QuietHolds == Spec => []QuietIInv
<1>1. Init => QuietIInv
  BY InitIInv, InitOther, InitQuiet DEF QuietIInv, TypedIInv
<1>2. QuietIInv /\ [Next]_vars => QuietIInv'
  <2> SUFFICES ASSUME QuietIInv, [Next]_vars PROVE QuietIInv'
    OBVIOUS
  <2>1. TypedIInv /\ QuietInv
    BY DEF QuietIInv
  <2>2. TypedIInv'
    BY <2>1, NextIInv, NextOther DEF TypedIInv
  <2>3. QuietInv'
    BY <2>1, NextQuiet DEF QuietInv
  <2>4. QED
    BY <2>2, <2>3 DEF QuietIInv
<1>3. QED
  BY <1>1, <1>2, PTL DEF Spec

\* An ascending list of addresses is no longer than the address range.
LEMMA ShortList ==
  ASSUME NEW l \in Seq(Addrs), Ascends(l)
  PROVE  Len(l) <= QueryMax
<1> DEFINE S == {n \in Nat : n < Len(l) => n <= l[n + 1]}
<1>1. Len(l) \in Nat /\ QueryMax \in Nat /\ \A n \in 1 .. Len(l) : l[n] \in Nat /\ l[n] < QueryMax
  <2>1. \A n \in 1 .. Len(l) : l[n] \in Addrs
    OBVIOUS
  <2>2. QED
    BY <2>1, ScanAssumption DEF Addrs
<1>2. 0 \in S
  BY <1>1
<1>3. ASSUME NEW n \in Nat, n \in S PROVE n + 1 \in S
  <2> SUFFICES ASSUME n + 1 < Len(l) PROVE n + 1 <= l[(n + 1) + 1]
    OBVIOUS
  <2>1. n + 1 \in 1 .. Len(l) /\ (n + 1) + 1 \in 1 .. Len(l) /\ n + 1 < (n + 1) + 1
    BY <1>1
  <2>2. l[n + 1] < l[(n + 1) + 1]
    BY <2>1 DEF Ascends
  <2>3. n <= l[n + 1]
    BY <1>1, <1>3
  <2>4. l[n + 1] \in Nat /\ l[(n + 1) + 1] \in Nat
    BY <1>1, <2>1
  <2>5. QED
    BY <2>2, <2>3, <2>4
<1> HIDE DEF S
<1>4. \A n \in Nat : n \in S
  BY <1>2, <1>3, OneByOne
<1>5. CASE Len(l) = 0
  BY <1>1, <1>5
<1>6. CASE Len(l) # 0
  <2>1. Len(l) - 1 \in Nat /\ Len(l) - 1 < Len(l) /\ (Len(l) - 1) + 1 = Len(l)
        /\ Len(l) \in 1 .. Len(l)
    BY <1>1, <1>6
  <2>2. Len(l) - 1 <= l[Len(l)]
    BY <1>4, <2>1 DEF S
  <2>3. l[Len(l)] \in Nat /\ l[Len(l)] < QueryMax
    BY <1>1, <2>1
  <2>4. QED
    BY <1>1, <2>2, <2>3
<1>7. QED
  BY <1>5, <1>6

\* With a record for each address: as long as no reply was lost or late and no
\* rescan was requested during a search, the list the thread works on has every
\* board once, in the order of the addresses, whenever the power failed.  This is
\* what RelayBus assumes of its list (AddrAssumption), and the safety half of
\* AllFound.
ListComplete ==
  QueryMax <= SlotMax /\ ~lossy /\ ~hurried /\ pc = "loop" /\ ok = 1 =>
    /\ {own[n] : n \in 1 .. Len(own)} = Boards
    /\ \A m, n \in 1 .. Len(own) : m < n => own[m] < own[n]

\* The list made without losses is complete and free of repetitions, after any
\* number of searches, requests between them and power failures.
THEOREM ListCompleteHolds == Spec => []ListComplete
<1>1. QuietIInv => ListComplete
  <2> SUFFICES ASSUME QuietIInv, QueryMax <= SlotMax, ~lossy, ~hurried, pc = "loop", ok = 1
               PROVE  Lists(own, Boards)
    BY DEF ListComplete, Lists, Ascends
  <2>1. flashOk = 1 /\ Lists(sealed, Boards) /\ sealed \in Seq(Addrs)
    BY DEF QuietIInv, QuietInv, Quiet, SealedAll, TypedIInv, IInv, ListMatchesFlash, DataTypes
  <2>2. own = SubSeq(sealed, 1, IF Len(sealed) <= SlotMax THEN Len(sealed) ELSE SlotMax)
    BY FoundList DEF QuietIInv, TypedIInv, ListIsFound
  <2>3. Len(sealed) <= QueryMax /\ QueryMax \in Nat /\ SlotMax \in Nat /\ Len(sealed) \in Nat
    BY <2>1, ShortList, ScanAssumption DEF Lists
  <2>4. own = SubSeq(sealed, 1, Len(sealed))
    BY <2>2, <2>3
  <2>5. own = sealed
    BY <2>1, <2>4
  <2>6. QED
    BY <2>1, <2>5
<1>2. QED
  BY <1>1, QuietHolds, PTL
-----------------------------------------------------------------------------
(***************************************************************************)
(* A search comes to its end.                                              *)
(***************************************************************************)

\* A search that has not given up has an empty round left, and the clean-up a
\* record before it.
BoundsHeld ==
  /\ finish = 0 => timesCnt <= TimesMax
  /\ pc \in {"default1", "default2"} => slot < SlotMax

LEMMA InitBounds == Init => BoundsHeld
BY ScanAssumption DEF Init, BoundsHeld

LEMMA NextBounds ==
  ASSUME TypedIInv, BoundsHeld, [Next]_vars
  PROVE  BoundsHeld'
<1>0. /\ timesCnt \in Nat /\ TimesMax \in Nat /\ slot \in Nat /\ SlotMax \in Nat
      /\ finish \in {0, 1}
  BY ScanAssumption DEF TypedIInv, IInv, DataTypes, OtherTypes
<1>1. CASE EndQuery
  <2>1. /\ pc' \in {"loop", "defaults"}
        /\ \/ UNCHANGED <<timesCnt, finish>>
           \/ /\ timesCnt' = timesCnt + 1
              /\ finish' = IF timesCnt + 1 > TimesMax THEN 1 ELSE finish
    BY <1>1 DEF EndQuery
  <2>2. QED
    BY <1>0, <2>1 DEF BoundsHeld
<1>2. CASE DefaultLoop \/ DefaultFirst \/ DefaultRest
  <2>1. /\ UNCHANGED <<timesCnt, finish>>
        /\ \/ pc' = IF slot < SlotMax THEN "default1" ELSE "setOk"
           \/ pc = "default1" /\ pc' = "default2"
           \/ pc' = "defaults"
        /\ slot' = slot \/ pc' = "defaults"
    BY <1>2 DEF DefaultLoop, DefaultFirst, DefaultRest, keyVars
  <2>2. QED
    BY <1>0, <2>1 DEF BoundsHeld
<1>3. CASE SendQuery \/ CheckAck \/ SaveFirst \/ SaveRest \/ Saved \/ SetOk \/ Rebuild \/ ClearOk
  <2>1. /\ UNCHANGED <<timesCnt, finish>>
        /\ pc' \in {"ackWait", "save1", "save2", "saved", "next", "rebuild", "loop"}
    BY <1>3 DEF SendQuery, CheckAck, SaveFirst, SaveRest, Saved, SetOk, Rebuild, ClearOk, keyVars
  <2>2. QED
    BY <2>1 DEF BoundsHeld
<1>4. CASE RescanBegin
  <2>1. timesCnt' = 0 /\ finish' = finish /\ pc' = "clearOk"
    BY <1>4 DEF RescanBegin
  <2>2. QED
    BY <1>0, <2>1 DEF BoundsHeld
<1>5. CASE KeyRescan
  <2>1. timesCnt' = 0 /\ pc' = pc /\ slot' = slot
    BY <1>5 DEF KeyRescan
  <2>2. QED
    BY <1>0, <2>1 DEF BoundsHeld
<1>6. CASE PowerFail
  <2>1. timesCnt' = 0 /\ pc' = "loop"
    BY <1>6 DEF PowerFail, RamReset
  <2>2. QED
    BY <1>0, <2>1 DEF BoundsHeld
<1>7. CASE Receive \/ UNCHANGED vars
  <2>1. UNCHANGED <<timesCnt, finish, pc, slot>>
    BY <1>7 DEF Receive, vars, ramVars, keyVars
  <2>2. QED
    BY <2>1 DEF BoundsHeld
<1>8. QED
  BY <1>1, <1>2, <1>3, <1>4, <1>5, <1>6, <1>7 DEF Next, Thread, IdleTurn

BoundedIInv == TypedIInv /\ BoundsHeld

LEMMA BoundedHolds == Spec => []BoundedIInv
<1>1. Init => BoundedIInv
  BY InitIInv, InitOther, InitBounds DEF BoundedIInv, TypedIInv
<1>2. BoundedIInv /\ [Next]_vars => BoundedIInv'
  BY NextIInv, NextOther, NextBounds DEF BoundedIInv, TypedIInv
<1>3. QED
  BY <1>1, <1>2, PTL DEF Spec

Sealing == {"defaults", "default1", "default2", "setOk"}

\* How far a place is from the next address, or from the next record.
Stage(p) == CASE p = "clearOk"  -> 11
              [] p = "loop"     -> 10
              [] p = "ackWait"  -> 9
              [] p = "save1"    -> 8
              [] p = "save2"    -> 7
              [] p = "saved"    -> 6
              [] p = "next"     -> 5
              [] p = "defaults" -> 3
              [] p = "default1" -> 2
              [] p = "default2" -> 1
              [] OTHER -> 0

\* The list is about to be sealed, or another empty round was counted, or
\* another address or record passed, or the thread is nearer to the next one.
Closer ==
  \/ pc \notin Sealing /\ pc' \in Sealing
  \/ /\ pc \in Sealing <=> pc' \in Sealing
     /\ \/ timesCnt < timesCnt' /\ timesCnt' <= TimesMax
        \/ /\ timesCnt' = timesCnt
           /\ \/ queryCnt < queryCnt' /\ queryCnt' < QueryMax
              \/ /\ queryCnt' = queryCnt
                 /\ \/ slot < slot' /\ slot' <= SlotMax
                    \/ slot' = slot /\ Stage(pc') < Stage(pc)

\* The safety half of ScanEnds: each step of the thread in a search ends the
\* search or brings it nearer to its end, whatever the interrupt and the losses
\* did; only a rescan request and a restart set it back.
SearchOnward == [][Thread /\ ok = 0 => ok' = 1 \/ finish' = 1 \/ Closer]_vars

LEMMA StepOnward ==
  ASSUME BoundedIInv, Thread, ok = 0
  PROVE  ok' = 1 \/ finish' = 1 \/ Closer
<1>0. /\ timesCnt \in Nat /\ TimesMax \in Nat /\ slot \in Nat /\ SlotMax \in Nat
      /\ finish \in {0, 1} /\ queryCnt \in Nat /\ QueryMax \in Nat
      /\ finish = 0 => timesCnt <= TimesMax
      /\ pc \in {"default1", "default2"} => slot < SlotMax
  BY ScanAssumption DEF BoundedIInv, BoundsHeld, TypedIInv, IInv, DataTypes, OtherTypes, Addrs
<1>1. CASE SendQuery \/ CheckAck \/ SaveFirst \/ SaveRest \/ Saved \/ ClearOk
  <2>1. /\ UNCHANGED <<timesCnt, queryCnt, slot>>
        /\ \/ pc = "loop" /\ pc' = "ackWait"
           \/ pc = "ackWait" /\ pc' \in {"save1", "next"}
           \/ pc = "save1" /\ pc' = "save2"
           \/ pc = "save2" /\ pc' = "saved"
           \/ pc = "saved" /\ pc' = "next"
           \/ pc = "clearOk" /\ pc' = "loop"
    BY <1>1 DEF SendQuery, CheckAck, SaveFirst, SaveRest, Saved, ClearOk, keyVars
  <2>2. /\ pc \notin Sealing /\ pc' \notin Sealing
        /\ Stage(pc') < Stage(pc)
    BY <2>1 DEF Stage, Sealing
  <2>3. QED
    BY <2>1, <2>2 DEF Closer
<1>2. CASE EndQuery
  <2>1. CASE ~RoundOver
    <3>1. /\ pc = "next" /\ pc' = "loop" /\ queryCnt' = queryCnt + 1 /\ timesCnt' = timesCnt
      BY <1>2, <2>1 DEF EndQuery
    <3>2. queryCnt < queryCnt' /\ queryCnt' < QueryMax
      BY <1>0, <2>1, <3>1 DEF RoundOver
    <3>3. QED
      BY <3>1, <3>2 DEF Closer, Sealing
  <2>2. CASE RoundOver /\ saveFlag = 1
    <3>1. pc = "next" /\ pc' = "defaults"
      BY <1>2, <2>2 DEF EndQuery
    <3>2. QED
      BY <3>1 DEF Closer, Sealing
  <2>3. CASE RoundOver /\ saveFlag # 1
    <3>1. /\ pc = "next" /\ pc' = "loop" /\ timesCnt' = timesCnt + 1
          /\ finish' = IF timesCnt + 1 > TimesMax THEN 1 ELSE finish
      BY <1>2, <2>3 DEF EndQuery
    <3>2. finish' = 1 \/ (timesCnt < timesCnt' /\ timesCnt' <= TimesMax)
      BY <1>0, <3>1
    <3>3. QED
      BY <3>1, <3>2 DEF Closer, Sealing
  <2>4. QED
    BY <2>1, <2>2, <2>3
<1>3. CASE DefaultLoop \/ DefaultFirst
  <2>1. /\ UNCHANGED <<timesCnt, queryCnt, slot>>
        /\ \/ pc = "defaults" /\ pc' \in {"default1", "setOk"}
           \/ pc = "default1" /\ pc' = "default2"
    BY <1>3 DEF DefaultLoop, DefaultFirst, keyVars
  <2>2. pc \in Sealing /\ pc' \in Sealing /\ Stage(pc') < Stage(pc)
    BY <2>1 DEF Stage, Sealing
  <2>3. QED
    BY <2>1, <2>2 DEF Closer
<1>4. CASE DefaultRest
  <2>1. /\ pc = "default2" /\ pc' = "defaults" /\ slot' = slot + 1
        /\ UNCHANGED <<timesCnt, queryCnt>>
    BY <1>4 DEF DefaultRest, keyVars
  <2>2. slot < slot' /\ slot' <= SlotMax
    BY <1>0, <2>1
  <2>3. QED
    BY <2>1, <2>2 DEF Closer, Sealing
<1>5. CASE SetOk
  BY <1>5 DEF SetOk
<1>6. ~Rebuild /\ ~RescanBegin
  <2>1. pc = "rebuild" => ok = 1
    BY DEF BoundedIInv, TypedIInv, IInv, OkMirrored
  <2>2. QED
    BY <2>1 DEF Rebuild, RescanBegin
<1>7. CASE IdleTurn
  <2>1. finish # 0 /\ finish' = finish
    BY <1>7 DEF IdleTurn, vars, ramVars, keyVars
  <2>2. QED
    BY <1>0, <2>1
<1>8. QED
  BY <1>1, <1>2, <1>3, <1>4, <1>5, <1>6, <1>7 DEF Thread

\* No search goes round in circles: what is left of it is bounded by the
\* empty rounds allowed, the addresses and the records.
THEOREM SearchOnwardHolds == Spec => SearchOnward
<1>1. BoundedIInv /\ [Next]_vars =>
        [Thread /\ ok = 0 => ok' = 1 \/ finish' = 1 \/ Closer]_vars
  BY StepOnward
<1>2. QED
  BY <1>1, BoundedHolds, PTL DEF Spec, SearchOnward
=============================================================================
