----------------------------- MODULE ParamStore -----------------------------
(***************************************************************************)
(* The parameter store of the settings (components/psm/psm_v2.c) as a log   *)
(* of objects in flash, with power that may go between two flash commands  *)
(* or in the middle of one.  Offsets and space are left to ParamFlash.     *)
(*                                                                         *)
(* A flash command that is cut has written the first of its bytes.  The    *)
(* objects of an area are a sequence, in the order the code walks them.    *)
(***************************************************************************)
EXTENDS Naturals, Sequences

CONSTANTS Names, Values, NoVal, Bad, NoReq

ASSUME NamesAssumption == Names # {}
ASSUME ValuesAssumption == NoVal \notin Values /\ Bad \notin Values /\ NoVal # Bad
ASSUME NoReqAssumption == NoReq \notin [name : Names, val : Values]

VARIABLES data,       \* the objects of the data area, what a cut left included
          swap,       \* the objects of the swap area
          desc,       \* the swap descriptor at the end of the partition
          pc,         \* where the code is
          end,        \* data_free_offset, as the number of objects below it
          highest,    \* highest_used_obj_id
          old,        \* the object the set replaces (old_object_flash_offset), 0 if none
          copied,     \* objects of the source area psm_copy_all_objects is past
          request,    \* the set under way, when psm_part_compact runs for it too
          told        \* what the last psm_set_variable returned

flash == <<data, swap, desc>>
vars == <<data, swap, desc, pc, end, highest, old, copied, request, told>>

Requests == [name : Names, val : Values]

(***************************************************************************)
(* An object's mark says how much of it the scan believes: "open" has its  *)
(* metadata and no length yet, "dead" has a type that is no type, "closed" *)
(* has a length.  flag is bit 0 of its flags.                              *)
(***************************************************************************)
Objects == [name : Names, id : Nat, val : Values \cup {NoVal, Bad},
            flag : {"active", "inactive"}, mark : {"open", "dead", "closed"}]

Active(o) == o.flag = "active"

Torn == [name |-> CHOOSE n \in Names : TRUE, id |-> 0, val |-> NoVal,
         flag |-> "active", mark |-> "dead"]

Double(area, i) ==
    Active(area[i]) /\ \E j \in 1 .. (i - 1) : Active(area[j]) /\ area[j].id = area[i].id

(* psm_part_scan stops at the first object with a type or length it refuses *)
(* and at the second active object of one id.                              *)
Stops(area, i) == area[i].mark # "closed" \/ Double(area, i)

ScanEnd(area) == CHOOSE k \in 0 .. Len(area) :
                    /\ \A i \in 1 .. k : ~Stops(area, i)
                    /\ k < Len(area) => Stops(area, k + 1)

First(S) == CHOOSE i \in S : \A j \in S : i <= j

(* search_active_object: the first object of the name gives the id, the     *)
(* first active object of that id from there on is the one.                *)
Named(n) == {i \in 1 .. end : data[i].name = n}
ActiveOf(n) == IF Named(n) = {} THEN {}
               ELSE {i \in First(Named(n)) .. end :
                        Active(data[i]) /\ data[i].id = data[First(Named(n))].id}

-----------------------------------------------------------------------------
Init ==
    /\ data = <<>> /\ swap = <<>> /\ desc = "clean"
    /\ pc = "boot"
    /\ end = 0 /\ highest = 0 /\ old = 0 /\ copied = 0
    /\ request = NoReq /\ told = "none"

(* psm_part_scan with its result left in the RAM copy. *)
Scan ==
    /\ end' = ScanEnd(data)
    /\ highest' \in {0} \cup {data[i].id : i \in 1 .. ScanEnd(data)}
    /\ \A i \in 1 .. ScanEnd(data) : data[i].id <= highest'

(* handle_double_active_object zeroes the type of the later one. *)
Kill ==
    data' = IF ScanEnd(data) < Len(data) /\ data[ScanEnd(data) + 1].mark = "closed"
            THEN [data EXCEPT ![ScanEnd(data) + 1].mark = "dead"]
            ELSE data

(* deduce_checkpoint_at_init and the scan of psm_module_physical_init. *)
BootToData ==
    /\ pc = "boot"
    /\ desc = "valid"
    /\ pc' = "eraseData"
    /\ UNCHANGED <<data, swap, desc, end, highest, old, copied, request, told>>

BootScan ==
    /\ pc = "boot"
    /\ desc # "valid"
    /\ Scan
    /\ Kill
    /\ pc' = IF ScanEnd(data) < Len(data) THEN "eraseSwap"
             ELSE (IF desc = "clean" THEN "idle" ELSE "finalErase")
    /\ UNCHANGED <<swap, desc, old, copied, request, told>>

(* handle_recovery, checkpoint 0: the swap area and with it the descriptor  *)
(* (ParamFlash says what else the erase may reach).                        *)
EraseSwap ==
    /\ pc = "eraseSwap"
    /\ swap' = <<>> /\ desc' = "clean"
    /\ pc' = "writeOffset"
    /\ UNCHANGED <<data, end, highest, old, copied, request, told>>

WriteOffset ==
    /\ pc = "writeOffset"
    /\ desc' = "offset"
    /\ copied' = 0
    /\ pc' = "toSwap"
    /\ UNCHANGED <<data, swap, end, highest, old, request, told>>

(* psm_copy_all_objects passes an inactive object over; psm_upgrade_object *)
(* and psm_copy_object give the others new ids and switch off the copy of  *)
(* one whose checksum does not match.                                      *)
CopyInto(area, o) ==
    IF Active(o)
    THEN Append(area, [o EXCEPT !.id = Len(area) + 1,
                                !.flag = IF o.val = Bad THEN "inactive" ELSE "active"])
    ELSE area

CopyToSwap ==
    /\ pc = "toSwap"
    /\ copied < end
    /\ swap' = CopyInto(swap, data[copied + 1])
    /\ copied' = copied + 1
    /\ UNCHANGED <<data, desc, pc, end, highest, old, request, told>>

(* The copy does not fit in the swap area: psm_set_variable returns an      *)
(* error, or psm_module_init does and there are no settings at all.        *)
CopyFails ==
    /\ pc = "toSwap"
    /\ copied < end
    /\ IF request # NoReq
       THEN pc' = "idle" /\ request' = NoReq /\ told' = "error"
       ELSE pc' = "failed" /\ UNCHANGED <<request, told>>
    /\ UNCHANGED <<data, swap, desc, end, highest, old, copied>>

MarkerEarly ==
    /\ pc = "toSwap"
    /\ desc' = "valid"
    /\ pc' = "eraseData"
    /\ UNCHANGED <<data, swap, end, highest, old, copied, request, told>>

WriteMarker ==
    /\ pc = "toSwap"
    /\ copied = end
    /\ desc' = "valid"
    /\ pc' = "eraseData"
    /\ UNCHANGED <<data, swap, end, highest, old, copied, request, told>>

(* Checkpoint 2: the swap area is good and the data area is rewritten. *)
EraseNothing ==
    /\ pc = "eraseData"
    /\ copied' = 0
    /\ pc' = "toData"
    /\ UNCHANGED <<data, swap, desc, end, highest, old, request, told>>

EraseData ==
    /\ pc = "eraseData"
    /\ data' = <<>>
    /\ copied' = 0
    /\ pc' = "toData"
    /\ UNCHANGED <<swap, desc, end, highest, old, request, told>>

CopyToData ==
    /\ pc = "toData"
    /\ copied < Len(swap)
    /\ data' = CopyInto(data, swap[copied + 1])
    /\ copied' = copied + 1
    /\ UNCHANGED <<swap, desc, pc, end, highest, old, request, told>>

InvalidateSwap ==
    /\ pc = "toData"
    /\ copied = Len(swap)
    /\ desc' = "zero"
    /\ pc' = "finalErase"
    /\ UNCHANGED <<data, swap, end, highest, old, copied, request, told>>

(* Checkpoint 3. *)
FinalErase ==
    /\ pc = "finalErase"
    /\ swap' = <<>> /\ desc' = "clean"
    /\ pc' = "scan"
    /\ UNCHANGED <<data, end, highest, old, copied, request, told>>

RescanCompactsAgain ==
    /\ pc = "scan"
    /\ Scan
    /\ Kill
    /\ pc' = IF request = NoReq THEN "idle" ELSE "eraseSwap"
    /\ UNCHANGED <<swap, desc, old, copied, request, told>>

(* The scan that follows every recovery; psm_set_variable goes on with it. *)
Rescan ==
    /\ pc = "scan"
    /\ Scan
    /\ Kill
    /\ pc' = IF ScanEnd(data) < Len(data) THEN "failed"
             ELSE (IF request = NoReq THEN "idle" ELSE "open")
    /\ UNCHANGED <<swap, desc, old, copied, request, told>>

-----------------------------------------------------------------------------
(* psm_set_variable, under the partition's write lock, and what             *)
(* manage_space_constraints makes of it: the object fits, it fits after a  *)
(* compaction, or it does not fit.                                         *)
SetFits(r) ==
    /\ pc = "idle"
    /\ request' = r /\ told' = "none"
    /\ pc' = "open"
    /\ UNCHANGED <<data, swap, desc, end, highest, old, copied>>

SetCompacts(r) ==
    /\ pc = "idle"
    /\ request' = r /\ told' = "none"
    /\ pc' = "eraseSwap"
    /\ UNCHANGED <<data, swap, desc, end, highest, old, copied>>

SetRefused ==
    /\ pc = "idle"
    /\ told' = "error"
    /\ UNCHANGED <<data, swap, desc, pc, end, highest, old, copied, request>>

(* The object id the new object gets. *)
NewId == IF Named(request.name) = {} THEN highest + 1
         ELSE data[First(Named(request.name))].id

NewObject == [name |-> request.name, id |-> NewId, val |-> NoVal,
              flag |-> "active", mark |-> "open"]

(* _psm_object_open: the search, and the metadata with no length. *)
OpenObject ==
    /\ pc = "open"
    /\ data' = Append(SubSeq(data, 1, end), NewObject)
    /\ old' = IF ActiveOf(request.name) = {} THEN 0 ELSE First(ActiveOf(request.name))
    /\ highest' = IF NewId > highest THEN NewId ELSE highest
    /\ pc' = "write"
    /\ UNCHANGED <<swap, desc, end, copied, request, told>>

(* The name and _psm_object_write. *)
WriteObject ==
    /\ pc = "write"
    /\ data' = [data EXCEPT ![end + 1].val = request.val]
    /\ pc' = "close"
    /\ UNCHANGED <<swap, desc, end, highest, old, copied, request, told>>

Return ==
    /\ end' = end + 1
    /\ pc' = "idle"
    /\ request' = NoReq /\ told' = "ok"

(* _psm_object_close: checksum and length in one write, then the old       *)
(* object's active bit.                                                    *)
CloseObject ==
    /\ pc = "close"
    /\ data' = [data EXCEPT ![end + 1].mark = "closed"]
    /\ IF old = 0 THEN Return
       ELSE pc' = "retire" /\ UNCHANGED <<end, request, told>>
    /\ UNCHANGED <<swap, desc, highest, old, copied>>

RetireOld ==
    /\ pc = "retire"
    /\ data' = [data EXCEPT ![old].flag = "inactive"]
    /\ Return
    /\ UNCHANGED <<swap, desc, highest, old, copied>>

-----------------------------------------------------------------------------
(* What is left of the command the power cut.  An erase goes from the low   *)
(* blocks to the high ones, so the descriptor is the last to go.  The      *)
(* checksum is whole and the length half written when the cut close still  *)
(* leaves a length the scan accepts.                                       *)
CutCommand ==
    \/ UNCHANGED flash
    \/ /\ pc = "open"
       /\ data' = Append(SubSeq(data, 1, end), Torn)
       /\ UNCHANGED <<swap, desc>>
    \/ /\ pc = "close"
       /\ data' = [data EXCEPT ![end + 1] = [@ EXCEPT !.mark = "closed", !.val = Bad]]
       /\ UNCHANGED <<swap, desc>>
    \/ /\ pc = "toSwap" /\ copied < end
       /\ swap' = Append(swap, Torn)
       /\ UNCHANGED <<data, desc>>
    \/ /\ pc = "eraseData"
       /\ data' \in {<<>>, <<Torn>>}
       /\ UNCHANGED <<swap, desc>>
    \/ /\ pc = "toData" /\ copied < Len(swap)
       /\ data' = Append(data, Torn)
       /\ UNCHANGED <<swap, desc>>
    \/ /\ pc \in {"eraseSwap", "finalErase"}
       /\ swap' = <<>>
       /\ UNCHANGED <<data, desc>>

PowerCut ==
    /\ CutCommand
    /\ pc' = "boot"
    /\ end' = 0 /\ highest' = 0 /\ old' = 0 /\ copied' = 0
    /\ request' = NoReq /\ told' = "none"

Recovery ==
    \/ BootToData \/ BootScan
    \/ EraseSwap \/ WriteOffset \/ CopyToSwap \/ CopyFails \/ WriteMarker
    \/ EraseData \/ CopyToData \/ InvalidateSwap \/ FinalErase \/ Rescan

SetVariable == OpenObject \/ WriteObject \/ CloseObject \/ RetireOld

Next ==
    \/ \E r \in Requests : SetFits(r) \/ SetCompacts(r)
    \/ SetRefused
    \/ Recovery
    \/ SetVariable
    \/ PowerCut

Spec == Init /\ [][Next]_vars

-----------------------------------------------------------------------------
(* What the settings are, at every moment: what a restart would find.  The  *)
(* swap area counts once its descriptor is valid, the data area up to the  *)
(* scan's stop before that.                                                *)
Live(area, k, n) == {i \in 1 .. k : Active(area[i]) /\ area[i].name = n}

Value(area, k, n) ==
    IF Live(area, k, n) = {} THEN NoVal ELSE area[First(Live(area, k, n))].val

Recovered == [n \in Names |-> IF desc = "valid" THEN Value(swap, Len(swap), n)
                              ELSE Value(data, ScanEnd(data), n)]

Map == INSTANCE ParamMap WITH value <- Recovered

(* Property: a set is applied as a whole or not at all wherever the power   *)
(* goes, during a compaction as well, and only an applied one is answered  *)
(* with SYS_OK.                                                            *)
MapSpec == Map!Spec
=============================================================================
