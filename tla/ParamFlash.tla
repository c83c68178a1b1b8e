----------------------------- MODULE ParamFlash -----------------------------
(***************************************************************************)
(* The parameter store with its space: where the objects lie in the        *)
(* partition, the counters kept in RAM, when a set needs a compaction,     *)
(* and where the two areas meet.  Every step is a step of ParamStore, but  *)
(* for the erase that reaches the live objects (Overrun), where the model  *)
(* ends.                                                                   *)
(***************************************************************************)
EXTENDS ParamStore, Integers

CONSTANTS BlockSize, Blocks,   \* the partition
          HeadSize,            \* psm_object_t and a name
          DescSize,            \* psm_swap_desc_t
          Demarcation,         \* PSM_DATA_SWAP_DEMARCATION
          Length,              \* the length of each value
          LongLength           \* the length a half-written length field shows

ASSUME SizesAssumption ==
    /\ {BlockSize, Blocks, HeadSize, DescSize, Demarcation, LongLength} \subseteq Nat \ {0}
    /\ Blocks >= 2
    /\ Length \in [Values -> Nat]

(* No object is long against the partition: lengths have 16 bits, and the   *)
(* partition of partition.c has 2^20 bytes.                                *)
ASSUME RoomAssumption ==
    LET room == BlockSize * Blocks - DescSize - Demarcation IN
    /\ 2 * (HeadSize + LongLength) <= room
    /\ \A v \in Values : 2 * (HeadSize + LongLength + HeadSize + Length[v]) <= room

VARIABLES dataFree,   \* data_free_offset
          total,      \* total_active_object_size
          swapAt      \* swap_start_offset of the descriptor and its RAM copy

flashVars == <<data, swap, desc, pc, end, highest, old, copied, request, told,
               dataFree, total, swapAt>>

PartSize == BlockSize * Blocks

NewSize(v) == HeadSize + Length[v]

(* object_size *)
Size(o) == HeadSize + (IF o.val = Bad THEN LongLength
                       ELSE (IF o.val = NoVal THEN 0 ELSE Length[o.val]))

(* The first k entries of w added up, one after the other as the scan does. *)
AddUp(w, k) ==
    LET sum[i \in Nat] == IF i = 0 THEN 0 ELSE sum[i - 1] + w[i]
    IN  sum[k]

(* The bytes of the first k objects: where the scan is after them (offset), *)
(* and what it has counted of the active ones (total_active_object_size).  *)
Bytes(area, k) == AddUp([i \in DOMAIN area |-> Size(area[i])], k)

ActiveBytes(area, k) ==
    AddUp([i \in DOMAIN area |-> IF Active(area[i]) THEN Size(area[i]) ELSE 0], k)

AlignedUp(x) == IF x < 0 THEN 2 ^ 30 ELSE x - (x % BlockSize) + BlockSize

(* align_to_block_offset of an unsigned offset: below zero it is far beyond *)
(* the partition.                                                          *)
Aligned(x) == IF x < 0 THEN 2 ^ 30 ELSE x - (x % BlockSize)

(* psm_get_swap_start_offset *)
SwapStart == Aligned(PartSize - DescSize - total)

ProposedForOldOnly(size) == Aligned(PartSize - DescSize - Demarcation - total)

(* manage_space_constraints *)
ProposedSwap(size) == Aligned(PartSize - DescSize - Demarcation - (total + size))
Fits(size)  == dataFree + size < ProposedSwap(size)
NoSpace(size) == ~Fits(size) /\ total + size > ProposedSwap(size)

-----------------------------------------------------------------------------
FlashInit == Init /\ dataFree = 0 /\ total = 0 /\ swapAt = 0

SameSpace == UNCHANGED <<dataFree, total, swapAt>>

ScanSpace ==
    /\ dataFree' = Bytes(data, ScanEnd(data))
    /\ total' = ActiveBytes(data, ScanEnd(data))
    /\ UNCHANGED swapAt

(* The manage_space_constraints(psm, 0) of psm_module_physical_init refuses *)
(* only more than half a partition of active objects: see SwapClear.       *)
Mount == (BootScan \/ Rescan) /\ ScanSpace

Readable(o) == Active(o) /\ o.val # Bad

(* The bytes the compaction will need of object i: all of a readable one,   *)
(* and of another one the head, to walk past it.                           *)
Reach(i) == Bytes(data, i - 1) + (IF Readable(data[i]) THEN Size(data[i]) ELSE HeadSize)

(* The objects that lie in the blocks to be erased. *)
InTheWay == {i \in 1 .. end : Reach(i) > SwapStart}

PlaceSwap ==
    /\ EraseSwap
    /\ InTheWay = {}
    /\ swapAt' = SwapStart
    /\ UNCHANGED <<dataFree, total>>

(* The erase takes live objects: psm_copy_all_objects will stop at the free *)
(* space where they were, and the marker makes that copy the good one.  An  *)
(* object erased in part counts as lost.  The same is left when the power   *)
(* goes in this erase: it begins at the lowest block.  The model ends here. *)
Overrun ==
    /\ pc = "eraseSwap"
    /\ InTheWay # {}
    /\ data' = SubSeq(data, 1, First(InTheWay) - 1)
    /\ swap' = <<>> /\ desc' = "clean"
    /\ pc' = "wrecked"
    /\ UNCHANGED <<end, highest, old, copied, request, told, dataFree, total, swapAt>>

(* psm_copy_all_objects gives up when the copy reaches the descriptor, and  *)
(* psm_read_flash when the object reaches over the end of the partition.   *)
SwapHolds ==
    LET o == data[copied + 1] IN
    Active(o) => /\ Bytes(data, copied + 1) <= PartSize
              /\ swapAt + Demarcation + Bytes(swap, Len(swap)) + Size(o)
                     < PartSize - DescSize

Compact ==
    /\ \/ CopyToSwap /\ SwapHolds
       \/ CopyFails /\ ~SwapHolds
       \/ BootToData \/ WriteOffset \/ WriteMarker \/ EraseData
       \/ CopyToData \/ InvalidateSwap \/ FinalErase
    /\ SameSpace

Set(r) ==
    /\ \/ SetFits(r) /\ Fits(NewSize(r.val))
       \/ SetRefused /\ NoSpace(NewSize(r.val))
       \/ SetCompacts(r) /\ ~Fits(NewSize(r.val)) /\ ~NoSpace(NewSize(r.val))
    /\ SameSpace

WriteNew == (OpenObject \/ WriteObject) /\ SameSpace

Advance == dataFree' = dataFree + Size(data[end + 1])

CloseCountsFirstOnly ==
    /\ CloseObject
    /\ IF old = 0
       THEN Advance /\ total' = total + Size(data[end + 1])
       ELSE UNCHANGED <<dataFree, total>>
    /\ UNCHANGED swapAt

CloseNew ==
    /\ CloseObject
    /\ total' = total + Size(data[end + 1])
    /\ IF old = 0 THEN Advance ELSE UNCHANGED dataFree
    /\ UNCHANGED swapAt

ReplaceKeepsCount ==
    /\ RetireOld
    /\ Advance
    /\ UNCHANGED <<total, swapAt>>

Replace ==
    /\ RetireOld
    /\ total' = total - Size(data[old])
    /\ Advance
    /\ UNCHANGED swapAt

FlashCut ==
    /\ pc # "wrecked"
    /\ pc = "eraseSwap" /\ InTheWay # {} => UNCHANGED flash
    /\ PowerCut
    /\ dataFree' = 0 /\ total' = 0
    /\ UNCHANGED swapAt

FlashNext ==
    \/ \E r \in Requests : Set(r)
    \/ Mount \/ PlaceSwap \/ Overrun \/ Compact
    \/ WriteNew \/ CloseNew \/ Replace
    \/ FlashCut
    \/ pc = "wrecked" /\ UNCHANGED flashVars

(* Everything but a cut and the arrival of a set is the code running on:    *)
(* psm_module_init and psm_set_variable are sequential and hold the lock.  *)
RunsOn == Mount \/ PlaceSwap \/ Overrun \/ Compact \/ WriteNew \/ CloseNew \/ Replace

FlashSpec == FlashInit /\ [][FlashNext]_flashVars /\ WF_flashVars(RunsOn)

-----------------------------------------------------------------------------
(* Type invariant of the flash, the call under way and the space counters. *)
FlashTypeOK ==
    /\ data \in Seq(Objects) /\ swap \in Seq(Objects)
    /\ desc \in {"clean", "offset", "valid", "zero"}
    /\ request \in Requests \cup {NoReq}
    /\ {dataFree, total, swapAt} \subseteq Nat

(* Property: between two calls the three counters the code keeps in RAM     *)
(* (data_free_offset, total_active_object_size, highest_used_obj_id) are   *)
(* what a scan of the flash would find, whatever sets, compactions, failed *)
(* compactions and restarts came before.                                   *)
CountersRight ==
    pc = "idle" =>
        /\ dataFree = Bytes(data, Len(data))
        /\ total = ActiveBytes(data, Len(data))
        /\ \A i \in DOMAIN data : data[i].id <= highest

(* An active object shows a length that a cut half wrote: it is counted     *)
(* with that length, and no check of the space was made for it.            *)
HasBad(area, k) == \E i \in 1 .. k : Active(area[i]) /\ area[i].val = Bad
Spoiled == HasBad(data, ScanEnd(data))

(* Property: the erase that opens a compaction touches no object of the     *)
(* data area, the objects it is about to copy (the comment "Data area      *)
(* good" of CHECKPOINT_0), as long as no active object has a half-written   *)
(* length; and a start always finds room for a swap area.                  *)
SwapClear ==
    pc = "eraseSwap" =>
        /\ ~Spoiled => Bytes(data, end) <= SwapStart
        /\ ~NoSpace(0)

(* Property: the copy back from the swap area never reaches the swap area  *)
(* it reads from.                                                          *)
CopyBackFits ==
    pc = "toData" /\ copied < Len(swap) =>
        Bytes(data, Len(data)) + Size(swap[copied + 1]) < swapAt

(* Property: the store is lost to the firmware (psm_module_init fails, at   *)
(* this start and at the next ones) only when the active objects end       *)
(* within a demarcation of the block below the descriptor, where the swap  *)
(* start leaves no room for the demarcation: the one case of "this case    *)
(* should never occur" in psm_copy_all_objects.  Again without an active   *)
(* object of a half-written length.                                        *)
EdgeOnly ==
    pc = "failed" /\ ~Spoiled => (PartSize - DescSize - total) % BlockSize <= Demarcation

(* Property: with the power on, a start and a set always come to an end    *)
(* (or to the end of the model).                                           *)
ComesUp == <>[][~FlashCut]_flashVars => []<>(pc \in {"idle", "failed", "wrecked"})
=============================================================================
