------------------------- MODULE ParamStore_proofs -------------------------
(***************************************************************************)
(* The log in flash implements the table of settings, for every set of     *)
(* names and values and every history of power cuts; and the space of the  *)
(* store is in order for every geometry of the partition.                  *)
(*                                                                         *)
(* The argument: the objects below the scan's end are in good order (Good: *)
(* one id to a name, one active object to an id), so that the restart      *)
(* finds for each name the one active object (ValueIs, ValueNone).  A      *)
(* compaction keeps a copy of the readable objects it has passed (Copied), *)
(* first in the swap area, then in the data area, and the descriptor turns *)
(* valid and invalid only when that copy is complete.                      *)
(*                                                                         *)
(* For the space (SpaceInv): the counters in RAM are running sums over the *)
(* objects (Bytes, ActiveBytes), and every step changes sum and counter    *)
(* alike.  A set that is let through leaves its active bytes Roomed: they  *)
(* lie below the swap area that a compaction of them would need.  An       *)
(* object whose length was half written is counted without that check: the *)
(* active bytes pass half the room by one such object at most (Laid), and  *)
(* a compaction copies it switched off (ReadableBytes).  Only with such an *)
(* object active (Spoiled) does the erase of the swap area reach live      *)
(* objects: that step (Overrun) is no step of ParamStore, and is the Wreck *)
(* of the table.                                                           *)
(***************************************************************************)
EXTENDS ParamFlash, TLAPS, WellFoundedInduction

-----------------------------------------------------------------------------
Good(s, k) ==
    /\ \A i \in 1 .. k : s[i].mark = "closed"
    /\ \A i, j \in 1 .. k : s[i].name = s[j].name <=> s[i].id = s[j].id
    /\ \A i, j \in 1 .. k : Active(s[i]) /\ Active(s[j]) /\ s[i].id = s[j].id => i = j

Edge(s, k) ==
    /\ k \in 0 .. Len(s)
    /\ Good(s, k)
    /\ k < Len(s) => Stops(s, k + 1)

CopyOf(o, p) ==
    /\ p.name = o.name /\ p.val = o.val /\ p.mark = o.mark
    /\ p.flag = IF o.val = Bad THEN "inactive" ELSE "active"

(* to holds a copy of each active object among the first c of from, and     *)
(* nothing else; the copies are numbered anew.                             *)
Kept(from, c, to) ==
    \A i \in 1 .. c : Active(from[i]) => \E j \in 1 .. Len(to) : CopyOf(from[i], to[j])

Came(from, c, to) ==
    \A j \in 1 .. Len(to) : \E i \in 1 .. c : Active(from[i]) /\ CopyOf(from[i], to[j])

Numbered(to) == \A j \in 1 .. Len(to) : to[j].id = j

OneEach(to) == \A i, j \in 1 .. Len(to) : to[i].name = to[j].name => i = j

Copied(from, c, to) ==
    Kept(from, c, to) /\ Came(from, c, to) /\ Numbered(to) /\ OneEach(to)

NoneBad(s) == \A i \in 1 .. Len(s) : Active(s[i]) => s[i].val # Bad

StoreTypeOK ==
    /\ data \in Seq(Objects) /\ swap \in Seq(Objects)
    /\ desc \in {"clean", "offset", "valid", "zero"}
    /\ pc \in {"boot", "idle", "failed", "eraseSwap", "writeOffset", "toSwap", "eraseData",
               "toData", "finalErase", "scan", "open", "write", "close", "retire", "wrecked"}
    /\ end \in Nat /\ highest \in Nat /\ old \in Nat /\ copied \in Nat
    /\ request \in Requests \cup {NoReq}
    /\ told \in {"none", "ok", "error"}

Writing == pc \in {"write", "close", "retire"}
Setting == Writing \/ pc = "open"

(* the compaction of a set, before its marker: it may still be given up *)
Asked == request # NoReq /\ pc \in {"eraseSwap", "writeOffset", "toSwap"}

(* where the scan would end, and which steps know it *)
Ends ==
    /\ desc # "valid" => Edge(data, ScanEnd(data))
    /\ Setting \/ pc \in {"idle", "eraseSwap", "writeOffset", "toSwap"} => end = ScanEnd(data)
    /\ pc \in {"idle", "open", "finalErase", "scan"} \/ Asked => ScanEnd(data) = Len(data)

Swaps ==
    /\ desc = "valid" => Good(swap, Len(swap)) /\ NoneBad(swap)
    /\ pc \in {"eraseData", "toData"} => desc = "valid"
    /\ desc = "valid" => pc \in {"boot", "eraseData", "toData"}
    /\ pc = "writeOffset" => swap = <<>>
    /\ pc = "toSwap" => copied <= end /\ Copied(data, copied, swap)
    /\ pc = "toData" => copied <= Len(swap) /\ Copied(swap, copied, data)

Calls ==
    /\ Setting => request # NoReq
    /\ pc \in {"idle", "boot"} => request = NoReq

Ids ==
    /\ pc \in {"idle", "open"} \/ Asked => \A i \in 1 .. end : data[i].id <= highest
    /\ Writing => \A i \in 1 .. (end + 1) : data[i].id <= highest

Newest ==
    Writing =>
        /\ Len(data) = end + 1
        /\ data[end + 1].name = request.name
        /\ Active(data[end + 1])
        /\ data[end + 1].mark = IF pc = "retire" THEN "closed" ELSE "open"
        /\ pc # "write" => data[end + 1].val = request.val
        /\ \A i \in 1 .. end : data[i].name = request.name <=> data[i].id = data[end + 1].id
        /\ old = 0 => \A i \in 1 .. end : data[i].name = request.name => ~Active(data[i])
        /\ old # 0 => old \in 1 .. end /\ Active(data[old]) /\ data[old].name = request.name
        /\ pc = "retire" => old # 0

IInv == StoreTypeOK /\ Ends /\ Swaps /\ Calls /\ Ids /\ Newest

-----------------------------------------------------------------------------
(* The scan and the search. *)

(* First is the smallest index: both walks go upwards. *)
LEMMA FirstIsLeast ==
    ASSUME NEW S \in SUBSET Nat, S # {}
    PROVE  First(S) \in S /\ \A j \in S : First(S) <= j
<1>1. IsWellFoundedOn({ss \in Nat \X Nat : ss[1] < ss[2]}, Nat)
  BY NatLessThanWellFounded DEF OpToRel
<1>2. PICK i \in S : \A j \in S : ~ (<<j, i>> \in {ss \in Nat \X Nat : ss[1] < ss[2]})
  BY <1>1, WFMin
<1>3. \A j \in S : i <= j
  <2> TAKE j \in S
  <2>1. ~ (j < i)
    BY <1>2
  <2> QED
    BY <2>1
<1> QED
  BY <1>3 DEF First

(* The scan ends at the edge, if there is one. *)
LEMMA ScanAt ==
    ASSUME NEW s \in Seq(Objects), NEW k, Edge(s, k)
    PROVE  ScanEnd(s) = k
<1>1. k \in 0 .. Len(s)
  BY DEF Edge
<1>2. \A i \in 1 .. k : ~Stops(s, i)
  BY <1>1 DEF Edge, Good, Stops, Double
<1>3. k < Len(s) => Stops(s, k + 1)
  BY DEF Edge
<1>4. \A m \in 0 .. Len(s) :
         (\A i \in 1 .. m : ~Stops(s, i)) /\ (m < Len(s) => Stops(s, m + 1)) => m = k
  <2> SUFFICES ASSUME NEW m \in 0 .. Len(s),
                      \A i \in 1 .. m : ~Stops(s, i), m < Len(s) => Stops(s, m + 1)
               PROVE  m = k
    OBVIOUS
  <2>1. CASE m < k
    BY <1>1, <1>2, <2>1
  <2>2. CASE k < m
    BY <1>1, <1>3, <2>2
  <2> QED
    BY <1>1, <2>1, <2>2
<1> QED
  BY <1>1, <1>2, <1>3, <1>4 DEF ScanEnd

LEMMA ValueIs ==
    ASSUME NEW s \in Seq(Objects), NEW k \in 0 .. Len(s), Good(s, k),
           NEW i \in 1 .. k, Active(s[i])
    PROVE  Value(s, k, s[i].name) = s[i].val
<1>1. Live(s, k, s[i].name) = {i}
  BY DEF Live, Good
<1>2. First({i}) = i
  BY DEF First
<1> QED
  BY <1>1, <1>2 DEF Value

LEMMA ValueNone ==
    ASSUME NEW s, NEW k, NEW n, \A i \in 1 .. k : Active(s[i]) => s[i].name # n
    PROVE  Value(s, k, n) = NoVal
BY DEF Value, Live

-----------------------------------------------------------------------------
(* The copies of a compaction. *)

LEMMA CopyNothing ==
    ASSUME NEW from
    PROVE  Copied(from, 0, <<>>)
BY DEF Copied, Kept, Came, Numbered, OneEach

LEMMA CopyTypes ==
    ASSUME NEW to \in Seq(Objects), NEW o \in Objects
    PROVE  /\ CopyInto(to, o) \in Seq(Objects)
           /\ ~Active(o) => CopyInto(to, o) = to
           /\ Active(o) => /\ Len(CopyInto(to, o)) = Len(to) + 1
                           /\ \A j \in 1 .. Len(to) : CopyInto(to, o)[j] = to[j]
                           /\ CopyOf(o, CopyInto(to, o)[Len(to) + 1])
                           /\ CopyInto(to, o)[Len(to) + 1].id = Len(to) + 1
<1> DEFINE p == [o EXCEPT !.id = Len(to) + 1,
                          !.flag = IF o.val = Bad THEN "inactive" ELSE "active"]
<1>1. p \in Objects /\ CopyOf(o, p) /\ p.id = Len(to) + 1
  <2> DEFINE f == IF o.val = Bad THEN "inactive" ELSE "active"
             l == Len(to) + 1
  <2>1. l \in Nat /\ f \in {"active", "inactive"}
    OBVIOUS
  <2> HIDE DEF l, f
  <2>2. [o EXCEPT !.id = l, !.flag = f] \in Objects
    BY <2>1 DEF Objects
  <2>3. p = [o EXCEPT !.id = l, !.flag = f]
    BY DEF l, f
  <2>4. p.id = l /\ p.flag = f /\ p.name = o.name /\ p.val = o.val /\ p.mark = o.mark
    BY <2>3 DEF Objects
  <2> QED
    BY <2>2, <2>3, <2>4 DEF CopyOf, l, f
<1>2. CASE Active(o)
  <2>1. CopyInto(to, o) = Append(to, p)
    BY <1>2 DEF CopyInto
  <2> HIDE DEF p
  <2> QED
    BY <1>1, <1>2, <2>1
<1>3. CASE ~Active(o)
  BY <1>3 DEF CopyInto
<1> QED
  BY <1>2, <1>3

LEMMA CopyStep ==
    ASSUME NEW from \in Seq(Objects), NEW to \in Seq(Objects), NEW k \in 0 .. Len(from),
           Good(from, k), NEW c \in Nat, c < k, Copied(from, c, to)
    PROVE  Copied(from, c + 1, CopyInto(to, from[c + 1]))
<1> DEFINE o == from[c + 1]
           new == CopyInto(to, o)
<1>1. c + 1 \in 1 .. k /\ o \in Objects
  OBVIOUS
<1>2. Kept(from, c, to) /\ Came(from, c, to) /\ Numbered(to) /\ OneEach(to)
  BY DEF Copied
<1>3. CASE ~Active(o)
  <2>1. new = to
    BY <1>1, <1>3, CopyTypes
  <2>2. Kept(from, c + 1, to)
    BY <1>2, <1>3 DEF Kept
  <2>3. Came(from, c + 1, to)
    BY <1>2 DEF Came
  <2> QED
    BY <1>2, <2>1, <2>2, <2>3 DEF Copied
<1>4. CASE Active(o)
  <2>1. /\ new \in Seq(Objects)
        /\ Len(new) = Len(to) + 1
        /\ \A j \in 1 .. Len(to) : new[j] = to[j]
        /\ CopyOf(o, new[Len(to) + 1])
        /\ new[Len(to) + 1].id = Len(to) + 1
    BY <1>1, <1>4, CopyTypes
  <2> HIDE DEF new
  <2>2. 1 .. Len(new) = (1 .. Len(to)) \cup {Len(to) + 1}
    BY <2>1
  <2>3. 1 .. (c + 1) = (1 .. c) \cup {c + 1}
    OBVIOUS
  <2>4. Kept(from, c + 1, new)
    <3> SUFFICES ASSUME NEW i \in 1 .. (c + 1), Active(from[i])
                 PROVE  \E j \in 1 .. Len(new) : CopyOf(from[i], new[j])
      BY DEF Kept
    <3>1. CASE i \in 1 .. c
      <4>1. PICK j \in 1 .. Len(to) : CopyOf(from[i], to[j])
        BY <1>2, <3>1 DEF Kept
      <4> QED
        BY <2>1, <2>2, <4>1
    <3>2. CASE i = c + 1
      BY <2>1, <2>2, <3>2
    <3> QED
      BY <2>3, <3>1, <3>2
  <2>5. Came(from, c + 1, new)
    <3> SUFFICES ASSUME NEW j \in 1 .. Len(new)
                 PROVE  \E i \in 1 .. (c + 1) : Active(from[i]) /\ CopyOf(from[i], new[j])
      BY DEF Came
    <3>1. CASE j \in 1 .. Len(to)
      <4>1. PICK i \in 1 .. c : Active(from[i]) /\ CopyOf(from[i], to[j])
        BY <1>2, <3>1 DEF Came
      <4> QED
        BY <2>1, <2>3, <3>1, <4>1
    <3>2. CASE j = Len(to) + 1
      BY <1>4, <2>1, <2>3, <3>2
    <3> QED
      BY <2>2, <3>1, <3>2
  <2>6. Numbered(new)
    BY <1>2, <2>1, <2>2 DEF Numbered
  <2>7. \A j \in 1 .. Len(to) : to[j].name # new[Len(to) + 1].name
    <3> SUFFICES ASSUME NEW j \in 1 .. Len(to), to[j].name = new[Len(to) + 1].name
                 PROVE  FALSE
      OBVIOUS
    <3>1. PICK i \in 1 .. c : Active(from[i]) /\ CopyOf(from[i], to[j])
      BY <1>2 DEF Came
    <3>2. from[i].name = o.name
      BY <2>1, <3>1 DEF CopyOf
    <3>3. i = c + 1
      BY <1>1, <1>4, <3>1, <3>2 DEF Good
    <3> QED
      BY <3>3
  <2>8. OneEach(new)
    BY <1>2, <2>1, <2>2, <2>7 DEF OneEach
  <2> HIDE DEF o
  <2> QED
    BY <2>4, <2>5, <2>6, <2>8 DEF Copied, new, o
<1> QED
  BY <1>3, <1>4

LEMMA CopiedGood ==
    ASSUME NEW from \in Seq(Objects), NEW to \in Seq(Objects), NEW k \in 0 .. Len(from),
           Good(from, k), Copied(from, k, to)
    PROVE  Good(to, Len(to)) /\ NoneBad(to)
<1>1. Came(from, k, to) /\ Numbered(to) /\ OneEach(to)
  BY DEF Copied
<1>2. \A j \in 1 .. Len(to) : to[j].mark = "closed" /\ (Active(to[j]) => to[j].val # Bad)
  <2> TAKE j \in 1 .. Len(to)
  <2>1. PICK i \in 1 .. k : Active(from[i]) /\ CopyOf(from[i], to[j])
    BY <1>1 DEF Came
  <2>2. from[i].mark = "closed"
    BY DEF Good
  <2> QED
    BY <2>1, <2>2 DEF CopyOf, Active
<1> QED
  BY <1>1, <1>2 DEF Good, NoneBad, Numbered, OneEach

(* What the copy says of a name: what its source says, a bad one forgotten. *)
LEMMA CopiedValue ==
    ASSUME NEW from \in Seq(Objects), NEW to \in Seq(Objects), NEW k \in 0 .. Len(from),
           Good(from, k), Copied(from, k, to), NEW n
    PROVE  Value(to, Len(to), n) = IF Value(from, k, n) = Bad THEN NoVal ELSE Value(from, k, n)
<1>1. Good(to, Len(to))
  BY CopiedGood
<1>2. ASSUME NEW i \in 1 .. k, Active(from[i]), from[i].name = n
      PROVE  Value(to, Len(to), n) = IF Value(from, k, n) = Bad THEN NoVal ELSE Value(from, k, n)
  <2>1. Value(from, k, n) = from[i].val
    BY <1>2, ValueIs
  <2>2. PICK j \in 1 .. Len(to) : CopyOf(from[i], to[j])
    BY <1>2 DEF Copied, Kept
  <2>3. CASE from[i].val # Bad
    <3>1. Active(to[j]) /\ to[j].name = n /\ to[j].val = from[i].val
      BY <1>2, <2>2, <2>3 DEF CopyOf, Active
    <3>2. Value(to, Len(to), n) = to[j].val
      BY <1>1, <3>1, ValueIs
    <3> QED
      BY <2>1, <2>3, <3>1, <3>2
  <2>4. CASE from[i].val = Bad
    <3>1. \A m \in 1 .. Len(to) : Active(to[m]) => to[m].name # n
      BY <1>2, <2>2, <2>4 DEF CopyOf, Active, Copied, OneEach
    <3> QED
      BY <2>1, <2>4, <3>1, ValueNone
  <2> QED
    BY <2>3, <2>4
<1>3. ASSUME \A i \in 1 .. k : Active(from[i]) => from[i].name # n
      PROVE  Value(to, Len(to), n) = IF Value(from, k, n) = Bad THEN NoVal ELSE Value(from, k, n)
  <2>1. Value(from, k, n) = NoVal
    BY <1>3, ValueNone
  <2>2. \A m \in 1 .. Len(to) : Active(to[m]) => to[m].name # n
    BY <1>3 DEF Copied, Came, CopyOf
  <2>3. Value(to, Len(to), n) = NoVal
    BY <2>2, ValueNone
  <2> QED
    BY <2>1, <2>3
<1> QED
  BY <1>2, <1>3

-----------------------------------------------------------------------------
(* What a step does to the data area. *)

LEMMA SetObject ==
    ASSUME NEW s \in Seq(Objects), NEW i \in 1 .. Len(s), NEW o \in Objects
    PROVE  /\ [s EXCEPT ![i] = o] \in Seq(Objects)
           /\ Len([s EXCEPT ![i] = o]) = Len(s)
           /\ [s EXCEPT ![i] = o][i] = o
           /\ \A j \in 1 .. Len(s) : j # i => [s EXCEPT ![i] = o][j] = s[j]
OBVIOUS

LEMMA AddObject ==
    ASSUME NEW s \in Seq(Objects), NEW k \in 0 .. Len(s), NEW o \in Objects
    PROVE  /\ Append(SubSeq(s, 1, k), o) \in Seq(Objects)
           /\ Len(Append(SubSeq(s, 1, k), o)) = k + 1
           /\ Append(SubSeq(s, 1, k), o)[k + 1] = o
           /\ \A j \in 1 .. k : Append(SubSeq(s, 1, k), o)[j] = s[j]
<1> DEFINE u == SubSeq(s, 1, k)
<1>1. u \in Seq(Objects) /\ Len(u) = k /\ \A j \in 1 .. k : u[j] = s[j]
  OBVIOUS
<1> HIDE DEF u
<1>2. /\ Append(u, o) \in Seq(Objects) /\ Len(Append(u, o)) = k + 1
      /\ Append(u, o)[k + 1] = o /\ \A j \in 1 .. k : Append(u, o)[j] = u[j]
  BY <1>1
<1> QED
  BY <1>1, <1>2 DEF u

LEMMA TornObject == Torn \in Objects
BY NamesAssumption DEF Torn, Objects

(* The objects below an edge decide it, and what makes the scan stop. *)
LEMMA EdgeStays ==
    ASSUME NEW s \in Seq(Objects), NEW k, Edge(s, k), NEW t \in Seq(Objects),
           k <= Len(t), \A j \in 1 .. k : t[j] = s[j],
           k < Len(t) => Stops(t, k + 1)
    PROVE  Edge(t, k) /\ ScanEnd(t) = k
<1>1. k \in 0 .. Len(s) /\ k \in 0 .. Len(t)
  BY DEF Edge
<1>2. Good(t, k)
  BY <1>1 DEF Edge, Good
<1>3. Edge(t, k)
  BY <1>1, <1>2 DEF Edge
<1> QED
  BY <1>3, ScanAt

LEMMA KillKeeps ==
    ASSUME data \in Seq(Objects), Edge(data, ScanEnd(data)), Kill
    PROVE  /\ data' \in Seq(Objects) /\ Len(data') = Len(data)
           /\ \A i \in 1 .. ScanEnd(data) : data'[i] = data[i]
           /\ Edge(data', ScanEnd(data)) /\ ScanEnd(data') = ScanEnd(data)
<1> DEFINE k == ScanEnd(data)
<1>1. k \in 0 .. Len(data)
  BY DEF Edge
<1> HIDE DEF k
<1>2. CASE k < Len(data) /\ data[k + 1].mark = "closed"
  <2> DEFINE o == [data[k + 1] EXCEPT !.mark = "dead"]
  <2>1. data[k + 1] \in Objects /\ k + 1 \in 1 .. Len(data)
    BY <1>1, <1>2
  <2>2. o \in Objects /\ o.mark = "dead"
    BY <2>1 DEF Objects
  <2>3. data' = [data EXCEPT ![k + 1] = o]
    BY <1>2 DEF Kill, k
  <2> HIDE DEF o
  <2>4. /\ data' \in Seq(Objects) /\ Len(data') = Len(data) /\ data'[k + 1] = o
        /\ \A j \in 1 .. k : data'[j] = data[j]
    BY <1>1, <2>1, <2>2, <2>3, SetObject
  <2>5. Stops(data', k + 1)
    BY <2>2, <2>4 DEF Stops
  <2> QED
    BY <1>1, <2>4, <2>5, EdgeStays DEF k
<1>3. CASE ~(k < Len(data) /\ data[k + 1].mark = "closed")
  <2>1. data' = data
    BY <1>3 DEF Kill, k
  <2> QED
    BY <2>1
<1> QED
  BY <1>2, <1>3

(* The new object, open: the scan still ends before it. *)
LEMMA OpenKeeps ==
    ASSUME IInv, OpenObject
    PROVE  /\ data' \in Seq(Objects) /\ Len(data') = end + 1
           /\ data'[end + 1] = NewObject /\ NewObject \in Objects
           /\ \A i \in 1 .. end : data'[i] = data[i]
           /\ Edge(data', end) /\ ScanEnd(data') = end
<1>1. data \in Seq(Objects) /\ end = ScanEnd(data) /\ Edge(data, end)
  BY DEF IInv, Ends, Swaps, Setting, OpenObject, StoreTypeOK
<1>2. end \in 0 .. Len(data)
  BY <1>1 DEF Edge
<1>3. \A i \in Named(request.name) : data[i].id \in Nat
  <2> TAKE i \in Named(request.name)
  <2>1. data[i] \in Objects
    BY <1>1, <1>2 DEF Named
  <2> QED
    BY <2>1 DEF Objects
<1>4. NewId \in Nat
  <2>1. CASE Named(request.name) = {}
    BY <2>1 DEF NewId, IInv, StoreTypeOK
  <2>2. CASE Named(request.name) # {}
    <3>1. Named(request.name) \in SUBSET Nat
      BY DEF Named
    <3>2. First(Named(request.name)) \in Named(request.name)
      BY <2>2, <3>1, FirstIsLeast
    <3> QED
      BY <1>3, <2>2, <3>2 DEF NewId
  <2> QED
    BY <2>1, <2>2
<1>5. request \in Requests
  BY DEF IInv, StoreTypeOK, Calls, Setting, OpenObject
<1>6. NewObject \in Objects
  BY <1>4, <1>5 DEF NewObject, Objects, Requests
<1>7. /\ data' \in Seq(Objects) /\ Len(data') = end + 1 /\ data'[end + 1] = NewObject
      /\ \A i \in 1 .. end : data'[i] = data[i]
  BY <1>1, <1>2, <1>6, AddObject DEF OpenObject
<1>8. Stops(data', end + 1)
  BY <1>7 DEF Stops, NewObject
<1> QED
  BY <1>1, <1>2, <1>6, <1>7, <1>8, EdgeStays

(* What is known of the new object while it is written. *)
LEMMA WhileWriting ==
    ASSUME IInv, Writing
    PROVE  /\ data \in Seq(Objects) /\ Len(data) = end + 1 /\ end \in Nat
           /\ end = ScanEnd(data) /\ Edge(data, end) /\ desc # "valid"
           /\ data[end + 1] \in Objects /\ request \in Requests
<1>1. data \in Seq(Objects) /\ Len(data) = end + 1 /\ end \in Nat
  BY DEF IInv, Newest, StoreTypeOK
<1>2. desc # "valid"
  BY DEF IInv, Swaps, Writing
<1> QED
  BY <1>1, <1>2 DEF IInv, Ends, Setting, StoreTypeOK, Calls

LEMMA WriteKeeps ==
    ASSUME IInv, WriteObject
    PROVE  /\ data' \in Seq(Objects) /\ Len(data') = end + 1
           /\ data'[end + 1] = [data[end + 1] EXCEPT !.val = request.val]
           /\ \A i \in 1 .. end : data'[i] = data[i]
           /\ Edge(data', end) /\ ScanEnd(data') = end
<1> DEFINE o == [data[end + 1] EXCEPT !.val = request.val]
<1>1. Writing /\ pc = "write"
  BY DEF Writing, WriteObject
<1>2. o \in Objects /\ o.mark = data[end + 1].mark
  BY <1>1, WhileWriting DEF Objects, Requests
<1>3. data' = [data EXCEPT ![end + 1] = o]
  BY DEF WriteObject
<1> HIDE DEF o
<1>4. /\ data' \in Seq(Objects) /\ Len(data') = end + 1 /\ data'[end + 1] = o
      /\ \A i \in 1 .. end : data'[i] = data[i]
  BY <1>1, <1>2, <1>3, WhileWriting, SetObject
<1>5. Stops(data', end + 1)
  BY <1>1, <1>2, <1>4 DEF Stops, IInv, Newest
<1>6. Edge(data', end) /\ ScanEnd(data') = end
  BY <1>1, <1>4, <1>5, WhileWriting, EdgeStays
<1> QED
  BY <1>4, <1>6 DEF o

ClosedAs(v) == data' = [data EXCEPT ![end + 1] = [@ EXCEPT !.mark = "closed", !.val = v]]

(* The new object, closed: with val what it then reads as.  It counts at    *)
(* once, or hides behind the one it replaces.                              *)
LEMMA CloseKeeps ==
    ASSUME IInv, pc = "close", NEW v \in Values \cup {Bad},
           ClosedAs(v)
    PROVE  /\ data' \in Seq(Objects) /\ Len(data') = end + 1
           /\ data'[end + 1] = [data[end + 1] EXCEPT !.mark = "closed", !.val = v]
           /\ \A i \in 1 .. end : data'[i] = data[i]
           /\ Edge(data', ScanEnd(data'))
           /\ ScanEnd(data') = IF old = 0 THEN end + 1 ELSE end
<1> DEFINE o == [data[end + 1] EXCEPT !.mark = "closed", !.val = v]
<1>1. Writing
  BY DEF Writing
<1>2. o \in Objects /\ o.mark = "closed" /\ o.name = request.name /\ Active(o)
      /\ o.id = data[end + 1].id
  BY <1>1, WhileWriting DEF Objects, Active, IInv, Newest
<1>3. data' = [data EXCEPT ![end + 1] = o]
  BY DEF ClosedAs
<1> HIDE DEF o
<1>4. /\ data' \in Seq(Objects) /\ Len(data') = end + 1 /\ data'[end + 1] = o
      /\ \A i \in 1 .. end : data'[i] = data[i]
  BY <1>1, <1>2, <1>3, WhileWriting, SetObject
<1>5. Good(data, end) /\ end \in Nat
  BY <1>1, WhileWriting DEF Edge
<1>6. 1 .. (end + 1) = (1 .. end) \cup {end + 1}
  BY <1>5
<1>7. \A i \in 1 .. end : data[i].name = o.name <=> data[i].id = o.id
  BY <1>1, <1>2 DEF IInv, Newest
<1>8. CASE old = 0
  <2>1. \A i \in 1 .. end : data[i].id = o.id => ~Active(data[i])
    BY <1>1, <1>2, <1>7, <1>8 DEF IInv, Newest
  <2>2. \A i \in 1 .. (end + 1) : data'[i].mark = "closed"
    BY <1>2, <1>4, <1>5, <1>6 DEF Good
  <2>3. \A i, j \in 1 .. (end + 1) : data'[i].name = data'[j].name <=> data'[i].id = data'[j].id
    BY <1>4, <1>5, <1>6, <1>7 DEF Good
  <2>4. \A i, j \in 1 .. (end + 1) :
            Active(data'[i]) /\ Active(data'[j]) /\ data'[i].id = data'[j].id => i = j
    BY <1>4, <1>5, <1>6, <2>1 DEF Good
  <2>5. Edge(data', end + 1)
    BY <1>4, <1>5, <2>2, <2>3, <2>4 DEF Edge, Good
  <2> QED
    BY <1>4, <1>8, <2>5, ScanAt DEF o
<1>9. CASE old # 0
  <2>1. old \in 1 .. end /\ Active(data[old]) /\ data[old].id = o.id
    BY <1>1, <1>2, <1>7, <1>9 DEF IInv, Newest
  <2>2. Double(data', end + 1)
    BY <1>2, <1>4, <1>5, <2>1 DEF Double
  <2>3. Edge(data', end) /\ ScanEnd(data') = end
    BY <1>1, <1>4, <2>2, WhileWriting, EdgeStays DEF Stops
  <2> QED
    BY <1>4, <1>9, <2>3 DEF o
<1> QED
  BY <1>8, <1>9

LEMMA RetireKeeps ==
    ASSUME IInv, RetireOld
    PROVE  /\ data' \in Seq(Objects) /\ Len(data') = end + 1
           /\ old \in 1 .. end
           /\ data'[old] = [data[old] EXCEPT !.flag = "inactive"]
           /\ \A i \in 1 .. (end + 1) : i # old => data'[i] = data[i]
           /\ Edge(data', end + 1) /\ ScanEnd(data') = end + 1
<1> DEFINE o == [data[old] EXCEPT !.flag = "inactive"]
<1>1. Writing /\ pc = "retire"
  BY DEF Writing, RetireOld
<1>2. old \in 1 .. end /\ Active(data[old]) /\ data[old].name = request.name
  BY <1>1 DEF IInv, Newest
<1>3. Good(data, end) /\ end \in Nat
  BY <1>1, WhileWriting DEF Edge
<1>4. data[old] \in Objects
  BY <1>1, <1>2, <1>3, WhileWriting
<1>5. /\ o \in Objects /\ ~Active(o)
      /\ o.mark = data[old].mark /\ o.name = data[old].name /\ o.id = data[old].id
  BY <1>4 DEF Objects, Active
<1>6. data' = [data EXCEPT ![old] = o]
  BY DEF RetireOld
<1> HIDE DEF o
<1>7. old \in 1 .. Len(data) /\ old # end + 1
  BY <1>1, <1>2, <1>3, WhileWriting
<1>8. /\ data' \in Seq(Objects) /\ Len(data') = end + 1 /\ data'[old] = o
      /\ \A i \in 1 .. (end + 1) : i # old => data'[i] = data[i]
  BY <1>1, <1>5, <1>6, <1>7, WhileWriting, SetObject
<1>9. 1 .. (end + 1) = (1 .. end) \cup {end + 1}
  BY <1>3
<1>10. /\ \A i \in 1 .. (end + 1) : /\ data'[i].name = data[i].name /\ data'[i].id = data[i].id
                                    /\ data'[i].mark = data[i].mark
                                    /\ Active(data'[i]) <=> i # old /\ Active(data[i])
  BY <1>2, <1>5, <1>8
<1>11. /\ data[end + 1].mark = "closed"
       /\ \A i \in 1 .. end : data[i].name = data[end + 1].name <=> data[i].id = data[end + 1].id
  BY <1>1 DEF IInv, Newest
<1>12. \A i \in 1 .. end : Active(data[i]) /\ data[i].id = data[end + 1].id => i = old
  <2> TAKE i \in 1 .. end
  <2> HAVE Active(data[i]) /\ data[i].id = data[end + 1].id
  <2>1. data[i].name = data[old].name
    BY <1>1, <1>2 DEF IInv, Newest
  <2> QED
    BY <1>2, <1>3, <2>1 DEF Good
<1>13. \A i \in 1 .. (end + 1) : data'[i].mark = "closed"
  BY <1>3, <1>9, <1>10, <1>11 DEF Good
<1>14. \A i, j \in 1 .. (end + 1) : data'[i].name = data'[j].name <=> data'[i].id = data'[j].id
  BY <1>3, <1>9, <1>10, <1>11 DEF Good
<1>15. \A i, j \in 1 .. (end + 1) :
           Active(data'[i]) /\ Active(data'[j]) /\ data'[i].id = data'[j].id => i = j
  BY <1>3, <1>9, <1>10, <1>12 DEF Good
<1>16. Edge(data', end + 1)
  BY <1>3, <1>8, <1>13, <1>14, <1>15 DEF Edge, Good
<1> QED
  BY <1>2, <1>8, <1>16, ScanAt DEF o

LEMMA CutKeeps ==
    ASSUME IInv, CutCommand
    PROVE  /\ data' \in Seq(Objects) /\ swap' \in Seq(Objects) /\ desc' = desc
           /\ desc # "valid" => Edge(data', ScanEnd(data'))
           /\ desc = "valid" => swap' = swap
           /\ desc # "valid" => \/ pc = "close" /\ ClosedAs(Bad)
                               \/ /\ ScanEnd(data') = ScanEnd(data)
                                  /\ \A i \in 1 .. ScanEnd(data) : data'[i] = data[i]
<1>1. /\ data \in Seq(Objects) /\ swap \in Seq(Objects)
      /\ desc # "valid" => Edge(data, ScanEnd(data))
  BY DEF IInv, StoreTypeOK, Ends
<1>2. CASE UNCHANGED flash
  <2>1. data' = data /\ swap' = swap /\ desc' = desc
    BY <1>2 DEF flash
  <2> QED
    BY <1>1, <2>1
<1>3. CASE pc = "open" /\ data' = Append(SubSeq(data, 1, end), Torn) /\ UNCHANGED <<swap, desc>>
  <2>1. end = ScanEnd(data) /\ Edge(data, end) /\ end \in 0 .. Len(data)
    BY <1>1, <1>3 DEF IInv, Ends, Swaps, Setting, Edge
  <2>2. /\ data' \in Seq(Objects) /\ Len(data') = end + 1 /\ data'[end + 1] = Torn
        /\ \A i \in 1 .. end : data'[i] = data[i]
    BY <1>1, <1>3, <2>1, TornObject, AddObject
  <2>3. Stops(data', end + 1)
    BY <2>2 DEF Stops, Torn
  <2>4. Edge(data', end) /\ ScanEnd(data') = end
    BY <1>1, <2>1, <2>2, <2>3, EdgeStays
  <2> QED
    BY <1>1, <1>3, <2>1, <2>2, <2>4
<1>4. CASE pc = "close" /\ ClosedAs(Bad) /\ UNCHANGED <<swap, desc>>
  BY <1>1, <1>4, CloseKeeps
<1>5. CASE pc \in {"eraseData", "toData"} /\ UNCHANGED <<swap, desc>> /\ data' \in Seq(Objects)
  BY <1>1, <1>5 DEF IInv, Swaps
<1>6. CASE pc \notin {"eraseData", "toData"} /\ UNCHANGED <<data, desc>> /\ swap' \in Seq(Objects)
  <2>1. CASE pc = "boot"
    BY <1>2, <1>6, <2>1 DEF CutCommand
  <2>2. CASE pc # "boot"
    BY <1>1, <1>6, <2>2 DEF IInv, Swaps
  <2> QED
    BY <2>1, <2>2
<1>7. /\ <<Torn>> \in Seq(Objects) /\ Append(swap, Torn) \in Seq(Objects)
      /\ Append(data, Torn) \in Seq(Objects) /\ <<>> \in Seq(Objects)
  BY <1>1, TornObject
<1> QED
  BY <1>2, <1>3, <1>4, <1>5, <1>6, <1>7 DEF CutCommand, ClosedAs

-----------------------------------------------------------------------------
(* Every step. *)

LEMMA InitHolds == Init => IInv
<1> SUFFICES ASSUME Init PROVE IInv
  OBVIOUS
<1>1. data = <<>> /\ data \in Seq(Objects) /\ Len(data) = 0 /\ swap \in Seq(Objects)
  BY DEF Init
<1>2. Edge(data, 0)
  BY <1>1 DEF Edge, Good
<1>3. ScanEnd(data) = 0
  BY <1>1, <1>2, ScanAt
<1>4. StoreTypeOK
  BY <1>1 DEF Init, StoreTypeOK
<1>5. Ends
  BY <1>1, <1>2, <1>3 DEF Init, Ends, Setting, Writing, Asked
<1> QED
  BY <1>4, <1>5 DEF Init, IInv, Swaps, Calls, Ids, Newest, Setting, Writing, Asked

(* A scan, at power-up or after a recovery. *)
LEMMA ScanKeeps ==
    ASSUME IInv, desc # "valid", Scan, Kill
    PROVE  /\ data' \in Seq(Objects) /\ Len(data') = Len(data)
           /\ end' \in Nat /\ highest' \in Nat
           /\ Edge(data', ScanEnd(data')) /\ end' = ScanEnd(data') /\ end' = ScanEnd(data)
           /\ \A i \in 1 .. end' : data'[i].id <= highest' /\ data'[i] = data[i]
<1>1. data \in Seq(Objects) /\ Edge(data, ScanEnd(data))
  BY DEF IInv, StoreTypeOK, Ends
<1>2. ScanEnd(data) \in 0 .. Len(data)
  BY <1>1 DEF Edge
<1>3. \A i \in 1 .. ScanEnd(data) : data[i].id \in Nat
  <2> TAKE i \in 1 .. ScanEnd(data)
  <2>1. data[i] \in Objects
    BY <1>1, <1>2
  <2> QED
    BY <2>1 DEF Objects
<1>4. highest' \in Nat
  BY <1>3 DEF Scan
<1> QED
  BY <1>1, <1>2, <1>4, KillKeeps DEF Scan

(* The steps of a compaction and of a recovery. *)
LEMMA RecoveryKeeps ==
    ASSUME IInv, Recovery
    PROVE  IInv'
<1> USE DEF IInv
<1>1. CASE BootToData
  <2>1. pc = "boot" /\ desc = "valid" /\ pc' = "eraseData"
        /\ UNCHANGED <<data, swap, desc, end, highest, old, copied, request, told>>
    BY <1>1 DEF BootToData
  <2> QED
    BY <2>1 DEF StoreTypeOK, Ends, Swaps, Calls, Ids, Newest, Setting, Writing, Asked
<1>2. CASE BootScan
  <2>1. pc = "boot" /\ desc # "valid" /\ Scan /\ Kill
        /\ UNCHANGED <<swap, desc, old, copied, request, told>>
        /\ pc' = IF ScanEnd(data) < Len(data) THEN "eraseSwap"
                 ELSE (IF desc = "clean" THEN "idle" ELSE "finalErase")
    BY <1>2 DEF BootScan
  <2>2. /\ data' \in Seq(Objects) /\ Len(data') = Len(data)
        /\ end' \in Nat /\ highest' \in Nat
        /\ Edge(data', ScanEnd(data')) /\ end' = ScanEnd(data') /\ end' = ScanEnd(data)
        /\ \A i \in 1 .. end' : data'[i].id <= highest'
    BY <2>1, ScanKeeps
  <2>3. ScanEnd(data) <= Len(data)
    BY <2>1 DEF Ends, Edge
  <2>4. request = NoReq
    BY <2>1 DEF Calls
  <2>5. StoreTypeOK'
    BY <2>1, <2>2 DEF StoreTypeOK
  <2>6. Ends'
    BY <2>1, <2>2, <2>3, <2>4 DEF Ends, Setting, Writing, Asked, StoreTypeOK
  <2>7. Swaps' /\ Calls' /\ Newest'
    BY <2>1, <2>4 DEF Swaps, Calls, Newest, Setting, Writing, StoreTypeOK
  <2>8. Ids'
    BY <2>1, <2>2, <2>4 DEF Ids, Writing, Asked
  <2> QED
    BY <2>5, <2>6, <2>7, <2>8
<1>3. CASE EraseSwap
  <2>1. pc = "eraseSwap" /\ swap' = <<>> /\ desc' = "clean" /\ pc' = "writeOffset"
        /\ UNCHANGED <<data, end, highest, old, copied, request, told>>
    BY <1>3 DEF EraseSwap
  <2>2. swap' \in Seq(Objects) /\ desc # "valid"
    BY <2>1 DEF Swaps
  <2> QED
    BY <2>1, <2>2 DEF StoreTypeOK, Ends, Swaps, Calls, Ids, Newest, Setting, Writing, Asked
<1>4. CASE WriteOffset
  <2>1. pc = "writeOffset" /\ desc' = "offset" /\ copied' = 0 /\ pc' = "toSwap"
        /\ UNCHANGED <<data, swap, end, highest, old, request, told>>
    BY <1>4 DEF WriteOffset
  <2>2. desc # "valid" /\ Copied(data, 0, swap)
    BY <2>1, CopyNothing DEF Swaps
  <2> QED
    BY <2>1, <2>2 DEF StoreTypeOK, Ends, Swaps, Calls, Ids, Newest, Setting, Writing, Asked
<1>5. CASE CopyToSwap
  <2>1. pc = "toSwap" /\ copied < end /\ swap' = CopyInto(swap, data[copied + 1])
        /\ copied' = copied + 1
        /\ UNCHANGED <<data, desc, pc, end, highest, old, request, told>>
    BY <1>5 DEF CopyToSwap
  <2>2. desc # "valid" /\ Edge(data, end) /\ Copied(data, copied, swap)
    BY <2>1 DEF Swaps, Ends
  <2>3. data \in Seq(Objects) /\ swap \in Seq(Objects) /\ copied \in Nat /\ end \in Nat
    BY DEF StoreTypeOK
  <2>4. Good(data, end) /\ end \in 0 .. Len(data)
    BY <2>2 DEF Edge
  <2>5. Copied(data, copied', swap')
    BY <2>1, <2>2, <2>3, <2>4, CopyStep
  <2>6. data[copied + 1] \in Objects
    BY <2>1, <2>3, <2>4
  <2>7. swap' \in Seq(Objects)
    BY <2>1, <2>3, <2>6, CopyTypes
  <2>8. copied' \in Nat /\ copied' <= end
    BY <2>1, <2>3
  <2> HIDE DEF IInv
  <2>9. StoreTypeOK /\ Ends /\ Swaps /\ Calls /\ Ids /\ Newest
    BY DEF IInv
  <2>10. StoreTypeOK'
    BY <2>1, <2>7, <2>8, <2>9 DEF StoreTypeOK
  <2>11. Ends' /\ Calls' /\ Ids' /\ Newest'
    BY <2>1, <2>9 DEF Ends, Calls, Ids, Newest, Setting, Writing, Asked
  <2>12. Swaps'
    BY <2>1, <2>2, <2>5, <2>8 DEF Swaps
  <2> QED
    BY <2>10, <2>11, <2>12 DEF IInv
<1>6. CASE CopyFails
  <2>1. pc = "toSwap" /\ UNCHANGED <<data, swap, desc, end, highest, old, copied>>
        /\ IF request # NoReq
           THEN pc' = "idle" /\ request' = NoReq /\ told' = "error"
           ELSE pc' = "failed" /\ UNCHANGED <<request, told>>
    BY <1>6 DEF CopyFails
  <2>2. desc # "valid"
    BY <2>1 DEF Swaps
  <2> QED
    BY <2>1, <2>2 DEF StoreTypeOK, Ends, Swaps, Calls, Ids, Newest, Setting, Writing, Asked
<1>7. CASE WriteMarker
  <2>1. pc = "toSwap" /\ copied = end /\ desc' = "valid" /\ pc' = "eraseData"
        /\ UNCHANGED <<data, swap, end, highest, old, copied, request, told>>
    BY <1>7 DEF WriteMarker
  <2>2. desc # "valid" /\ Edge(data, end) /\ Copied(data, end, swap)
    BY <2>1 DEF Swaps, Ends
  <2>3. Good(swap, Len(swap)) /\ NoneBad(swap)
    BY <2>2, CopiedGood DEF StoreTypeOK, Edge
  <2> QED
    BY <2>1, <2>3 DEF StoreTypeOK, Ends, Swaps, Calls, Ids, Newest, Setting, Writing, Asked
<1>8. CASE EraseData
  <2>1. pc = "eraseData" /\ data' = <<>> /\ copied' = 0 /\ pc' = "toData"
        /\ UNCHANGED <<swap, desc, end, highest, old, request, told>>
    BY <1>8 DEF EraseData
  <2>2. desc = "valid" /\ data' \in Seq(Objects) /\ Copied(swap, 0, data')
    BY <2>1, CopyNothing DEF Swaps
  <2>3. Len(swap) \in Nat
    BY DEF StoreTypeOK
  <2> QED
    BY <2>1, <2>2, <2>3 DEF StoreTypeOK, Ends, Swaps, Calls, Ids, Newest, Setting, Writing, Asked
<1>9. CASE CopyToData
  <2>1. pc = "toData" /\ copied < Len(swap) /\ data' = CopyInto(data, swap[copied + 1])
        /\ copied' = copied + 1
        /\ UNCHANGED <<swap, desc, pc, end, highest, old, request, told>>
    BY <1>9 DEF CopyToData
  <2>2. desc = "valid" /\ Good(swap, Len(swap)) /\ Copied(swap, copied, data)
    BY <2>1 DEF Swaps
  <2>3. data \in Seq(Objects) /\ swap \in Seq(Objects) /\ copied \in Nat /\ Len(swap) \in Nat
    BY DEF StoreTypeOK
  <2>4. Copied(swap, copied', data')
    BY <2>1, <2>2, <2>3, CopyStep
  <2>5. swap[copied + 1] \in Objects
    BY <2>1, <2>3
  <2>6. data' \in Seq(Objects)
    BY <2>1, <2>3, <2>5, CopyTypes
  <2>7. copied' \in Nat /\ copied' <= Len(swap)
    BY <2>1, <2>3
  <2> HIDE DEF IInv
  <2>8. StoreTypeOK /\ Ends /\ Swaps /\ Calls /\ Ids /\ Newest
    BY DEF IInv
  <2>9. StoreTypeOK'
    BY <2>1, <2>6, <2>7, <2>8 DEF StoreTypeOK
  <2>10. Ends' /\ Calls' /\ Ids' /\ Newest'
    BY <2>1, <2>2, <2>8 DEF Ends, Calls, Ids, Newest, Setting, Writing, Asked
  <2>11. Swaps'
    BY <2>1, <2>2, <2>4, <2>7, <2>8 DEF Swaps
  <2> QED
    BY <2>9, <2>10, <2>11 DEF IInv
<1>10. CASE InvalidateSwap
  <2>1. pc = "toData" /\ copied = Len(swap) /\ desc' = "zero" /\ pc' = "finalErase"
        /\ UNCHANGED <<data, swap, end, highest, old, copied, request, told>>
    BY <1>10 DEF InvalidateSwap
  <2>2. Good(swap, Len(swap)) /\ Copied(swap, Len(swap), data)
    BY <2>1 DEF Swaps
  <2>3. data \in Seq(Objects) /\ swap \in Seq(Objects) /\ Len(swap) \in Nat /\ Len(data) \in Nat
    BY DEF StoreTypeOK
  <2>4. Good(data, Len(data))
    BY <2>2, <2>3, CopiedGood
  <2>5. Edge(data, Len(data))
    BY <2>3, <2>4 DEF Edge
  <2>6. ScanEnd(data) = Len(data)
    BY <2>3, <2>5, ScanAt
  <2> QED
    BY <2>1, <2>5, <2>6 DEF StoreTypeOK, Ends, Swaps, Calls, Ids, Newest, Setting, Writing, Asked
<1>11. CASE FinalErase
  <2>1. pc = "finalErase" /\ swap' = <<>> /\ desc' = "clean" /\ pc' = "scan"
        /\ UNCHANGED <<data, end, highest, old, copied, request, told>>
    BY <1>11 DEF FinalErase
  <2>2. swap' \in Seq(Objects) /\ desc # "valid"
    BY <2>1 DEF Swaps
  <2> QED
    BY <2>1, <2>2 DEF StoreTypeOK, Ends, Swaps, Calls, Ids, Newest, Setting, Writing, Asked
<1>12. CASE Rescan
  <2>1. pc = "scan" /\ Scan /\ Kill
        /\ UNCHANGED <<swap, desc, old, copied, request, told>>
        /\ pc' = IF ScanEnd(data) < Len(data) THEN "failed"
                 ELSE (IF request = NoReq THEN "idle" ELSE "open")
    BY <1>12 DEF Rescan
  <2>2. desc # "valid" /\ ScanEnd(data) = Len(data)
    BY <2>1 DEF Swaps, Ends
  <2>3. /\ data' \in Seq(Objects) /\ Len(data') = Len(data)
        /\ end' \in Nat /\ highest' \in Nat
        /\ Edge(data', ScanEnd(data')) /\ end' = ScanEnd(data') /\ end' = ScanEnd(data)
        /\ \A i \in 1 .. end' : data'[i].id <= highest'
    BY <2>1, <2>2, ScanKeeps
  <2>4. StoreTypeOK'
    BY <2>1, <2>3 DEF StoreTypeOK
  <2>5. Ends'
    BY <2>1, <2>2, <2>3 DEF Ends, Setting, Writing, Asked
  <2>6. Swaps' /\ Calls' /\ Newest'
    BY <2>1, <2>2, <2>3 DEF Swaps, Calls, Newest, Setting, Writing
  <2>7. Ids'
    BY <2>1, <2>3 DEF Ids, Writing, Asked
  <2> QED
    BY <2>4, <2>5, <2>6, <2>7
<1> QED
  BY <1>1, <1>2, <1>3, <1>4, <1>5, <1>6, <1>7, <1>8, <1>9, <1>10, <1>11, <1>12 DEF Recovery

(* The steps of psm_set_variable. *)
LEMMA SetKeeps ==
    ASSUME IInv, SetVariable
    PROVE  IInv'
<1>0. StoreTypeOK /\ Ends /\ Swaps /\ Calls /\ Ids /\ Newest
  BY DEF IInv
<1>1. CASE OpenObject
  <2>1. pc = "open" /\ pc' = "write" /\ UNCHANGED <<swap, desc, end, copied, request, told>>
        /\ old' = (IF ActiveOf(request.name) = {} THEN 0 ELSE First(ActiveOf(request.name)))
        /\ highest' = IF NewId > highest THEN NewId ELSE highest
    BY <1>1 DEF OpenObject
  <2>2. /\ data' \in Seq(Objects) /\ Len(data') = end + 1
        /\ data'[end + 1] = NewObject /\ NewObject \in Objects
        /\ \A i \in 1 .. end : data'[i] = data[i]
        /\ Edge(data', end) /\ ScanEnd(data') = end
    BY <1>1, OpenKeeps
  <2>3. /\ NewObject.name = request.name /\ NewObject.id = NewId
        /\ NewObject.mark = "open" /\ Active(NewObject)
    BY DEF NewObject, Active
  <2>4. NewId \in Nat
    BY <2>2, <2>3 DEF Objects
  <2>5. desc # "valid" /\ Good(data, end) /\ end \in Nat /\ request # NoReq
    BY <1>0, <2>1 DEF Ends, Swaps, Calls, Setting, Edge, StoreTypeOK
  <2>6. /\ \A i \in 1 .. end : data[i].name = request.name <=> data[i].id = NewId
        /\ \A i \in 1 .. end : Active(data[i]) /\ data[i].name = request.name
                                => i \in ActiveOf(request.name)
        /\ \A i \in ActiveOf(request.name) :
               i \in 1 .. end /\ Active(data[i]) /\ data[i].name = request.name
    <3>1. CASE Named(request.name) = {}
      <4>1. \A i \in 1 .. end : data[i].name # request.name
        BY <3>1 DEF Named
      <4>2. NewId = highest + 1 /\ ActiveOf(request.name) = {}
        BY <3>1 DEF NewId, ActiveOf
      <4>3. \A i \in 1 .. end : data[i].id <= highest
        BY <1>0, <2>1 DEF Ids
      <4>4. \A i \in 1 .. end : data[i].id # highest + 1
        <5> TAKE i \in 1 .. end
        <5>1. data[i] \in Objects
          BY <1>0, <2>1, <2>5 DEF StoreTypeOK, Ends, Edge, Setting
        <5>2. data[i].id \in Nat /\ highest \in Nat
          BY <1>0, <5>1 DEF Objects, StoreTypeOK
        <5> QED
          BY <4>3, <5>2
      <4> QED
        BY <4>1, <4>2, <4>4
    <3>2. CASE Named(request.name) # {}
      <4> DEFINE f == First(Named(request.name))
      <4>1. Named(request.name) \in SUBSET Nat
        BY <2>5 DEF Named
      <4>2. f \in Named(request.name) /\ \A i \in Named(request.name) : f <= i
        BY <3>2, <4>1, FirstIsLeast
      <4>3. f \in 1 .. end /\ data[f].name = request.name
        BY <4>2 DEF Named
      <4>4. /\ NewId = data[f].id
            /\ ActiveOf(request.name) = {i \in f .. end : Active(data[i]) /\ data[i].id = data[f].id}
        BY <3>2 DEF NewId, ActiveOf
      <4> HIDE DEF f
      <4>5. \A i \in 1 .. end : data[i].name = request.name <=> data[i].id = NewId
        BY <2>5, <4>3, <4>4 DEF Good
      <4>6. \A i \in 1 .. end : data[i].name = request.name => i \in f .. end
        <5> TAKE i \in 1 .. end
        <5> HAVE data[i].name = request.name
        <5>1. i \in Named(request.name)
          BY DEF Named
        <5> QED
          BY <2>5, <4>2, <4>3, <5>1
      <4>7. f .. end \subseteq 1 .. end
        BY <4>3
      <4> QED
        BY <4>4, <4>5, <4>6, <4>7
    <3> QED
      BY <3>1, <3>2
  <2>7. ActiveOf(request.name) # {} => First(ActiveOf(request.name)) \in ActiveOf(request.name)
    <3>1. ActiveOf(request.name) \in SUBSET Nat
      BY <2>6
    <3> QED
      BY <3>1, FirstIsLeast
  <2>8. /\ old' \in Nat
        /\ old' = 0 => \A i \in 1 .. end : data[i].name = request.name => ~Active(data[i])
        /\ old' # 0 => old' \in 1 .. end /\ Active(data[old']) /\ data[old'].name = request.name
    BY <2>1, <2>5, <2>6, <2>7
  <2>9. StoreTypeOK'
    BY <1>0, <2>1, <2>2, <2>4, <2>8 DEF StoreTypeOK
  <2>10. Ends' /\ Swaps' /\ Calls'
    BY <1>0, <2>1, <2>2, <2>5 DEF Ends, Swaps, Calls, Setting, Writing, Asked
  <2>11. Ids'
    <3>1. \A i \in 1 .. end : data[i].id <= highest /\ data[i].id \in Nat
      <4> TAKE i \in 1 .. end
      <4>1. data[i] \in Objects
        BY <1>0, <2>1, <2>5 DEF StoreTypeOK, Ends, Edge, Setting
      <4> QED
        BY <1>0, <2>1, <4>1 DEF Ids, Objects
    <3>2. highest \in Nat
      BY <1>0 DEF StoreTypeOK
    <3>3. \A i \in 1 .. (end + 1) : data'[i].id <= highest'
      <4> TAKE i \in 1 .. (end + 1)
      <4>1. CASE i = end + 1
        BY <2>1, <2>2, <2>3, <2>4, <3>2, <4>1
      <4>2. CASE i \in 1 .. end
        BY <2>1, <2>2, <2>4, <3>1, <3>2, <4>2
      <4> QED
        BY <2>5, <4>1, <4>2
    <3> QED
      BY <2>1, <3>3 DEF Ids, Asked
  <2>12. Newest'
    <3>1. \A i \in 1 .. end : data'[i].name = request.name <=> data'[i].id = NewId
      BY <2>2, <2>6
    <3>2. old' # 0 => Active(data'[old']) /\ data'[old'].name = request.name
      BY <2>2, <2>8
    <3>3. old' = 0 => \A i \in 1 .. end : data'[i].name = request.name => ~Active(data'[i])
      BY <2>2, <2>8
    <3> QED
      BY <2>1, <2>2, <2>3, <2>8, <3>1, <3>2, <3>3 DEF Newest
  <2> QED
    BY <2>9, <2>10, <2>11, <2>12 DEF IInv
<1>2. CASE WriteObject
  <2>1. pc = "write" /\ pc' = "close" /\ Writing
        /\ UNCHANGED <<swap, desc, end, highest, old, copied, request, told>>
    BY <1>2 DEF WriteObject, Writing
  <2>2. /\ data' \in Seq(Objects) /\ Len(data') = end + 1
        /\ data'[end + 1] = [data[end + 1] EXCEPT !.val = request.val]
        /\ \A i \in 1 .. end : data'[i] = data[i]
        /\ Edge(data', end) /\ ScanEnd(data') = end
    BY <1>2, WriteKeeps
  <2>3. data[end + 1] \in Objects /\ end \in Nat /\ desc # "valid"
    BY <2>1, WhileWriting
  <2>4. /\ data'[end + 1].name = data[end + 1].name /\ data'[end + 1].id = data[end + 1].id
        /\ data'[end + 1].val = request.val /\ data'[end + 1].mark = data[end + 1].mark
        /\ Active(data'[end + 1]) <=> Active(data[end + 1])
    BY <2>2, <2>3 DEF Objects, Active
  <2>5. StoreTypeOK' /\ Swaps' /\ Calls'
    BY <1>0, <2>1, <2>2, <2>3 DEF StoreTypeOK, Swaps, Calls, Setting, Writing
  <2>6. Ends'
    BY <1>0, <2>1, <2>2 DEF Ends, Setting, Writing, Asked
  <2>7. \A i \in 1 .. (end + 1) : data'[i].id <= highest
    <3> TAKE i \in 1 .. (end + 1)
    <3>1. data'[i].id = data[i].id
      <4>1. CASE i = end + 1
        BY <2>4, <4>1
      <4>2. CASE i \in 1 .. end
        BY <2>2, <4>2
      <4> QED
        BY <2>2, <2>3, <4>1, <4>2
    <3> QED
      BY <1>0, <2>1, <3>1 DEF Ids
  <2>8. Ids'
    BY <2>1, <2>7 DEF Ids, Asked
  <2>9. Newest'
    BY <1>0, <2>1, <2>2, <2>4 DEF Newest, Writing
  <2> QED
    BY <2>5, <2>6, <2>8, <2>9 DEF IInv
<1>3. CASE CloseObject
  <2>1. pc = "close" /\ Writing /\ UNCHANGED <<swap, desc, highest, old, copied>>
        /\ data' = [data EXCEPT ![end + 1].mark = "closed"]
        /\ IF old = 0 THEN Return ELSE pc' = "retire" /\ UNCHANGED <<end, request, told>>
    BY <1>3 DEF CloseObject, Writing
  <2>2. /\ data \in Seq(Objects) /\ Len(data) = end + 1 /\ end \in Nat /\ desc # "valid"
        /\ data[end + 1] \in Objects /\ request \in Requests
    BY <2>1, WhileWriting
  <2>3. data[end + 1].val = request.val /\ request.val \in Values
    BY <1>0, <2>1, <2>2 DEF Newest, Requests
  <2>4. ClosedAs(request.val)
    <3>1. [data[end + 1] EXCEPT !.mark = "closed", !.val = request.val]
            = [data[end + 1] EXCEPT !.mark = "closed"]
      BY <2>2, <2>3 DEF Objects
    <3> QED
      BY <2>1, <3>1 DEF ClosedAs
  <2>5. /\ data' \in Seq(Objects) /\ Len(data') = end + 1
        /\ data'[end + 1] = [data[end + 1] EXCEPT !.mark = "closed", !.val = request.val]
        /\ \A i \in 1 .. end : data'[i] = data[i]
        /\ Edge(data', ScanEnd(data'))
        /\ ScanEnd(data') = IF old = 0 THEN end + 1 ELSE end
    BY <2>1, <2>3, <2>4, CloseKeeps
  <2>6. /\ data'[end + 1].name = data[end + 1].name /\ data'[end + 1].id = data[end + 1].id
        /\ data'[end + 1].val = request.val /\ data'[end + 1].mark = "closed"
        /\ Active(data'[end + 1]) <=> Active(data[end + 1])
    BY <2>2, <2>5 DEF Objects, Active
  <2>7. \A i \in 1 .. (end + 1) : data'[i].id <= highest
    <3> TAKE i \in 1 .. (end + 1)
    <3>1. data'[i].id = data[i].id
      <4>1. CASE i = end + 1
        BY <2>6, <4>1
      <4>2. CASE i \in 1 .. end
        BY <2>5, <4>2
      <4> QED
        BY <2>2, <4>1, <4>2
    <3> QED
      BY <1>0, <2>1, <3>1 DEF Ids
  <2>8. CASE old = 0
    <3>1. end' = end + 1 /\ pc' = "idle" /\ request' = NoReq /\ told' = "ok"
      BY <2>1, <2>8 DEF Return
    <3>2. ScanEnd(data') = end + 1
      BY <2>5, <2>8
    <3>3. StoreTypeOK' /\ Swaps' /\ Calls'
      BY <1>0, <2>1, <2>2, <2>5, <3>1 DEF StoreTypeOK, Swaps, Calls, Setting, Writing
    <3>4. Ends'
      BY <2>5, <3>1, <3>2 DEF Ends, Setting, Writing, Asked
    <3>5. Ids' /\ Newest'
      BY <2>1, <2>7, <3>1 DEF Ids, Newest, Asked, Writing
    <3> QED
      BY <3>3, <3>4, <3>5 DEF IInv
  <2>9. CASE old # 0
    <3>1. pc' = "retire" /\ UNCHANGED <<end, request, told>>
      BY <2>1, <2>9
    <3>2. ScanEnd(data') = end
      BY <2>5, <2>9
    <3>3. StoreTypeOK' /\ Swaps' /\ Calls'
      BY <1>0, <2>1, <2>2, <2>5, <3>1 DEF StoreTypeOK, Swaps, Calls, Setting, Writing
    <3>4. Ends'
      BY <2>5, <3>1, <3>2 DEF Ends, Setting, Writing, Asked
    <3>5. Ids'
      BY <2>1, <2>7, <3>1 DEF Ids, Asked
    <3>6. Newest'
      BY <1>0, <2>1, <2>5, <2>6, <2>9, <3>1 DEF Newest, Writing
    <3> QED
      BY <3>3, <3>4, <3>5, <3>6 DEF IInv
  <2> QED
    BY <2>8, <2>9
<1>4. CASE RetireOld
  <2>1. pc = "retire" /\ Writing /\ UNCHANGED <<swap, desc, highest, old, copied>>
        /\ end' = end + 1 /\ pc' = "idle" /\ request' = NoReq /\ told' = "ok"
    BY <1>4 DEF RetireOld, Return, Writing
  <2>2. /\ data \in Seq(Objects) /\ Len(data) = end + 1 /\ end \in Nat /\ desc # "valid"
    BY <2>1, WhileWriting
  <2>3. /\ data' \in Seq(Objects) /\ Len(data') = end + 1
        /\ old \in 1 .. end
        /\ data'[old] = [data[old] EXCEPT !.flag = "inactive"]
        /\ \A i \in 1 .. (end + 1) : i # old => data'[i] = data[i]
        /\ Edge(data', end + 1) /\ ScanEnd(data') = end + 1
    BY <1>4, RetireKeeps
  <2>4. \A i \in 1 .. (end + 1) : data'[i].id <= highest
    <3> TAKE i \in 1 .. (end + 1)
    <3>1. data[old] \in Objects
      BY <2>2, <2>3
    <3>2. data'[old].id = data[old].id
      BY <2>3, <3>1 DEF Objects
    <3>3. data'[i].id = data[i].id
      BY <2>3, <3>2
    <3> QED
      BY <1>0, <2>1, <3>3 DEF Ids
  <2>5. StoreTypeOK' /\ Swaps' /\ Calls'
    BY <1>0, <2>1, <2>2, <2>3 DEF StoreTypeOK, Swaps, Calls, Setting, Writing
  <2>6. Ends' /\ Ids' /\ Newest'
    BY <2>1, <2>3, <2>4 DEF Ends, Ids, Newest, Setting, Writing, Asked
  <2> QED
    BY <2>5, <2>6 DEF IInv
<1> QED
  BY <1>1, <1>2, <1>3, <1>4 DEF SetVariable

LEMMA NextKeeps == IInv /\ [Next]_vars => IInv'
<1> SUFFICES ASSUME IInv, [Next]_vars PROVE IInv'
  OBVIOUS
<1>0. StoreTypeOK /\ Ends /\ Swaps /\ Calls /\ Ids /\ Newest
  BY DEF IInv
<1>1. ASSUME NEW r \in Requests, SetFits(r) \/ SetCompacts(r)
      PROVE  IInv'
  <2>1. /\ pc = "idle" /\ request' = r /\ told' = "none" /\ pc' \in {"open", "eraseSwap"}
        /\ UNCHANGED <<data, swap, desc, end, highest, old, copied>>
    BY <1>1 DEF SetFits, SetCompacts
  <2>2. r # NoReq /\ desc # "valid"
    BY <1>0, <2>1, NoReqAssumption DEF Requests, Swaps
  <2> QED
    BY <1>0, <2>1, <2>2 DEF IInv, StoreTypeOK, Ends, Swaps, Calls, Ids, Newest, Setting, Writing, Asked
<1>2. CASE SetRefused
  <2>1. told' = "error" /\ UNCHANGED <<data, swap, desc, pc, end, highest, old, copied, request>>
    BY <1>2 DEF SetRefused
  <2> QED
    BY <1>0, <2>1 DEF IInv, StoreTypeOK, Ends, Swaps, Calls, Ids, Newest, Setting, Writing, Asked
<1>3. CASE PowerCut
  <2>1. /\ CutCommand /\ pc' = "boot" /\ request' = NoReq /\ told' = "none"
        /\ end' = 0 /\ highest' = 0 /\ old' = 0 /\ copied' = 0
    BY <1>3 DEF PowerCut
  <2>2. /\ data' \in Seq(Objects) /\ swap' \in Seq(Objects) /\ desc' = desc
        /\ desc # "valid" => Edge(data', ScanEnd(data'))
        /\ desc = "valid" => swap' = swap
    BY <2>1, CutKeeps
  <2> QED
    BY <1>0, <2>1, <2>2 DEF IInv, StoreTypeOK, Ends, Swaps, Calls, Ids, Newest, Setting, Writing, Asked
<1>4. CASE UNCHANGED vars
  <2>1. UNCHANGED <<data, swap, desc, pc, end, highest, old, copied, request, told>>
    BY <1>4 DEF vars
  <2> QED
    BY <1>0, <2>1 DEF IInv, StoreTypeOK, Ends, Swaps, Calls, Ids, Newest, Setting, Writing, Asked
<1> QED
  BY <1>1, <1>2, <1>3, <1>4, RecoveryKeeps, SetKeeps DEF Next

LEMMA InvHolds == Spec => []IInv
<1> QED
  BY InitHolds, NextKeeps, PTL DEF Spec

(* Theorem: the store is in one of the states its steps are written for,    *)
(* whatever the names, the values and the power do.                        *)
THEOREM StoreTypes == Spec => []StoreTypeOK
<1>1. IInv => StoreTypeOK
  BY DEF IInv
<1> QED
  BY <1>1, InvHolds, PTL

-----------------------------------------------------------------------------
(* The steps, as steps of the table of settings. *)

LEMMA ValueLike ==
    ASSUME NEW s, NEW t, NEW k \in Nat, NEW m, NEW n, Live(s, k, n) = Live(t, m, n),
           \A i \in Live(s, k, n) : s[i].val = t[i].val
    PROVE  Value(s, k, n) = Value(t, m, n)
<1> DEFINE S == Live(s, k, n)
<1>1. CASE S = {}
  BY <1>1 DEF Value
<1>2. CASE S # {}
  <2>1. S \in SUBSET Nat
    BY DEF Live
  <2> HIDE DEF S
  <2>2. First(S) \in S
    BY <1>2, <2>1, FirstIsLeast
  <2> QED
    BY <1>2, <2>2 DEF Value, S
<1> QED
  BY <1>1, <1>2

(* A step that leaves the objects below the scan's end alone changes no     *)
(* setting.                                                                *)
LEMMA SameData ==
    ASSUME IInv, desc # "valid", desc' # "valid", ScanEnd(data') = ScanEnd(data),
           \A i \in 1 .. ScanEnd(data) : data'[i] = data[i]
    PROVE  Recovered' = Recovered
<1> DEFINE k == ScanEnd(data)
<1>1. k \in Nat
  BY DEF IInv, Ends, Edge, StoreTypeOK
<1> HIDE DEF k
<1>2. ASSUME NEW n \in Names
      PROVE  Value(data', k, n) = Value(data, k, n)
  <2>1. \A i \in 1 .. k : data'[i] = data[i]
    BY DEF k
  <2>2. Live(data', k, n) = Live(data, k, n)
    BY <2>1 DEF Live
  <2>3. \A i \in Live(data', k, n) : data'[i].val = data[i].val
    BY <2>1 DEF Live
  <2> QED
    BY <1>1, <2>2, <2>3, ValueLike
<1> QED
  BY <1>2 DEF Recovered, k

LEMMA SameSwap ==
    ASSUME desc = "valid", desc' = "valid", swap' = swap
    PROVE  Recovered' = Recovered
BY DEF Recovered

(* The end of a set: the one setting has the new value, as it reads. *)
LEMMA NewCounts ==
    ASSUME IInv, Writing, desc' = desc, NEW v,
           data' \in Seq(Objects), Len(data') = end + 1,
           Edge(data', end + 1), ScanEnd(data') = end + 1,
           Active(data'[end + 1]), data'[end + 1].name = request.name, data'[end + 1].val = v,
           \A i \in 1 .. end : data[i].name # request.name =>
                data'[i] = data[i],
           \A i \in 1 .. end : data'[i].name = data[i].name
    PROVE  Recovered' = [Recovered EXCEPT ![request.name] = v]
<1>1. /\ desc # "valid" /\ end = ScanEnd(data) /\ end \in Nat /\ request \in Requests
  BY WhileWriting
<1>2. request.name \in Names
  BY <1>1 DEF Requests
<1>3. Value(data', end + 1, request.name) = v
  <2> DEFINE t == data'
             e == end + 1
  <2>1. /\ t \in Seq(Objects) /\ Good(t, e) /\ e \in 0 .. Len(t) /\ e \in 1 .. e
        /\ Active(t[e]) /\ t[e].name = request.name /\ t[e].val = v
    BY <1>1 DEF Edge
  <2> HIDE DEF t, e
  <2>2. Value(t, e, t[e].name) = t[e].val
    BY <2>1, ValueIs
  <2>3. Value(t, e, request.name) = v
    BY <2>1, <2>2
  <2> QED
    BY <2>3 DEF t, e
<1>4. ASSUME NEW n \in Names, n # request.name
      PROVE  Value(data', end + 1, n) = Value(data, end, n)
  <2>1. \A i \in 1 .. end : data'[i].name = n \/ data[i].name = n => data'[i] = data[i]
    BY <1>4
  <2>2. 1 .. (end + 1) = (1 .. end) \cup {end + 1}
    BY <1>1
  <2>3. Live(data', end + 1, n) = Live(data, end, n)
    BY <1>4, <2>1, <2>2 DEF Live
  <2>4. \A i \in Live(data', end + 1, n) : data'[i].val = data[i].val
    BY <2>1, <2>3 DEF Live
  <2> DEFINE t == data'
             e == end + 1
  <2>5. e \in Nat /\ Live(t, e, n) = Live(data, end, n)
        /\ \A i \in Live(t, e, n) : t[i].val = data[i].val
    BY <1>1, <2>3, <2>4
  <2> HIDE DEF t, e
  <2>6. Value(t, e, n) = Value(data, end, n)
    BY ONLY <2>5, ValueLike
  <2> QED
    BY <2>6 DEF t, e
<1>5. Recovered = [n \in Names |-> Value(data, end, n)]
  BY <1>1 DEF Recovered
<1>6. Recovered' = [n \in Names |-> Value(data', end + 1, n)]
  BY <1>1 DEF Recovered
<1> QED
  BY <1>2, <1>3, <1>4, <1>5, <1>6

(* A close that counts at once. *)
LEMMA ClosedCounts ==
    ASSUME IInv, pc = "close", old = 0, desc' = desc, NEW v \in Values \cup {Bad}, ClosedAs(v)
    PROVE  Recovered' = [Recovered EXCEPT ![request.name] = v]
<1>1. Writing
  BY DEF Writing
<1>2. data[end + 1] \in Objects /\ Active(data[end + 1]) /\ data[end + 1].name = request.name
  BY <1>1, WhileWriting DEF IInv, Newest
<1>3. /\ data' \in Seq(Objects) /\ Len(data') = end + 1
      /\ data'[end + 1] = [data[end + 1] EXCEPT !.mark = "closed", !.val = v]
      /\ \A i \in 1 .. end : data'[i] = data[i]
      /\ Edge(data', end + 1) /\ ScanEnd(data') = end + 1
  BY CloseKeeps
<1>4. /\ Active(data'[end + 1]) /\ data'[end + 1].name = request.name
      /\ data'[end + 1].val = v
  BY <1>2, <1>3 DEF Active, Objects
<1> QED
  BY <1>1, <1>3, <1>4, NewCounts

(* The marker is written: the unreadable settings are forgotten. *)
LEMMA MarkerScrubs ==
    ASSUME IInv, WriteMarker
    PROVE  Recovered' = [n \in Names |-> IF Recovered[n] = Bad THEN NoVal ELSE Recovered[n]]
<1>1. pc = "toSwap" /\ copied = end /\ desc' = "valid" /\ swap' = swap
  BY DEF WriteMarker
<1>2. desc # "valid" /\ Edge(data, end) /\ end = ScanEnd(data) /\ Copied(data, end, swap)
  BY <1>1 DEF IInv, Swaps, Ends
<1>3. data \in Seq(Objects) /\ swap \in Seq(Objects)
  BY DEF IInv, StoreTypeOK
<1>4. Good(data, end) /\ end \in 0 .. Len(data)
  BY <1>2 DEF Edge
<1>5. \A n \in Names : Value(swap, Len(swap), n)
                        = IF Value(data, end, n) = Bad THEN NoVal ELSE Value(data, end, n)
  BY <1>2, <1>3, <1>4, CopiedValue
<1>6. Recovered = [n \in Names |-> Value(data, end, n)]
  BY <1>2 DEF Recovered
<1>7. Recovered' = [n \in Names |-> Value(swap, Len(swap), n)]
  BY <1>1 DEF Recovered
<1> QED
  BY <1>5, <1>6, <1>7

(* The data area is complete: nothing is lost with the swap area. *)
LEMMA InvalidateKeeps ==
    ASSUME IInv, InvalidateSwap
    PROVE  Recovered' = Recovered
<1>1. pc = "toData" /\ copied = Len(swap) /\ desc' = "zero" /\ data' = data
  BY DEF InvalidateSwap
<1>2. desc = "valid" /\ Good(swap, Len(swap)) /\ NoneBad(swap) /\ Copied(swap, Len(swap), data)
  BY <1>1 DEF IInv, Swaps
<1>3. data \in Seq(Objects) /\ swap \in Seq(Objects) /\ Len(swap) \in Nat /\ Len(data) \in Nat
  BY DEF IInv, StoreTypeOK
<1>4. Good(data, Len(data))
  BY <1>2, <1>3, CopiedGood
<1>5. ScanEnd(data) = Len(data)
  BY <1>3, <1>4, ScanAt DEF Edge
<1>6. ASSUME NEW n \in Names
      PROVE  Value(data, Len(data), n) = Value(swap, Len(swap), n)
  <2>1. Value(data, Len(data), n)
          = IF Value(swap, Len(swap), n) = Bad THEN NoVal ELSE Value(swap, Len(swap), n)
    BY <1>2, <1>3, CopiedValue
  <2>2. Value(swap, Len(swap), n) # Bad
    <3> DEFINE S == Live(swap, Len(swap), n)
    <3>1. S \in SUBSET Nat /\ \A i \in S : i \in 1 .. Len(swap) /\ Active(swap[i])
      BY DEF Live
    <3>2. Value(swap, Len(swap), n) = IF S = {} THEN NoVal ELSE swap[First(S)].val
      BY DEF Value
    <3> HIDE DEF S
    <3>3. S # {} => First(S) \in S
      BY <3>1, FirstIsLeast
    <3> QED
      BY <1>2, <3>1, <3>2, <3>3, ValuesAssumption DEF NoneBad
  <2> QED
    BY <2>1, <2>2
<1> QED
  BY <1>1, <1>2, <1>5, <1>6 DEF Recovered

LEMMA SameFlash ==
    ASSUME UNCHANGED flash
    PROVE  Recovered' = Recovered
<1>1. data' = data /\ swap' = swap /\ desc' = desc
  BY DEF flash
<1> QED
  BY <1>1 DEF Recovered

LEMMA RecoveryMaps ==
    ASSUME IInv, Recovery
    PROVE  Map!Next \/ UNCHANGED <<Recovered, request, told>>
<1>0. Ends /\ Swaps /\ data \in Seq(Objects)
  BY DEF IInv, StoreTypeOK
<1>1. CASE BootToData
  <2>1. UNCHANGED flash /\ UNCHANGED <<request, told>>
    BY <1>1 DEF BootToData, flash
  <2> QED
    BY <2>1, SameFlash
<1>2. CASE BootScan \/ Rescan
  <2>1. Kill /\ desc # "valid" /\ UNCHANGED <<desc, request, told>>
    BY <1>0, <1>2 DEF BootScan, Rescan, Swaps
  <2>2. /\ ScanEnd(data') = ScanEnd(data)
        /\ \A i \in 1 .. ScanEnd(data) : data'[i] = data[i]
    BY <1>0, <2>1, KillKeeps DEF Ends
  <2> QED
    BY <2>1, <2>2, SameData
<1>3. CASE EraseSwap \/ WriteOffset \/ CopyToSwap \/ FinalErase
  <2>1. /\ data' = data /\ desc # "valid" /\ desc' # "valid" /\ UNCHANGED <<request, told>>
    BY <1>0, <1>3 DEF EraseSwap, WriteOffset, CopyToSwap, FinalErase, Swaps
  <2>2. Recovered' = Recovered
    BY <2>1, SameData
  <2> QED
    BY <2>1, <2>2
<1>4. CASE CopyFails
  <2>1. UNCHANGED flash /\ (UNCHANGED <<request, told>> \/ (request' = NoReq /\ told' = "error"))
    BY <1>4 DEF CopyFails, flash
  <2> QED
    BY <2>1, SameFlash DEF Map!Next, Map!Refuse
<1>5. CASE WriteMarker
  <2>1. UNCHANGED <<request, told>>
    BY <1>5 DEF WriteMarker
  <2> QED
    BY <1>5, <2>1, MarkerScrubs DEF Map!Next, Map!Scrub
<1>6. CASE EraseData \/ CopyToData
  <2>1. desc = "valid" /\ desc' = desc /\ swap' = swap /\ UNCHANGED <<request, told>>
    BY <1>0, <1>6 DEF EraseData, CopyToData, Swaps
  <2> QED
    BY <2>1, SameSwap
<1>7. CASE InvalidateSwap
  <2>1. UNCHANGED <<request, told>>
    BY <1>7 DEF InvalidateSwap
  <2> QED
    BY <1>7, <2>1, InvalidateKeeps
<1> QED
  BY <1>1, <1>2, <1>3, <1>4, <1>5, <1>6, <1>7 DEF Recovery

LEMMA SetMaps ==
    ASSUME IInv, SetVariable
    PROVE  Map!Next \/ UNCHANGED <<Recovered, request, told>>
<1>1. CASE OpenObject \/ WriteObject
  <2>1. /\ desc # "valid" /\ end = ScanEnd(data) /\ UNCHANGED <<desc, request, told>>
    BY <1>1 DEF IInv, Ends, Swaps, Setting, Writing, OpenObject, WriteObject
  <2>2. ScanEnd(data') = end /\ \A i \in 1 .. end : data'[i] = data[i]
    BY <1>1, OpenKeeps, WriteKeeps
  <2> QED
    BY <2>1, <2>2, SameData
<1>2. ASSUME Writing, UNCHANGED desc, request' = NoReq, told' = "ok",
             Recovered' = [Recovered EXCEPT ![request.name] = request.val]
      PROVE  Map!Next
  <2>1. request # NoReq
    BY <1>2 DEF IInv, Calls, Setting
  <2> QED
    BY <1>2, <2>1 DEF Map!Next, Map!Apply
<1>3. CASE CloseObject
  <2>1. pc = "close" /\ Writing /\ UNCHANGED desc
        /\ data' = [data EXCEPT ![end + 1].mark = "closed"]
        /\ IF old = 0 THEN Return ELSE pc' = "retire" /\ UNCHANGED <<end, request, told>>
    BY <1>3 DEF CloseObject, Writing
  <2>2. /\ Len(data) = end + 1 /\ data[end + 1] \in Objects /\ request \in Requests
        /\ desc # "valid" /\ end = ScanEnd(data)
    BY <2>1, WhileWriting
  <2>3. /\ data[end + 1].val = request.val /\ request.val \in Values
        /\ data[end + 1].name = request.name /\ Active(data[end + 1])
    BY <2>1, <2>2 DEF IInv, Newest, Requests
  <2>4. ClosedAs(request.val)
    <3>1. [data[end + 1] EXCEPT !.mark = "closed", !.val = request.val]
            = [data[end + 1] EXCEPT !.mark = "closed"]
      BY <2>2, <2>3 DEF Objects
    <3> QED
      BY <2>1, <3>1 DEF ClosedAs
  <2>5. CASE old = 0
    <3>1. request' = NoReq /\ told' = "ok"
      BY <2>1, <2>5 DEF Return
    <3>2. Recovered' = [Recovered EXCEPT ![request.name] = request.val]
      BY <2>1, <2>3, <2>4, <2>5, ClosedCounts
    <3> QED
      BY <1>2, <2>1, <3>1, <3>2
  <2>6. CASE old # 0
    <3>1. ScanEnd(data') = end /\ \A i \in 1 .. end : data'[i] = data[i]
      BY <2>1, <2>3, <2>4, <2>6, CloseKeeps
    <3> QED
      BY <2>1, <2>2, <2>6, <3>1, SameData
  <2> QED
    BY <2>5, <2>6
<1>4. CASE RetireOld
  <2>1. /\ pc = "retire" /\ Writing /\ UNCHANGED desc /\ request' = NoReq /\ told' = "ok"
    BY <1>4 DEF RetireOld, Return, Writing
  <2>2. /\ data' \in Seq(Objects) /\ Len(data') = end + 1
        /\ old \in 1 .. end
        /\ data'[old] = [data[old] EXCEPT !.flag = "inactive"]
        /\ \A i \in 1 .. (end + 1) : i # old => data'[i] = data[i]
        /\ Edge(data', end + 1) /\ ScanEnd(data') = end + 1
    BY <1>4, RetireKeeps
  <2>3. /\ data \in Seq(Objects) /\ Len(data) = end + 1 /\ end \in Nat
    BY <2>1, WhileWriting
  <2>4. /\ data[old].name = request.name /\ Active(data[end + 1])
        /\ data[end + 1].name = request.name /\ data[end + 1].val = request.val
    BY <2>1 DEF IInv, Newest
  <2>5. data'[old].name = data[old].name
    <3>1. data[old] \in Objects
      BY <2>2, <2>3
    <3> QED
      BY <2>2, <3>1 DEF Objects
  <2>6. data'[end + 1] = data[end + 1]
    BY <2>2, <2>3
  <2>7. /\ \A i \in 1 .. end : data[i].name # request.name => data'[i] = data[i]
        /\ \A i \in 1 .. end : data'[i].name = data[i].name
    <3>1. \A i \in 1 .. end : i # old => data'[i] = data[i]
      BY <2>2, <2>3
    <3> QED
      BY <2>4, <2>5, <3>1
  <2>8. Recovered' = [Recovered EXCEPT ![request.name] = request.val]
    BY <2>1, <2>2, <2>4, <2>6, <2>7, NewCounts
  <2> QED
    BY <1>2, <2>1, <2>8
<1> QED
  BY <1>1, <1>3, <1>4 DEF SetVariable

LEMMA CutMaps ==
    ASSUME IInv, PowerCut
    PROVE  Map!Next
<1>1. CutCommand /\ request' = NoReq /\ told' = "none"
  BY DEF PowerCut
<1>2. CASE Recovered' = Recovered
  BY <1>1, <1>2 DEF Map!Next, Map!Lose
<1>3. CASE pc = "close" /\ ClosedAs(Bad) /\ desc # "valid"
  <2>1. Writing /\ request # NoReq /\ desc' = desc
    BY <1>1, <1>3, CutKeeps DEF Writing, IInv, Calls, Setting
  <2>2. CASE old = 0
    <3>1. Recovered' = [Recovered EXCEPT ![request.name] = Bad]
      BY <1>3, <2>1, <2>2, ClosedCounts
    <3>2. \A i \in 1 .. end : data[i].name = request.name => ~Active(data[i])
      BY <2>1, <2>2 DEF IInv, Newest
    <3>3. Value(data, end, request.name) = NoVal
      BY <3>2, ValueNone
    <3>4. end = ScanEnd(data) /\ request.name \in Names
      BY <2>1, WhileWriting DEF Requests
    <3>5. Recovered[request.name] = NoVal
      BY <1>3, <3>3, <3>4 DEF Recovered
    <3> QED
      BY <1>1, <2>1, <3>1, <3>5 DEF Map!Next, Map!Spoil
  <2>3. CASE old # 0
    <3>1. ScanEnd(data') = end /\ \A i \in 1 .. end : data'[i] = data[i]
      BY <1>3, <2>3, CloseKeeps
    <3>2. end = ScanEnd(data)
      BY <2>1, WhileWriting
    <3>3. Recovered' = Recovered
      BY <1>3, <2>1, <3>1, <3>2, SameData
    <3> QED
      BY <1>2, <3>3
  <2> QED
    BY <2>2, <2>3
<1>4. CASE desc = "valid"
  <2>1. desc' = "valid" /\ swap' = swap
    BY <1>1, <1>4, CutKeeps
  <2> QED
    BY <1>2, <1>4, <2>1, SameSwap
<1>5. CASE desc # "valid" /\ ~(pc = "close" /\ ClosedAs(Bad))
  <2>1. /\ desc' = desc /\ ScanEnd(data') = ScanEnd(data)
        /\ \A i \in 1 .. ScanEnd(data) : data'[i] = data[i]
    BY <1>1, <1>5, CutKeeps
  <2> QED
    BY <1>2, <1>5, <2>1, SameData
<1> QED
  BY <1>3, <1>4, <1>5

LEMMA StepMaps ==
    ASSUME IInv, [Next]_vars
    PROVE  Map!Next \/ UNCHANGED <<Recovered, request, told>>
<1>1. ASSUME NEW r \in Requests, SetFits(r) \/ SetCompacts(r)
      PROVE  Map!Next
  <2>1. /\ pc = "idle" /\ request' = r /\ told' = "none" /\ UNCHANGED flash
    BY <1>1 DEF SetFits, SetCompacts, flash
  <2>2. request = NoReq
    BY <2>1 DEF IInv, Calls
  <2>3. request' \in Map!Requests
    BY <2>1 DEF Map!Requests, Requests
  <2> QED
    BY <2>1, <2>2, <2>3, SameFlash DEF Map!Next, Map!Ask
<1>2. CASE SetRefused
  <2>1. /\ pc = "idle" /\ told' = "error" /\ request' = request /\ UNCHANGED flash
    BY <1>2 DEF SetRefused, flash
  <2>2. request' = NoReq
    BY <2>1 DEF IInv, Calls
  <2> QED
    BY <2>1, <2>2, SameFlash DEF Map!Next, Map!Refuse
<1>3. CASE UNCHANGED vars
  <2>1. UNCHANGED flash /\ UNCHANGED <<request, told>>
    BY <1>3 DEF vars, flash
  <2> QED
    BY <2>1, SameFlash
<1> QED
  BY <1>1, <1>2, <1>3, RecoveryMaps, SetMaps, CutMaps DEF Next

LEMMA InitMaps == Init => Map!Init
<1> SUFFICES ASSUME Init PROVE Map!Init
  OBVIOUS
<1>1. data = <<>> /\ desc = "clean" /\ request = NoReq /\ told = "none" /\ IInv
  BY InitHolds DEF Init
<1>2. ScanEnd(data) = 0
  BY <1>1 DEF IInv, Ends, Edge
<1>3. \A n \in Names : Value(data, 0, n) = NoVal
  BY ValueNone
<1>4. Recovered = [n \in Names |-> NoVal]
  BY <1>1, <1>2, <1>3 DEF Recovered
<1> QED
  BY <1>1, <1>4 DEF Map!Init

(* Theorem: the log in flash implements the table of settings (MapSpec): a  *)
(* set is whole or absent after every cut, and answered only when applied. *)
THEOREM MapHolds == Spec => MapSpec
<1>1. IInv /\ [Next]_vars => [Map!Next]_<<Recovered, request, told>>
  BY StepMaps
<1> QED
  BY <1>1, InitMaps, InvHolds, PTL DEF Spec, MapSpec, Map!Spec, Map!mapVars

(* A step of the store with its offsets is a step of the store, or the      *)
(* erase that reaches live objects.                                        *)
LEMMA FlashSteps == [FlashNext]_flashVars => [Next]_vars \/ Overrun
<1> USE DEF Next, Recovery, SetVariable
<1>1. ASSUME NEW r \in Requests, Set(r) PROVE Next
  BY <1>1 DEF Set
<1>2. CASE Mount \/ PlaceSwap \/ Compact
  BY <1>2 DEF Mount, PlaceSwap, Compact
<1>3. CASE WriteNew \/ CloseNew \/ Replace
  BY <1>3 DEF WriteNew, CloseNew, Replace
<1>4. CASE FlashCut
  BY <1>4 DEF FlashCut
<1>5. CASE UNCHANGED flashVars
  BY <1>5 DEF flashVars, vars
<1> QED
  BY <1>1, <1>2, <1>3, <1>4, <1>5 DEF FlashNext

-----------------------------------------------------------------------------
(***************************************************************************)
(* The space of the store.  First what a running sum does.                 *)
(***************************************************************************)

(* A set of numbers that holds 0 and with each number the next holds all. *)
LEMMA OneByOne ==
    ASSUME NEW S, 0 \in S, \A n \in Nat : n \in S => n + 1 \in S
    PROVE  \A n \in Nat : n \in S
<1> DEFINE T == Nat \ S
<1> SUFFICES ASSUME T # {} PROVE FALSE
  OBVIOUS
<1>1. IsWellFoundedOn({ss \in Nat \X Nat : ss[1] < ss[2]}, Nat)
  BY NatLessThanWellFounded DEF OpToRel
<1>2. PICK m \in T : \A j \in T : ~ (<<j, m>> \in {ss \in Nat \X Nat : ss[1] < ss[2]})
  BY <1>1, WFMin
<1>3. m # 0 /\ m - 1 \in Nat /\ m - 1 < m
  OBVIOUS
<1>4. m - 1 \in S
  BY <1>2, <1>3
<1>5. (m - 1) + 1 \in S
  BY <1>3, <1>4
<1> QED
  BY <1>3, <1>5

NextSum(w, g, i) == IF i = 0 THEN 0 ELSE g[i - 1] + w[i]

(* The recursion of AddUp defines a function: the first n sums exist for    *)
(* every n, and they agree with the first n + 1.                           *)
LEMMA SumsExist ==
    ASSUME NEW w
    PROVE  \E g : g = [i \in Nat |-> IF i = 0 THEN 0 ELSE g[i - 1] + w[i]]
<1> DEFINE Upto(n, g) == g = [i \in 0 .. n |-> NextSum(w, g, i)]
           S == {n \in Nat : \E g : Upto(n, g)}
<1>1. 0 \in S
  <2>1. Upto(0, [i \in 0 .. 0 |-> 0])
    BY DEF NextSum
  <2> QED
    BY <2>1
<1>2. ASSUME NEW n \in Nat, n \in S PROVE n + 1 \in S
  <2>1. PICK g : Upto(n, g)
    BY <1>2
  <2> DEFINE h == [i \in 0 .. (n + 1) |-> IF i <= n THEN g[i] ELSE g[n] + w[n + 1]]
  <2>2. \A i \in 0 .. (n + 1) : h[i] = NextSum(w, h, i)
    <3> TAKE i \in 0 .. (n + 1)
    <3>1. CASE i = 0
      BY <2>1, <3>1 DEF NextSum
    <3>2. CASE i # 0 /\ i <= n
      BY <2>1, <3>2 DEF NextSum
    <3>3. CASE i = n + 1
      BY <2>1, <3>3 DEF NextSum
    <3> QED
      BY <3>1, <3>2, <3>3
  <2>3. Upto(n + 1, h)
    BY <2>2
  <2> HIDE DEF h
  <2> QED
    BY <2>3
<1>3. \A n \in Nat : n \in S
  <2> HIDE DEF S
  <2> QED
    BY <1>1, <1>2, OneByOne
<1> DEFINE G(n) == CHOOSE g : Upto(n, g)
<1>4. \A n \in Nat : Upto(n, G(n))
  BY <1>3
<1>5. ASSUME NEW n \in Nat
      PROVE  \A k \in Nat : k <= n => G(n)[k] = G(n + 1)[k]
  <2> DEFINE E == {k \in Nat : k <= n => G(n)[k] = G(n + 1)[k]}
  <2> HIDE DEF G
  <2>1. 0 \in E
    BY <1>4 DEF NextSum
  <2>2. ASSUME NEW k \in Nat, k \in E PROVE k + 1 \in E
    <3>1. CASE ~(k + 1 <= n)
      BY <3>1
    <3>2. CASE k + 1 <= n
      <4>1. G(n)[k] = G(n + 1)[k]
        BY <2>2, <3>2
      <4>2. G(n)[k + 1] = NextSum(w, G(n), k + 1)
        BY <1>4, <3>2
      <4>3. G(n + 1)[k + 1] = NextSum(w, G(n + 1), k + 1)
        <5>1. n + 1 \in Nat /\ k + 1 \in 0 .. (n + 1)
          BY <3>2
        <5>2. Upto(n + 1, G(n + 1))
          BY <1>4, <5>1
        <5> QED
          BY <5>1, <5>2
      <4> QED
        BY <4>1, <4>2, <4>3 DEF NextSum
    <3> QED
      BY <3>1, <3>2
  <2> HIDE DEF E
  <2>3. \A k \in Nat : k \in E
    BY <2>1, <2>2, OneByOne
  <2> QED
    BY <2>3 DEF E
<1> DEFINE g == [n \in Nat |-> G(n)[n]]
<1>6. \A i \in Nat : g[i] = IF i = 0 THEN 0 ELSE g[i - 1] + w[i]
  <2> TAKE i \in Nat
  <2> HIDE DEF G
  <2>1. G(i)[i] = NextSum(w, G(i), i)
    BY <1>4
  <2>2. i # 0 => i - 1 \in Nat /\ (i - 1) + 1 = i
    OBVIOUS
  <2>3. i # 0 => G(i - 1)[i - 1] = G(i)[i - 1]
    BY <1>5, <2>2
  <2> QED
    BY <2>1, <2>2, <2>3 DEF NextSum
<1>7. g = [i \in Nat |-> IF i = 0 THEN 0 ELSE g[i - 1] + w[i]]
  BY <1>6
<1> HIDE DEF g
<1> QED
  BY <1>7

LEMMA AddUpStep ==
    ASSUME NEW w
    PROVE  /\ AddUp(w, 0) = 0
           /\ \A k \in Nat : AddUp(w, k + 1) = AddUp(w, k) + w[k + 1]
<1> DEFINE at == CHOOSE g : g = [i \in Nat |-> IF i = 0 THEN 0 ELSE g[i - 1] + w[i]]
<1>1. at = [i \in Nat |-> IF i = 0 THEN 0 ELSE at[i - 1] + w[i]]
  BY SumsExist
<1>2. \A k : AddUp(w, k) = at[k]
  BY DEF AddUp
<1> HIDE DEF at
<1>3. at[0] = 0
  BY <1>1
<1>4. \A k \in Nat : at[k + 1] = at[k] + w[k + 1]
  <2> TAKE k \in Nat
  <2>1. k + 1 \in Nat /\ k + 1 # 0 /\ (k + 1) - 1 = k
    OBVIOUS
  <2>2. at[k + 1] = IF k + 1 = 0 THEN 0 ELSE at[(k + 1) - 1] + w[k + 1]
    BY <1>1, <2>1
  <2> QED
    BY <2>1, <2>2
<1> QED
  BY <1>2, <1>3, <1>4

(* The sum of the first k of n sizes is a number that grows with k. *)
LEMMA AddUpGrows ==
    ASSUME NEW w, NEW n \in Nat, \A i \in 1 .. n : w[i] \in Nat
    PROVE  /\ \A k \in 0 .. n : AddUp(w, k) \in Nat
           /\ \A k \in 0 .. n : AddUp(w, k) <= AddUp(w, n)
<1> DEFINE S == {m \in Nat : m <= n => /\ AddUp(w, m) \in Nat
                                       /\ \A k \in 0 .. m : AddUp(w, k) <= AddUp(w, m)}
<1>1. 0 \in S
  BY AddUpStep
<1>2. ASSUME NEW m \in Nat, m \in S PROVE m + 1 \in S
  <2> SUFFICES ASSUME m + 1 <= n
               PROVE  /\ AddUp(w, m + 1) \in Nat
                      /\ \A k \in 0 .. (m + 1) : AddUp(w, k) <= AddUp(w, m + 1)
    OBVIOUS
  <2>1. w[m + 1] \in Nat /\ AddUp(w, m + 1) = AddUp(w, m) + w[m + 1]
    BY AddUpStep
  <2>2. AddUp(w, m) \in Nat /\ \A k \in 0 .. m : AddUp(w, k) <= AddUp(w, m)
    BY <1>2
  <2>3. \A k \in 0 .. m : AddUp(w, k) \in Int
    <3>1. \A k \in 0 .. m : k = 0 \/ (k - 1 \in Nat /\ k = (k - 1) + 1)
      OBVIOUS
    <3> DEFINE Z == {k \in Nat : k <= m => AddUp(w, k) \in Int}
    <3>2. 0 \in Z
      BY AddUpStep
    <3>3. ASSUME NEW k \in Nat, k \in Z PROVE k + 1 \in Z
      <4> SUFFICES ASSUME k + 1 <= m PROVE AddUp(w, k + 1) \in Int
        OBVIOUS
      <4>1. w[k + 1] \in Nat /\ AddUp(w, k) \in Int
        BY <3>3
      <4>2. AddUp(w, k + 1) = AddUp(w, k) + w[k + 1]
        BY AddUpStep
      <4> QED
        BY <4>1, <4>2
    <3> HIDE DEF Z
    <3>4. \A k \in Nat : k \in Z
      BY <3>2, <3>3, OneByOne
    <3> QED
      BY <3>4 DEF Z
  <2> QED
    BY <2>1, <2>2, <2>3
<1> HIDE DEF S
<1>3. \A m \in Nat : m \in S
  BY <1>1, <1>2, OneByOne
<1> QED
  BY <1>3 DEF S

(* Smaller sizes have the smaller sum, and equal sizes the same. *)
LEMMA AddUpLess ==
    ASSUME NEW v, NEW w, NEW n \in Nat,
           \A i \in 1 .. n : v[i] \in Nat /\ w[i] \in Nat /\ v[i] <= w[i]
    PROVE  AddUp(v, n) <= AddUp(w, n)
<1> DEFINE S == {m \in Nat : m <= n => AddUp(v, m) <= AddUp(w, m)}
<1>1. 0 \in S
  BY AddUpStep
<1>2. ASSUME NEW m \in Nat, m \in S PROVE m + 1 \in S
  <2> SUFFICES ASSUME m + 1 <= n PROVE AddUp(v, m + 1) <= AddUp(w, m + 1)
    OBVIOUS
  <2>1. v[m + 1] \in Nat /\ w[m + 1] \in Nat /\ v[m + 1] <= w[m + 1]
    OBVIOUS
  <2>2. /\ AddUp(v, m + 1) = AddUp(v, m) + v[m + 1]
        /\ AddUp(w, m + 1) = AddUp(w, m) + w[m + 1]
    BY AddUpStep
  <2>3. AddUp(v, m) \in Nat /\ AddUp(w, m) \in Nat /\ AddUp(v, m) <= AddUp(w, m)
    BY <1>2, AddUpGrows
  <2> QED
    BY <2>1, <2>2, <2>3
<1> HIDE DEF S
<1>3. \A m \in Nat : m \in S
  BY <1>1, <1>2, OneByOne
<1> QED
  BY <1>3 DEF S

LEMMA AddUpSame ==
    ASSUME NEW v, NEW w, NEW n \in Nat, \A i \in 1 .. n : v[i] = w[i]
    PROVE  AddUp(v, n) = AddUp(w, n)
<1> DEFINE S == {m \in Nat : m <= n => AddUp(v, m) = AddUp(w, m)}
<1>1. 0 \in S
  BY AddUpStep
<1>2. ASSUME NEW m \in Nat, m \in S PROVE m + 1 \in S
  <2>1. m + 1 <= n => v[m + 1] = w[m + 1] /\ AddUp(v, m) = AddUp(w, m)
    BY <1>2
  <2>2. /\ AddUp(v, m + 1) = AddUp(v, m) + v[m + 1]
        /\ AddUp(w, m + 1) = AddUp(w, m) + w[m + 1]
    BY AddUpStep
  <2> QED
    BY <2>1, <2>2
<1> HIDE DEF S
<1>3. \A m \in Nat : m \in S
  BY <1>1, <1>2, OneByOne
<1> QED
  BY <1>3 DEF S

(* One size taken out leaves the sum without it. *)
LEMMA AddUpWithout ==
    ASSUME NEW v, NEW w, NEW n \in Nat, \A i \in 1 .. n : w[i] \in Nat,
           NEW j \in 1 .. n, v[j] = 0, \A i \in 1 .. n : i # j => v[i] = w[i]
    PROVE  AddUp(w, n) = AddUp(v, n) + w[j] /\ AddUp(v, n) \in Nat
<1>1. \A i \in 1 .. n : v[i] \in Nat
  OBVIOUS
<1> DEFINE S == {m \in Nat : m <= n =>
                     AddUp(w, m) = AddUp(v, m) + (IF j <= m THEN w[j] ELSE 0)}
<1>2. 0 \in S
  BY AddUpStep
<1>3. ASSUME NEW m \in Nat, m \in S PROVE m + 1 \in S
  <2> SUFFICES ASSUME m + 1 <= n
               PROVE  AddUp(w, m + 1)
                        = AddUp(v, m + 1) + (IF j <= m + 1 THEN w[j] ELSE 0)
    OBVIOUS
  <2>1. /\ AddUp(v, m + 1) = AddUp(v, m) + v[m + 1]
        /\ AddUp(w, m + 1) = AddUp(w, m) + w[m + 1]
    BY AddUpStep
  <2>2. /\ AddUp(v, m) \in Nat /\ AddUp(w, m) \in Nat
        /\ AddUp(w, m) = AddUp(v, m) + (IF j <= m THEN w[j] ELSE 0)
    BY <1>1, <1>3, AddUpGrows
  <2>3. v[m + 1] \in Nat /\ w[m + 1] \in Nat /\ w[j] \in Nat
    BY <1>1
  <2>4. CASE j = m + 1
    BY <2>1, <2>2, <2>3, <2>4
  <2>5. CASE j # m + 1
    <3>1. v[m + 1] = w[m + 1]
      BY <2>5
    <3> QED
      BY <2>1, <2>2, <2>3, <2>5, <3>1
  <2> QED
    BY <2>4, <2>5
<1> HIDE DEF S
<1>4. \A m \in Nat : m \in S
  BY <1>2, <1>3, OneByOne
<1>5. AddUp(w, n) = AddUp(v, n) + w[j]
  BY <1>4 DEF S
<1> QED
  BY <1>1, <1>5, AddUpGrows

-----------------------------------------------------------------------------
(* Offsets and sizes. *)

(* What the demarcation and the descriptor leave of the partition. *)
Room == PartSize - DescSize - Demarcation

(* Active objects of t bytes leave room for a swap area above a data area   *)
(* that holds them alone.                                                  *)
Roomed(t) == t <= Room /\ t <= Aligned(Room - t)

LEMMA Sizes ==
    /\ BlockSize \in Nat \ {0} /\ PartSize \in Nat /\ HeadSize \in Nat /\ HeadSize > 0
    /\ DescSize \in Nat /\ Demarcation \in Nat /\ LongLength \in Nat
    /\ \A v \in Values : NewSize(v) \in Nat /\ NewSize(v) >= HeadSize
    /\ \A o \in Objects : Size(o) \in Nat /\ Size(o) >= HeadSize
<1>1. /\ BlockSize \in Nat \ {0} /\ Blocks \in Nat /\ HeadSize \in Nat \ {0}
      /\ DescSize \in Nat /\ Demarcation \in Nat /\ LongLength \in Nat
      /\ Length \in [Values -> Nat]
  BY SizesAssumption
<1>2. PartSize \in Nat
  BY <1>1 DEF PartSize
<1>3. \A v \in Values : NewSize(v) \in Nat /\ NewSize(v) >= HeadSize
  BY <1>1 DEF NewSize
<1>4. \A o \in Objects : Size(o) \in Nat /\ Size(o) >= HeadSize
  <2> TAKE o \in Objects
  <2>1. o.val \in Values \cup {NoVal, Bad}
    BY DEF Objects
  <2> DEFINE l == IF o.val = Bad THEN LongLength
                  ELSE (IF o.val = NoVal THEN 0 ELSE Length[o.val])
  <2>2. l \in Nat
    BY <1>1, <2>1
  <2>3. Size(o) = HeadSize + l
    BY DEF Size
  <2> QED
    BY <1>1, <2>2, <2>3
<1> QED
  BY <1>1, <1>2, <1>3, <1>4

(* The size of a value read back is the one it was written with. *)
LEMMA SizeOfNew ==
    ASSUME NEW o \in Objects, o.val \in Values
    PROVE  Size(o) = NewSize(o.val)
BY ValuesAssumption DEF Size, NewSize

LEMMA RoomIs ==
    /\ Room \in Nat
    /\ \A x \in Int : PartSize - DescSize - x = Room + Demarcation - x
    /\ \A x \in Int : PartSize - DescSize - Demarcation - x = Room - x
    /\ 2 * (HeadSize + LongLength) <= Room
    /\ \A v \in Values : 2 * (HeadSize + LongLength + NewSize(v)) <= Room
<1> DEFINE r == BlockSize * Blocks - DescSize - Demarcation
<1>1. r = Room
  BY DEF Room, PartSize
<1>2. /\ 2 * (HeadSize + LongLength) <= r
      /\ \A v \in Values : 2 * (HeadSize + LongLength + HeadSize + Length[v]) <= r
  BY RoomAssumption
<1> HIDE DEF r
<1>3. Room = PartSize - DescSize - Demarcation
  BY DEF Room
<1>4. Room \in Int
  BY <1>3, Sizes
<1>5. \A v \in Values : Length[v] \in Nat
  BY SizesAssumption
<1>6. \A v \in Values : HeadSize + LongLength + NewSize(v) = HeadSize + LongLength + HeadSize + Length[v]
  BY <1>5, Sizes DEF NewSize
<1>7. \A v \in Values : 2 * (HeadSize + LongLength + NewSize(v)) <= Room
  BY <1>1, <1>2, <1>6
<1> QED
  BY <1>1, <1>2, <1>3, <1>4, <1>7, Sizes

LEMMA AlignedIs ==
    ASSUME NEW x \in Nat
    PROVE  Aligned(x) \in Nat /\ Aligned(x) <= x /\ x = Aligned(x) + (x % BlockSize)
<1>1. x % BlockSize \in Nat /\ x % BlockSize <= x
  BY Sizes
<1>2. Aligned(x) = x - (x % BlockSize)
  BY DEF Aligned
<1> HIDE DEF Aligned
<1> QED
  BY <1>1, <1>2

LEMMA AlignedGrows ==
    ASSUME NEW x \in Nat, NEW y \in Nat, x <= y
    PROVE  Aligned(x) <= Aligned(y)
<1> DEFINE b == BlockSize
           p == x \div b
           q == y \div b
           r == x % b
           t == y % b
<1>1. b \in Nat \ {0}
  BY Sizes
<1>2. /\ x = b * p + r /\ y = b * q + t /\ p \in Nat /\ q \in Nat
      /\ r \in Nat /\ t \in Nat /\ r < b /\ t < b
  <2> HIDE DEF b
  <2> QED
    BY <1>1
<1>3. Aligned(x) = x - r /\ Aligned(y) = y - t
  BY DEF Aligned
<1> HIDE DEF b, p, q, r, t
<1>4. p <= q
  <2> SUFFICES ASSUME p >= q + 1 PROVE FALSE
    BY <1>2
  <2>1. b * p >= b * (q + 1)
    BY <1>1, <1>2
  <2>2. b * (q + 1) = b * q + b
    BY <1>1, <1>2
  <2> DEFINE bp == b * p
             bq == b * q
             bq1 == b * (q + 1)
  <2>3. /\ bp \in Int /\ bq \in Int /\ bq1 = bq + b /\ bp >= bq1
        /\ x = bp + r /\ y = bq + t
    BY <1>1, <1>2, <2>1, <2>2
  <2> HIDE DEF bp, bq, bq1
  <2> QED
    BY <1>1, <1>2, <2>3
<1>5. b * p <= b * q
  BY <1>1, <1>2, <1>4
<1> QED
  BY <1>1, <1>2, <1>3, <1>5

(* Fewer bytes leave room where more do. *)
LEMMA LessIsRoomed ==
    ASSUME NEW t \in Nat, NEW u \in Nat, u <= t, Roomed(t)
    PROVE  /\ Roomed(u) /\ 2 * t <= Room
           /\ t <= Aligned(Room - t) /\ Aligned(Room - t) <= Aligned(Room - u)
<1>1. t <= Room /\ t <= Aligned(Room - t)
  BY DEF Roomed
<1>2. Room - t \in Nat /\ Room - u \in Nat /\ Room - t <= Room - u
  BY <1>1, RoomIs
<1>3. Aligned(Room - t) <= Aligned(Room - u)
  BY <1>2, AlignedGrows
<1>4. /\ Aligned(Room - t) \in Nat /\ Aligned(Room - t) <= Room - t
      /\ Aligned(Room - u) \in Nat
  BY <1>2, AlignedIs
<1> QED
  BY <1>1, <1>2, <1>3, <1>4, RoomIs DEF Roomed

(* The swap start that a compaction takes lies above the objects. *)
LEMMA SwapAbove ==
    ASSUME NEW t \in Nat, t <= Room
    PROVE  /\ Aligned(PartSize - DescSize - t) \in Nat
           /\ Aligned(Room - t) <= Aligned(PartSize - DescSize - t)
           /\ Aligned(PartSize - DescSize - t) <= PartSize
           /\ PartSize - DescSize - t
                = Aligned(PartSize - DescSize - t) + ((PartSize - DescSize - t) % BlockSize)
<1> DEFINE y == PartSize - DescSize - t
<1>1. Room - t \in Nat /\ y \in Nat /\ Room - t <= y /\ y <= PartSize
  BY RoomIs, Sizes DEF Room
<1> HIDE DEF y
<1>2. Aligned(y) \in Nat /\ Aligned(y) <= y /\ y = Aligned(y) + (y % BlockSize)
  BY <1>1, AlignedIs
<1>3. Aligned(Room - t) <= Aligned(y)
  BY <1>1, AlignedGrows
<1>4. Aligned(y) <= PartSize
  BY <1>1, <1>2, Sizes
<1> QED
  BY <1>2, <1>3, <1>4 DEF y

-----------------------------------------------------------------------------
(* The bytes of a log up to a point: of all objects, of the active ones,    *)
(* and of those that a compaction keeps.                                   *)
ReadableBytes(area, k) ==
    AddUp([i \in DOMAIN area |-> IF Readable(area[i]) THEN Size(area[i]) ELSE 0], k)

AllReadable(area) == \A i \in 1 .. Len(area) : Readable(area[i])

LEMMA NoBytes ==
    ASSUME NEW s
    PROVE  Bytes(s, 0) = 0 /\ ActiveBytes(s, 0) = 0 /\ ReadableBytes(s, 0) = 0
BY AddUpStep DEF Bytes, ActiveBytes, ReadableBytes

LEMMA NextBytes ==
    ASSUME NEW s \in Seq(Objects), NEW k \in Nat, k + 1 <= Len(s)
    PROVE  /\ Bytes(s, k + 1) = Bytes(s, k) + Size(s[k + 1])
           /\ ActiveBytes(s, k + 1)
                = ActiveBytes(s, k) + (IF Active(s[k + 1]) THEN Size(s[k + 1]) ELSE 0)
           /\ ReadableBytes(s, k + 1)
                = ReadableBytes(s, k) + (IF Readable(s[k + 1]) THEN Size(s[k + 1]) ELSE 0)
<1> DEFINE u == [i \in DOMAIN s |-> Size(s[i])]
           v == [i \in DOMAIN s |-> IF Active(s[i]) THEN Size(s[i]) ELSE 0]
           w == [i \in DOMAIN s |-> IF Readable(s[i]) THEN Size(s[i]) ELSE 0]
<1>1. k + 1 \in DOMAIN s
  OBVIOUS
<1>2. /\ u[k + 1] = Size(s[k + 1])
      /\ v[k + 1] = IF Active(s[k + 1]) THEN Size(s[k + 1]) ELSE 0
      /\ w[k + 1] = IF Readable(s[k + 1]) THEN Size(s[k + 1]) ELSE 0
  BY <1>1
<1>3. Bytes(s, k + 1) = AddUp(u, k + 1) /\ Bytes(s, k) = AddUp(u, k)
  BY DEF Bytes
<1>4. ActiveBytes(s, k + 1) = AddUp(v, k + 1) /\ ActiveBytes(s, k) = AddUp(v, k)
  BY DEF ActiveBytes
<1>5. ReadableBytes(s, k + 1) = AddUp(w, k + 1) /\ ReadableBytes(s, k) = AddUp(w, k)
  BY DEF ReadableBytes
<1> HIDE DEF u, v, w
<1> QED
  BY <1>2, <1>3, <1>4, <1>5, AddUpStep

LEMMA BytesAre ==
    ASSUME NEW s \in Seq(Objects), NEW k \in 0 .. Len(s)
    PROVE  /\ Bytes(s, k) \in Nat /\ ActiveBytes(s, k) \in Nat /\ ReadableBytes(s, k) \in Nat
           /\ ReadableBytes(s, k) <= ActiveBytes(s, k)
           /\ ActiveBytes(s, k) <= Bytes(s, k)
           /\ \A j \in 0 .. k : /\ Bytes(s, j) \in Nat /\ ActiveBytes(s, j) \in Nat
                                /\ ReadableBytes(s, j) \in Nat
                                /\ Bytes(s, j) <= Bytes(s, k)
                                /\ ActiveBytes(s, j) <= ActiveBytes(s, k)
<1> DEFINE u == [i \in DOMAIN s |-> Size(s[i])]
           v == [i \in DOMAIN s |-> IF Active(s[i]) THEN Size(s[i]) ELSE 0]
           w == [i \in DOMAIN s |-> IF Readable(s[i]) THEN Size(s[i]) ELSE 0]
<1>1. k \in Nat /\ \A i \in 1 .. k : i \in DOMAIN s /\ s[i] \in Objects
  OBVIOUS
<1>2. \A i \in 1 .. k : Size(s[i]) \in Nat
  BY <1>1, Sizes
<1>3. \A i \in 1 .. k : /\ u[i] \in Nat /\ v[i] \in Nat /\ w[i] \in Nat
                        /\ w[i] <= v[i] /\ v[i] <= u[i]
  BY <1>1, <1>2 DEF Readable
<1>4. \A j : /\ Bytes(s, j) = AddUp(u, j) /\ ActiveBytes(s, j) = AddUp(v, j)
             /\ ReadableBytes(s, j) = AddUp(w, j)
  BY DEF Bytes, ActiveBytes, ReadableBytes
<1> HIDE DEF u, v, w
<1>5. /\ \A j \in 0 .. k : AddUp(u, j) \in Nat /\ AddUp(u, j) <= AddUp(u, k)
      /\ \A j \in 0 .. k : AddUp(v, j) \in Nat /\ AddUp(v, j) <= AddUp(v, k)
      /\ \A j \in 0 .. k : AddUp(w, j) \in Nat
  BY <1>1, <1>3, AddUpGrows
<1>6. AddUp(w, k) <= AddUp(v, k) /\ AddUp(v, k) <= AddUp(u, k)
  BY <1>1, <1>3, AddUpLess
<1>7. k \in 0 .. k
  BY <1>1
<1> QED
  BY <1>4, <1>5, <1>6, <1>7

LEMMA SameBytes ==
    ASSUME NEW s \in Seq(Objects), NEW t \in Seq(Objects), NEW k \in 0 .. Len(s),
           k <= Len(t), \A i \in 1 .. k : t[i] = s[i]
    PROVE  /\ Bytes(t, k) = Bytes(s, k) /\ ActiveBytes(t, k) = ActiveBytes(s, k)
           /\ ReadableBytes(t, k) = ReadableBytes(s, k)
           /\ HasBad(t, k) <=> HasBad(s, k)
<1> DEFINE U(a) == [i \in DOMAIN a |-> Size(a[i])]
           V(a) == [i \in DOMAIN a |-> IF Active(a[i]) THEN Size(a[i]) ELSE 0]
           W(a) == [i \in DOMAIN a |-> IF Readable(a[i]) THEN Size(a[i]) ELSE 0]
<1>1. k \in Nat /\ \A i \in 1 .. k : i \in DOMAIN s /\ i \in DOMAIN t
  OBVIOUS
<1>2. \A i \in 1 .. k : U(t)[i] = U(s)[i] /\ V(t)[i] = V(s)[i] /\ W(t)[i] = W(s)[i]
  BY <1>1
<1>3. \A a : /\ Bytes(a, k) = AddUp(U(a), k) /\ ActiveBytes(a, k) = AddUp(V(a), k)
             /\ ReadableBytes(a, k) = AddUp(W(a), k)
  BY DEF Bytes, ActiveBytes, ReadableBytes
<1> HIDE DEF U, V, W
<1>4. AddUp(U(t), k) = AddUp(U(s), k) /\ AddUp(V(t), k) = AddUp(V(s), k)
      /\ AddUp(W(t), k) = AddUp(W(s), k)
  BY <1>1, <1>2, AddUpSame
<1>5. HasBad(t, k) <=> HasBad(s, k)
  BY DEF HasBad
<1> QED
  BY <1>3, <1>4, <1>5

LEMMA ReadableOnly ==
    ASSUME NEW s \in Seq(Objects), AllReadable(s)
    PROVE  /\ ActiveBytes(s, Len(s)) = Bytes(s, Len(s))
           /\ ReadableBytes(s, Len(s)) = Bytes(s, Len(s))
<1> DEFINE u == [i \in DOMAIN s |-> Size(s[i])]
           v == [i \in DOMAIN s |-> IF Active(s[i]) THEN Size(s[i]) ELSE 0]
           w == [i \in DOMAIN s |-> IF Readable(s[i]) THEN Size(s[i]) ELSE 0]
           n == Len(s)
<1>1. n \in Nat /\ \A i \in 1 .. n : i \in DOMAIN s /\ Readable(s[i])
  BY DEF AllReadable
<1>2. \A i \in 1 .. n : v[i] = u[i] /\ w[i] = u[i]
  BY <1>1 DEF Readable
<1>3. Bytes(s, n) = AddUp(u, n) /\ ActiveBytes(s, n) = AddUp(v, n)
      /\ ReadableBytes(s, n) = AddUp(w, n)
  BY DEF Bytes, ActiveBytes, ReadableBytes
<1> HIDE DEF u, v, w, n
<1>4. AddUp(v, n) = AddUp(u, n) /\ AddUp(w, n) = AddUp(u, n)
  BY <1>1, <1>2, AddUpSame
<1> QED
  BY <1>3, <1>4 DEF n

(* One object switched off is no longer counted. *)
LEMMA RetiredBytes ==
    ASSUME NEW s \in Seq(Objects), NEW t \in Seq(Objects), NEW k \in 0 .. Len(s),
           k <= Len(t), NEW j \in 1 .. k, Active(s[j]),
           t[j] = [s[j] EXCEPT !.flag = "inactive"],
           \A i \in 1 .. k : i # j => t[i] = s[i]
    PROVE  /\ Bytes(t, k) = Bytes(s, k)
           /\ ActiveBytes(s, k) = ActiveBytes(t, k) + Size(s[j])
<1> DEFINE U(a) == [i \in DOMAIN a |-> Size(a[i])]
           V(a) == [i \in DOMAIN a |-> IF Active(a[i]) THEN Size(a[i]) ELSE 0]
<1>1. k \in Nat /\ \A i \in 1 .. k : i \in DOMAIN s /\ i \in DOMAIN t /\ s[i] \in Objects
  OBVIOUS
<1>2. t[j].val = s[j].val /\ ~Active(t[j])
  <2>1. s[j] \in Objects
    BY <1>1
  <2> QED
    BY <2>1 DEF Objects, Active
<1>3. \A i \in 1 .. k : t[i].val = s[i].val
  BY <1>2
<1>4. \A i \in 1 .. k : Size(t[i]) = Size(s[i])
  BY <1>3 DEF Size
<1>5. \A i \in 1 .. k : Size(s[i]) \in Nat
  BY <1>1, Sizes
<1>6. \A i \in 1 .. k : U(t)[i] = U(s)[i]
  BY <1>1, <1>4
<1>7. /\ \A i \in 1 .. k : V(s)[i] \in Nat
      /\ V(t)[j] = 0 /\ V(s)[j] = Size(s[j])
      /\ \A i \in 1 .. k : i # j => V(t)[i] = V(s)[i]
  BY <1>1, <1>2, <1>5
<1>8. \A a : Bytes(a, k) = AddUp(U(a), k) /\ ActiveBytes(a, k) = AddUp(V(a), k)
  BY DEF Bytes, ActiveBytes
<1> HIDE DEF U, V
<1>9. AddUp(U(t), k) = AddUp(U(s), k)
  BY <1>1, <1>6, AddUpSame
<1>10. AddUp(V(s), k) = AddUp(V(t), k) + V(s)[j]
  BY <1>1, <1>7, AddUpWithout
<1> QED
  BY <1>7, <1>8, <1>9, <1>10

(* A copy of a readable object is as long as the object. *)
LEMMA CopyBytes ==
    ASSUME NEW to \in Seq(Objects), NEW o \in Objects
    PROVE  LET new == CopyInto(to, o) IN
           /\ new \in Seq(Objects)
           /\ Bytes(new, Len(new))
                = Bytes(to, Len(to)) + (IF Active(o) THEN Size(o) ELSE 0)
           /\ ReadableBytes(new, Len(new))
                = ReadableBytes(to, Len(to)) + (IF Readable(o) THEN Size(o) ELSE 0)
           /\ AllReadable(to) /\ (Active(o) => o.val # Bad) => AllReadable(new)
<1> DEFINE new == CopyInto(to, o)
           n == Len(to)
<1>1. n \in Nat /\ new \in Seq(Objects)
  BY CopyTypes
<1>2. Bytes(to, n) \in Nat /\ ReadableBytes(to, n) \in Nat
  BY <1>1, BytesAre
<1>3. CASE ~Active(o)
  <2>1. new = to
    BY <1>3, CopyTypes
  <2> HIDE DEF new
  <2> QED
    BY <1>1, <1>2, <1>3, <2>1 DEF Readable, new
<1>4. CASE Active(o)
  <2>1. /\ Len(new) = n + 1 /\ \A j \in 1 .. n : new[j] = to[j]
        /\ CopyOf(o, new[n + 1])
    BY <1>4, CopyTypes
  <2> HIDE DEF new
  <2>2. new[n + 1].val = o.val /\ (Active(new[n + 1]) <=> o.val # Bad)
    BY <2>1 DEF CopyOf, Active
  <2>3. /\ Size(new[n + 1]) = Size(o)
        /\ Readable(new[n + 1]) <=> Readable(o)
    BY <1>4, <2>2 DEF Size, Readable
  <2>4. Bytes(new, n) = Bytes(to, n) /\ ReadableBytes(new, n) = ReadableBytes(to, n)
    BY <1>1, <2>1, SameBytes
  <2>5. /\ Bytes(new, n + 1) = Bytes(new, n) + Size(new[n + 1])
        /\ ReadableBytes(new, n + 1)
             = ReadableBytes(new, n) + (IF Readable(new[n + 1]) THEN Size(new[n + 1]) ELSE 0)
    BY <1>1, <2>1, NextBytes
  <2>6. AllReadable(to) /\ o.val # Bad => AllReadable(new)
    <3>1. \A j \in 1 .. (n + 1) : j \in 1 .. n \/ j = n + 1
      BY <1>1
    <3> QED
      BY <1>4, <2>1, <2>3, <3>1 DEF AllReadable, Readable
  <2> QED
    BY <1>1, <1>4, <2>1, <2>3, <2>4, <2>5, <2>6 DEF new
<1> QED
  BY <1>3, <1>4

-----------------------------------------------------------------------------
(* What the space of a log with the scan's end at k is like: a compaction   *)
(* keeps what has room; a length half written adds once to the active      *)
(* bytes; behind the end lies something only where a set that had room was *)
(* cut; and without a half-written length the objects lie below the swap   *)
(* area of the next compaction.                                            *)
Laid(s, k) ==
    /\ Roomed(ReadableBytes(s, k))
    /\ 2 * ActiveBytes(s, k) <= Room + 2 * (HeadSize + LongLength)
    /\ k < Len(s) => Roomed(ActiveBytes(s, k) + HeadSize)
    /\ ~HasBad(s, k) => Bytes(s, k) <= Aligned(Room - ActiveBytes(s, k))

SpaceTypeOK == dataFree \in Nat /\ total \in Nat /\ swapAt \in Nat

Log == desc # "valid" /\ pc # "wrecked" => Laid(data, ScanEnd(data))

Preparing == pc \in {"eraseSwap", "writeOffset", "toSwap"}

Asks == NewSize(request.val)

(* The counters in RAM say what the flash holds. *)
Counted ==
    /\ Preparing \/ pc \in {"idle", "open", "write", "close"} =>
           dataFree = Bytes(data, end) /\ total = ActiveBytes(data, end)
    /\ pc = "retire" =>
           dataFree = Bytes(data, end) /\ total = ActiveBytes(data, end) + Asks

(* A set that goes on has its room, with or without a compaction. *)
Fitting ==
    /\ Setting \/ Asked => Roomed(ActiveBytes(data, end) + Asks)
    /\ Setting =>
           Bytes(data, end) + Asks <= Aligned(Room - (ActiveBytes(data, end) + Asks))

(* A compaction: why it began, where it copies to, and how much. *)
Moving ==
    /\ Preparing /\ request = NoReq => end < Len(data)
    /\ pc \in {"writeOffset", "toSwap"} => swapAt = SwapStart
    /\ pc = "toSwap" => /\ Bytes(swap, Len(swap)) = ActiveBytes(data, copied)
                       /\ ReadableBytes(swap, Len(swap)) = ReadableBytes(data, copied)
    /\ pc = "toData" => /\ AllReadable(data)
                       /\ Bytes(data, Len(data)) = ReadableBytes(swap, copied)

Moved ==
    /\ desc = "valid" => /\ Roomed(ReadableBytes(swap, Len(swap)))
                         /\ Bytes(swap, Len(swap)) < swapAt
    /\ desc = "valid" /\ request # NoReq => Roomed(ReadableBytes(swap, Len(swap)) + Asks)
    /\ pc \in {"finalErase", "scan"} /\ request # NoReq =>
           AllReadable(data) /\ Roomed(Bytes(data, Len(data)) + Asks)

SpaceInv == SpaceTypeOK /\ Log /\ Counted /\ Fitting /\ Moving /\ Moved /\ EdgeOnly

LEMMA LaidSame ==
    ASSUME NEW s \in Seq(Objects), NEW t \in Seq(Objects), NEW k \in 0 .. Len(s),
           k <= Len(t), \A i \in 1 .. k : t[i] = s[i], Laid(s, k),
           k < Len(t) => k < Len(s) \/ Roomed(ActiveBytes(s, k) + HeadSize)
    PROVE  Laid(t, k)
<1>1. /\ Bytes(t, k) = Bytes(s, k) /\ ActiveBytes(t, k) = ActiveBytes(s, k)
      /\ ReadableBytes(t, k) = ReadableBytes(s, k) /\ (HasBad(t, k) <=> HasBad(s, k))
  BY SameBytes
<1> QED
  BY <1>1 DEF Laid

(* A log of readable objects only, with room for what it holds. *)
LEMMA LaidReadable ==
    ASSUME NEW s \in Seq(Objects), AllReadable(s), Roomed(Bytes(s, Len(s)))
    PROVE  Laid(s, Len(s))
<1> DEFINE n == Len(s)
           t == Bytes(s, n)
<1>1. ActiveBytes(s, n) = t /\ ReadableBytes(s, n) = t
  BY ReadableOnly
<1>2. t \in Nat
  BY BytesAre
<1>3. Roomed(t) /\ ~(n < Len(s))
  OBVIOUS
<1> HIDE DEF n, t
<1>4. 2 * t <= Room /\ t <= Aligned(Room - t)
  BY <1>2, <1>3, LessIsRoomed
<1>5. 2 * t <= Room + 2 * (HeadSize + LongLength)
  BY <1>2, <1>4, RoomIs, Sizes
<1>6. Laid(s, n)
  BY <1>1, <1>3, <1>4, <1>5 DEF Laid, t
<1> QED
  BY <1>6 DEF n

(* The active bytes never pass the room, and where the log ends. *)
LEMMA LogIs ==
    ASSUME IInv, SpaceInv, desc # "valid", pc # "wrecked"
    PROVE  /\ data \in Seq(Objects) /\ ScanEnd(data) \in 0 .. Len(data)
           /\ Laid(data, ScanEnd(data))
           /\ Bytes(data, ScanEnd(data)) \in Nat
           /\ ActiveBytes(data, ScanEnd(data)) \in Nat
           /\ ReadableBytes(data, ScanEnd(data)) \in Nat
           /\ ReadableBytes(data, ScanEnd(data)) <= ActiveBytes(data, ScanEnd(data))
           /\ ActiveBytes(data, ScanEnd(data)) <= Bytes(data, ScanEnd(data))
           /\ ActiveBytes(data, ScanEnd(data)) <= Room
<1> DEFINE k == ScanEnd(data)
<1>1. data \in Seq(Objects) /\ k \in 0 .. Len(data) /\ Laid(data, k)
  BY DEF IInv, StoreTypeOK, Ends, Edge, SpaceInv, Log
<1> HIDE DEF k
<1>2. /\ Bytes(data, k) \in Nat /\ ActiveBytes(data, k) \in Nat /\ ReadableBytes(data, k) \in Nat
      /\ ReadableBytes(data, k) <= ActiveBytes(data, k)
      /\ ActiveBytes(data, k) <= Bytes(data, k)
  BY <1>1, BytesAre
<1>3. 2 * ActiveBytes(data, k) <= Room + 2 * (HeadSize + LongLength)
  BY <1>1 DEF Laid
<1>4. ActiveBytes(data, k) <= Room
  BY <1>2, <1>3, RoomIs, Sizes
<1> QED
  BY <1>1, <1>2, <1>4 DEF k

(* Where the code knows the end. *)
LEMMA EndIs ==
    ASSUME IInv, Setting \/ Preparing \/ pc = "idle"
    PROVE  end = ScanEnd(data) /\ desc # "valid" /\ end \in Nat
BY DEF IInv, StoreTypeOK, Ends, Swaps, Setting, Writing, Preparing

LEMMA AskIs ==
    ASSUME IInv, request # NoReq
    PROVE  Asks \in Nat /\ Asks >= HeadSize /\ Asks > 0 /\ request.val \in Values
           /\ 2 * (HeadSize + LongLength + Asks) <= Room
<1>1. request.val \in Values
  BY DEF IInv, StoreTypeOK, Requests
<1> QED
  BY <1>1, Sizes, RoomIs DEF Asks

(* The object a set has written is as long as it asked for. *)
LEMMA NewestIs ==
    ASSUME IInv, pc \in {"close", "retire"}
    PROVE  /\ Size(data[end + 1]) = Asks /\ data[end + 1].val = request.val
           /\ data[end + 1].val # Bad /\ Active(data[end + 1]) /\ request # NoReq
<1>1. Writing /\ request # NoReq
  BY DEF IInv, Writing, Calls, Setting
<1>2. data[end + 1] \in Objects /\ request.val \in Values
  BY <1>1, WhileWriting, AskIs
<1>3. data[end + 1].val = request.val /\ Active(data[end + 1])
  BY <1>1 DEF IInv, Newest
<1> QED
  BY <1>1, <1>2, <1>3, SizeOfNew, ValuesAssumption DEF Asks

-----------------------------------------------------------------------------
(* Each step keeps the space in order. *)

LEMMA InitSpace == FlashInit => SpaceInv
<1> SUFFICES ASSUME FlashInit PROVE SpaceInv
  OBVIOUS
<1>1. /\ data = <<>> /\ pc = "boot" /\ desc = "clean"
      /\ dataFree = 0 /\ total = 0 /\ swapAt = 0 /\ IInv
  BY InitHolds DEF FlashInit, Init
<1>2. data \in Seq(Objects) /\ Len(data) = 0
  BY <1>1
<1>3. ScanEnd(data) = 0
  BY <1>1, <1>2 DEF IInv, Ends, Edge
<1>4. AllReadable(data) /\ Bytes(data, 0) = 0
  BY <1>2, NoBytes DEF AllReadable
<1>5. Roomed(0)
  BY RoomIs, AlignedIs DEF Roomed
<1>6. Laid(data, 0)
  BY <1>2, <1>4, <1>5, LaidReadable
<1> QED
  BY <1>1, <1>3, <1>6 DEF SpaceInv, SpaceTypeOK, Log, Counted, Fitting, Moving, Moved, EdgeOnly,
                          Preparing, Setting, Writing, Asked

LEMMA SetSpace ==
    ASSUME IInv, SpaceInv, NEW r \in Requests, Set(r)
    PROVE  SpaceInv'
<1>0. SpaceTypeOK /\ Log /\ Counted /\ Fitting /\ Moving /\ Moved /\ EdgeOnly
  BY DEF SpaceInv
<1>1. /\ pc = "idle" /\ UNCHANGED <<data, swap, desc, end>>
      /\ UNCHANGED <<dataFree, total, swapAt>>
  BY DEF Set, SetFits, SetRefused, SetCompacts, SameSpace
<1>2. end = ScanEnd(data) /\ desc # "valid" /\ end \in Nat /\ request = NoReq
  BY <1>1, EndIs DEF IInv, Calls
<1> DEFINE d == Bytes(data, end)
           t == ActiveBytes(data, end)
           s == NewSize(r.val)
<1>3. dataFree = d /\ total = t
  BY <1>0, <1>1 DEF Counted
<1>4. d \in Nat /\ t \in Nat /\ t <= d /\ 2 * t <= Room + 2 * (HeadSize + LongLength)
  BY <1>1, <1>2, LogIs DEF Laid
<1>5. s \in Nat /\ 2 * (HeadSize + LongLength + s) <= Room /\ r # NoReq
  BY Sizes, RoomIs, NoReqAssumption DEF Requests
<1>6. ProposedSwap(s) = Aligned(Room - (t + s))
  BY <1>3, <1>4, <1>5, RoomIs DEF ProposedSwap
<1> HIDE DEF d, t, s
<1>7. t + s <= Room
  BY <1>4, <1>5, RoomIs, Sizes
<1>8. Aligned(Room - (t + s)) \in Nat
  BY <1>4, <1>5, <1>7, RoomIs, AlignedIs
<1>9. SpaceTypeOK' /\ Log'
  BY <1>0, <1>1 DEF SpaceTypeOK, Log
<1>10. CASE SetFits(r) /\ Fits(s)
  <2>1. pc' = "open" /\ request' = r
    BY <1>10 DEF SetFits
  <2>2. d + s < Aligned(Room - (t + s))
    BY <1>3, <1>6, <1>10 DEF Fits
  <2>3. Roomed(t + s)
    BY <1>4, <1>5, <1>7, <1>8, <2>2 DEF Roomed
  <2>4. Counted' /\ Moving' /\ Moved' /\ EdgeOnly'
    BY <1>0, <1>1, <1>2, <2>1 DEF Counted, Moving, Moved, EdgeOnly, Preparing
  <2>5. d + s <= Aligned(Room - (t + s))
    BY <1>4, <1>5, <1>8, <2>2
  <2>6. Fitting'
    BY <1>1, <2>1, <2>3, <2>5 DEF Fitting, Asks, d, t, s
  <2> QED
    BY <1>9, <2>4, <2>6 DEF SpaceInv
<1>11. CASE SetRefused
  <2>1. UNCHANGED <<pc, request>>
    BY <1>11 DEF SetRefused
  <2> QED
    BY <1>0, <1>1, <1>2, <1>9, <2>1
       DEF SpaceInv, Counted, Fitting, Moving, Moved, EdgeOnly, Preparing, Setting, Writing, Asked
<1>12. CASE SetCompacts(r) /\ ~Fits(s) /\ ~NoSpace(s)
  <2>1. pc' = "eraseSwap" /\ request' = r
    BY <1>12 DEF SetCompacts
  <2>2. t + s <= Aligned(Room - (t + s))
    BY <1>3, <1>4, <1>5, <1>6, <1>8, <1>12 DEF NoSpace
  <2>3. Roomed(t + s)
    BY <1>7, <2>2 DEF Roomed
  <2>4. Counted' /\ Moving' /\ Moved' /\ EdgeOnly'
    BY <1>0, <1>1, <1>2, <1>5, <2>1 DEF Counted, Moving, Moved, EdgeOnly, Preparing
  <2>5. Fitting'
    BY <1>1, <2>1, <2>3 DEF Fitting, Asks, Setting, Writing, d, t, s
  <2> QED
    BY <1>9, <2>4, <2>5 DEF SpaceInv
<1> QED
  BY <1>10, <1>11, <1>12 DEF Set, s

(* A scan counts anew. *)
LEMMA MountSpace ==
    ASSUME IInv, SpaceInv, Mount
    PROVE  SpaceInv'
<1>0. SpaceTypeOK /\ Log /\ Counted /\ Fitting /\ Moving /\ Moved /\ EdgeOnly
  BY DEF SpaceInv
<1>1. /\ Scan /\ Kill /\ pc \in {"boot", "scan"} /\ desc # "valid"
      /\ UNCHANGED <<swap, desc, request>>
      /\ dataFree' = Bytes(data, ScanEnd(data)) /\ total' = ActiveBytes(data, ScanEnd(data))
      /\ swapAt' = swapAt
  BY DEF Mount, BootScan, Rescan, ScanSpace, IInv, Swaps
<1> DEFINE k == ScanEnd(data)
<1>2. /\ data' \in Seq(Objects) /\ Len(data') = Len(data)
      /\ end' = k /\ ScanEnd(data') = k /\ \A i \in 1 .. k : data'[i] = data[i]
  BY <1>1, ScanKeeps
<1>3. /\ data \in Seq(Objects) /\ k \in 0 .. Len(data) /\ Laid(data, k)
      /\ Bytes(data, k) \in Nat /\ ActiveBytes(data, k) \in Nat
  BY <1>1, LogIs
<1>4. dataFree' = Bytes(data, k) /\ total' = ActiveBytes(data, k)
  BY <1>1
<1> HIDE DEF k
<1>5. /\ Bytes(data', k) = Bytes(data, k) /\ ActiveBytes(data', k) = ActiveBytes(data, k)
  BY <1>2, <1>3, SameBytes
<1>6. Laid(data', k)
  BY <1>2, <1>3, LaidSame
<1>7. SpaceTypeOK' /\ Log'
  BY <1>0, <1>1, <1>2, <1>3, <1>4, <1>6 DEF SpaceTypeOK, Log
<1>8. pc' # "retire" /\ pc' # "write" /\ pc' # "close" /\ pc' # "failed"
      /\ pc' \notin {"writeOffset", "toSwap", "toData", "scan"}
  BY DEF Mount, BootScan, Rescan, IInv, Ends
<1>9. Counted'
  BY <1>2, <1>4, <1>5, <1>8 DEF Counted
<1>10. CASE BootScan
  <2>1. /\ pc' = IF k < Len(data) THEN "eraseSwap"
                 ELSE (IF desc = "clean" THEN "idle" ELSE "finalErase")
        /\ request = NoReq
    BY <1>10 DEF BootScan, IInv, Calls, k
  <2>2. Fitting' /\ Moving' /\ Moved' /\ EdgeOnly'
    BY <1>1, <1>2, <2>1 DEF Fitting, Moving, Moved, EdgeOnly, Preparing, Setting, Writing, Asked
  <2> QED
    BY <1>7, <1>9, <2>2 DEF SpaceInv
<1>11. CASE Rescan
  <2>1. pc = "scan" /\ k = Len(data)
        /\ pc' = IF request = NoReq THEN "idle" ELSE "open"
    BY <1>11 DEF Rescan, IInv, Ends, k
  <2>2. Moving' /\ Moved' /\ EdgeOnly'
    BY <1>1, <2>1 DEF Moving, Moved, EdgeOnly, Preparing
  <2>3. CASE request = NoReq
    BY <1>1, <1>7, <1>9, <2>1, <2>2, <2>3 DEF SpaceInv, Fitting, Setting, Writing, Asked
  <2>4. CASE request # NoReq
    <3>1. AllReadable(data) /\ Roomed(Bytes(data, k) + Asks)
      BY <1>0, <2>1, <2>4 DEF Moved
    <3>2. ActiveBytes(data, k) = Bytes(data, k)
      BY <1>3, <2>1, <3>1, ReadableOnly
    <3>3. Asks' = Asks
      BY <1>1 DEF Asks
    <3>4. Bytes(data, k) + Asks <= Aligned(Room - (Bytes(data, k) + Asks))
      BY <3>1 DEF Roomed
    <3>5. Fitting'
      BY <1>2, <1>5, <3>1, <3>2, <3>3, <3>4 DEF Fitting
    <3> QED
      BY <1>7, <1>9, <2>2, <3>5 DEF SpaceInv
  <2> QED
    BY <2>3, <2>4
<1> QED
  BY <1>10, <1>11 DEF Mount

LEMMA PlaceSpace ==
    ASSUME IInv, SpaceInv, PlaceSwap
    PROVE  SpaceInv'
<1>0. SpaceTypeOK /\ Log /\ Counted /\ Fitting /\ Moving /\ Moved /\ EdgeOnly
  BY DEF SpaceInv
<1>1. /\ pc = "eraseSwap" /\ pc' = "writeOffset" /\ desc' = "clean" /\ swap' = <<>>
      /\ UNCHANGED <<data, end, request, dataFree, total>>
      /\ swapAt' = SwapStart
  BY DEF PlaceSwap, EraseSwap
<1>2. end = ScanEnd(data) /\ desc # "valid"
  BY <1>1, EndIs DEF Preparing
<1>3. total = ActiveBytes(data, end) /\ total \in Nat /\ total <= Room
  BY <1>0, <1>1, <1>2, LogIs DEF Counted, Preparing, SpaceTypeOK
<1>4. SwapStart \in Nat /\ SwapStart' = SwapStart
  BY <1>1, <1>3, SwapAbove DEF SwapStart
<1>5. SpaceTypeOK' /\ Log'
  BY <1>0, <1>1, <1>2, <1>4 DEF SpaceTypeOK, Log
<1>6. Counted' /\ Fitting'
  BY <1>0, <1>1 DEF Counted, Fitting, Preparing, Setting, Writing, Asked, Asks
<1>7. Moving' /\ Moved' /\ EdgeOnly'
  BY <1>0, <1>1, <1>4 DEF Moving, Moved, EdgeOnly, Preparing
<1> QED
  BY <1>5, <1>6, <1>7 DEF SpaceInv

(* The copy to the swap area: as long as the objects it has passed. *)
LEMMA ToSwapSpace ==
    ASSUME IInv, SpaceInv, WriteOffset \/ CopyToSwap, SameSpace
    PROVE  SpaceInv'
<1>0. SpaceTypeOK /\ Log /\ Counted /\ Fitting /\ Moving /\ Moved /\ EdgeOnly
  BY DEF SpaceInv
<1>1. /\ pc \in {"writeOffset", "toSwap"} /\ pc' = "toSwap" /\ desc' # "valid"
      /\ UNCHANGED <<data, end, request, dataFree, total, swapAt>>
  BY DEF WriteOffset, CopyToSwap, SameSpace, IInv, Swaps
<1>2. end = ScanEnd(data) /\ desc # "valid" /\ end \in Nat
  BY <1>1, EndIs DEF Preparing
<1>3. /\ data \in Seq(Objects) /\ swap \in Seq(Objects) /\ end <= Len(data) /\ copied \in Nat
  BY <1>1, <1>2, LogIs DEF IInv, StoreTypeOK
<1>4. SwapStart' = SwapStart
  BY <1>1 DEF SwapStart
<1>5. SpaceTypeOK' /\ Log' /\ Counted' /\ Fitting' /\ Moved' /\ EdgeOnly'
  BY <1>0, <1>1, <1>2 DEF SpaceTypeOK, Log, Counted, Fitting, Moved, EdgeOnly, Preparing,
                          Setting, Writing, Asked, Asks
<1>6. /\ Bytes(swap', Len(swap')) = ActiveBytes(data, copied')
      /\ ReadableBytes(swap', Len(swap')) = ReadableBytes(data, copied')
  <2>1. CASE WriteOffset
    <3>1. swap' = <<>> /\ Len(swap') = 0 /\ copied' = 0
      BY <2>1 DEF WriteOffset, IInv, Swaps
    <3> QED
      BY <3>1, NoBytes
  <2>2. CASE CopyToSwap
    <3>1. /\ pc = "toSwap" /\ copied < end /\ copied' = copied + 1
          /\ swap' = CopyInto(swap, data[copied + 1])
      BY <2>2 DEF CopyToSwap
    <3>2. /\ Bytes(swap, Len(swap)) = ActiveBytes(data, copied)
          /\ ReadableBytes(swap, Len(swap)) = ReadableBytes(data, copied)
      BY <1>0, <3>1 DEF Moving
    <3>3. data[copied + 1] \in Objects /\ copied + 1 <= Len(data)
      BY <1>2, <1>3, <3>1
    <3> DEFINE o == data[copied + 1]
    <3>4. /\ Bytes(swap', Len(swap'))
               = Bytes(swap, Len(swap)) + (IF Active(o) THEN Size(o) ELSE 0)
          /\ ReadableBytes(swap', Len(swap'))
               = ReadableBytes(swap, Len(swap)) + (IF Readable(o) THEN Size(o) ELSE 0)
      BY <1>3, <3>1, <3>3, CopyBytes
    <3>5. /\ ActiveBytes(data, copied + 1)
               = ActiveBytes(data, copied) + (IF Active(o) THEN Size(o) ELSE 0)
          /\ ReadableBytes(data, copied + 1)
               = ReadableBytes(data, copied) + (IF Readable(o) THEN Size(o) ELSE 0)
      BY <1>3, <3>3, NextBytes
    <3> QED
      BY <3>1, <3>2, <3>4, <3>5
  <2> QED
    BY <2>1, <2>2
<1>7. Moving'
  BY <1>0, <1>1, <1>4, <1>6 DEF Moving, Preparing
<1> QED
  BY <1>5, <1>7 DEF SpaceInv

(* A copy that does not fit: the objects end within a demarcation of the    *)
(* block the swap area starts at, unless one was cut in its length.        *)
LEMMA FailSpace ==
    ASSUME IInv, SpaceInv, CopyFails, ~SwapHolds, SameSpace
    PROVE  SpaceInv'
<1>0. SpaceTypeOK /\ Log /\ Counted /\ Fitting /\ Moving /\ Moved /\ EdgeOnly
  BY DEF SpaceInv
<1>1. /\ pc = "toSwap" /\ copied < end
      /\ UNCHANGED <<data, swap, desc, end, copied, dataFree, total, swapAt>>
      /\ IF request # NoReq THEN pc' = "idle" /\ request' = NoReq
         ELSE pc' = "failed" /\ request' = request
  BY DEF CopyFails, SameSpace
<1>2. end = ScanEnd(data) /\ desc # "valid" /\ end \in Nat
  BY <1>1, EndIs DEF Preparing
<1>3. /\ data \in Seq(Objects) /\ swap \in Seq(Objects) /\ end \in 0 .. Len(data)
      /\ copied \in Nat /\ copied + 1 \in 0 .. end
  BY <1>1, <1>2, LogIs DEF IInv, StoreTypeOK
<1>4. SpaceTypeOK' /\ Log' /\ Counted' /\ Fitting' /\ Moving' /\ Moved'
  BY <1>0, <1>1, <1>2 DEF SpaceTypeOK, Log, Counted, Fitting, Moving, Moved, Preparing,
                          Setting, Writing, Asked
<1> DEFINE t == ActiveBytes(data, end)
           o == data[copied + 1]
           b == Bytes(swap, Len(swap))
           m == (PartSize - DescSize - t) % BlockSize
           a == Aligned(PartSize - DescSize - t)
<1>5. total = t /\ swapAt = a /\ t \in Nat /\ t <= Room
  BY <1>0, <1>1, <1>2, LogIs DEF Counted, Moving, Preparing, SwapStart
<1>6. /\ a \in Nat /\ a <= PartSize /\ Aligned(Room - t) <= a
      /\ PartSize - DescSize - t = a + m
  <2> HIDE DEF t
  <2> QED
    BY <1>5, SwapAbove
<1>7. Active(o) /\ (\/ ~(Bytes(data, copied + 1) <= PartSize)
                    \/ ~(a + Demarcation + b + Size(o) < PartSize - DescSize))
  BY <1>5 DEF SwapHolds
<1>8. b + Size(o) = ActiveBytes(data, copied + 1) /\ b \in Nat
  <2>1. b = ActiveBytes(data, copied)
    BY <1>0, <1>1 DEF Moving
  <2>2. ActiveBytes(data, copied + 1) = ActiveBytes(data, copied) + Size(o)
    BY <1>3, <1>7, NextBytes
  <2>3. copied \in 0 .. end
    BY <1>1, <1>3
  <2> QED
    BY <1>3, <2>1, <2>2, <2>3, BytesAre
<1>9. /\ ActiveBytes(data, copied + 1) <= t /\ ActiveBytes(data, copied + 1) \in Nat
      /\ Bytes(data, copied + 1) <= Bytes(data, end)
      /\ Bytes(data, copied + 1) \in Nat /\ Bytes(data, end) \in Nat
  BY <1>3, BytesAre
<1>10. o \in Objects
  BY <1>3
<1>11. Size(o) \in Nat
  BY <1>10, Sizes
<1>12. ~Spoiled => m <= Demarcation
  <2> SUFFICES ASSUME ~Spoiled PROVE m <= Demarcation
    OBVIOUS
  <2>1. Bytes(data, end) <= Aligned(Room - t)
    BY <1>1, <1>2, LogIs DEF Laid, Spoiled
  <2>2. m \in Nat
    <3>1. PartSize - DescSize - t \in Nat
      BY <1>5, RoomIs, Sizes DEF Room
    <3> QED
      BY <3>1, Sizes
  <2>3. Room - t \in Nat
    BY <1>5, RoomIs
  <2>4. Aligned(Room - t) \in Nat
    BY <2>3, AlignedIs
  <2> HIDE DEF t, o, b, m, a
  <2>5. Bytes(data, copied + 1) <= PartSize
    BY <1>6, <1>9, <2>1, <2>4, Sizes
  <2>6. ~(a + Demarcation + b + Size(o) < PartSize - DescSize)
    BY <1>7, <2>5
  <2>7. a + Demarcation + ActiveBytes(data, copied + 1) >= PartSize - DescSize
    BY <1>6, <1>8, <1>11, <2>6, Sizes
  <2> QED
    BY <1>5, <1>6, <1>9, <2>2, <2>7, Sizes
<1>13. EdgeOnly'
  <2>1. Spoiled' <=> Spoiled
    BY <1>1 DEF Spoiled
  <2>2. total' = t
    BY <1>1, <1>5
  <2> QED
    BY <1>12, <2>1, <2>2 DEF EdgeOnly
<1> QED
  BY <1>4, <1>13 DEF SpaceInv

(* The marker: the copies lie below their own swap start.  A compaction     *)
(* that a set asked for, and one behind a cut set, have bytes to spare.    *)
LEMMA MarkerSpace ==
    ASSUME IInv, SpaceInv, WriteMarker, SameSpace
    PROVE  SpaceInv'
<1>0. SpaceTypeOK /\ Log /\ Counted /\ Fitting /\ Moving /\ Moved /\ EdgeOnly
  BY DEF SpaceInv
<1>1. /\ pc = "toSwap" /\ pc' = "eraseData" /\ copied = end /\ desc' = "valid"
      /\ UNCHANGED <<data, swap, end, request, dataFree, total, swapAt>>
  BY DEF WriteMarker, SameSpace
<1>2. end = ScanEnd(data) /\ desc # "valid" /\ end \in Nat
  BY <1>1, EndIs DEF Preparing
<1> DEFINE t == ActiveBytes(data, end)
           u == ReadableBytes(data, end)
           a == Aligned(PartSize - DescSize - t)
<1>3. /\ t \in Nat /\ u \in Nat /\ u <= t /\ t <= Room /\ Roomed(u)
  BY <1>1, <1>2, LogIs DEF Laid
<1>4. /\ Bytes(swap, Len(swap)) = t /\ ReadableBytes(swap, Len(swap)) = u
      /\ swapAt = a
  BY <1>0, <1>1 DEF Moving, Counted, Preparing, SwapStart
<1>5. \E x \in Nat : x > t /\ Roomed(x) /\ (request # NoReq => x = t + Asks)
  <2>1. CASE request # NoReq
    <3>1. Roomed(t + Asks)
      BY <1>0, <1>1, <2>1 DEF Fitting, Asked
    <3>2. Asks \in Nat /\ Asks > 0
      BY <2>1, AskIs
    <3> QED
      BY <1>3, <3>1, <3>2
  <2>2. CASE request = NoReq
    <3>1. end < Len(data)
      BY <1>0, <1>1, <2>2 DEF Moving, Preparing
    <3>2. Roomed(t + HeadSize)
      BY <1>1, <1>2, <3>1, LogIs DEF Laid
    <3> QED
      BY <1>3, <2>2, <3>2, Sizes
  <2> QED
    BY <2>1, <2>2
<1> HIDE DEF t, u
<1>6. PICK x \in Nat : x > t /\ Roomed(x) /\ (request # NoReq => x = t + Asks)
  BY <1>5
<1>7. x <= Aligned(Room - x) /\ Aligned(Room - x) <= Aligned(Room - t)
  BY <1>3, <1>6, LessIsRoomed
<1>8. Aligned(Room - t) <= a /\ a \in Nat
  BY <1>3, SwapAbove
<1>9. Room - x \in Nat /\ Room - t \in Nat
  BY <1>3, <1>6, RoomIs DEF Roomed
<1>10. Aligned(Room - x) \in Nat /\ Aligned(Room - t) \in Nat
  BY <1>9, AlignedIs
<1>11. t < a
  <2> HIDE DEF a
  <2> QED
    BY <1>3, <1>6, <1>7, <1>8, <1>10
<1>12. request # NoReq => Roomed(u + Asks)
  <2> SUFFICES ASSUME request # NoReq PROVE Roomed(u + Asks)
    OBVIOUS
  <2>1. Asks \in Nat
    BY AskIs
  <2>2. u + Asks \in Nat /\ t + Asks \in Nat /\ u + Asks <= t + Asks
    BY <1>3, <2>1
  <2> QED
    BY <1>6, <2>2, LessIsRoomed
<1>13. Moved'
  BY <1>1, <1>3, <1>4, <1>11, <1>12 DEF Moved, Asks
<1>14. SpaceTypeOK' /\ Log' /\ Counted' /\ Fitting' /\ Moving' /\ EdgeOnly'
  BY <1>0, <1>1 DEF SpaceTypeOK, Log, Counted, Fitting, Moving, EdgeOnly, Preparing,
                    Setting, Writing, Asked
<1> QED
  BY <1>13, <1>14 DEF SpaceInv

(* The copy back, which begins anew after a cut. *)
LEMMA BackSpace ==
    ASSUME IInv, SpaceInv, BootToData \/ EraseData \/ CopyToData, SameSpace
    PROVE  SpaceInv'
<1>0. SpaceTypeOK /\ Log /\ Counted /\ Fitting /\ Moving /\ Moved /\ EdgeOnly
  BY DEF SpaceInv
<1>1. /\ desc = "valid" /\ pc' \in {"eraseData", "toData"}
      /\ UNCHANGED <<swap, desc, request, dataFree, total, swapAt>>
  BY DEF BootToData, EraseData, CopyToData, SameSpace, IInv, Swaps
<1>2. SpaceTypeOK' /\ Log' /\ Counted' /\ Fitting' /\ Moved' /\ EdgeOnly'
  BY <1>0, <1>1 DEF SpaceTypeOK, Log, Counted, Fitting, Moved, EdgeOnly, Preparing,
                    Setting, Writing, Asked, Asks
<1>3. CASE BootToData
  <2>1. pc' = "eraseData"
    BY <1>3 DEF BootToData
  <2> QED
    BY <1>2, <2>1 DEF SpaceInv, Moving, Preparing
<1>4. CASE EraseData
  <2>1. data' = <<>> /\ copied' = 0 /\ pc' = "toData" /\ Len(data') = 0
    BY <1>4 DEF EraseData
  <2>2. AllReadable(data')
    BY <2>1 DEF AllReadable
  <2>3. Bytes(data', Len(data')) = 0 /\ ReadableBytes(swap', copied') = 0
    BY <2>1, NoBytes
  <2> QED
    BY <1>2, <2>1, <2>2, <2>3 DEF SpaceInv, Moving, Preparing
<1>5. CASE CopyToData
  <2> DEFINE o == swap[copied + 1]
  <2>1. /\ pc = "toData" /\ pc' = "toData" /\ copied < Len(swap) /\ copied' = copied + 1
        /\ data' = CopyInto(data, o)
    BY <1>5 DEF CopyToData
  <2>2. /\ data \in Seq(Objects) /\ swap \in Seq(Objects) /\ copied \in Nat
        /\ Len(swap) \in Nat /\ NoneBad(swap)
    BY <1>1 DEF IInv, StoreTypeOK, Swaps
  <2>3. o \in Objects /\ copied + 1 <= Len(swap) /\ (Active(o) => o.val # Bad)
    BY <2>1, <2>2 DEF NoneBad
  <2>4. AllReadable(data) /\ Bytes(data, Len(data)) = ReadableBytes(swap, copied)
    BY <1>0, <2>1 DEF Moving
  <2>5. ReadableBytes(swap, copied + 1)
          = ReadableBytes(swap, copied) + (IF Readable(o) THEN Size(o) ELSE 0)
    BY <2>2, <2>3, NextBytes
  <2> HIDE DEF o
  <2>6. /\ Bytes(data', Len(data'))
             = Bytes(data, Len(data)) + (IF Active(o) THEN Size(o) ELSE 0)
        /\ AllReadable(data')
    BY <2>1, <2>2, <2>3, <2>4, CopyBytes
  <2>7. Active(o) <=> Readable(o)
    BY <2>3 DEF Readable
  <2>8. Bytes(data', Len(data')) = ReadableBytes(swap', copied')
    BY <1>1, <2>1, <2>4, <2>5, <2>6, <2>7
  <2> QED
    BY <1>2, <2>1, <2>6, <2>8 DEF SpaceInv, Moving, Preparing
<1> QED
  BY <1>3, <1>4, <1>5

(* The copy back is complete: the data area holds what the swap area did. *)
LEMMA BackDone ==
    ASSUME IInv, SpaceInv, IInv', InvalidateSwap \/ FinalErase, SameSpace
    PROVE  SpaceInv'
<1>0. SpaceTypeOK /\ Log /\ Counted /\ Fitting /\ Moving /\ Moved /\ EdgeOnly
  BY DEF SpaceInv
<1>1. CASE InvalidateSwap
  <2>1. /\ pc = "toData" /\ pc' = "finalErase" /\ copied = Len(swap) /\ desc' = "zero"
        /\ desc = "valid"
        /\ UNCHANGED <<data, swap, end, request, dataFree, total, swapAt>>
    BY <1>1 DEF InvalidateSwap, SameSpace, IInv, Swaps
  <2>2. /\ AllReadable(data) /\ Bytes(data, Len(data)) = ReadableBytes(swap, Len(swap))
        /\ Roomed(Bytes(data, Len(data)))
    BY <1>0, <2>1 DEF Moving, Moved
  <2>3. ScanEnd(data) = Len(data) /\ data \in Seq(Objects)
    BY <2>1 DEF IInv, Ends, StoreTypeOK
  <2>4. Laid(data, ScanEnd(data))
    BY <2>2, <2>3, LaidReadable
  <2>5. Moved'
    BY <1>0, <2>1, <2>2 DEF Moved, Asks
  <2>6. SpaceTypeOK' /\ Log' /\ Counted' /\ Fitting' /\ Moving' /\ EdgeOnly'
    BY <1>0, <2>1, <2>4 DEF SpaceTypeOK, Log, Counted, Fitting, Moving, EdgeOnly, Preparing,
                            Setting, Writing, Asked
  <2> QED
    BY <2>5, <2>6 DEF SpaceInv
<1>2. CASE FinalErase
  <2>1. /\ pc = "finalErase" /\ pc' = "scan" /\ desc # "valid" /\ desc' # "valid"
        /\ UNCHANGED <<data, end, request, dataFree, total, swapAt>>
    BY <1>2 DEF FinalErase, SameSpace, IInv, Swaps
  <2> QED
    BY <1>0, <2>1 DEF SpaceInv, SpaceTypeOK, Log, Counted, Fitting, Moving, Moved, EdgeOnly,
                      Preparing, Setting, Writing, Asked, Asks
<1> QED
  BY <1>1, <1>2

(* While a set writes, the objects below the end stay as they were, and     *)
(* what is cut behind them had its room.                                   *)
LEMMA BelowSet ==
    ASSUME IInv, SpaceInv, Setting
    PROVE  /\ data \in Seq(Objects) /\ end \in 0 .. Len(data) /\ end = ScanEnd(data)
           /\ desc # "valid" /\ Laid(data, end)
           /\ Bytes(data, end) \in Nat /\ ActiveBytes(data, end) \in Nat
           /\ ReadableBytes(data, end) \in Nat
           /\ ReadableBytes(data, end) <= ActiveBytes(data, end)
           /\ Asks \in Nat /\ Asks >= HeadSize /\ 2 * (HeadSize + LongLength + Asks) <= Room
           /\ Roomed(ActiveBytes(data, end) + Asks)
           /\ Roomed(ActiveBytes(data, end) + HeadSize)
           /\ 2 * (ActiveBytes(data, end) + Asks) <= Room
<1>1. end = ScanEnd(data) /\ desc # "valid"
  BY EndIs
<1>2. /\ data \in Seq(Objects) /\ end \in 0 .. Len(data) /\ Laid(data, end)
      /\ Bytes(data, end) \in Nat /\ ActiveBytes(data, end) \in Nat
      /\ ReadableBytes(data, end) \in Nat
      /\ ReadableBytes(data, end) <= ActiveBytes(data, end)
  BY <1>1, LogIs DEF Setting, Writing
<1>3. request # NoReq
  BY DEF IInv, Calls
<1>4. Asks \in Nat /\ Asks >= HeadSize /\ 2 * (HeadSize + LongLength + Asks) <= Room
  BY <1>3, AskIs
<1>5. Roomed(ActiveBytes(data, end) + Asks)
  BY DEF SpaceInv, Fitting
<1>6. /\ ActiveBytes(data, end) + Asks \in Nat /\ ActiveBytes(data, end) + HeadSize \in Nat
      /\ ActiveBytes(data, end) + HeadSize <= ActiveBytes(data, end) + Asks
  BY <1>2, <1>4, Sizes
<1>7. Roomed(ActiveBytes(data, end) + HeadSize) /\ 2 * (ActiveBytes(data, end) + Asks) <= Room
  BY <1>5, <1>6, LessIsRoomed
<1> QED
  BY <1>1, <1>2, <1>4, <1>5, <1>7

LEMMA BelowStays ==
    ASSUME IInv, SpaceInv, Setting, NEW t \in Seq(Objects), end <= Len(t),
           \A i \in 1 .. end : t[i] = data[i]
    PROVE  /\ Laid(t, end)
           /\ Bytes(t, end) = Bytes(data, end) /\ ActiveBytes(t, end) = ActiveBytes(data, end)
           /\ ReadableBytes(t, end) = ReadableBytes(data, end)
           /\ HasBad(t, end) <=> HasBad(data, end)
<1>1. /\ data \in Seq(Objects) /\ end \in 0 .. Len(data) /\ Laid(data, end)
      /\ Roomed(ActiveBytes(data, end) + HeadSize)
  BY BelowSet
<1>2. Laid(t, end)
  BY <1>1, LaidSame
<1> QED
  BY <1>1, <1>2, SameBytes

LEMMA WriteSpace ==
    ASSUME IInv, SpaceInv, WriteNew
    PROVE  SpaceInv'
<1>0. SpaceTypeOK /\ Log /\ Counted /\ Fitting /\ Moving /\ Moved /\ EdgeOnly
  BY DEF SpaceInv
<1>1. /\ OpenObject \/ WriteObject
      /\ pc \in {"open", "write"} /\ pc' \in {"write", "close"}
      /\ UNCHANGED <<swap, desc, end, request, dataFree, total, swapAt>>
  BY DEF WriteNew, SameSpace, OpenObject, WriteObject
<1>2. Setting /\ Setting'
  BY <1>1 DEF Setting, Writing
<1>3. /\ data' \in Seq(Objects) /\ Len(data') = end + 1
      /\ \A i \in 1 .. end : data'[i] = data[i]
      /\ ScanEnd(data') = end
  BY <1>1, OpenKeeps, WriteKeeps
<1>4. end \in Nat /\ desc # "valid"
  BY <1>2, EndIs
<1>5. /\ Laid(data', end)
      /\ Bytes(data', end) = Bytes(data, end) /\ ActiveBytes(data', end) = ActiveBytes(data, end)
      /\ HasBad(data', end) <=> HasBad(data, end)
  BY <1>2, <1>3, <1>4, BelowStays
<1>6. SpaceTypeOK' /\ Log'
  BY <1>0, <1>1, <1>3, <1>5 DEF SpaceTypeOK, Log
<1>7. dataFree = Bytes(data, end) /\ total = ActiveBytes(data, end)
  BY <1>0, <1>1 DEF Counted
<1>8. Counted'
  BY <1>1, <1>5, <1>7 DEF Counted
<1>9. Asks' = Asks
  BY <1>1 DEF Asks
<1>10. Fitting'
  BY <1>0, <1>1, <1>2, <1>5, <1>9 DEF Fitting
<1>11. Moving' /\ Moved' /\ EdgeOnly'
  BY <1>1, <1>4 DEF Moving, Moved, EdgeOnly, Preparing
<1> QED
  BY <1>6, <1>8, <1>10, <1>11 DEF SpaceInv

(* The log with the new object: closed as what was asked, or as an object   *)
(* whose length was half written.                                          *)
LEMMA LaidWithNew ==
    ASSUME IInv, SpaceInv, Setting, NEW t \in Seq(Objects), Len(t) = end + 1,
           \A i \in 1 .. end : t[i] = data[i], Active(t[end + 1]),
           t[end + 1].val # Bad => Size(t[end + 1]) = Asks
    PROVE  /\ Laid(t, end + 1)
           /\ Bytes(t, end + 1) = Bytes(data, end) + Size(t[end + 1])
           /\ ActiveBytes(t, end + 1) = ActiveBytes(data, end) + Size(t[end + 1])
<1> DEFINE d == Bytes(data, end)
           a == ActiveBytes(data, end)
           u == ReadableBytes(data, end)
           o == t[end + 1]
<1>1. /\ end \in Nat /\ d \in Nat /\ a \in Nat /\ u \in Nat /\ u <= a
      /\ Asks \in Nat /\ Roomed(a + Asks) /\ 2 * (a + Asks) <= Room
      /\ Roomed(u) /\ Laid(data, end)
  BY BelowSet DEF Laid
<1>2. /\ Bytes(t, end) = d /\ ActiveBytes(t, end) = a /\ ReadableBytes(t, end) = u
      /\ HasBad(t, end) <=> HasBad(data, end)
  BY <1>1, BelowStays
<1>3. o \in Objects
  BY <1>1
<1>4. Size(o) \in Nat
  BY <1>3, Sizes
<1>5. /\ Bytes(t, end + 1) = d + Size(o) /\ ActiveBytes(t, end + 1) = a + Size(o)
      /\ ReadableBytes(t, end + 1) = u + (IF Readable(o) THEN Size(o) ELSE 0)
  BY <1>1, <1>2, NextBytes
<1>6. ~(end + 1 < Len(t))
  BY <1>1
<1>7. end + 1 \in 1 .. (end + 1) /\ 1 .. end \subseteq 1 .. (end + 1)
  BY <1>1
<1>8. o.val = Bad => HasBad(t, end + 1)
  BY <1>7 DEF HasBad
<1>9. CASE o.val # Bad
  <2>1. Readable(o) /\ Size(o) = Asks
    BY <1>9 DEF Readable
  <2>2. ReadableBytes(t, end + 1) = u + Asks /\ ActiveBytes(t, end + 1) = a + Asks
        /\ Bytes(t, end + 1) = d + Asks
    BY <1>5, <2>1
  <2>3. d + Asks <= Aligned(Room - (a + Asks))
    BY DEF SpaceInv, Fitting
  <2> HIDE DEF d, a, u, o
  <2>4. Roomed(u + Asks)
    BY <1>1, LessIsRoomed
  <2>5. 2 * (a + Asks) <= Room + 2 * (HeadSize + LongLength)
    BY <1>1, RoomIs, Sizes
  <2>6. Laid(t, end + 1)
    BY <1>6, <2>2, <2>3, <2>4, <2>5 DEF Laid
  <2> QED
    BY <1>5, <2>6 DEF d, a, o
<1>10. CASE o.val = Bad
  <2>1. ~Readable(o) /\ Size(o) = HeadSize + LongLength
    BY <1>10 DEF Readable, Size
  <2>2. ReadableBytes(t, end + 1) = u /\ ActiveBytes(t, end + 1) = a + (HeadSize + LongLength)
    BY <1>1, <1>5, <2>1
  <2> HIDE DEF d, a, u, o
  <2>3. 2 * (a + (HeadSize + LongLength)) <= Room + 2 * (HeadSize + LongLength)
    BY <1>1, RoomIs, Sizes
  <2>4. HasBad(t, end + 1)
    BY <1>8, <1>10
  <2>5. Laid(t, end + 1)
    BY <1>1, <1>6, <2>2, <2>3, <2>4 DEF Laid
  <2> QED
    BY <1>5, <2>5 DEF d, a, o
<1> QED
  BY <1>9, <1>10

LEMMA CloseSpace ==
    ASSUME IInv, SpaceInv, CloseNew
    PROVE  SpaceInv'
<1>0. SpaceTypeOK /\ Log /\ Counted /\ Fitting /\ Moving /\ Moved /\ EdgeOnly
  BY DEF SpaceInv
<1>1. /\ pc = "close" /\ Setting /\ Writing /\ UNCHANGED <<swap, desc, old, swapAt>>
      /\ data' = [data EXCEPT ![end + 1].mark = "closed"]
      /\ IF old = 0 THEN end' = end + 1 /\ pc' = "idle" /\ request' = NoReq
         ELSE pc' = "retire" /\ end' = end /\ request' = request
      /\ total' = total + Size(data[end + 1])
      /\ IF old = 0 THEN dataFree' = dataFree + Size(data[end + 1]) ELSE dataFree' = dataFree
  BY DEF CloseNew, CloseObject, Return, Advance, Setting, Writing
<1>2. /\ Size(data[end + 1]) = Asks /\ data[end + 1].val = request.val
      /\ data[end + 1].val # Bad /\ Active(data[end + 1]) /\ request # NoReq
  BY <1>1, NewestIs
<1>3. data[end + 1] \in Objects /\ request.val \in Values /\ end \in Nat /\ desc # "valid"
  BY <1>1, <1>2, WhileWriting, AskIs
<1>4. ClosedAs(request.val)
  <2>1. [data[end + 1] EXCEPT !.mark = "closed", !.val = request.val]
          = [data[end + 1] EXCEPT !.mark = "closed"]
    BY <1>2, <1>3 DEF Objects
  <2> QED
    BY <1>1, <2>1 DEF ClosedAs
<1>5. /\ data' \in Seq(Objects) /\ Len(data') = end + 1
      /\ data'[end + 1] = [data[end + 1] EXCEPT !.mark = "closed", !.val = request.val]
      /\ \A i \in 1 .. end : data'[i] = data[i]
      /\ ScanEnd(data') = IF old = 0 THEN end + 1 ELSE end
  BY <1>1, <1>3, <1>4, CloseKeeps
<1>6. data'[end + 1].val = data[end + 1].val /\ Active(data'[end + 1])
  BY <1>2, <1>3, <1>5 DEF Objects, Active
<1>7. Size(data'[end + 1]) = Asks
  BY <1>2, <1>6 DEF Size
<1>8. /\ dataFree = Bytes(data, end) /\ total = ActiveBytes(data, end)
      /\ Bytes(data, end) \in Nat /\ ActiveBytes(data, end) \in Nat /\ Asks \in Nat
  BY <1>0, <1>1, BelowSet DEF Counted
<1>9. SpaceTypeOK'
  BY <1>0, <1>1, <1>2, <1>8 DEF SpaceTypeOK
<1>10. CASE old = 0
  <2>1. /\ Laid(data', end + 1) /\ Bytes(data', end + 1) = Bytes(data, end) + Asks
        /\ ActiveBytes(data', end + 1) = ActiveBytes(data, end) + Asks
    BY <1>1, <1>5, <1>6, <1>7, LaidWithNew
  <2>2. end' = end + 1 /\ pc' = "idle" /\ request' = NoReq
        /\ dataFree' = Bytes(data, end) + Asks /\ total' = ActiveBytes(data, end) + Asks
    BY <1>1, <1>2, <1>8, <1>10
  <2>3. Log'
    BY <1>5, <1>10, <2>1 DEF Log
  <2>4. Counted'
    BY <2>1, <2>2 DEF Counted
  <2>5. Fitting' /\ Moving' /\ Moved' /\ EdgeOnly'
    BY <1>1, <1>3, <2>2 DEF Fitting, Moving, Moved, EdgeOnly, Preparing, Setting, Writing, Asked
  <2> QED
    BY <1>9, <2>3, <2>4, <2>5 DEF SpaceInv
<1>11. CASE old # 0
  <2>1. /\ Laid(data', end)
        /\ Bytes(data', end) = Bytes(data, end) /\ ActiveBytes(data', end) = ActiveBytes(data, end)
        /\ HasBad(data', end) <=> HasBad(data, end)
    <3>1. Setting /\ data' \in Seq(Objects) /\ end <= Len(data')
          /\ \A i \in 1 .. end : data'[i] = data[i]
      BY <1>1, <1>3, <1>5
    <3> QED
      BY <3>1, BelowStays
  <2>2. end' = end /\ pc' = "retire" /\ request' = request
        /\ dataFree' = Bytes(data, end) /\ total' = ActiveBytes(data, end) + Asks
    BY <1>1, <1>2, <1>8, <1>11
  <2>3. Log'
    BY <1>5, <1>11, <2>1 DEF Log
  <2>4. Asks' = Asks /\ Setting'
    BY <2>2 DEF Asks, Setting, Writing
  <2>5. Counted'
    BY <2>1, <2>2, <2>4 DEF Counted, Preparing
  <2>6. Fitting'
    BY <1>0, <1>1, <2>1, <2>2, <2>4 DEF Fitting
  <2>7. Moving' /\ Moved' /\ EdgeOnly'
    BY <1>1, <1>3, <2>2 DEF Moving, Moved, EdgeOnly, Preparing
  <2> QED
    BY <1>9, <2>3, <2>5, <2>6, <2>7 DEF SpaceInv
<1> QED
  BY <1>10, <1>11

(* The old object goes: the active bytes become fewer, the log no shorter. *)
LEMMA ReplaceSpace ==
    ASSUME IInv, SpaceInv, Replace
    PROVE  SpaceInv'
<1>0. SpaceTypeOK /\ Log /\ Counted /\ Fitting /\ Moving /\ Moved /\ EdgeOnly
  BY DEF SpaceInv
<1>1. /\ RetireOld /\ pc = "retire" /\ Setting /\ Writing /\ UNCHANGED <<swap, desc, swapAt>>
      /\ end' = end + 1 /\ pc' = "idle" /\ request' = NoReq
      /\ total' = total - Size(data[old]) /\ dataFree' = dataFree + Size(data[end + 1])
  BY DEF Replace, RetireOld, Return, Advance, Setting, Writing
<1>2. /\ data' \in Seq(Objects) /\ Len(data') = end + 1 /\ old \in 1 .. end
      /\ data'[old] = [data[old] EXCEPT !.flag = "inactive"]
      /\ \A i \in 1 .. (end + 1) : i # old => data'[i] = data[i]
      /\ ScanEnd(data') = end + 1
  BY <1>1, RetireKeeps
<1>3. /\ Size(data[end + 1]) = Asks /\ data[end + 1].val # Bad /\ Active(data[end + 1])
      /\ data[end + 1] \in Objects /\ Len(data) = end + 1 /\ Active(data[old])
  BY <1>1, NewestIs, WhileWriting DEF IInv, Newest
<1> DEFINE d == Bytes(data, end)
           a == ActiveBytes(data, end)
           n == end + 1
<1>4. /\ data \in Seq(Objects) /\ end \in Nat /\ desc # "valid"
      /\ d \in Nat /\ a \in Nat /\ Asks \in Nat
      /\ Roomed(a + Asks) /\ 2 * (a + Asks) <= Room
  BY <1>1, BelowSet
<1>5. /\ Laid(data, n) /\ Bytes(data, n) = d + Asks /\ ActiveBytes(data, n) = a + Asks
  BY <1>1, <1>3, <1>4, LaidWithNew
<1>6. n \in 0 .. Len(data) /\ n <= Len(data') /\ old \in 1 .. n /\ n \in 0 .. Len(data')
      /\ ~(n < Len(data'))
  BY <1>2, <1>3, <1>4
<1>7. /\ Bytes(data', n) = Bytes(data, n)
      /\ ActiveBytes(data, n) = ActiveBytes(data', n) + Size(data[old])
  BY <1>2, <1>3, <1>4, <1>6, RetiredBytes
<1>8. data[old] \in Objects
  BY <1>3, <1>4, <1>6
<1> DEFINE b == ActiveBytes(data', n)
           u == ReadableBytes(data', n)
<1>9. b \in Nat /\ u \in Nat /\ u <= b /\ Size(data[old]) \in Nat
  BY <1>2, <1>6, <1>8, BytesAre, Sizes
<1>10. total = a + Asks /\ dataFree = d
  BY <1>0, <1>1 DEF Counted
<1>11. dataFree' = Bytes(data', n) /\ total' = b /\ dataFree' \in Nat
  <2>1. dataFree' = d + Asks /\ total' = (a + Asks) - Size(data[old])
    BY <1>1, <1>3, <1>10
  <2>2. Bytes(data', n) = d + Asks /\ a + Asks = b + Size(data[old])
    BY <1>5, <1>7
  <2> HIDE DEF a, b, d, n
  <2> QED
    BY <1>4, <1>9, <2>1, <2>2
<1>12. b <= a + Asks /\ u <= a + Asks
  BY <1>4, <1>5, <1>7, <1>9
<1>13. Roomed(u) /\ 2 * b <= Room + 2 * (HeadSize + LongLength)
  <2> HIDE DEF a, b, u, n
  <2> QED
    BY <1>4, <1>9, <1>12, LessIsRoomed, RoomIs, Sizes
<1>14. Bytes(data', n) <= Aligned(Room - b)
  <2>1. d + Asks <= Aligned(Room - (a + Asks))
    BY <1>0, <1>1 DEF Fitting
  <2> HIDE DEF a, b, d, n
  <2>2. a + Asks \in Nat
    BY <1>4
  <2>3. Aligned(Room - (a + Asks)) <= Aligned(Room - b)
    BY <1>4, <1>9, <1>12, <2>2, LessIsRoomed
  <2>4. Room - (a + Asks) \in Nat /\ Room - b \in Nat
    BY <1>4, <1>9, <1>12, <2>2, RoomIs DEF Roomed
  <2>5. Aligned(Room - (a + Asks)) \in Nat /\ Aligned(Room - b) \in Nat /\ d + Asks \in Nat
    BY <1>4, <2>4, AlignedIs
  <2> QED
    BY <1>5, <1>7, <2>1, <2>3, <2>5
<1>15. Laid(data', n)
  BY <1>6, <1>13, <1>14 DEF Laid
<1>16. SpaceTypeOK' /\ Log' /\ Counted'
  BY <1>0, <1>1, <1>2, <1>9, <1>11, <1>15 DEF SpaceTypeOK, Log, Counted
<1>17. Fitting' /\ Moving' /\ Moved' /\ EdgeOnly'
  BY <1>1, <1>4 DEF Fitting, Moving, Moved, EdgeOnly, Preparing, Setting, Writing, Asked
<1> QED
  BY <1>16, <1>17 DEF SpaceInv

(* What a cut leaves: the log as it was, but for the object of the set. *)
LEMMA CutSpace ==
    ASSUME IInv, SpaceInv, FlashCut
    PROVE  SpaceInv'
<1>0. SpaceTypeOK /\ Log /\ Counted /\ Fitting /\ Moving /\ Moved /\ EdgeOnly
  BY DEF SpaceInv
<1>1. /\ CutCommand /\ pc' = "boot" /\ request' = NoReq
      /\ dataFree' = 0 /\ total' = 0 /\ swapAt' = swapAt
      /\ pc # "wrecked"
  BY DEF FlashCut, PowerCut
<1>2. /\ data' \in Seq(Objects) /\ desc' = desc
      /\ desc # "valid" => Edge(data', ScanEnd(data'))
      /\ desc = "valid" => swap' = swap
      /\ desc # "valid" => \/ pc = "close" /\ ClosedAs(Bad)
                           \/ /\ ScanEnd(data') = ScanEnd(data)
                              /\ \A i \in 1 .. ScanEnd(data) : data'[i] = data[i]
  BY <1>1, CutKeeps
<1>3. SpaceTypeOK'
  BY <1>0, <1>1 DEF SpaceTypeOK
<1>4. Counted' /\ Fitting' /\ Moving' /\ EdgeOnly'
  BY <1>1 DEF Counted, Fitting, Moving, EdgeOnly, Preparing, Setting, Writing, Asked
<1>5. Moved'
  BY <1>0, <1>1, <1>2 DEF Moved
<1>6. ASSUME desc # "valid" PROVE Laid(data', ScanEnd(data'))
  <2>1. CASE pc = "close" /\ ClosedAs(Bad)
    <3>1. Setting /\ Writing
      BY <2>1 DEF Setting, Writing
    <3>2. data[end + 1] \in Objects /\ Active(data[end + 1]) /\ end \in Nat
      BY <2>1, <3>1, NewestIs, WhileWriting
    <3>3. /\ Len(data') = end + 1 /\ \A i \in 1 .. end : data'[i] = data[i]
          /\ data'[end + 1] = [data[end + 1] EXCEPT !.mark = "closed", !.val = Bad]
          /\ ScanEnd(data') = IF old = 0 THEN end + 1 ELSE end
      BY <2>1, CloseKeeps
    <3>4. Active(data'[end + 1]) /\ data'[end + 1].val = Bad
      BY <3>2, <3>3 DEF Objects, Active
    <3>5. Laid(data', end + 1)
      BY <1>2, <3>1, <3>3, <3>4, LaidWithNew
    <3>6. Laid(data', end)
      BY <1>2, <3>1, <3>2, <3>3, BelowStays
    <3> QED
      BY <3>3, <3>5, <3>6
  <2>2. CASE /\ ScanEnd(data') = ScanEnd(data)
             /\ \A i \in 1 .. ScanEnd(data) : data'[i] = data[i]
    <3>1. /\ data \in Seq(Objects) /\ ScanEnd(data) \in 0 .. Len(data)
          /\ Laid(data, ScanEnd(data))
      BY <1>1, <1>6, LogIs
    <3>2. ScanEnd(data) <= Len(data')
      BY <1>2, <1>6, <2>2, <3>1 DEF Edge
    <3>3. CASE Setting
      <4>1. end = ScanEnd(data)
        BY <3>3, BelowSet
      <4> QED
        BY <1>2, <2>2, <3>2, <3>3, <4>1, BelowStays
    <3>4. CASE ~Setting
      <4>1. pc \notin {"open", "close", "eraseData", "toData"}
        BY <1>6, <3>4 DEF Setting, Writing, IInv, Swaps
      <4>2. data' = data
        BY <1>1, <4>1 DEF CutCommand, flash
      <4> QED
        BY <3>1, <4>2
    <3> QED
      BY <3>3, <3>4
  <2> QED
    BY <1>2, <1>6, <2>1, <2>2
<1>7. Log'
  BY <1>2, <1>6 DEF Log
<1> QED
  BY <1>3, <1>4, <1>5, <1>7 DEF SpaceInv

LEMMA CompactSpace ==
    ASSUME IInv, SpaceInv, IInv', Compact
    PROVE  SpaceInv'
<1>1. SameSpace /\ (\/ CopyToSwap
                    \/ CopyFails /\ ~SwapHolds
                    \/ BootToData \/ WriteOffset \/ WriteMarker \/ EraseData
                    \/ CopyToData \/ InvalidateSwap \/ FinalErase)
  BY DEF Compact
<1>2. CASE WriteOffset \/ CopyToSwap
  BY <1>1, <1>2, ToSwapSpace
<1>3. CASE CopyFails /\ ~SwapHolds
  BY <1>1, <1>3, FailSpace
<1>4. CASE WriteMarker
  BY <1>1, <1>4, MarkerSpace
<1>5. CASE BootToData \/ EraseData \/ CopyToData
  BY <1>1, <1>5, BackSpace
<1>6. CASE InvalidateSwap \/ FinalErase
  BY <1>1, <1>6, BackDone
<1> QED
  BY <1>1, <1>2, <1>3, <1>4, <1>5, <1>6

FlashIInv == IInv /\ SpaceInv

(* The erase that reaches live objects leaves the first ones as they were. *)
LEMMA OverrunLeaves ==
    ASSUME IInv, Overrun
    PROVE  \E k \in 0 .. end :
              /\ data' = SubSeq(data, 1, k) /\ data' \in Seq(Objects) /\ Len(data') = k
              /\ \A i \in 1 .. k : data'[i] = data[i]
              /\ Edge(data', k) /\ ScanEnd(data') = k
<1>1. pc = "eraseSwap" /\ InTheWay # {} /\ data' = SubSeq(data, 1, First(InTheWay) - 1)
  BY DEF Overrun
<1>2. data \in Seq(Objects) /\ end = ScanEnd(data) /\ Edge(data, end) /\ end \in 0 .. Len(data)
  BY <1>1 DEF IInv, StoreTypeOK, Ends, Swaps, Edge
<1>3. First(InTheWay) \in 1 .. end
  <2>1. InTheWay \in SUBSET Nat /\ InTheWay \subseteq 1 .. end
    BY DEF InTheWay
  <2> HIDE DEF InTheWay
  <2> QED
    BY <1>1, <2>1, FirstIsLeast
<1> DEFINE k == First(InTheWay) - 1
<1>4. k \in 0 .. end /\ k \in 0 .. Len(data) /\ data' = SubSeq(data, 1, k)
  BY <1>1, <1>2, <1>3
<1> HIDE DEF k
<1>5. /\ data' \in Seq(Objects) /\ Len(data') = k
      /\ \A i \in 1 .. k : data'[i] = data[i]
  BY <1>2, <1>4
<1>6. Edge(data', k)
  BY <1>2, <1>4, <1>5 DEF Edge, Good
<1>7. ScanEnd(data') = k
  BY <1>5, <1>6, ScanAt
<1> QED
  BY <1>4, <1>5, <1>6, <1>7

LEMMA OverrunKeeps ==
    ASSUME IInv, SpaceInv, Overrun
    PROVE  IInv' /\ SpaceInv'
<1>1. /\ pc = "eraseSwap" /\ pc' = "wrecked" /\ swap' = <<>> /\ desc' = "clean"
      /\ UNCHANGED <<end, highest, old, copied, request, told>>
      /\ UNCHANGED <<dataFree, total, swapAt>>
  BY DEF Overrun
<1>2. data' \in Seq(Objects) /\ Edge(data', ScanEnd(data'))
  BY OverrunLeaves
<1>3. StoreTypeOK /\ SpaceTypeOK
  BY DEF IInv, SpaceInv
<1>4. StoreTypeOK'
  BY <1>1, <1>2, <1>3 DEF StoreTypeOK
<1>5. Ends' /\ Swaps' /\ Calls' /\ Ids' /\ Newest'
  BY <1>1, <1>2 DEF Ends, Swaps, Calls, Ids, Newest, Setting, Writing, Asked
<1>6. SpaceTypeOK' /\ Log' /\ Counted' /\ Fitting'
  BY <1>1, <1>3 DEF SpaceTypeOK, Log, Counted, Fitting, Preparing, Setting, Writing, Asked
<1>7. Moving' /\ Moved' /\ EdgeOnly'
  BY <1>1 DEF Moving, Moved, EdgeOnly, Preparing
<1> QED
  BY <1>4, <1>5, <1>6, <1>7 DEF IInv, SpaceInv

LEMMA FlashKeeps == FlashIInv /\ [FlashNext]_flashVars => FlashIInv'
<1> SUFFICES ASSUME IInv, SpaceInv, [FlashNext]_flashVars PROVE IInv' /\ SpaceInv'
  BY DEF FlashIInv
<1>0. CASE Overrun
  BY <1>0, OverrunKeeps
<1> SUFFICES ASSUME ~Overrun PROVE IInv' /\ SpaceInv'
  BY <1>0
<1>1. IInv'
  BY FlashSteps, NextKeeps
<1>2. ASSUME NEW r \in Requests, Set(r) PROVE SpaceInv'
  BY <1>2, SetSpace
<1>3. CASE Mount
  BY <1>1, <1>3, MountSpace
<1>4. CASE PlaceSwap
  BY <1>1, <1>4, PlaceSpace
<1>5. CASE Compact
  BY <1>1, <1>5, CompactSpace
<1>6. CASE WriteNew
  BY <1>1, <1>6, WriteSpace
<1>7. CASE CloseNew
  BY <1>1, <1>7, CloseSpace
<1>8. CASE Replace
  BY <1>1, <1>8, ReplaceSpace
<1>9. CASE FlashCut
  BY <1>1, <1>9, CutSpace
<1>10. CASE UNCHANGED flashVars
  <2>1. UNCHANGED <<data, swap, desc, pc, end, old, copied, request, dataFree, total, swapAt>>
    BY <1>10 DEF flashVars
  <2>2. SwapStart' = SwapStart /\ Asks' = Asks
    BY <2>1 DEF SwapStart, Asks
  <2>3. SpaceTypeOK /\ Log /\ Counted /\ Fitting /\ Moving /\ Moved /\ EdgeOnly
    BY DEF SpaceInv
  <2>4. SpaceTypeOK' /\ Log' /\ Counted' /\ Fitting'
    BY <2>1, <2>2, <2>3 DEF SpaceTypeOK, Log, Counted, Fitting, Preparing, Setting, Writing, Asked
  <2>5. Moving' /\ Moved' /\ EdgeOnly'
    BY <2>1, <2>2, <2>3 DEF Moving, Moved, EdgeOnly, Preparing, Spoiled
  <2> QED
    BY <1>1, <2>4, <2>5 DEF SpaceInv
<1> QED
  BY <1>1, <1>2, <1>3, <1>4, <1>5, <1>6, <1>7, <1>8, <1>9, <1>10 DEF FlashNext

LEMMA FlashInvHolds == FlashSpec => []FlashIInv
<1>1. FlashInit => FlashIInv
  BY InitHolds, InitSpace DEF FlashInit, FlashIInv
<1> QED
  BY <1>1, FlashKeeps, PTL DEF FlashSpec

(* Theorem: the types, of the flash and of the counters of an unsigned      *)
(* width: subtracting the object a set replaces takes none below zero.     *)
THEOREM FlashTypeOKHolds == FlashSpec => []FlashTypeOK
<1>1. FlashIInv => FlashTypeOK
  BY DEF FlashIInv, IInv, StoreTypeOK, SpaceInv, SpaceTypeOK, FlashTypeOK
<1> QED
  BY <1>1, FlashInvHolds, PTL

(* Theorem: between two calls the counters in RAM are what a scan finds,    *)
(* after every history of sets, replacements, compactions, refused ones    *)
(* and cuts, for every geometry and every length of the values.            *)
THEOREM CountersRightHolds == FlashSpec => []CountersRight
<1>1. FlashIInv => CountersRight
  <2> SUFFICES ASSUME IInv, SpaceInv, pc = "idle"
               PROVE  /\ dataFree = Bytes(data, Len(data))
                      /\ total = ActiveBytes(data, Len(data))
                      /\ \A i \in DOMAIN data : data[i].id <= highest
    BY DEF FlashIInv, CountersRight
  <2>1. end = Len(data) /\ data \in Seq(Objects)
    BY DEF IInv, Ends, StoreTypeOK
  <2>2. dataFree = Bytes(data, end) /\ total = ActiveBytes(data, end)
    BY DEF SpaceInv, Counted
  <2>3. \A i \in 1 .. end : data[i].id <= highest
    BY DEF IInv, Ids
  <2> QED
    BY <2>1, <2>2, <2>3
<1> QED
  BY <1>1, FlashInvHolds, PTL

(* Theorem: the copy back ends below the swap area it reads from, with a    *)
(* half-written length among the objects or without.                       *)
THEOREM CopyBackFitsHolds == FlashSpec => []CopyBackFits
<1>1. FlashIInv => CopyBackFits
  <2> SUFFICES ASSUME IInv, SpaceInv, pc = "toData", copied < Len(swap)
               PROVE  Bytes(data, Len(data)) + Size(swap[copied + 1]) < swapAt
    BY DEF FlashIInv, CopyBackFits
  <2>1. /\ swap \in Seq(Objects) /\ copied \in Nat /\ desc = "valid" /\ Len(swap) \in Nat
    BY DEF IInv, StoreTypeOK, Swaps
  <2>2. Bytes(data, Len(data)) = ReadableBytes(swap, copied)
    BY DEF SpaceInv, Moving
  <2>3. Bytes(swap, Len(swap)) < swapAt /\ swapAt \in Nat
    BY <2>1 DEF SpaceInv, Moved, SpaceTypeOK
  <2>4. /\ copied \in 0 .. Len(swap) /\ copied + 1 \in 0 .. Len(swap)
        /\ Len(swap) \in 0 .. Len(swap) /\ copied + 1 <= Len(swap)
    BY <2>1
  <2>5. /\ ReadableBytes(swap, copied) <= ActiveBytes(swap, copied)
        /\ ActiveBytes(swap, copied) <= Bytes(swap, copied)
        /\ ReadableBytes(swap, copied) \in Nat /\ ActiveBytes(swap, copied) \in Nat
        /\ Bytes(swap, copied) \in Nat
    BY <2>1, <2>4, BytesAre
  <2>6. Bytes(swap, copied + 1) = Bytes(swap, copied) + Size(swap[copied + 1])
    BY <2>1, <2>4, NextBytes
  <2>7. Bytes(swap, copied + 1) <= Bytes(swap, Len(swap)) /\ Bytes(swap, Len(swap)) \in Nat
        /\ Bytes(swap, copied + 1) \in Nat
    BY <2>1, <2>4, BytesAre
  <2>8. swap[copied + 1] \in Objects
    BY <2>1, <2>4
  <2>9. Size(swap[copied + 1]) \in Nat
    BY <2>8, Sizes
  <2> QED
    BY <2>2, <2>3, <2>5, <2>6, <2>7, <2>9
<1> QED
  BY <1>1, FlashInvHolds, PTL

(* What a compaction finds when it begins. *)
LEMMA AtErase ==
    ASSUME FlashIInv, pc = "eraseSwap"
    PROVE  /\ ~NoSpace(0)
           /\ ~Spoiled => Bytes(data, end) <= SwapStart
<1> DEFINE t == ActiveBytes(data, end)
<1>0. IInv /\ SpaceInv /\ Fitting /\ Moving /\ Counted /\ Preparing
  BY DEF FlashIInv, SpaceInv, Preparing
<1>1. end = ScanEnd(data) /\ desc # "valid"
  BY <1>0, EndIs
<1>2. /\ Laid(data, end) /\ t \in Nat /\ t <= Room /\ total = t
      /\ Bytes(data, end) \in Nat
  BY <1>0, <1>1, LogIs DEF Counted
<1>3. Roomed(t)
  <2>1. CASE request # NoReq
    <3>1. Roomed(t + Asks) /\ Asks \in Nat
      BY <1>0, <2>1, AskIs DEF Fitting, Asked
    <3> HIDE DEF t
    <3>2. t + Asks \in Nat /\ t <= t + Asks
      BY <1>2, <3>1
    <3> QED
      BY <1>2, <3>1, <3>2, LessIsRoomed
  <2>2. CASE request = NoReq
    <3>1. end < Len(data)
      BY <1>0, <2>2 DEF Moving
    <3>2. Roomed(t + HeadSize)
      BY <1>2, <3>1 DEF Laid
    <3> HIDE DEF t
    <3>3. t + HeadSize \in Nat /\ t <= t + HeadSize
      BY <1>2, Sizes
    <3> QED
      BY <1>2, <3>2, <3>3, LessIsRoomed
  <2> QED
    BY <2>1, <2>2
<1>4. ~Spoiled => Bytes(data, end) <= Aligned(Room - t)
  BY <1>1, <1>2 DEF Spoiled, Laid
<1> HIDE DEF t
<1>5. ProposedSwap(0) = Aligned(Room - t)
  BY <1>2, RoomIs DEF ProposedSwap
<1>6. SwapStart = Aligned(PartSize - DescSize - t)
  BY <1>2 DEF SwapStart
<1>7. Room - t \in Nat
  BY <1>2, RoomIs
<1>8. Aligned(Room - t) \in Nat /\ Aligned(PartSize - DescSize - t) \in Nat
      /\ Aligned(Room - t) <= Aligned(PartSize - DescSize - t)
  BY <1>2, <1>7, AlignedIs, SwapAbove
<1>9. ~NoSpace(0)
  BY <1>2, <1>3, <1>5, <1>8 DEF NoSpace, Roomed
<1>10. ~Spoiled => Bytes(data, end) <= SwapStart
  BY <1>2, <1>4, <1>6, <1>8
<1> QED
  BY <1>9, <1>10

(* Theorem: the erase that opens a compaction touches no object of the data *)
(* area, as long as no active one shows a length that a cut half wrote,    *)
(* and a compaction always finds room for a swap area: at a start the      *)
(* manage_space_constraints of psm_module_physical_init never refuses.     *)
THEOREM SwapClearHolds == FlashSpec => []SwapClear
<1>1. FlashIInv => SwapClear
  BY AtErase DEF SwapClear
<1> QED
  BY <1>1, FlashInvHolds, PTL

(* Theorem: without such a length, the store is lost only to active objects *)
(* that end within a demarcation of the block below the descriptor.        *)
THEOREM EdgeOnlyHolds == FlashSpec => []EdgeOnly
<1>1. FlashIInv => EdgeOnly
  BY DEF FlashIInv, SpaceInv
<1> QED
  BY <1>1, FlashInvHolds, PTL

-----------------------------------------------------------------------------
(* The store with its space, as the table of settings. *)

(* What lies in the way of the erase lies there for a half-written length. *)
LEMMA OverrunIsSpoiled ==
    ASSUME FlashIInv, Overrun
    PROVE  \E i \in 1 .. end : Active(data[i]) /\ data[i].val = Bad
<1>1. pc = "eraseSwap" /\ IInv /\ SpaceInv
  BY DEF Overrun, FlashIInv
<1>2. end = ScanEnd(data) /\ desc # "valid"
  BY <1>1, EndIs DEF Preparing
<1>3. data \in Seq(Objects) /\ end \in 0 .. Len(data) /\ end \in Nat
  BY <1>1, <1>2, LogIs DEF IInv, StoreTypeOK
<1>4. PICK i \in 1 .. end : Reach(i) > SwapStart
  BY DEF Overrun, InTheWay
<1>5. data[i] \in Objects /\ i - 1 \in 0 .. end /\ i \in 0 .. end /\ (i - 1) + 1 = i
      /\ i - 1 \in 0 .. Len(data)
  BY <1>3
<1>6. Size(data[i]) \in Nat /\ Size(data[i]) >= HeadSize /\ HeadSize \in Nat
  BY <1>5, Sizes
<1>7. /\ Bytes(data, i - 1) \in Nat /\ Bytes(data, i) \in Nat /\ Bytes(data, end) \in Nat
      /\ Bytes(data, i) <= Bytes(data, end)
  BY <1>3, <1>5, BytesAre
<1>8. Bytes(data, i) = Bytes(data, i - 1) + Size(data[i])
  BY <1>3, <1>5, NextBytes
<1>9. Reach(i) <= Bytes(data, i) /\ Reach(i) \in Nat
  BY <1>6, <1>7, <1>8 DEF Reach
<1>10. ~Spoiled => Bytes(data, end) <= SwapStart
  BY <1>1, AtErase
<1>11. SwapStart \in Nat
  <2>1. total = ActiveBytes(data, end) /\ total \in Nat /\ total <= Room
    BY <1>1, <1>2, LogIs DEF SpaceInv, Counted, Preparing, SpaceTypeOK
  <2> QED
    BY <2>1, SwapAbove DEF SwapStart
<1>12. Spoiled
  BY <1>4, <1>7, <1>9, <1>10, <1>11
<1> QED
  BY <1>2, <1>12 DEF Spoiled, HasBad

(* Such a length is an unreadable setting of the table, and the erase takes *)
(* settings as a whole.                                                    *)
LEMMA OverrunMaps ==
    ASSUME FlashIInv, Overrun
    PROVE  Map!Wreck
<1>1. /\ pc = "eraseSwap" /\ IInv /\ UNCHANGED <<request, told>> /\ desc' # "valid"
  BY DEF Overrun, FlashIInv
<1>2. end = ScanEnd(data) /\ desc # "valid"
  BY <1>1, EndIs DEF Preparing
<1>3. data \in Seq(Objects) /\ end \in 0 .. Len(data) /\ Good(data, end)
  BY <1>1, <1>2 DEF IInv, StoreTypeOK, Ends, Edge
<1>4. PICK i \in 1 .. end : Active(data[i]) /\ data[i].val = Bad
  BY OverrunIsSpoiled
<1>5. Recovered[data[i].name] = Bad /\ data[i].name \in Names
  <2>1. Value(data, end, data[i].name) = Bad
    BY <1>3, <1>4, ValueIs
  <2>2. data[i] \in Objects
    BY <1>3
  <2>3. data[i].name \in Names
    BY <2>2 DEF Objects
  <2> QED
    BY <1>2, <2>1, <2>3 DEF Recovered
<1>6. PICK k \in 0 .. end :
         /\ ScanEnd(data') = k
         /\ \A j \in 1 .. k : data'[j] = data[j]
  BY <1>1, OverrunLeaves
<1> DEFINE gone == {n \in Names : Live(data, k, n) = {}}
<1>7. ASSUME NEW n \in Names
      PROVE  Value(data', k, n) = IF n \in gone THEN NoVal ELSE Value(data, end, n)
  <2>1. Live(data', k, n) = Live(data, k, n)
    BY <1>6 DEF Live
  <2>2. CASE Live(data, k, n) = {}
    BY <2>1, <2>2 DEF Value
  <2>3. CASE Live(data, k, n) # {}
    <3>1. PICK j \in 1 .. k : Active(data[j]) /\ data[j].name = n
      BY <2>3 DEF Live
    <3>2. j \in 1 .. end /\ \A m \in 1 .. end : Active(data[m]) /\ data[m].name = n => m = j
      BY <1>3, <3>1 DEF Good
    <3>3. 1 .. k \subseteq 1 .. end /\ k \in Nat
      BY <1>3
    <3>4. Live(data, k, n) = {j} /\ Live(data, end, n) = {j}
      BY <3>1, <3>2, <3>3 DEF Live
    <3>5. Live(data', k, n) = Live(data, end, n)
      BY <2>1, <3>4
    <3>6. \A m \in Live(data', k, n) : data'[m].val = data[m].val
      BY <1>6 DEF Live
    <3>7. Value(data', k, n) = Value(data, end, n)
      BY <3>3, <3>5, <3>6, ValueLike
    <3> QED
      BY <2>3, <3>7 DEF gone
  <2> QED
    BY <2>2, <2>3
<1> HIDE DEF gone
<1>8. Recovered' = [n \in Names |-> IF n \in gone THEN NoVal ELSE Recovered[n]]
  BY <1>1, <1>2, <1>6, <1>7 DEF Recovered
<1>9. gone \in SUBSET Names
  BY DEF gone
<1> QED
  BY <1>1, <1>5, <1>8, <1>9 DEF Map!Wreck

(* Theorem: the store with its offsets implements the table, for every      *)
(* geometry of the partition and every length of the values: a compaction  *)
(* erases settings only while one of them is unreadable.                   *)
THEOREM FlashMapHolds == FlashSpec => MapSpec
<1>1. FlashInit => Map!Init
  BY InitMaps DEF FlashInit
<1>2. FlashIInv /\ [FlashNext]_flashVars => [Map!Next]_<<Recovered, request, told>>
  <2> SUFFICES ASSUME FlashIInv, [FlashNext]_flashVars
               PROVE  Map!Next \/ UNCHANGED <<Recovered, request, told>>
    OBVIOUS
  <2>1. CASE Overrun
    BY <2>1, OverrunMaps DEF Map!Next
  <2>2. CASE [Next]_vars
    BY <2>2, StepMaps DEF FlashIInv
  <2> QED
    BY <2>1, <2>2, FlashSteps
<1> QED
  BY <1>1, <1>2, FlashInvHolds, PTL DEF FlashSpec, MapSpec, Map!Spec, Map!mapVars

-----------------------------------------------------------------------------
(***************************************************************************)
(* A start and a set come to their end.                                    *)
(***************************************************************************)

(* How far a place of the code is from its end. *)
Stage(p) == CASE p = "boot" -> 11
              [] p = "eraseSwap" -> 10
              [] p = "writeOffset" -> 9
              [] p = "toSwap" -> 8
              [] p = "eraseData" -> 7
              [] p = "toData" -> 6
              [] p = "finalErase" -> 5
              [] p = "scan" -> 4
              [] p = "open" -> 3
              [] p = "write" -> 2
              [] p = "close" -> 1
              [] OTHER -> 0

(* The objects a copy has still before it. *)
Left == IF pc = "toSwap" THEN end - copied
        ELSE (IF pc = "toData" THEN Len(swap) - copied ELSE 0)

(* The safety half of ComesUp: no step of the code but a cut leads back.    *)
(* A compaction is not begun a second time by the set or the start it      *)
(* serves, and a copy takes one object of what it has left, so that a start *)
(* and a set end after a number of steps bounded by the objects in flash.  *)
Onward ==
    [][RunsOn => \/ pc' \in {"idle", "failed"}
                 \/ Stage(pc') < Stage(pc)
                 \/ pc' = pc /\ Left \in Nat /\ Left' \in Nat /\ Left' < Left]_flashVars

LEMMA StepOnward ==
    ASSUME IInv, RunsOn
    PROVE  \/ pc' \in {"idle", "failed"}
           \/ Stage(pc') < Stage(pc)
           \/ pc' = pc /\ Left \in Nat /\ Left' \in Nat /\ Left' < Left
<1>0. CASE Overrun
  BY <1>0 DEF Overrun, Stage
<1>1. CASE BootScan
  <2>1. pc = "boot" /\ pc' \in {"eraseSwap", "idle", "finalErase"}
    BY <1>1 DEF BootScan
  <2> QED
    BY <2>1 DEF Stage
<1>2. CASE Rescan
  <2>1. pc = "scan" /\ pc' \in {"failed", "idle", "open"}
    BY <1>2 DEF Rescan
  <2> QED
    BY <2>1 DEF Stage
<1>3. CASE PlaceSwap \/ WriteOffset \/ WriteMarker \/ EraseData \/ InvalidateSwap
           \/ FinalErase \/ BootToData
  <2>1. \/ pc = "eraseSwap" /\ pc' = "writeOffset"
        \/ pc = "writeOffset" /\ pc' = "toSwap"
        \/ pc = "toSwap" /\ pc' = "eraseData"
        \/ pc = "eraseData" /\ pc' = "toData"
        \/ pc = "toData" /\ pc' = "finalErase"
        \/ pc = "finalErase" /\ pc' = "scan"
        \/ pc = "boot" /\ pc' = "eraseData"
    BY <1>3 DEF PlaceSwap, EraseSwap, WriteOffset, WriteMarker, EraseData, InvalidateSwap,
       FinalErase, BootToData
  <2> QED
    BY <2>1 DEF Stage
<1>4. CASE CopyToSwap
  <2>1. /\ pc = "toSwap" /\ pc' = "toSwap" /\ copied < end /\ copied' = copied + 1
        /\ end' = end /\ copied \in Nat /\ end \in Nat
    BY <1>4 DEF CopyToSwap, IInv, StoreTypeOK
  <2>2. Left = end - copied /\ Left' = end - (copied + 1)
    BY <2>1 DEF Left
  <2> QED
    BY <2>1, <2>2
<1>5. CASE CopyFails
  BY <1>5 DEF CopyFails
<1>6. CASE CopyToData
  <2>1. /\ pc = "toData" /\ pc' = "toData" /\ copied < Len(swap) /\ copied' = copied + 1
        /\ swap' = swap /\ copied \in Nat /\ Len(swap) \in Nat
    BY <1>6 DEF CopyToData, IInv, StoreTypeOK
  <2>2. Left = Len(swap) - copied /\ Left' = Len(swap) - (copied + 1)
    BY <2>1 DEF Left
  <2> QED
    BY <2>1, <2>2
<1>7. CASE WriteNew \/ CloseNew \/ Replace
  <2>1. \/ pc = "open" /\ pc' = "write"
        \/ pc = "write" /\ pc' = "close"
        \/ pc = "close" /\ pc' = "retire"
        \/ pc' = "idle"
    BY <1>7 DEF WriteNew, OpenObject, WriteObject, CloseNew, CloseObject, Replace, RetireOld,
       Return
  <2> QED
    BY <2>1 DEF Stage
<1> QED
  BY <1>0, <1>1, <1>2, <1>3, <1>4, <1>5, <1>6, <1>7 DEF RunsOn, Mount, Compact

(* Theorem: every step of a start, a compaction and a set leads onward,     *)
(* wherever the power was cut before.                                      *)
THEOREM OnwardHolds == FlashSpec => Onward
<1>1. FlashIInv /\ [FlashNext]_flashVars =>
        [RunsOn => \/ pc' \in {"idle", "failed"}
                   \/ Stage(pc') < Stage(pc)
                   \/ pc' = pc /\ Left \in Nat /\ Left' \in Nat /\ Left' < Left]_flashVars
  BY StepOnward DEF FlashIInv
<1> QED
  BY <1>1, FlashInvHolds, PTL DEF FlashSpec, Onward
=============================================================================
