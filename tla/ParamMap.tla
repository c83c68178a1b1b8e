------------------------------ MODULE ParamMap ------------------------------
(***************************************************************************)
(* What the parameter store promises its callers: a table of settings in   *)
(* which a set is applied as a whole or not at all, whatever the power     *)
(* does, and is answered with success only when it was applied.  One       *)
(* weakness is part of the promise because the code has it: a setting that *)
(* was never stored before may be left unreadable by a cut of the power,   *)
(* until a compaction throws it away, and then it may take others with it. *)
(***************************************************************************)
CONSTANTS Names, Values,
          NoVal,          \* the setting is not in the store
          Bad,            \* it is there and its checksum does not match
          NoReq           \* no psm_set_variable is under way

VARIABLES value,          \* what a reader gets of each setting
          request,        \* the call under way
          told            \* what the last call returned

mapVars == <<value, request, told>>

Requests == [name : Names, val : Values]

Init ==
    /\ value = [n \in Names |-> NoVal]
    /\ request = NoReq
    /\ told = "none"

Ask ==
    /\ request = NoReq
    /\ request' \in Requests
    /\ told' = "none"
    /\ UNCHANGED value

Apply ==
    /\ request # NoReq
    /\ value' = [value EXCEPT ![request.name] = request.val]
    /\ request' = NoReq
    /\ told' = "ok"

(* Out of space, before the call is accepted or in the middle of it. *)
Refuse ==
    /\ request' = NoReq
    /\ told' = "error"
    /\ UNCHANGED value

(* The power goes: the call never returns. *)
Lose ==
    /\ request' = NoReq
    /\ told' = "none"
    /\ UNCHANGED value

(* The power goes while a setting is stored for the first time. *)
Spoil ==
    /\ request # NoReq
    /\ value[request.name] = NoVal
    /\ value' = [value EXCEPT ![request.name] = Bad]
    /\ request' = NoReq
    /\ told' = "none"

(* A compaction keeps the readable settings only. *)
Scrub ==
    /\ value' = [n \in Names |-> IF value[n] = Bad THEN NoVal ELSE value[n]]
    /\ UNCHANGED <<request, told>>

(* A compaction erases settings: only while one of them is unreadable. *)
Wreck ==
    /\ \E n \in Names : value[n] = Bad
    /\ \E gone \in SUBSET Names :
          value' = [n \in Names |-> IF n \in gone THEN NoVal ELSE value[n]]
    /\ UNCHANGED <<request, told>>

Next == Ask \/ Apply \/ Refuse \/ Lose \/ Spoil \/ Scrub \/ Wreck

Spec == Init /\ [][Next]_mapVars
=============================================================================
