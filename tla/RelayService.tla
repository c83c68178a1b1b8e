---------------------------- MODULE RelayService ----------------------------
(***************************************************************************)
(* What the gateway promises about the relays of the power-monitoring      *)
(* boards, with no bus, no polling and no retries: any thread may command  *)
(* a relay word for a board, a board's outputs only ever take words that   *)
(* were commanded for THAT board, except that a board that restarts comes  *)
(* up with its own power-on word.  RelayBus shows that the RS485 master of *)
(* app/monitor_board_handle.c implements this.                             *)
(***************************************************************************)
EXTENDS Naturals

CONSTANTS Slots,      \* entries of the gateway's own_slave_device list
          SlaveAddr,  \* bus address of each entry
          Words,      \* relay words (one bit per relay)
          BootWord    \* word a board drives when it powers up

VARIABLES desired,    \* word the gateway wants, per list entry
          actual,     \* word the board drives, per address
          commanded   \* every word a board may legitimately drive so far

serviceVars == <<desired, actual, commanded>>

Addrs == {SlaveAddr[s] : s \in Slots}

ServiceInit ==
  /\ desired \in [Slots -> Words]
  /\ actual \in [Addrs -> Words]
  /\ commanded = [a \in Addrs |->
       {actual[a]} \cup {desired[s] : s \in {t \in Slots : SlaveAddr[t] = a}}]

ServiceCommand(s, w) ==
  /\ desired' = [desired EXCEPT ![s] = w]
  /\ commanded' = [commanded EXCEPT ![SlaveAddr[s]] = @ \cup {w}]
  /\ UNCHANGED actual

Drive(a, w) ==
  /\ w \in commanded[a]
  /\ actual' = [actual EXCEPT ![a] = w]
  /\ UNCHANGED <<desired, commanded>>

Restart(a) ==
  /\ actual' = [actual EXCEPT ![a] = BootWord]
  /\ commanded' = [commanded EXCEPT ![a] = @ \cup {BootWord}]
  /\ UNCHANGED desired

ServiceNext ==
  \/ \E s \in Slots, w \in Words : ServiceCommand(s, w)
  \/ \E a \in Addrs, w \in Words : Drive(a, w)
  \/ \E a \in Addrs : Restart(a)

ServiceSpec == ServiceInit /\ [][ServiceNext]_serviceVars
=============================================================================
