----------------------------- MODULE MCRelayBus -----------------------------
(* A list of two power boards, at the addresses 4 and 9. *)
EXTENDS RelayBus

MCSlaveAddr == [s \in 0 .. 1 |-> IF s = 0 THEN 4 ELSE 9]
MCPowerBoards == {0, 1}
MCInitWord == [s \in 0 .. 1 |-> IF s = 0 THEN "onLess" ELSE "on"]
=============================================================================
