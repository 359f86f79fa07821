---------------------------- MODULE MCSupervisor ----------------------------
(***************************************************************************)
(* A small rack for TLC: two panels that share one bus and can each show   *)
(* one of two things.                                                      *)
(***************************************************************************)
EXTENDS Supervisor

MCDevice == {<<0, 0>>, <<0, 1>>}

Left1 == [device |-> <<0, 0>>, edition |-> "cpu"]
Left2 == [device |-> <<0, 0>>, edition |-> "clock"]
Right == [device |-> <<0, 1>>, edition |-> "cpu"]

\* The rack starts with both.
MCBoot == {{Left1, Right}}

\* A push asks for what is there, changes what one draws, or drops it.
MCPush == {{Left1, Right}, {Left2, Right}, {Right}}

\* A push drops one, whose device is then free to be probed.
MCDrop == {{Right}}

\* A push changes what one draws.
MCChange == {{Left2, Right}}

=============================================================================
