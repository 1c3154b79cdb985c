-------------------------------- MODULE MCAxi --------------------------------
(* Target 0 has two registers and, like the UART, only holds off AW; target  *)
(* 1 has one and holds off any channel, so that the bridge meets every order *)
(* of handshakes.  Address 0 is where an undriven channel points; 4 is       *)
(* unmapped.                                                                 *)
EXTENDS AxiFabric

MCAddr   == 0 .. 4
MCPeri   == 1 .. 4
MCBases  == [t \in Targets |-> IF t = 0 THEN 1 ELSE 3]
MCSizes  == [t \in Targets |-> IF t = 0 THEN 2 ELSE 1]
MCStallSets == {{}, {"aw", "ar"}, {"w"}, Channels}
MCStalls == [t \in Targets |-> IF t = 0 THEN {"aw"} ELSE Channels]
=============================================================================
