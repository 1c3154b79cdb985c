------------------------------ MODULE AxiBridge ------------------------------
(***************************************************************************)
(* axi4_lite_master_bridge: one native request becomes one AXI4-Lite read  *)
(* or write.  AW and W are launched together and either may be accepted    *)
(* first; a channel that has handshaken is not driven again.               *)
(*                                                                         *)
(* One step is one rising clock edge.  wstrb is latched and driven with    *)
(* wdata and is part of it here; bready is tied to 1.                      *)
(***************************************************************************)
EXTENDS Integers

VARIABLES
  req,             \* input: the native request [wvalid, we, addr, wdata, rready]
  state_q,
  addr_q, wdata_q  \* the request latch

BridgeState == {"IDLE", "RD_ADDR", "RD_WAIT", "WR_BOTH", "WR_ADDR", "WR_DATA", "WR_WAIT"}

accept == state_q = "IDLE" /\ req.wvalid

awvalid == (accept /\ req.we) \/ state_q \in {"WR_BOTH", "WR_DATA"}
wvalid  == (accept /\ req.we) \/ state_q \in {"WR_BOTH", "WR_ADDR"}
arvalid == (accept /\ ~req.we) \/ state_q = "RD_ADDR"
rready  == state_q = "RD_WAIT" /\ req.rready

\* Mutant: the retry states drive the native request instead of the latch.
LaunchAddrLive(valid) == IF ~valid THEN 0 ELSE req.addr

\* From the live request on the launch cycle, from the latch afterwards, 0
\* when the channel is not driven.
launch_addr(valid) == IF ~valid THEN 0 ELSE IF accept THEN req.addr ELSE addr_q

awaddr == launch_addr(awvalid)
araddr == launch_addr(arvalid)
wdata  == IF accept THEN req.wdata ELSE wdata_q

\* The four accept combinations of a write launch.
AfterWriteLaunch(aw_hs, w_hs) ==
  IF aw_hs THEN (IF w_hs THEN "WR_WAIT" ELSE "WR_ADDR")
  ELSE IF w_hs THEN "WR_DATA" ELSE "WR_BOTH"

StateNext(aw_hs, w_hs, ar_hs, r_hs, b_hs) ==
  CASE state_q = "IDLE" ->
         IF ~req.wvalid THEN "IDLE"
         ELSE IF req.we THEN AfterWriteLaunch(aw_hs, w_hs)
         ELSE IF ar_hs THEN "RD_WAIT" ELSE "RD_ADDR"
    [] state_q = "RD_ADDR" -> IF ar_hs THEN "RD_WAIT" ELSE "RD_ADDR"
    [] state_q = "RD_WAIT" -> IF r_hs THEN "IDLE" ELSE "RD_WAIT"
    [] state_q = "WR_BOTH" -> AfterWriteLaunch(aw_hs, w_hs)
    [] state_q = "WR_ADDR" -> IF w_hs THEN "WR_WAIT" ELSE "WR_ADDR"
    [] state_q = "WR_DATA" -> IF aw_hs THEN "WR_WAIT" ELSE "WR_DATA"
    [] OTHER -> IF b_hs THEN "IDLE" ELSE "WR_WAIT"

BridgeTick(aw_hs, w_hs, ar_hs, r_hs, b_hs) ==
  /\ state_q' = StateNext(aw_hs, w_hs, ar_hs, r_hs, b_hs)
  /\ addr_q'  = IF accept THEN req.addr ELSE addr_q
  /\ wdata_q' = IF accept THEN req.wdata ELSE wdata_q
=============================================================================
