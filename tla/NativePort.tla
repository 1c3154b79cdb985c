----------------------------- MODULE NativePort -----------------------------
(***************************************************************************)
(* The native request bus (mem_req_t, mem_rsp_t) as the load/store unit    *)
(* sees it: what a slave port may answer.                                  *)
(***************************************************************************)

Rsp == {"ready", "busy", "wait", "data"}

(***************************************************************************)
(* A port takes one request at a time.  Data is offered from the cycle     *)
(* after the accept at the earliest and held until it is taken; a posted   *)
(* write may keep the port busy.                                           *)
(***************************************************************************)
PortTick(rsp, req, nextRsp) ==
  CASE rsp = "ready" /\ req.wvalid /\ req.we  -> nextRsp \in {"ready", "busy"}
    [] rsp = "ready" /\ req.wvalid /\ ~req.we -> nextRsp \in {"wait", "data"}
    [] rsp = "busy" -> nextRsp \in {"ready", "busy"}
    [] rsp = "wait" -> nextRsp \in {"wait", "data"}
    [] rsp = "data" /\ req.rready -> nextRsp = "ready"
    [] OTHER -> nextRsp = rsp
=============================================================================
