------------------------------ MODULE AxiProofs ------------------------------
(***************************************************************************)
(* Proofs about the peripheral path, for any number of targets, any        *)
(* disjoint windows, and targets that hold off any channel at any time.    *)
(*                                                                         *)
(* FabricInv is inductive: it says, for every bridge state, which phases   *)
(* the crossbar, the terminator and the targets hold.  Under it each wire  *)
(* between them has a simple value (Wires), and a step of a target depends *)
(* only on whether its window holds the address (SlaveStep).               *)
(***************************************************************************)
EXTENDS AxiFabric, TLAPS

USE FabricAssumption

LEMMA InitInv == Init => FabricInv
<1> SUFFICES ASSUME Init PROVE FabricInv
  OBVIOUS
<1>1. TypeOK
  BY DEF Init, SlaveInit, XbarInit, TypeOK, Quiet, BridgeState
<1> QED
  BY <1>1 DEF Init, SlaveInit, XbarInit, FabricInv, RouteInStep, OneTransaction, TerminatorInStep

\* The bridge's next state, state by state.
LEMMA StateMoves ==
  ASSUME TypeOK, Clock
  PROVE  /\ state_q = "IDLE" /\ ~req.wvalid => state_q' = "IDLE"
         /\ (accept /\ req.we) \/ state_q = "WR_BOTH" => state_q' = AfterWriteLaunch(aw_hs, w_hs)
         /\ (accept /\ ~req.we) \/ state_q = "RD_ADDR" =>
              state_q' = IF ar_hs THEN "RD_WAIT" ELSE "RD_ADDR"
         /\ state_q = "RD_WAIT" => state_q' = IF r_hs THEN "IDLE" ELSE "RD_WAIT"
         /\ state_q = "WR_ADDR" => state_q' = IF w_hs THEN "WR_WAIT" ELSE "WR_ADDR"
         /\ state_q = "WR_DATA" => state_q' = IF aw_hs THEN "WR_WAIT" ELSE "WR_DATA"
         /\ state_q = "WR_WAIT" => state_q' = IF b_hs THEN "IDLE" ELSE "WR_WAIT"
         /\ state_q' \in BridgeState
<1>1. state_q' = StateNext(aw_hs, w_hs, ar_hs, r_hs, b_hs) /\ state_q \in BridgeState
  BY DEF Clock, BridgeTick, TypeOK
<1> QED
  BY <1>1 DEF StateNext, AfterWriteLaunch, accept, BridgeState

\* A response is there exactly in the bridge's two response states.
LEMMA Responses ==
  FabricInv => (bvalid <=> state_q = "WR_WAIT") /\ (rvalid <=> state_q = "RD_WAIT")
<1> SUFFICES ASSUME FabricInv
             PROVE  (bvalid <=> state_q = "WR_WAIT") /\ (rvalid <=> state_q = "RD_WAIT")
  OBVIOUS
<1> USE DEF FabricInv
<1>1. bvalid <=> state_q = "WR_WAIT"
  <2>1. CASE state_q = "WR_WAIT"
    <3>1. wr_busy_q /\ wr_match_q = Match(addr_q)
      BY <2>1 DEF RouteInStep
    <3>2. Match(addr_q) = {} => err_bvalid_q
      BY <2>1 DEF TerminatorInStep
    <3>3. \A t \in Match(addr_q) : t \in bvalid_q
      BY <2>1 DEF OneTransaction, Match
    <3> QED
      BY <2>1, <3>1, <3>2, <3>3 DEF bvalid
  <2>2. CASE state_q # "WR_WAIT"
    <3>1. ~err_bvalid_q
      BY <2>2 DEF TerminatorInStep
    <3>2. \A t \in Targets : t \notin bvalid_q
      BY <2>2 DEF OneTransaction
    <3>3. wr_match_q \subseteq Targets
      BY DEF TypeOK
    <3> QED
      BY <2>2, <3>1, <3>2, <3>3 DEF bvalid
  <2> QED
    BY <2>1, <2>2
<1>2. rvalid <=> state_q = "RD_WAIT"
  <2>1. CASE state_q = "RD_WAIT"
    <3>1. rd_busy_q /\ rd_match_q = Match(addr_q)
      BY <2>1 DEF RouteInStep
    <3>2. Match(addr_q) = {} => err_rvalid_q
      BY <2>1 DEF TerminatorInStep
    <3>3. \A t \in Match(addr_q) : t \in Targets /\ r_q[t] = regs[t][addr_q]
      BY <2>1 DEF OneTransaction, Match
    <3>4. \A t \in Targets : regs[t][addr_q] \in Value
      <4>1. regs \in [Targets -> [Addr -> Value]] /\ addr_q \in Addr
        BY DEF TypeOK
      <4> QED
        BY <4>1
    <3>5. \A t \in Match(addr_q) : r_q[t] # NONE
      BY <3>3, <3>4
    <3>6. Match(addr_q) # {} => \E t \in Match(addr_q) : r_q[t] # NONE
      BY <3>5
    <3> QED
      BY <2>1, <3>1, <3>2, <3>6, Zenon DEF rvalid
  <2>2. CASE state_q # "RD_WAIT"
    BY <2>2 DEF rvalid, RouteInStep
  <2> QED
    BY <2>1, <2>2
<1> QED
  BY <1>1, <1>2

\* The wires between bridge, crossbar and targets, in terms of the address and
\* the data of the transaction under way.
LEMMA Wires ==
  ASSUME FabricInv, Clock
  PROVE  /\ addr_q' \in Addr /\ wdata_q' \in Value
         /\ ~accept => addr_q' = addr_q /\ wdata_q' = wdata_q
         /\ awvalid => awaddr = addr_q' /\ ~wr_busy_q
         /\ arvalid => araddr = addr_q' /\ ~rd_busy_q
         /\ wvalid => wdata = wdata_q' /\ wr_eff_match = Match(addr_q')
         /\ m_awvalid = IF awvalid THEN Match(addr_q') ELSE {}
         /\ m_wvalid = IF wvalid THEN Match(addr_q') ELSE {}
         /\ m_arvalid = IF arvalid THEN Match(addr_q') ELSE {}
         /\ m_bready = IF wr_busy_q THEN Match(addr_q') ELSE {}
         /\ m_rready = IF r_hs THEN Match(addr_q') ELSE {}
         /\ b_hs <=> state_q = "WR_WAIT"
         /\ rvalid <=> state_q = "RD_WAIT"
<1> USE DEF FabricInv
<1>1. /\ addr_q' = IF accept THEN req.addr ELSE addr_q
      /\ wdata_q' = IF accept THEN req.wdata ELSE wdata_q
  BY DEF Clock, BridgeTick
<1>2. addr_q' \in Addr /\ wdata_q' \in Value
  BY <1>1 DEF TypeOK
<1>3. awvalid => awaddr = addr_q' /\ ~wr_busy_q
  BY <1>1 DEF awvalid, awaddr, launch_addr, accept, RouteInStep
<1>4. arvalid => araddr = addr_q' /\ ~rd_busy_q
  BY <1>1 DEF arvalid, araddr, launch_addr, accept, RouteInStep
<1>5. wvalid => wdata = wdata_q' /\ wr_eff_match = Match(addr_q')
  <2>1. wvalid => wdata = wdata_q'
    BY <1>1 DEF wdata
  <2>2. wvalid /\ ~wr_busy_q => awvalid
    BY DEF wvalid, awvalid, accept, RouteInStep
  <2>3. wvalid /\ wr_busy_q => wr_match_q = Match(addr_q')
    BY <1>1 DEF wvalid, accept, RouteInStep
  <2> QED
    BY <1>3, <2>1, <2>2, <2>3 DEF wr_eff_match, wr_match
<1>6. m_awvalid = IF awvalid THEN Match(addr_q') ELSE {}
  BY <1>3 DEF m_awvalid, aw_go, wr_match
<1>7. m_arvalid = IF arvalid THEN Match(addr_q') ELSE {}
  BY <1>4 DEF m_arvalid, ar_go, rd_match
<1>8. m_wvalid = IF wvalid THEN Match(addr_q') ELSE {}
  BY <1>5 DEF m_wvalid
<1>9. m_bready = IF wr_busy_q THEN Match(addr_q') ELSE {}
  BY <1>1 DEF m_bready, RouteInStep, accept
<1>10. (b_hs <=> state_q = "WR_WAIT") /\ (rvalid <=> state_q = "RD_WAIT")
  BY Responses DEF b_hs
<1>11. m_rready = IF r_hs THEN Match(addr_q') ELSE {}
  <2>1. rready => state_q = "RD_WAIT"
    BY DEF rready
  <2>2. rd_busy_q /\ rready <=> r_hs
    BY <1>10, <2>1 DEF r_hs, RouteInStep
  <2>3. r_hs => rd_match_q = Match(addr_q')
    BY <1>1, <2>1 DEF r_hs, RouteInStep, accept
  <2> QED
    BY <2>2, <2>3 DEF m_rready
<1> QED
  BY <1>1, <1>2, <1>3, <1>4, <1>5, <1>6, <1>7, <1>8, <1>9, <1>10, <1>11

\* With disjoint windows the target that holds the address decides the
\* handshakes alone ...
LEMMA TargetHs ==
  ASSUME FabricInv, WindowsDisjoint, Clock, NEW t \in Match(addr_q')
  PROVE  /\ t \in Targets
         /\ aw_hs <=> t \in m_awvalid \cap s_awready
         /\ w_hs <=> t \in m_wvalid \cap s_wready
         /\ ar_hs <=> t \in m_arvalid \cap s_arready(m_rready)
<1>1. addr_q' \in Addr
  BY Wires
<1>2. Match(addr_q') = {t}
  BY <1>1 DEF WindowsDisjoint
<1>3. t \in Targets
  BY DEF Match
<1>4. aw_hs <=> t \in m_awvalid \cap s_awready
  <2>1. awvalid => wr_match = {t} /\ aw_go /\ m_awvalid = {t}
    BY <1>2, Wires DEF wr_match, aw_go
  <2>2. ~awvalid => ~aw_go /\ m_awvalid = {}
    BY Wires DEF aw_go
  <2> QED
    BY <2>1, <2>2 DEF aw_hs
<1>5. w_hs <=> t \in m_wvalid \cap s_wready
  <2>1. wvalid => wr_eff_match = {t} /\ m_wvalid = {t}
    BY <1>2, Wires
  <2>2. ~wvalid => m_wvalid = {}
    BY Wires
  <2> QED
    BY <2>1, <2>2 DEF w_hs
<1>6. ar_hs <=> t \in m_arvalid \cap s_arready(m_rready)
  <2>1. arvalid => rd_match = {t} /\ ar_go /\ m_arvalid = {t}
    BY <1>2, Wires DEF rd_match, ar_go
  <2>2. ~arvalid => ~ar_go /\ m_arvalid = {}
    BY Wires DEF ar_go
  <2> QED
    BY <2>1, <2>2 DEF ar_hs
<1> QED
  BY <1>3, <1>4, <1>5, <1>6

\* ... and the terminator when no window holds it.
LEMMA TerminatorHs ==
  ASSUME FabricInv, Clock
  PROVE  /\ Match(addr_q') = {} => /\ aw_hs <=> awvalid /\ err_awready
                                   /\ w_hs <=> wvalid /\ err_wready
                                   /\ ar_hs <=> arvalid /\ err_arready
         /\ aw_hs => awvalid /\ wr_match = Match(addr_q')
         /\ w_hs => wvalid /\ wr_eff_match = Match(addr_q')
         /\ ar_hs => arvalid /\ rd_match = Match(addr_q')
BY Wires DEF aw_hs, w_hs, ar_hs, aw_go, ar_go, wr_match, rd_match

\* One target's step.
LEMMA SlaveStep ==
  ASSUME FabricInv, WindowsDisjoint, Clock, NEW t \in Targets
  PROVE  LET mine(s) == state_q' = s /\ t \in Match(addr_q')
         IN  /\ aw_q'[t] = IF mine("WR_ADDR") THEN addr_q' ELSE NONE
             /\ w_q'[t]  = IF mine("WR_DATA") THEN wdata_q' ELSE NONE
             /\ t \in bvalid_q' <=> mine("WR_WAIT")
             /\ r_q'[t]  = IF mine("RD_WAIT") THEN regs'[t][addr_q'] ELSE NONE
             /\ regs'[t] = IF mine("WR_WAIT") THEN [regs[t] EXCEPT ![addr_q'] = wdata_q'] ELSE regs[t]
<1> DEFINE A == addr_q'
           awh == t \in m_awvalid \cap s_awready
           wh  == t \in m_wvalid \cap s_wready
           arh == t \in m_arvalid \cap s_arready(m_rready)
           dw  == (aw_q[t] # NONE \/ awh) /\ (w_q[t] # NONE \/ wh) /\ t \notin bvalid_q
<1>1. /\ aw_q'[t] = IF dw THEN NONE ELSE IF awh THEN awaddr ELSE aw_q[t]
      /\ w_q'[t] = IF dw THEN NONE ELSE IF wh THEN wdata ELSE w_q[t]
      /\ t \in bvalid_q' <=> dw \/ (t \in bvalid_q /\ t \notin m_bready)
      /\ regs'[t] = IF dw THEN [regs[t] EXCEPT ![IF awh THEN awaddr ELSE aw_q[t]] =
                                                IF wh THEN wdata ELSE w_q[t]]
                    ELSE regs[t]
  BY DEF Clock, SlaveWrite, DoWrite
<1>2. r_q'[t] = IF arh THEN regs[t][araddr] ELSE IF t \in m_rready THEN NONE ELSE r_q[t]
  BY DEF Clock, SlaveRead
<1>3. /\ aw_q[t] = IF state_q = "WR_ADDR" /\ t \in Match(addr_q) THEN addr_q ELSE NONE
      /\ w_q[t] = IF state_q = "WR_DATA" /\ t \in Match(addr_q) THEN wdata_q ELSE NONE
      /\ t \in bvalid_q <=> state_q = "WR_WAIT" /\ t \in Match(addr_q)
      /\ r_q[t] = IF state_q = "RD_WAIT" /\ t \in Match(addr_q) THEN regs[t][addr_q] ELSE NONE
  BY DEF FabricInv, OneTransaction
<1>4. /\ accept => state_q = "IDLE"
      /\ ~accept => addr_q' = addr_q /\ wdata_q' = wdata_q
  BY Wires DEF accept
<1>5. CASE t \notin Match(A)
  <2>1. t \notin m_awvalid /\ t \notin m_wvalid /\ t \notin m_arvalid /\ t \notin m_rready
    BY <1>5, Wires
  <2>2. ~dw /\ ~awh /\ ~wh /\ ~arh
    BY <1>3, <1>4, <1>5, <2>1
  <2> QED
    BY <1>1, <1>2, <1>3, <1>4, <1>5, <2>1, <2>2
<1>6. CASE t \in Match(A)
  <2>1. (aw_hs <=> awh) /\ (w_hs <=> wh) /\ (ar_hs <=> arh)
    BY <1>6, TargetHs
  <2>2. /\ awh => awvalid /\ awaddr = A
        /\ wh => wvalid /\ wdata = wdata_q'
        /\ arh => arvalid /\ araddr = A
        /\ t \in m_bready <=> wr_busy_q
        /\ t \in m_rready <=> r_hs
        /\ b_hs <=> state_q = "WR_WAIT"
    BY <1>6, Wires
  <2>3. A \in Addr /\ addr_q \in Addr /\ A # NONE /\ addr_q # NONE /\ wdata_q \in Value
        /\ wdata_q # NONE /\ wdata_q' # NONE /\ state_q \in BridgeState
    BY Wires DEF FabricInv, TypeOK
  <2> HIDE DEF A, awh, wh, arh, dw
  <2>4. CASE state_q = "IDLE" /\ ~req.wvalid
    <3>1. ~awvalid /\ ~wvalid /\ ~arvalid /\ ~r_hs /\ state_q' = "IDLE"
      BY <2>4, StateMoves DEF awvalid, wvalid, arvalid, r_hs, rready, accept, FabricInv
    <3>2. ~dw
      BY <1>3, <2>2, <2>4, <3>1 DEF dw
    <3> QED
      BY <1>1, <1>2, <1>3, <2>2, <2>4, <3>1, <3>2
  <2>5. CASE (accept /\ req.we) \/ state_q = "WR_BOTH"
    <3>1. /\ ~arvalid /\ ~r_hs /\ state_q \in {"IDLE", "WR_BOTH"}
          /\ state_q' = AfterWriteLaunch(aw_hs, w_hs)
      BY <2>5, StateMoves DEF arvalid, r_hs, rready, accept, FabricInv
    <3>2. dw <=> awh /\ wh
      BY <1>3, <3>1 DEF dw
    <3> QED
      BY <1>1, <1>2, <1>3, <1>6, <2>1, <2>2, <3>1, <3>2 DEF AfterWriteLaunch, A
  <2>6. CASE (accept /\ ~req.we) \/ state_q = "RD_ADDR"
    <3>1. /\ ~awvalid /\ ~wvalid /\ ~r_hs /\ state_q \in {"IDLE", "RD_ADDR"}
          /\ state_q' = IF ar_hs THEN "RD_WAIT" ELSE "RD_ADDR"
      BY <2>6, StateMoves DEF awvalid, wvalid, r_hs, rready, accept, FabricInv
    <3>2. ~dw
      BY <1>3, <2>2, <3>1 DEF dw
    <3> QED
      BY <1>1, <1>2, <1>3, <1>6, <2>1, <2>2, <3>1, <3>2 DEF A
  <2>7. CASE state_q = "RD_WAIT"
    <3>1. /\ ~awvalid /\ ~wvalid /\ ~arvalid /\ A = addr_q
          /\ state_q' = IF r_hs THEN "IDLE" ELSE "RD_WAIT"
      BY <1>4, <2>7, StateMoves DEF awvalid, wvalid, arvalid, accept, FabricInv, A
    <3>2. ~dw
      BY <1>3, <2>2, <2>7, <3>1 DEF dw
    <3> QED
      BY <1>1, <1>2, <1>3, <1>6, <2>2, <2>7, <3>1, <3>2 DEF A
  <2>8. CASE state_q = "WR_ADDR"
    <3>1. /\ ~awvalid /\ ~arvalid /\ ~r_hs /\ A = addr_q
          /\ state_q' = IF w_hs THEN "WR_WAIT" ELSE "WR_ADDR"
      BY <1>4, <2>8, StateMoves DEF awvalid, arvalid, r_hs, rready, accept, FabricInv, A
    <3>2. dw <=> wh
      BY <1>3, <1>6, <2>3, <2>8, <3>1 DEF dw
    <3> QED
      BY <1>1, <1>2, <1>3, <1>6, <2>1, <2>2, <2>8, <3>1, <3>2 DEF A
  <2>9. CASE state_q = "WR_DATA"
    <3>1. /\ ~wvalid /\ ~arvalid /\ ~r_hs /\ A = addr_q /\ wdata_q' = wdata_q
          /\ state_q' = IF aw_hs THEN "WR_WAIT" ELSE "WR_DATA"
      BY <1>4, <2>9, StateMoves DEF wvalid, arvalid, r_hs, rready, accept, FabricInv, A
    <3>2. dw <=> awh
      BY <1>3, <1>6, <2>3, <2>9, <3>1 DEF dw
    <3> QED
      BY <1>1, <1>2, <1>3, <1>6, <2>1, <2>2, <2>9, <3>1, <3>2 DEF A
  <2>10. CASE state_q = "WR_WAIT"
    <3>1. /\ ~awvalid /\ ~wvalid /\ ~arvalid /\ ~r_hs /\ A = addr_q /\ wr_busy_q
          /\ state_q' = "IDLE"
      BY <1>4, <2>2, <2>10, StateMoves
      DEF awvalid, wvalid, arvalid, r_hs, rready, accept, FabricInv, RouteInStep, A
    <3>2. ~dw
      BY <1>3, <2>2, <2>10, <3>1 DEF dw
    <3> QED
      BY <1>1, <1>2, <1>3, <1>6, <2>2, <2>10, <3>1, <3>2 DEF A
  <2> QED
    BY <2>3, <2>4, <2>5, <2>6, <2>7, <2>8, <2>9, <2>10 DEF BridgeState, accept
<1> QED
  BY <1>5, <1>6

LEMMA RouteStep ==
  ASSUME FabricInv, Clock
  PROVE  RouteInStep'
<1> USE DEF FabricInv
<1>1. /\ wr_busy_q' <=> aw_hs \/ (wr_busy_q /\ ~b_hs)
      /\ wr_match_q' = IF aw_hs THEN wr_match ELSE wr_match_q
      /\ rd_busy_q' <=> ar_hs \/ (rd_busy_q /\ ~r_hs)
      /\ rd_match_q' = IF ar_hs THEN rd_match ELSE rd_match_q
  BY DEF Clock, Route
<1>2. /\ aw_hs => awvalid /\ wr_match = Match(addr_q')
      /\ w_hs => wvalid
      /\ ar_hs => arvalid /\ rd_match = Match(addr_q')
  BY TerminatorHs
<1>3. /\ b_hs <=> state_q = "WR_WAIT"
      /\ r_hs => state_q = "RD_WAIT"
      /\ ~accept => addr_q' = addr_q
      /\ accept => state_q = "IDLE"
  BY Wires DEF r_hs, rready, accept
<1>4. /\ wr_busy_q <=> state_q \in {"WR_ADDR", "WR_WAIT"}
      /\ rd_busy_q <=> state_q = "RD_WAIT"
      /\ wr_busy_q => wr_match_q = Match(addr_q)
      /\ rd_busy_q => rd_match_q = Match(addr_q)
  BY DEF RouteInStep
<1>5. wr_busy_q' <=> state_q' \in {"WR_ADDR", "WR_WAIT"}
  <2>1. CASE state_q = "IDLE" /\ ~req.wvalid
    BY <1>1, <1>2, <1>4, <2>1, StateMoves DEF awvalid, accept
  <2>2. CASE (accept /\ req.we) \/ state_q = "WR_BOTH"
    BY <1>1, <1>3, <1>4, <2>2, StateMoves DEF AfterWriteLaunch
  <2>3. CASE (accept /\ ~req.we) \/ state_q = "RD_ADDR"
    BY <1>1, <1>2, <1>3, <1>4, <2>3, StateMoves DEF awvalid, accept
  <2>4. CASE state_q \in {"RD_WAIT", "WR_ADDR", "WR_DATA", "WR_WAIT"}
    BY <1>1, <1>2, <1>3, <1>4, <2>4, StateMoves DEF awvalid, accept
  <2> QED
    BY <2>1, <2>2, <2>3, <2>4 DEF TypeOK, BridgeState, accept
<1>6. rd_busy_q' <=> state_q' = "RD_WAIT"
  <2>1. CASE state_q = "IDLE" /\ ~req.wvalid
    BY <1>1, <1>2, <1>4, <2>1, StateMoves DEF arvalid, accept
  <2>2. CASE (accept /\ req.we) \/ state_q = "WR_BOTH"
    BY <1>1, <1>2, <1>3, <1>4, <2>2, StateMoves DEF AfterWriteLaunch, arvalid, accept
  <2>3. CASE (accept /\ ~req.we) \/ state_q = "RD_ADDR"
    BY <1>1, <1>3, <1>4, <2>3, StateMoves
  <2>4. CASE state_q \in {"RD_WAIT", "WR_ADDR", "WR_DATA", "WR_WAIT"}
    BY <1>1, <1>2, <1>3, <1>4, <2>4, StateMoves DEF arvalid, accept
  <2> QED
    BY <2>1, <2>2, <2>3, <2>4 DEF TypeOK, BridgeState, accept
<1>7. (wr_busy_q' => wr_match_q' = Match(addr_q')) /\ (rd_busy_q' => rd_match_q' = Match(addr_q'))
  BY <1>1, <1>2, <1>3, <1>4
<1>8. Match(addr_q)' = Match(addr_q')
  BY DEF Match
<1> QED
  BY <1>5, <1>6, <1>7, <1>8 DEF RouteInStep

LEMMA TerminatorStep ==
  ASSUME FabricInv, Clock
  PROVE  TerminatorInStep'
<1> USE DEF FabricInv
<1> DEFINE U == Match(addr_q') = {}
<1>1. /\ err_aw_seen_q' <=> ~err_do_write /\ (err_aw_seen_q \/ err_aw_hs)
      /\ err_w_seen_q' <=> ~err_do_write /\ (err_w_seen_q \/ err_w_hs)
      /\ err_bvalid_q' <=> ~(b_hs /\ wr_match_q = {}) /\ (err_do_write \/ err_bvalid_q)
      /\ err_rvalid_q' <=> err_ar_hs \/ (err_rvalid_q /\ ~(r_hs /\ rd_match_q = {}))
  BY DEF Clock, Terminator
<1>2. /\ err_aw_hs <=> aw_hs /\ U
      /\ err_w_hs <=> w_hs /\ U
      /\ err_ar_hs <=> ar_hs /\ U
      /\ U => (aw_hs <=> awvalid /\ err_awready) /\ (w_hs <=> wvalid /\ err_wready)
              /\ (ar_hs <=> arvalid /\ err_arready)
  BY TerminatorHs DEF err_aw_hs, err_w_hs, err_ar_hs
<1>3. /\ b_hs <=> state_q = "WR_WAIT"
      /\ r_hs => state_q = "RD_WAIT"
      /\ ~accept => addr_q' = addr_q
      /\ accept => state_q = "IDLE"
  BY Wires DEF r_hs, rready, accept
<1>4. /\ err_aw_seen_q <=> state_q = "WR_ADDR" /\ Match(addr_q) = {}
      /\ err_w_seen_q <=> state_q = "WR_DATA" /\ Match(addr_q) = {}
      /\ err_bvalid_q <=> state_q = "WR_WAIT" /\ Match(addr_q) = {}
      /\ err_rvalid_q <=> state_q = "RD_WAIT" /\ Match(addr_q) = {}
      /\ state_q = "WR_WAIT" => wr_match_q = Match(addr_q)
      /\ state_q = "RD_WAIT" => rd_match_q = Match(addr_q)
  BY DEF TerminatorInStep, RouteInStep
<1>5. Match(addr_q)' = Match(addr_q')
  BY DEF Match
<1>6. SUFFICES /\ err_aw_seen_q' <=> state_q' = "WR_ADDR" /\ U
               /\ err_w_seen_q' <=> state_q' = "WR_DATA" /\ U
               /\ err_bvalid_q' <=> state_q' = "WR_WAIT" /\ U
               /\ err_rvalid_q' <=> state_q' = "RD_WAIT" /\ U
  BY <1>5 DEF TerminatorInStep
<1> HIDE DEF U
<1> USE DEF err_do_write, err_awready, err_wready, err_arready, accept
<1>7. CASE state_q = "IDLE" /\ ~req.wvalid
  BY <1>1, <1>2, <1>3, <1>4, <1>7, StateMoves, TerminatorHs DEF awvalid, wvalid, arvalid
<1>8. CASE (accept /\ req.we) \/ state_q = "WR_BOTH"
  BY <1>1, <1>2, <1>3, <1>4, <1>8, StateMoves, TerminatorHs DEF AfterWriteLaunch, awvalid, wvalid, arvalid
<1>9. CASE (accept /\ ~req.we) \/ state_q = "RD_ADDR"
  BY <1>1, <1>2, <1>3, <1>4, <1>9, StateMoves, TerminatorHs DEF awvalid, wvalid, arvalid
<1>10. CASE state_q \in {"RD_WAIT", "WR_ADDR", "WR_DATA", "WR_WAIT"}
  <2>1. U <=> Match(addr_q) = {}
    BY <1>3, <1>10 DEF U
  <2>2. CASE state_q = "RD_WAIT"
    BY <1>1, <1>2, <1>3, <1>4, <2>1, <2>2, StateMoves, TerminatorHs DEF awvalid, wvalid, arvalid
  <2>3. CASE state_q = "WR_ADDR"
    BY <1>1, <1>2, <1>3, <1>4, <2>1, <2>3, StateMoves, TerminatorHs DEF awvalid, wvalid, arvalid
  <2>4. CASE state_q = "WR_DATA"
    BY <1>1, <1>2, <1>3, <1>4, <2>1, <2>4, StateMoves, TerminatorHs DEF awvalid, wvalid, arvalid
  <2>5. CASE state_q = "WR_WAIT"
    BY <1>1, <1>2, <1>3, <1>4, <2>1, <2>5, StateMoves, TerminatorHs DEF awvalid, wvalid, arvalid
  <2> QED
    BY <1>10, <2>2, <2>3, <2>4, <2>5
<1> QED
  BY <1>7, <1>8, <1>9, <1>10 DEF TypeOK, BridgeState

LEMMA TypeStep ==
  ASSUME FabricInv, Next
  PROVE  TypeOK'
<1>1. TypeOK /\ Clock
  BY DEF FabricInv, Next
<1>2. req' \in [wvalid : BOOLEAN, we : BOOLEAN, addr : Addr, wdata : Value, rready : BOOLEAN]
  <2>1. \A rr \in BOOLEAN :
          Quiet(rr) \in [wvalid : BOOLEAN, we : BOOLEAN, addr : Addr, wdata : Value, rready : BOOLEAN]
    BY DEF Quiet
  <2>2. Requests \subseteq [wvalid : BOOLEAN, we : BOOLEAN, addr : Addr, wdata : Value, rready : BOOLEAN]
    <3>1. ASSUME NEW a \in PeriAddr
          PROVE  Read(a) \in [wvalid : BOOLEAN, we : BOOLEAN, addr : Addr, wdata : Value, rready : BOOLEAN]
      BY DEF Read
    <3>2. ASSUME NEW a \in PeriAddr, NEW d \in Writes
          PROVE  Write(a, d) \in [wvalid : BOOLEAN, we : BOOLEAN, addr : Addr, wdata : Value, rready : BOOLEAN]
      BY DEF Write
    <3> QED
      BY <3>1, <3>2 DEF Requests
  <2> QED
    BY <1>1, <2>1, <2>2 DEF TypeOK, Next, LsuHold, LsuWait, LsuQuiet, LsuIssue
<1>3. state_q' \in BridgeState /\ addr_q' \in Addr /\ wdata_q' \in Value
  BY <1>1, StateMoves, Wires
<1>4. stall' \in STALL_SETS
  BY <1>1 DEF Clock
<1>5. /\ awaddr \in Addr /\ wdata \in Value /\ araddr \in Addr
  BY <1>1 DEF awaddr, araddr, launch_addr, wdata, TypeOK
<1>6. aw_q' \in [Targets -> Addr \cup {NONE}] /\ w_q' \in [Targets -> Value \cup {NONE}]
  BY <1>1, <1>5 DEF Clock, SlaveWrite, TypeOK
<1>7. bvalid_q' \in SUBSET Targets
  BY <1>1 DEF Clock, SlaveWrite
<1>8. regs \in [Targets -> [Addr -> Value]]
  BY <1>1 DEF TypeOK
<1>9. r_q' \in [Targets -> Value \cup {NONE}]
  <2>1. \A t \in Targets : regs[t][araddr] \in Value
    BY <1>5, <1>8
  <2> QED
    BY <1>1, <2>1 DEF Clock, SlaveRead, TypeOK
<1>10. regs' \in [Targets -> [Addr -> Value]]
  <2> DEFINE awHs == m_awvalid \cap s_awready
             wHs  == m_wvalid \cap s_wready
             new(t) == IF DoWrite(t, awHs, wHs)
                       THEN [regs[t] EXCEPT ![IF t \in awHs THEN awaddr ELSE aw_q[t]] =
                                              IF t \in wHs THEN wdata ELSE w_q[t]]
                       ELSE regs[t]
  <2>1. regs' = [t \in Targets |-> new(t)]
    BY <1>1 DEF Clock, SlaveWrite
  <2>2. ASSUME NEW t \in Targets PROVE new(t) \in [Addr -> Value]
    <3>1. regs[t] \in [Addr -> Value]
      BY <1>8
    <3>2. DoWrite(t, awHs, wHs) => (IF t \in wHs THEN wdata ELSE w_q[t]) \in Value
      BY <1>1, <1>5 DEF DoWrite, TypeOK
    <3> QED
      BY <3>1, <3>2
  <2> QED
    BY <2>1, <2>2
<1>11. wr_busy_q' \in BOOLEAN /\ rd_busy_q' \in BOOLEAN
  BY <1>1 DEF Clock, Route
<1>12. wr_match_q' \in SUBSET Targets /\ rd_match_q' \in SUBSET Targets
  BY <1>1 DEF Clock, Route, wr_match, rd_match, Match, TypeOK
<1>13. /\ err_aw_seen_q' \in BOOLEAN /\ err_w_seen_q' \in BOOLEAN
       /\ err_bvalid_q' \in BOOLEAN /\ err_rvalid_q' \in BOOLEAN
  BY <1>1 DEF Clock, Terminator
<1> QED
  BY <1>2, <1>3, <1>4, <1>6, <1>7, <1>9, <1>10, <1>11, <1>12, <1>13 DEF TypeOK

LEMMA FabricStep ==
  ASSUME FabricInv, WindowsDisjoint, [Next]_vars
  PROVE  FabricInv'
<1>1. CASE Next
  <2>1. Clock
    BY <1>1 DEF Next
  <2>2. OneTransaction'
    BY <2>1, SlaveStep DEF OneTransaction, Match, Targets
  <2> QED
    BY <1>1, <2>1, <2>2, RouteStep, TerminatorStep, TypeStep DEF FabricInv
<1>2. CASE UNCHANGED vars
  BY <1>2 DEF vars, slaveVars, xbarVars, FabricInv, TypeOK, RouteInStep, OneTransaction,
     TerminatorInStep, Match
<1> QED
  BY <1>1, <1>2

(***************************************************************************)
(* The theorems.                                                           *)
(***************************************************************************)

\* With disjoint windows, the bridge, the crossbar, the terminator and every
\* target stay in step on one transaction, in whatever order AW and W are
\* accepted.
THEOREM FabricInvariant == WindowsDisjoint => (Spec => []FabricInv)
<1> SUFFICES ASSUME WindowsDisjoint PROVE Spec => []FabricInv
  OBVIOUS
<1>1. WindowsDisjoint
  OBVIOUS
<1> QED
  BY <1>1, InitInv, FabricStep, PTL DEF Spec

\* A target holds a phase or a response only for the transaction under way.
THEOREM SingleOutstanding == WindowsDisjoint => (Spec => []OneTransaction)
<1>1. FabricInv => OneTransaction
  BY DEF FabricInv
<1> QED
  BY <1>1, FabricInvariant, PTL

LEMMA PortStep ==
  ASSUME FabricInv, FabricInv', Next
  PROVE  PortTick(port_rsp, req, port_rsp')
<1> DEFINE rv  == IF state_q = "IDLE" THEN "ready" ELSE IF state_q = "RD_WAIT" THEN "data"
                  ELSE IF state_q = "RD_ADDR" THEN "wait" ELSE "busy"
<1>1. Clock
  BY DEF Next
<1>2. state_q \in BridgeState /\ state_q' \in BridgeState
  BY DEF FabricInv, TypeOK
<1>3. rvalid <=> state_q = "RD_WAIT"
  BY Responses
<1>4. rvalid' <=> (state_q = "RD_WAIT")'
  BY FabricInv', Responses, PTL
<1>5. port_rsp = rv
  BY <1>2, <1>3 DEF port_rsp, BridgeState
<1>6. port_rsp' = rv'
  BY <1>2, <1>4 DEF port_rsp, BridgeState
<1>7. r_hs <=> state_q = "RD_WAIT" /\ req.rready
  BY <1>3 DEF r_hs, rready
<1> SUFFICES PortTick(rv, req, rv')
  BY <1>5, <1>6
<1>8. CASE state_q = "IDLE" /\ ~req.wvalid
  BY <1>1, <1>8, StateMoves DEF PortTick, FabricInv
<1>9. CASE accept /\ req.we
  BY <1>1, <1>9, StateMoves DEF PortTick, FabricInv, accept, AfterWriteLaunch
<1>10. CASE accept /\ ~req.we
  BY <1>1, <1>10, StateMoves DEF PortTick, FabricInv, accept
<1>11. CASE state_q = "RD_ADDR"
  BY <1>1, <1>11, StateMoves DEF PortTick, FabricInv
<1>12. CASE state_q = "RD_WAIT"
  BY <1>1, <1>7, <1>12, StateMoves DEF PortTick, FabricInv
<1>13. CASE state_q \in {"WR_BOTH", "WR_ADDR", "WR_DATA", "WR_WAIT"}
  <2>1. state_q' \in {"WR_BOTH", "WR_ADDR", "WR_DATA", "WR_WAIT", "IDLE"}
    BY <1>1, <1>13, StateMoves DEF FabricInv, AfterWriteLaunch
  <2> QED
    BY <1>13, <2>1 DEF PortTick
<1> QED
  BY <1>2, <1>8, <1>9, <1>10, <1>11, <1>12, <1>13 DEF BridgeState, accept

\* The bridge keeps the port contract under which execute_stage is verified
\* (NativePort), so the two results compose.
THEOREM BridgeKeepsPort == WindowsDisjoint => (Spec => ImplementsPort)
<1> SUFFICES ASSUME WindowsDisjoint PROVE Spec => ImplementsPort
  OBVIOUS
<1>1. ASSUME FabricInv, FabricInv', [Next]_vars PROVE [PortTick(port_rsp, req, port_rsp')]_vars
  BY <1>1, PortStep
<1>2. WindowsDisjoint
  OBVIOUS
<1> QED
  BY <1>1, <1>2, FabricInvariant, PTL DEF Spec, ImplementsPort

(***************************************************************************)
(* The refinement of the bus.  The transaction is under way while the      *)
(* bridge is not idle and done when its response is there; its write takes *)
(* effect in the cycle that brings the bridge to WR_WAIT, its read in the  *)
(* one that brings it to RD_WAIT.                                          *)
(***************************************************************************)

\* The request a write or a read starts from is one the load/store unit makes.
ReqInv == req.wvalid => req \in Requests

LEMMA ReqInitStep == (Init => ReqInv) /\ (ReqInv /\ [Next]_vars => ReqInv')
<1>1. Init => ReqInv
  BY DEF Init, ReqInv, Quiet
<1>2. ASSUME ReqInv, [Next]_vars PROVE ReqInv'
  <2>1. \A rr \in BOOLEAN : ~Quiet(rr).wvalid
    BY DEF Quiet
  <2>2. CASE Next
    <3>1. req' = req \/ ~req'.wvalid \/ req' \in Requests
      BY <2>1, <2>2 DEF Next, LsuHold, LsuWait, LsuQuiet, LsuIssue
    <3>2. Requests' = Requests
      BY DEF Requests, Read, Write
    <3> QED
      BY <1>2, <3>1, <3>2 DEF ReqInv
  <2>3. CASE UNCHANGED vars
    BY <1>2, <2>3 DEF vars, ReqInv, Requests
  <2> QED
    BY <1>2, <2>2, <2>3
<1> QED
  BY <1>1, <1>2

\* What the register behind an address holds; ZERO when there is none.
Stored(a) == IF a \in Mapped THEN bus_mem[a] ELSE ZERO

\* The transaction, by the bridge state alone.
TxnOfState ==
  IF state_q = "IDLE" THEN NoTxn
  ELSE IF state_q \in {"RD_ADDR", "RD_WAIT"}
  THEN [we |-> FALSE, addr |-> addr_q,
        val |-> IF state_q = "RD_WAIT" THEN Stored(addr_q) ELSE ZERO,
        done |-> state_q = "RD_WAIT"]
  ELSE [we |-> TRUE, addr |-> addr_q, val |-> wdata_q, done |-> state_q = "WR_WAIT"]

\* With disjoint windows the one owner of a mapped address drives the data.
LEMMA TxnIsOfState == WindowsDisjoint /\ FabricInv => bus_txn = TxnOfState
<1> SUFFICES ASSUME WindowsDisjoint, FabricInv PROVE bus_txn = TxnOfState
  OBVIOUS
<1>1. rvalid = (state_q = "RD_WAIT") /\ bvalid = (state_q = "WR_WAIT")
  BY Responses DEF rvalid, bvalid
<1>2. ASSUME state_q = "RD_WAIT" PROVE rdata = Stored(addr_q)
  <2>1. rd_match_q = Match(addr_q) /\ addr_q \in Addr
    BY <1>2 DEF FabricInv, RouteInStep, TypeOK
  <2>2. CASE Match(addr_q) = {}
    BY <2>1, <2>2 DEF rdata, Stored, Mapped
  <2>3. CASE Match(addr_q) # {}
    <3> DEFINE t == Owner(addr_q)
    <3>1. t \in Match(addr_q) /\ addr_q \in Mapped
      BY <2>1, <2>3 DEF Owner, Mapped
    <3>2. Match(addr_q) = {t} /\ t \in Targets /\ t <= t
      BY <2>1, <3>1 DEF WindowsDisjoint, Match, Targets
    <3>3. rdata = r_q[t]
      BY <2>1, <3>2 DEF rdata
    <3>4. r_q[t] = regs[t][addr_q]
      BY <1>2, <3>1, <3>2 DEF FabricInv, OneTransaction
    <3> QED
      BY <3>1, <3>3, <3>4 DEF Stored, bus_mem
  <2> QED
    BY <2>2, <2>3
<1> QED
  BY <1>1, <1>2 DEF bus_txn, TxnOfState

\* The registers change only when a write reaches WR_WAIT, and then only the
\* one behind its address.
LEMMA MemStep ==
  ASSUME FabricInv, WindowsDisjoint, Clock
  PROVE  bus_mem' = IF state_q' = "WR_WAIT" /\ addr_q' \in Mapped
                    THEN [bus_mem EXCEPT ![addr_q'] = wdata_q'] ELSE bus_mem
<1>1. ASSUME NEW a \in Mapped
      PROVE  regs'[Owner(a)][a] =
               IF state_q' = "WR_WAIT" /\ addr_q' = a THEN wdata_q' ELSE regs[Owner(a)][a]
  <2> DEFINE t == Owner(a)
  <2>1. a \in Addr /\ t \in Match(a) /\ t \in Targets
    BY DEF Mapped, Owner, Match
  <2>2. regs[t] \in [Addr -> Value] /\ addr_q' \in Addr
    BY <2>1, Wires DEF FabricInv, TypeOK
  <2>3. regs'[t] = IF state_q' = "WR_WAIT" /\ t \in Match(addr_q')
                   THEN [regs[t] EXCEPT ![addr_q'] = wdata_q'] ELSE regs[t]
    BY <2>1, SlaveStep
  <2> QED
    BY <2>1, <2>2, <2>3
<1>2. bus_mem' = [a \in Mapped |-> regs'[Owner(a)][a]]
  BY DEF bus_mem, Mapped, Owner, Match, Targets
<1> QED
  BY <1>1, <1>2 DEF bus_mem

\* What the bus does to a transaction that is not done.
LEMMA BusEffect ==
  ASSUME NEW we, NEW a, NEW v, NEW now,
         bus_txn' = [we |-> we, addr |-> a,
                     val |-> IF we \/ ~now THEN v ELSE Stored(a), done |-> now],
         bus_mem' = IF now /\ we /\ a \in Mapped THEN [bus_mem EXCEPT ![a] = v] ELSE bus_mem
  PROVE  Bus!Effect([we |-> we, addr |-> a, val |-> v, done |-> FALSE], now)
<1> DEFINE t == [we |-> we, addr |-> a, val |-> v, done |-> FALSE]
<1>1. \A x : [t EXCEPT !.done = now, !.val = x] = [we |-> we, addr |-> a, val |-> x, done |-> now]
  <2> TAKE x
  <2>1. [t EXCEPT !.done = now] = [we |-> we, addr |-> a, val |-> v, done |-> now]
    OBVIOUS
  <2>2. [[we |-> we, addr |-> a, val |-> v, done |-> now] EXCEPT !.val = x]
          = [we |-> we, addr |-> a, val |-> x, done |-> now]
    OBVIOUS
  <2> QED
    BY <2>1, <2>2
<1>2. t.we = we /\ t.addr = a /\ t.val = v
  OBVIOUS
<1> HIDE DEF t
<1>3. Bus!Effect(t, now)
  BY <1>1, <1>2 DEF Bus!Effect, Stored
<1> QED
  BY <1>3 DEF t

\* Every step of the fabric starts, performs or ends the transaction, or
\* leaves transaction and registers as they are.
LEMMA BusStep ==
  ASSUME FabricInv, FabricInv', ReqInv, WindowsDisjoint, Next
  PROVE  Bus!Next \/ UNCHANGED <<bus_mem, bus_txn>>
<1> DEFINE A == addr_q'
           D == wdata_q'
           S == state_q'
           W == S = "WR_WAIT"
<1>1. Clock /\ TypeOK
  BY DEF Next, FabricInv
<1>2. bus_txn = TxnOfState /\ bus_txn' = TxnOfState'
  <2>1. WindowsDisjoint'
    BY DEF WindowsDisjoint, Match, Targets
  <2>2. (bus_txn = TxnOfState)'
    BY <2>1, FabricInv', TxnIsOfState, PTL
  <2> QED
    BY <2>2, TxnIsOfState
<1>3. bus_mem' = IF W /\ A \in Mapped THEN [bus_mem EXCEPT ![A] = D] ELSE bus_mem
  BY <1>1, MemStep
<1>4. /\ A = IF accept THEN req.addr ELSE addr_q
      /\ D = IF accept THEN req.wdata ELSE wdata_q
  BY <1>1 DEF Clock, BridgeTick
<1>5. TxnOfState' = IF S = "IDLE" THEN NoTxn
                    ELSE IF S \in {"RD_ADDR", "RD_WAIT"}
                    THEN [we |-> FALSE, addr |-> A,
                          val |-> IF S = "RD_WAIT" THEN Stored(A) ELSE ZERO,
                          done |-> S = "RD_WAIT"]
                    ELSE [we |-> TRUE, addr |-> A, val |-> D, done |-> W]
  <2>1. S = "RD_WAIT" => Stored(addr_q)' = Stored(A)
    BY <1>3 DEF Stored, Mapped, Match, Targets
  <2> QED
    BY <2>1 DEF TxnOfState
<1>6. /\ A \in Addr /\ D \in Value /\ addr_q \in Addr /\ wdata_q \in Value
      /\ \A a \in Addr, v \in Value, b, c \in BOOLEAN :
           NoTxn # [we |-> b, addr |-> a, val |-> v, done |-> c]
  BY <1>1, Wires DEF TypeOK
<1> HIDE DEF A, D, S, W
<1>7. CASE state_q = "IDLE" /\ ~req.wvalid
  <2>1. S = "IDLE"
    BY <1>1, <1>7, StateMoves DEF S
  <2> QED
    BY <1>2, <1>3, <1>5, <1>7, <2>1 DEF TxnOfState, W
<1>8. CASE accept /\ req.we
  <2>1. S = AfterWriteLaunch(aw_hs, w_hs)
    BY <1>1, <1>8, StateMoves DEF S
  <2>2. S \in {"WR_BOTH", "WR_ADDR", "WR_DATA", "WR_WAIT"}
    BY <2>1 DEF AfterWriteLaunch
  <2>3. A \in PeriAddr /\ D \in Writes
    BY <1>4, <1>8 DEF accept, ReqInv, Requests, Read, Write
  <2>4. bus_txn = NoTxn
    BY <1>2, <1>8 DEF TxnOfState, accept
  <2>5. bus_txn' = [we |-> TRUE, addr |-> A, val |-> D, done |-> W]
    BY <1>2, <1>5, <2>2
  <2>6. Bus!Begin(TRUE, A, D, W)
    BY <1>3, <2>4, <2>5, BusEffect DEF Bus!Begin, W
  <2> QED
    BY <2>3, <2>6 DEF Bus!Next, W
<1>9. CASE accept /\ ~req.we
  <2>1. S = IF ar_hs THEN "RD_WAIT" ELSE "RD_ADDR"
    BY <1>1, <1>9, StateMoves DEF S
  <2>2. A \in PeriAddr
    BY <1>4, <1>9 DEF accept, ReqInv, Requests, Read, Write
  <2>3. bus_txn = NoTxn
    BY <1>2, <1>9 DEF TxnOfState, accept
  <2>4. bus_txn' = [we |-> FALSE, addr |-> A,
                    val |-> IF S = "RD_WAIT" THEN Stored(A) ELSE ZERO, done |-> S = "RD_WAIT"]
    BY <1>2, <1>5, <2>1
  <2>5. bus_mem' = bus_mem
    BY <1>3, <2>1 DEF W
  <2>6. Bus!Begin(FALSE, A, ZERO, S = "RD_WAIT")
    BY <2>3, <2>4, <2>5, BusEffect DEF Bus!Begin
  <2> QED
    BY <2>2, <2>6 DEF Bus!Next
<1>10. CASE state_q = "RD_ADDR"
  <2>1. A = addr_q /\ S = IF ar_hs THEN "RD_WAIT" ELSE "RD_ADDR"
    BY <1>1, <1>4, <1>10, StateMoves DEF S, accept
  <2>2. bus_txn = [we |-> FALSE, addr |-> A, val |-> ZERO, done |-> FALSE]
    BY <1>2, <1>10, <2>1 DEF TxnOfState
  <2>3. bus_txn' = [we |-> FALSE, addr |-> A,
                    val |-> IF S = "RD_WAIT" THEN Stored(A) ELSE ZERO, done |-> S = "RD_WAIT"]
    BY <1>2, <1>5, <2>1
  <2>4. bus_mem' = bus_mem
    BY <1>3, <2>1 DEF W
  <2>5. CASE S = "RD_WAIT"
    <3>1. bus_txn # NoTxn
      BY <1>6, <2>2
    <3>2. Bus!Perform
      BY <2>2, <2>3, <2>4, <2>5, <3>1, BusEffect DEF Bus!Perform
    <3> QED
      BY <3>2 DEF Bus!Next
  <2> QED
    BY <2>1, <2>2, <2>3, <2>4, <2>5
<1>11. CASE state_q = "RD_WAIT"
  <2>1. A = addr_q /\ S = IF r_hs THEN "IDLE" ELSE "RD_WAIT"
    BY <1>1, <1>4, <1>11, StateMoves DEF S, accept
  <2>2. bus_txn = [we |-> FALSE, addr |-> A, val |-> Stored(A), done |-> TRUE]
    BY <1>2, <1>11, <2>1 DEF TxnOfState
  <2>3. bus_mem' = bus_mem
    BY <1>3, <2>1 DEF W
  <2>4. bus_txn' = IF S = "IDLE" THEN NoTxn
                   ELSE [we |-> FALSE, addr |-> A, val |-> Stored(A), done |-> TRUE]
    BY <1>2, <1>5, <2>1
  <2>5. CASE S = "IDLE"
    <3>1. bus_txn # NoTxn
      <4>1. Stored(A) \in Value
        <5>1. A \in Mapped => Owner(A) \in Targets
          BY DEF Mapped, Owner, Match
        <5>2. A \in Mapped => regs[Owner(A)][A] \in Value
          BY <1>1, <1>6, <5>1 DEF TypeOK
        <5> QED
          BY <5>2 DEF Stored, bus_mem
      <4> QED
        BY <1>6, <2>2, <4>1
    <3>2. Bus!End
      BY <2>2, <2>3, <2>4, <2>5, <3>1 DEF Bus!End
    <3> QED
      BY <3>2 DEF Bus!Next
  <2> QED
    BY <2>1, <2>2, <2>3, <2>4, <2>5
<1>12. CASE state_q \in {"WR_BOTH", "WR_ADDR", "WR_DATA"}
  <2>1. /\ A = addr_q /\ D = wdata_q
        /\ S \in {"WR_BOTH", "WR_ADDR", "WR_DATA", "WR_WAIT"}
    BY <1>1, <1>4, <1>12, StateMoves DEF S, accept, AfterWriteLaunch
  <2>2. bus_txn = [we |-> TRUE, addr |-> A, val |-> D, done |-> FALSE]
    BY <1>2, <1>12, <2>1 DEF TxnOfState
  <2>3. bus_txn' = [we |-> TRUE, addr |-> A, val |-> D, done |-> W]
    BY <1>2, <1>5, <2>1
  <2>4. CASE W
    <3>1. bus_txn # NoTxn
      BY <1>6, <2>2
    <3>2. Bus!Perform
      BY <1>3, <2>2, <2>3, <2>4, <3>1, BusEffect DEF Bus!Perform
    <3> QED
      BY <3>2 DEF Bus!Next
  <2>5. CASE ~W
    BY <1>3, <2>2, <2>3, <2>5 DEF W
  <2> QED
    BY <2>4, <2>5
<1>13. CASE state_q = "WR_WAIT"
  <2>1. A = addr_q /\ D = wdata_q /\ S = "IDLE"
    BY <1>1, <1>4, <1>13, StateMoves, Wires DEF S, accept
  <2>2. bus_txn = [we |-> TRUE, addr |-> A, val |-> D, done |-> TRUE]
    BY <1>2, <1>13, <2>1 DEF TxnOfState
  <2>3. bus_txn # NoTxn
    BY <1>6, <2>2
  <2>4. bus_mem' = bus_mem /\ bus_txn' = NoTxn
    BY <1>2, <1>3, <1>5, <2>1 DEF W
  <2>5. Bus!End
    BY <2>2, <2>3, <2>4 DEF Bus!End
  <2> QED
    BY <2>5 DEF Bus!Next
<1> QED
  BY <1>1, <1>7, <1>8, <1>9, <1>10, <1>11, <1>12, <1>13 DEF TypeOK, BridgeState, accept

\* Every load and store on the peripheral path is performed once and
\* atomically on the register its address names, for any number of targets
\* with disjoint windows and whatever channels they hold off.
THEOREM FabricImplementsBus == WindowsDisjoint => (Spec => ImplementsBus)
<1> SUFFICES ASSUME WindowsDisjoint PROVE Spec => ImplementsBus
  OBVIOUS
<1>1. WindowsDisjoint
  OBVIOUS
<1>2. Init => Bus!Init
  <2> SUFFICES ASSUME Init PROVE Bus!Init
    OBVIOUS
  <2>1. \A a \in Mapped : Owner(a) \in Targets /\ a \in Addr
    BY DEF Mapped, Owner, Match
  <2>2. bus_mem = [a \in Mapped |-> ZERO]
    BY <2>1 DEF Init, SlaveInit, bus_mem
  <2> QED
    BY <2>2 DEF Init, Bus!Init, bus_txn
<1>3. FabricInv /\ FabricInv' /\ ReqInv /\ [Next]_vars => [Bus!Next]_<<bus_mem, bus_txn>>
  <2>1. ASSUME UNCHANGED vars PROVE UNCHANGED <<bus_mem, bus_txn>>
    BY <2>1 DEF vars, slaveVars, xbarVars, bus_mem, bus_txn, rvalid, rdata, bvalid, Mapped, Owner,
       Match, Targets
  <2> QED
    BY <1>1, <2>1, BusStep
<1> QED
  BY <1>1, <1>2, <1>3, ReqInitStep, FabricInvariant, PTL
  DEF Spec, ImplementsBus, Bus!Spec, Bus!vars
=============================================================================
