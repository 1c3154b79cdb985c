------------------------------ MODULE AxiFabric ------------------------------
(***************************************************************************)
(* The peripheral path: load/store unit, bridge, crossbar, targets.        *)
(***************************************************************************)
EXTENDS AxiXbar, NativePort

CONSTANTS
  PeriAddr,    \* addresses the load/store unit sends here
  Writes,      \* data it writes
  STALL_SETS,  \* sets of channels that may be held off together
  NoTxn

ASSUME FabricAssumption ==
  /\ N \in Nat
  /\ Addr \subseteq Nat /\ PeriAddr \subseteq Addr /\ 0 \in Addr
  /\ BASES \in [Targets -> Nat] /\ SIZES \in [Targets -> Nat]
  /\ STALLS \in [Targets -> SUBSET Channels]
  /\ STALL_SETS \subseteq SUBSET Channels /\ {} \in STALL_SETS
  /\ NoTxn \notin [we : BOOLEAN, addr : Addr, val : Value, done : BOOLEAN]
  /\ Writes \subseteq Value /\ ZERO \in Value /\ NONE \notin Value /\ NONE \notin Addr

vars == <<req, state_q, addr_q, wdata_q, stall, slaveVars, xbarVars>>

(***************************************************************************)
(* The load/store unit: it holds a request until it is accepted, waits for *)
(* the data of a read, and posts a write.  It keeps rready up while it     *)
(* waits; the bus allows it to drop it.                                    *)
(***************************************************************************)
Quiet(rr) == [wvalid |-> FALSE, we |-> FALSE, addr |-> 0, wdata |-> ZERO, rready |-> rr]

Read(a)     == [wvalid |-> TRUE, we |-> FALSE, addr |-> a, wdata |-> ZERO, rready |-> FALSE]
Write(a, d) == [wvalid |-> TRUE, we |-> TRUE, addr |-> a, wdata |-> d, rready |-> FALSE]

Requests == {Read(a) : a \in PeriAddr} \cup {Write(a, d) : a \in PeriAddr, d \in Writes}

ReadOwed == (accept /\ ~req.we) \/ (state_q \in {"RD_ADDR", "RD_WAIT"} /\ ~r_hs)
Held     == req.wvalid /\ ~accept

LsuHold     == Held /\ UNCHANGED req
LsuWait(rr) == ReadOwed /\ req' = Quiet(rr)
LsuQuiet    == ~Held /\ ~ReadOwed /\ req' = Quiet(FALSE)
LsuIssue(r) == ~Held /\ ~ReadOwed /\ req' = r

Clock ==
  /\ BridgeTick(aw_hs, w_hs, ar_hs, r_hs, b_hs)
  /\ Terminator
  /\ Route
  /\ SlaveWrite(m_awvalid \cap s_awready, m_wvalid \cap s_wready, awaddr, wdata, m_bready)
  /\ SlaveRead(m_arvalid \cap s_arready(m_rready), araddr, m_rready)
  /\ stall' \in STALL_SETS

Init ==
  /\ req = Quiet(FALSE)
  /\ state_q = "IDLE"
  /\ addr_q \in Addr /\ wdata_q \in Value    \* not reset
  /\ SlaveInit /\ XbarInit
  /\ stall = {}

Next ==
  \/ LsuHold /\ Clock
  \/ \E rr \in BOOLEAN : LsuWait(rr) /\ Clock
  \/ LsuQuiet /\ Clock
  \/ \E r \in Requests : LsuIssue(r) /\ Clock

Spec == Init /\ [][Next]_vars

\* The clock runs, no peripheral refuses a channel for ever (the UART's TX
\* FIFO drains), and the load/store unit takes its data.
FairSpec ==
  /\ Spec /\ WF_vars(Next)
  /\ \A c \in Channels : []<>(c \notin stall)
  /\ []<>(state_q = "RD_WAIT" => req.rready)

(***************************************************************************)
(* Properties.                                                             *)
(***************************************************************************)
WindowsDisjoint == \A a \in Addr : \A t, u \in Match(a) : t = u

TypeOK ==
  /\ req \in [wvalid : BOOLEAN, we : BOOLEAN, addr : Addr, wdata : Value, rready : BOOLEAN]
  /\ state_q \in BridgeState /\ addr_q \in Addr /\ wdata_q \in Value
  /\ stall \in STALL_SETS
  /\ aw_q \in [Targets -> Addr \cup {NONE}] /\ w_q \in [Targets -> Value \cup {NONE}]
  /\ r_q \in [Targets -> Value \cup {NONE}] /\ bvalid_q \in SUBSET Targets
  /\ regs \in [Targets -> [Addr -> Value]]
  /\ wr_busy_q \in BOOLEAN /\ rd_busy_q \in BOOLEAN
  /\ wr_match_q \in SUBSET Targets /\ rd_match_q \in SUBSET Targets
  /\ err_aw_seen_q \in BOOLEAN /\ err_w_seen_q \in BOOLEAN
  /\ err_bvalid_q \in BOOLEAN /\ err_rvalid_q \in BOOLEAN

\* The crossbar follows the bridge: it is busy exactly between the address
\* handshake and the response, with the target of the latched address.
RouteInStep ==
  /\ wr_busy_q <=> state_q \in {"WR_ADDR", "WR_WAIT"}
  /\ rd_busy_q <=> state_q = "RD_WAIT"
  /\ wr_busy_q => wr_match_q = Match(addr_q)
  /\ rd_busy_q => rd_match_q = Match(addr_q)

\* A phase or a response is held only by the target of the one transaction
\* under way, and it is that transaction's: nothing is orphaned, duplicated
\* or misrouted, whatever order a target takes AW and W in.
OneTransaction ==
  \A t \in Targets :
    LET mine(s) == state_q = s /\ t \in Match(addr_q)
    IN  /\ aw_q[t] = IF mine("WR_ADDR") THEN addr_q ELSE NONE
        /\ w_q[t]  = IF mine("WR_DATA") THEN wdata_q ELSE NONE
        /\ t \in bvalid_q <=> mine("WR_WAIT")
        /\ r_q[t]  = IF mine("RD_WAIT") THEN regs[t][addr_q] ELSE NONE

\* The same for the terminator: it holds something only for an address that
\* no window holds, and then always answers.
TerminatorInStep ==
  LET mine(s) == state_q = s /\ Match(addr_q) = {}
  IN  /\ err_aw_seen_q <=> mine("WR_ADDR")
      /\ err_w_seen_q <=> mine("WR_DATA")
      /\ err_bvalid_q <=> mine("WR_WAIT")
      /\ err_rvalid_q <=> mine("RD_WAIT")

\* The invariant the proofs carry.
FabricInv ==
  /\ TypeOK
  /\ RouteInStep
  /\ OneTransaction
  /\ TerminatorInStep

\* The port the load/store unit sees (rsp_o.rvalid is "data" with its rready).
port_rsp ==
  CASE state_q = "IDLE" -> "ready"
    [] state_q \in {"RD_ADDR", "RD_WAIT"} -> IF rvalid THEN "data" ELSE "wait"
    [] OTHER -> "busy"

\* The bridge keeps the contract execute_stage is verified against: one
\* request at a time, data held until it is taken.
ImplementsPort == [][PortTick(port_rsp, req, port_rsp')]_vars

Mapped == {a \in Addr : Match(a) # {}}

Owner(a) == CHOOSE t \in Match(a) : TRUE

\* The registers and the transaction as the bus specification sees them.
bus_mem == [a \in Mapped |-> regs[Owner(a)][a]]
bus_txn ==
  IF state_q = "IDLE" THEN NoTxn
  ELSE IF state_q \in {"RD_ADDR", "RD_WAIT"}
  THEN [we |-> FALSE, addr |-> addr_q, val |-> IF rvalid THEN rdata ELSE ZERO, done |-> rvalid]
  ELSE [we |-> TRUE, addr |-> addr_q, val |-> wdata_q, done |-> bvalid]

Bus == INSTANCE PeriBus WITH Val <- Writes, mem <- bus_mem, txn <- bus_txn

\* Every load and store on the peripheral path is performed exactly once, on
\* the register its address names, with its data.
ImplementsBus == Bus!Spec

\* Every transaction is answered, mapped or not.
AlwaysAnswers == []<>(port_rsp \in {"ready", "data"})
=============================================================================
