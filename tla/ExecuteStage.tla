---------------------------- MODULE ExecuteStage ----------------------------
(***************************************************************************)
(* execute_stage: the multi-cycle FSM (divider, load/store unit, CSR read),*)
(* the commit point, traps, interrupts and WFI, and branch resolution,     *)
(* with the trap unit, the CSR file and the divider's control FSM.         *)
(*                                                                         *)
(* One step is one rising clock edge.  The instruction in the D/E register *)
(* carries what the datapath would compute from it: its effective address, *)
(* its resolved branch target, the value it writes to a CSR.  stall_i is   *)
(* tied to 0 at the CPU top and is left out.                               *)
(***************************************************************************)
EXTENDS TrapCsrs, NativePort

CONSTANTS
  LSU_LIVE_LOAD,   \* TRUE: an aligned D-mem load launches from EX_IDLE
  PERI,            \* effective addresses from here on are peripherals'
  EA,              \* effective addresses
  XLEN,            \* divider steps
  EXC_TVAL,        \* mtval of a decode exception
  NoPc             \* no branch taken, no prediction

VARIABLES
  de,                       \* the D/E register
  ex_state_q,
  mem_addr_q, mem_is_peri_q,
  wfi_halt_q, wfi_next_pc_q,
  ex_valid_q,
  div_state_q, div_cnt_q,   \* the ALU's divider
  dmem_rsp, peri_rsp        \* inputs: the two memory ports' answers

stageVars == <<ex_state_q, mem_addr_q, mem_is_peri_q, wfi_halt_q, wfi_next_pc_q,
               ex_valid_q, div_state_q, div_cnt_q>>

ExState == {"IDLE", "MEM_LAUNCH", "MEM_TRAP", "DIV_BUSY", "MEM_WAIT", "CSR_WAIT"}
Kind    == {"alu", "div", "load", "store", "csr", "branch", "mret", "wfi", "exception", "none"}

\* target: resolved target of a taken branch, or the address part of rs1 for a
\* CSR write; pred: predicted target; fn and flags: the CSR function and the
\* flag part of its source.
Op == [valid : BOOLEAN, kind : Kind, pc : Pc, len : 1 .. 2,
       ea : EA, size : {1, 2, 4},
       target : Pc \cup {NoPc}, pred : Pc \cup {NoPc},
       csr : {"mstatus", "mie", "mepc", "mtvec", "none"},
       fn : {"RW", "RS", "RC"}, flags : SUBSET Flags]

(***************************************************************************)
(* Classification and the responses of the two ports.                      *)
(***************************************************************************)
is_div_op == de.kind = "div"
is_mem_op == de.kind \in {"load", "store"}
is_csr_op == de.kind = "csr"
mem_read  == de.kind = "load"
mem_write == de.kind = "store"
exception == de.kind = "exception"
pc_link   == (de.pc + de.len) % NPC

IsPeri(ea) == ea >= PERI
misaligned_of(ea) == ea % de.size # 0

int_pending_i == int_pending(mstatus, mie, mip)
wready(rsp) == rsp = "ready"
rvalid(rsp) == rsp = "data"

\* Mutant: only the request side is split between the two ports.
RspDmemOnly == dmem_rsp

lsu_rsp_wait == IF mem_is_peri_q THEN peri_rsp ELSE dmem_rsp

alu_result_valid == is_div_op => div_state_q = "DONE"

(***************************************************************************)
(* Freeze, and the load/store unit's requests.                             *)
(***************************************************************************)
wfi_stall == wfi_halt_q /\ ~int_pending_i
freeze    == wfi_stall

\* Mutant: nothing keeps the instruction behind a WFI off the bus on the wake.
ReqPendingIgnoresHalt ==
  de.valid /\ is_mem_op /\ ex_state_q = "IDLE" /\ ~freeze /\ ~exception

mem_req_pending ==
  de.valid /\ is_mem_op /\ ex_state_q = "IDLE" /\ ~freeze /\ ~exception /\ ~wfi_halt_q

mem_misaligned_launch == LSU_LIVE_LOAD /\ mem_req_pending /\ misaligned_of(de.ea)

misaligned_trap ==
  /\ de.valid
  /\ IF LSU_LIVE_LOAD THEN ex_state_q = "MEM_TRAP"
     ELSE ex_state_q = "MEM_LAUNCH" /\ misaligned_of(mem_addr_q)

\* Mutant: the live launch forgets the alignment.
LoadDriveUnaligned == LSU_LIVE_LOAD /\ mem_req_pending /\ ~IsPeri(de.ea) /\ mem_read

dmem_load_drive ==
  LSU_LIVE_LOAD /\ mem_req_pending /\ ~misaligned_of(de.ea) /\ ~IsPeri(de.ea) /\ mem_read
mem_capture    == mem_req_pending /\ ~dmem_load_drive /\ ~mem_misaligned_launch

captured_drive == ex_state_q = "MEM_LAUNCH" /\ de.valid /\ ~misaligned_trap

dmem_load_hs == dmem_load_drive /\ wready(dmem_rsp)
captured_hs  == captured_drive /\ wready(lsu_rsp_wait)

\* What each port is sent: exactly one of the launches drives, from the live
\* address or from the latched one.
mem_req_o ==
  [wvalid |-> dmem_load_drive \/ (captured_drive /\ ~mem_is_peri_q),
   we     |-> captured_drive /\ ~mem_is_peri_q /\ mem_write,
   addr   |-> IF dmem_load_drive THEN de.ea ELSE mem_addr_q,
   rready |-> ex_state_q = "MEM_WAIT" /\ mem_read /\ ~mem_is_peri_q]
peri_req_o ==
  [wvalid |-> captured_drive /\ mem_is_peri_q,
   we     |-> captured_drive /\ mem_is_peri_q /\ mem_write,
   addr   |-> mem_addr_q,
   rready |-> ex_state_q = "MEM_WAIT" /\ mem_read /\ mem_is_peri_q]

mem_done    == ex_state_q = "MEM_WAIT" /\ rvalid(lsu_rsp_wait)

store_done  == captured_hs /\ mem_write
mem_op_done == IF mem_read THEN mem_done ELSE store_done

(***************************************************************************)
(* Traps, interrupts, mret.                                                *)
(***************************************************************************)
sync_trap_req ==
  (de.valid /\ ~freeze /\ ex_state_q = "IDLE" /\ exception) \/ misaligned_trap

mret_req == de.valid /\ ~freeze /\ ex_state_q = "IDLE" /\ de.kind = "mret"

normal_int_eligible ==
  de.valid /\ de.kind # "wfi" /\ ~exception /\ ~is_mem_op /\ ex_state_q = "IDLE" /\ ~freeze

take_interrupt ==
  int_pending_i /\ ~sync_trap_req /\ ~mret_req /\ (normal_int_eligible \/ wfi_halt_q)

trap_redirect_req == sync_trap_req \/ mret_req \/ take_interrupt

trap_cause == IF take_interrupt THEN int_cause(mie, mip)
              ELSE IF misaligned_trap THEN (IF mem_write THEN "SAD_MIS" ELSE "LAD_MIS")
              ELSE "EXC"

trap_tval == IF take_interrupt THEN 0 ELSE IF misaligned_trap THEN mem_addr_q ELSE EXC_TVAL

\* Mutant: a wake saves the address in the D/E register, like any other trap.
TrapMepcDe == de.pc

trap_mepc == IF wfi_halt_q THEN wfi_next_pc_q ELSE de.pc

\* redirect_addr_o of the trap unit.
trap_redirect_addr ==
  IF mret_req THEN mepc ELSE trap_target(mtvec, take_interrupt, trap_cause)

wfi_retire == de.valid /\ ex_state_q = "IDLE" /\ de.kind = "wfi" /\ ~trap_redirect_req

(***************************************************************************)
(* Divider and CSR launches, the stall to decode, the commit.              *)
(***************************************************************************)
alu_start == de.valid /\ is_div_op /\ ex_state_q = "IDLE" /\ ~freeze /\ ~trap_redirect_req

\* Mutant: a squashed CSR operation is started.
CsrStartUnsquashed == de.valid /\ is_csr_op /\ ex_state_q = "IDLE" /\ ~freeze

csr_start == de.valid /\ is_csr_op /\ ex_state_q = "IDLE" /\ ~freeze /\ ~trap_redirect_req

csr_ready == ex_state_q = "CSR_WAIT"

stall_o ==
  \/ alu_start
  \/ ex_state_q = "DIV_BUSY" /\ ~alu_result_valid
  \/ (mem_req_pending \/ ex_state_q = "MEM_LAUNCH") /\ ~store_done
  \/ ex_state_q = "MEM_TRAP"
  \/ ex_state_q = "MEM_WAIT" /\ ~mem_done
  \/ csr_start
  \/ wfi_stall

result_ready ==
  IF is_mem_op THEN mem_op_done ELSE IF is_csr_op THEN csr_ready ELSE alu_result_valid

op_commits == mret_req \/ (de.valid /\ ~freeze /\ result_ready /\ ~trap_redirect_req)

csr_new ==
  [pc    |-> IF de.target = NoPc THEN 0 ELSE de.target,
   flags |-> CASE de.fn = "RW" -> de.flags
               [] de.fn = "RS" -> csr_rdata_q \cup de.flags
               [] OTHER -> csr_rdata_q \ de.flags]
csr_we ==
  /\ de.valid /\ is_csr_op /\ ~freeze /\ result_ready /\ ~trap_redirect_req
  /\ de.fn = "RW" \/ de.flags # {}

(***************************************************************************)
(* Branch resolution.                                                      *)
(***************************************************************************)
cf_resolving == de.valid /\ de.kind = "branch" /\ ~freeze /\ ~trap_redirect_req

\* Direction or target differ: target and pred are NoPc when not taken.
mispredict     == cf_resolving /\ de.target # de.pred
branch_valid_o == mispredict \/ trap_redirect_req
branch_addr_o  ==
  IF trap_redirect_req THEN trap_redirect_addr
  ELSE IF de.target # NoPc THEN de.target ELSE pc_link

(***************************************************************************)
(* One clock edge.                                                         *)
(***************************************************************************)
ExStateNext ==
  CASE ex_state_q = "IDLE" ->
         IF alu_start THEN "DIV_BUSY"
         ELSE IF mem_misaligned_launch THEN "MEM_TRAP"
         ELSE IF mem_capture THEN "MEM_LAUNCH"
         ELSE IF dmem_load_hs THEN "MEM_WAIT"
         ELSE IF csr_start THEN "CSR_WAIT" ELSE "IDLE"
    [] ex_state_q = "MEM_LAUNCH" ->
         IF misaligned_trap THEN "IDLE"
         ELSE IF captured_hs THEN (IF mem_read THEN "MEM_WAIT" ELSE "IDLE")
         ELSE "MEM_LAUNCH"
    [] ex_state_q = "DIV_BUSY" -> IF alu_result_valid THEN "IDLE" ELSE "DIV_BUSY"
    [] ex_state_q = "MEM_WAIT" -> IF mem_done THEN "IDLE" ELSE "MEM_WAIT"
    [] OTHER -> "IDLE"

\* Mutant: the address is latched only when it is captured for a later launch.
LatchOnCapture ==
  /\ mem_addr_q'    = IF mem_capture THEN de.ea ELSE mem_addr_q
  /\ mem_is_peri_q' = IF mem_capture THEN IsPeri(de.ea) ELSE mem_is_peri_q

LatchRequest ==
  /\ mem_addr_q'    = IF mem_req_pending THEN de.ea ELSE mem_addr_q
  /\ mem_is_peri_q' = IF mem_req_pending THEN IsPeri(de.ea) ELSE mem_is_peri_q

\* The divider's control FSM (alu.sv).
DivTick ==
  /\ div_state_q' = CASE div_state_q = "IDLE" -> IF alu_start THEN "RUN" ELSE "IDLE"
                      [] div_state_q = "RUN" -> IF div_cnt_q = XLEN - 1 THEN "DONE" ELSE "RUN"
                      [] OTHER -> "IDLE"
  /\ div_cnt_q' = IF div_state_q = "IDLE" /\ alu_start THEN 0
                  ELSE IF div_state_q = "RUN" /\ div_cnt_q < XLEN - 1 THEN div_cnt_q + 1
                  ELSE div_cnt_q

\* Mutant: the halt is cleared by the interrupt entry instead of its cause.
HaltUntilEntry ==
  /\ wfi_halt_q'    = (wfi_retire \/ (wfi_halt_q /\ ~take_interrupt))
  /\ wfi_next_pc_q' = IF wfi_retire THEN pc_link ELSE wfi_next_pc_q

WfiTick ==
  /\ wfi_halt_q'    = (wfi_retire \/ (wfi_halt_q /\ ~int_pending_i))
  /\ wfi_next_pc_q' = IF wfi_retire THEN pc_link ELSE wfi_next_pc_q

\* lines: the three interrupt lines, which mip registers.
StageTick(lines) ==
  /\ ex_state_q' = ExStateNext
  /\ LatchRequest
  /\ WfiTick
  /\ ex_valid_q' = op_commits
  /\ DivTick
  /\ CsrTick([entry |-> sync_trap_req \/ take_interrupt, mret |-> mret_req,
              pc |-> trap_mepc, cause |-> trap_cause, tval |-> trap_tval],
             csr_we, de.csr, csr_new, ex_valid_q, lines)

StageInit ==
  /\ ex_state_q = "IDLE" /\ mem_addr_q = 0 /\ mem_is_peri_q = FALSE
  /\ wfi_halt_q = FALSE /\ wfi_next_pc_q = 0 /\ ex_valid_q = FALSE
  /\ div_state_q = "IDLE" /\ div_cnt_q = 0
  /\ CsrInit
=============================================================================
