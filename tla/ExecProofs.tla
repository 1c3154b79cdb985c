----------------------------- MODULE ExecProofs -----------------------------
(***************************************************************************)
(* Proofs about execute_stage between its neighbours, for every address    *)
(* space, instruction mix, load/store build and port latency.              *)
(*                                                                         *)
(* ExecInv is inductive.  The argument turns on two facts: the stage holds *)
(* the D/E register while an operation is under way (Released: whenever    *)
(* decode moves on, the FSM returns to EX_IDLE), and nothing starts while  *)
(* a WFI halts the pipe.                                                   *)
(***************************************************************************)
EXTENDS ExecUnit, TLAPS

USE PcAssumption, ExecAssumption

LEMMA InitInv == Init => ExecInv
<1> SUFFICES ASSUME Init PROVE ExecInv
  OBVIOUS
<1>1. 0 \in Pc /\ Bubble \in Op
  BY DEF Bubble, Op, Pc, Kind, Flags
<1>2. CsrTypeOK
  BY <1>1, COUNT_MOD - 1 \in Nat
  DEF Init, StageInit, CsrInit, CsrTypeOK, Cause, IRQ, MstatusBits, Flags
<1>3. TypeOK
  <2>1. de \in Op /\ fpc \in Pc /\ wfi_next_pc_q \in Pc /\ mem_addr_q \in EA
    BY <1>1 DEF Init, StageInit
  <2>2. div_cnt_q \in 0 .. (XLEN - 1) /\ launches \in 0 .. 1
    BY DEF Init, StageInit
  <2>3. mem_is_peri_q \in BOOLEAN /\ wfi_halt_q \in BOOLEAN /\ ex_valid_q \in BOOLEAN
    BY DEF Init, StageInit
  <2>4. div_state_q \in {"IDLE", "RUN", "DONE"} /\ ex_state_q \in ExState
        /\ dmem_rsp \in Rsp /\ peri_rsp \in Rsp
    BY DEF Init, StageInit, ExState, Rsp
  <2> QED
    BY <1>2, <2>1, <2>2, <2>3, <2>4 DEF TypeOK
<1> QED
  BY <1>3 DEF Init, StageInit, CsrInit, ExecInv, LsuStateOwned, TrapNeverFrozen, AddressHeld,
     AlignmentDecided, CsrReadFresh, DividerInStep, ResumePoint, Decoded, Bubble

\* Whenever decode's register changes, the FSM is back in EX_IDLE.
LEMMA Released ==
  ASSUME ExecInv, branch_valid_o \/ ~stall_o
  PROVE  ExStateNext = "IDLE"
<1>1. CASE ex_state_q = "IDLE"
  BY <1>1 DEF ExStateNext, branch_valid_o, stall_o, mispredict, cf_resolving, trap_redirect_req,
     sync_trap_req, mret_req, take_interrupt, normal_int_eligible, misaligned_trap, alu_start,
     csr_start, mem_req_pending, mem_misaligned_launch, mem_capture, dmem_load_hs, dmem_load_drive,
     store_done, captured_hs, captured_drive, is_mem_op, is_csr_op, is_div_op, exception, mem_write, mem_read
<1>2. CASE ex_state_q \in {"MEM_LAUNCH", "MEM_WAIT", "MEM_TRAP"}
  <2>1. de.valid /\ is_mem_op /\ ~wfi_halt_q
    BY <1>2 DEF ExecInv, LsuStateOwned, TrapNeverFrozen
  <2>2. ~mispredict /\ ~mret_req /\ ~take_interrupt /\ (sync_trap_req => misaligned_trap)
    BY <1>2, <2>1 DEF mispredict, cf_resolving, mret_req, take_interrupt, normal_int_eligible,
       sync_trap_req, is_mem_op
  <2>3. CASE misaligned_trap
    BY <1>2, <2>3 DEF ExStateNext, misaligned_trap
  <2>4. CASE ~misaligned_trap
    <3>1. ~stall_o
      BY <2>2, <2>4 DEF branch_valid_o, trap_redirect_req
    <3>2. ex_state_q = "MEM_LAUNCH" => captured_hs /\ mem_write
      BY <3>1 DEF stall_o, store_done
    <3>3. ex_state_q = "MEM_WAIT" => mem_done
      BY <3>1 DEF stall_o
    <3>4. mem_write => ~mem_read
      BY DEF mem_write, mem_read
    <3> QED
      BY <1>2, <2>4, <3>1, <3>2, <3>3, <3>4 DEF ExStateNext, stall_o
  <2> QED
    BY <2>3, <2>4
<1>3. CASE ex_state_q = "DIV_BUSY"
  <2>1. de.valid /\ is_div_op /\ ~wfi_halt_q
    BY <1>3 DEF ExecInv, DividerInStep, TrapNeverFrozen
  <2>2. ~branch_valid_o
    BY <1>3, <2>1 DEF branch_valid_o, mispredict, cf_resolving, trap_redirect_req, mret_req,
       take_interrupt, normal_int_eligible, sync_trap_req, misaligned_trap, is_div_op
  <2> QED
    BY <1>3, <2>2 DEF ExStateNext, stall_o
<1>4. CASE ex_state_q = "CSR_WAIT"
  BY <1>4 DEF ExStateNext
<1> QED
  BY <1>1, <1>2, <1>3, <1>4 DEF ExecInv, TypeOK, ExState
\* A starting state of a multi-cycle operation, and who starts it.
LEMMA Starts ==
  ASSUME ExecInv, ExStateNext # "IDLE", ex_state_q = "IDLE"
  PROVE  /\ de.valid /\ ~wfi_halt_q /\ de.kind # "wfi"
         /\ ExStateNext = "DIV_BUSY" <=> alu_start
         /\ ExStateNext = "CSR_WAIT" => csr_start
         /\ ExStateNext \in {"MEM_LAUNCH", "MEM_WAIT", "MEM_TRAP"} => mem_req_pending
         /\ ExStateNext = "MEM_WAIT" => dmem_load_hs
         /\ ExStateNext \in {"DIV_BUSY", "CSR_WAIT", "MEM_LAUNCH", "MEM_WAIT", "MEM_TRAP"}
<1>1. /\ alu_start => is_div_op /\ de.valid /\ ~wfi_halt_q
      /\ csr_start => is_csr_op /\ de.valid /\ ~wfi_halt_q
  BY DEF alu_start, csr_start, trap_redirect_req, take_interrupt, freeze, wfi_stall
<1>2. /\ mem_misaligned_launch \/ mem_capture \/ dmem_load_hs => mem_req_pending
      /\ mem_req_pending => is_mem_op /\ de.valid /\ ~wfi_halt_q
  BY DEF mem_req_pending, mem_misaligned_launch, mem_capture, dmem_load_hs, dmem_load_drive
<1> QED
  BY <1>1, <1>2 DEF ExStateNext, is_div_op, is_csr_op, is_mem_op

LEMMA InstrsTyped ==
  ASSUME fpc \in Pc, NEW i \in Instrs
  PROVE  i \in Op /\ i.valid /\ i.pc = fpc /\ (i.kind # "branch" => i.pred = NoPc)
<1> DEFINE K == {"alu", "exception", "div", "mret", "wfi", "load", "store", "branch", "csr"}
<1>1. ASSUME NEW k \in K, NEW n \in 1 .. 2
      PROVE  /\ At(k, n) \in Op /\ At(k, n).valid /\ At(k, n).pc = fpc
             /\ At(k, n).pred = NoPc /\ At(k, n).kind = k
  BY <1>1 DEF At, Bubble, Op, Kind, Flags, Pc
<1>2. CASE i \in Plain
  BY <1>1, <1>2 DEF Plain
<1>3. CASE i \in Memory
  <2>1. PICK k \in {"load", "store"}, n \in 1 .. 2, a \in EA, b \in {1, 2, 4} :
          i = MemoryOp(k, n, a, b)
    BY <1>3 DEF Memory
  <2>2. i = [valid |-> TRUE, kind |-> k, pc |-> fpc, len |-> n, ea |-> a, size |-> b, target |-> NoPc,
             pred |-> NoPc, csr |-> "none", fn |-> "RS", flags |-> {}]
    BY <2>1 DEF MemoryOp, At, Bubble
  <2> QED
    BY <2>2 DEF Op, Kind, Flags
<1>4. CASE i \in Branches
  <2>1. PICK n \in 1 .. 2, t \in Pc \cup {NoPc}, p \in Pc \cup {NoPc} :
          i = BranchOp(n, t, p)
    BY <1>4 DEF Branches
  <2>2. i = [valid |-> TRUE, kind |-> "branch", pc |-> fpc, len |-> n, ea |-> 0, size |-> 1, target |-> t,
             pred |-> p, csr |-> "none", fn |-> "RS", flags |-> {}]
    BY <2>1 DEF BranchOp, At, Bubble
  <2> QED
    BY <2>2 DEF Op, Kind, Flags
<1>5. CASE i \in CsrOps
  <2>1. PICK c \in CsrForms :
          i = CsrOp(c)
    BY <1>5 DEF CsrOps
  <2>2. i = [valid |-> TRUE, kind |-> "csr", pc |-> fpc, len |-> 2, ea |-> 0, size |-> 1,
             target |-> c.target, pred |-> NoPc, csr |-> c.csr, fn |-> c.fn, flags |-> c.flags]
    BY <2>1 DEF CsrOp, At, Bubble
  <2>3. /\ c.csr \in {"mstatus", "mie", "mepc", "mtvec"} /\ c.fn \in {"RW", "RS", "RC"}
        /\ c.flags \in SUBSET Flags /\ c.target \in Pc \cup {NoPc}
    OBVIOUS
  <2> QED
    BY <2>2, <2>3 DEF Op, Kind
<1> QED
  BY <1>2, <1>3, <1>4, <1>5 DEF Instrs

\* An operation that stays under way keeps its D/E register.
LEMMA Moves ==
  ASSUME ExecInv, Next
  PROVE  /\ ex_state_q' = ExStateNext
         /\ ex_state_q' = "IDLE" \/ (de' = de /\ fpc' = fpc /\ ~branch_valid_o)
         /\ de' = de \/ de' = Bubble \/ \E i \in Instrs : de' = i
<1>1. ex_state_q' = ExStateNext
  BY DEF Next, Clock, StageTick
<1> QED
  BY <1>1, Released DEF Next, Redirect, Hold, Starve, Deliver

\* What the stage sends fetch and the CSR file is well typed.
LEMMA WiresTyped ==
  ASSUME ExecInv
  PROVE  /\ pc_link \in Pc /\ trap_mepc \in Pc /\ csr_new.pc \in Pc
         /\ trap_cause \in Cause /\ trap_tval \in Tval
         /\ branch_valid_o => branch_addr_o \in Pc
<1>1. de \in Op /\ CsrTypeOK /\ wfi_next_pc_q \in Pc /\ mem_addr_q \in EA
  BY DEF ExecInv, TypeOK
<1>2. /\ de.pc \in Pc /\ de.len \in 1 .. 2 /\ de.target \in Pc \cup {NoPc}
  BY <1>1 DEF Op
<1>3. pc_link \in Pc /\ trap_mepc \in Pc
  BY <1>1, <1>2 DEF pc_link, trap_mepc, Pc
<1>4. csr_new.pc \in Pc
  BY <1>2 DEF csr_new, Pc
<1>5. trap_cause \in Cause
  BY DEF trap_cause, Cause, int_cause, IRQ
<1>6. trap_tval \in Tval
  BY <1>1 DEF trap_tval
<1>7. trap_redirect_addr \in Pc
  <2>1. mepc \in Pc /\ mtvec \in [base : Pc, vectored : BOOLEAN]
    BY <1>1 DEF CsrTypeOK
  <2>2. IrqCode(trap_cause) \in Nat
    BY DEF IrqCode
  <2>3. (mtvec.base + 2 * IrqCode(trap_cause)) % NPC \in Pc /\ mtvec.base \in Pc
    BY <2>1, <2>2 DEF Pc
  <2> QED
    BY <2>1, <2>3 DEF trap_redirect_addr, trap_target
<1>8. branch_addr_o \in Pc
  BY <1>2, <1>3, <1>7 DEF branch_addr_o
<1> QED
  BY <1>3, <1>4, <1>5, <1>6, <1>8

LEMMA StepCsrType ==
  ASSUME ExecInv, Next
  PROVE  CsrTypeOK'
<1>1. PICK lines \in SUBSET LINES : StageTick(lines)
  BY DEF Next, Clock
<1>2. CsrTypeOK /\ de \in Op
  BY DEF ExecInv, TypeOK
<1>3. de.flags \in SUBSET Flags /\ csr_new.flags \in SUBSET Flags
  BY <1>2 DEF csr_new, Op, CsrTypeOK
<1>4. mepc' \in Pc
  BY <1>1, <1>2, WiresTyped DEF StageTick, CsrTick, EntryOr, CsrTypeOK
<1>5. mcause' \in Cause /\ mtval' \in Tval
  BY <1>1, <1>2, WiresTyped DEF StageTick, CsrTick, CsrTypeOK
<1>6. mstatus' \in SUBSET MstatusBits
  BY <1>1, <1>2 DEF StageTick, CsrTick, CsrTypeOK, mstatus_entry, mstatus_mret, MstatusBits
<1>7. mie' \in SUBSET IRQ /\ mip' \in SUBSET IRQ
  BY <1>1, <1>2 DEF StageTick, CsrTick, CsrWrite, CsrTypeOK
<1>8. mtvec' \in [base : Pc, vectored : BOOLEAN]
  BY <1>1, <1>2, WiresTyped DEF StageTick, CsrTick, CsrWrite, CsrTypeOK
<1>9. minstret' \in 0 .. (COUNT_MOD - 1)
  <2>1. minstret \in 0 .. (COUNT_MOD - 1) /\ COUNT_MOD \in Nat \ {0}
    BY <1>2 DEF CsrTypeOK
  <2>2. (minstret + 1) % COUNT_MOD \in 0 .. (COUNT_MOD - 1)
    BY <2>1
  <2> QED
    BY <1>1, <2>1, <2>2 DEF StageTick, CsrTick
<1>10. csr_rdata_q' \in SUBSET Flags
  BY <1>1, <1>2 DEF StageTick, CsrTick, csr_rdata, CsrTypeOK, Flags
<1> QED
  BY <1>4, <1>5, <1>6, <1>7, <1>8, <1>9, <1>10 DEF CsrTypeOK

\* Where decode stands after a step.
LEMMA StepDecode ==
  ASSUME ExecInv, Next
  PROVE  /\ de' \in Op /\ fpc' \in Pc
         /\ de'.valid => fpc' = IF de'.pred # NoPc THEN de'.pred ELSE (de'.pc + de'.len) % NPC
         /\ de'.valid /\ de'.kind # "branch" => de'.pred = NoPc
<1>1. de \in Op /\ fpc \in Pc
  BY DEF ExecInv, TypeOK
<1>2. Bubble \in Op /\ Bubble.valid = FALSE
  BY DEF Bubble, Op, Pc, Kind, Flags
<1>3. CASE Redirect
  BY <1>2, <1>3, WiresTyped DEF Redirect
<1>4. CASE Hold
  BY <1>1, <1>4 DEF Hold, ExecInv, ResumePoint, pc_link
<1>5. CASE Starve
  BY <1>1, <1>2, <1>5 DEF Starve
<1>6. CASE \E i \in Instrs : Deliver(i)
  <2>1. PICK i \in Instrs : Deliver(i)
    BY <1>6
  <2>2. i \in Op /\ i.valid /\ i.pc = fpc /\ (i.kind # "branch" => i.pred = NoPc)
    BY <1>1, InstrsTyped
  <2>3. i.pred \in Pc \cup {NoPc} /\ i.len \in 1 .. 2 /\ i.pc \in Pc
    BY <2>2 DEF Op
  <2>4. (i.pc + i.len) % NPC \in Pc
    BY <2>3 DEF Pc
  <2> QED
    BY <2>1, <2>2, <2>3, <2>4 DEF Deliver
<1> QED
  BY <1>3, <1>4, <1>5, <1>6 DEF Next

LEMMA StepTypeOK ==
  ASSUME ExecInv, Next
  PROVE  TypeOK'
<1>1. PICK lines \in SUBSET LINES : StageTick(lines)
  BY DEF Next, Clock
<1>2. TypeOK
  BY DEF ExecInv
<1>3. ex_state_q' \in ExState
  <2>1. ExStateNext \in ExState
    BY <1>2 DEF ExStateNext, ExState, TypeOK
  <2> QED
    BY <1>1, <2>1 DEF StageTick
<1>4. mem_addr_q' \in EA
  BY <1>1, <1>2 DEF StageTick, LatchRequest, TypeOK, Op
<1>5. wfi_next_pc_q' \in Pc
  BY <1>1, <1>2, WiresTyped DEF StageTick, WfiTick, TypeOK
<1>6. mem_is_peri_q' \in BOOLEAN
  <2>1. IsPeri(de.ea) \in BOOLEAN
    BY DEF IsPeri
  <2>2. mem_is_peri_q' = IsPeri(de.ea) \/ mem_is_peri_q' = mem_is_peri_q
    BY <1>1, Zenon DEF StageTick, LatchRequest
  <2> QED
    BY <1>2, <2>1, <2>2 DEF TypeOK
<1>7. wfi_halt_q' \in BOOLEAN
  BY <1>1 DEF StageTick, WfiTick
<1>8. ex_valid_q' \in BOOLEAN
  BY <1>1 DEF StageTick, op_commits
<1>9. div_state_q' \in {"IDLE", "RUN", "DONE"}
  BY <1>1, <1>2 DEF StageTick, DivTick, TypeOK
<1>10. div_cnt_q' \in 0 .. (XLEN - 1)
  BY <1>1, <1>2 DEF StageTick, DivTick, TypeOK
<1>11. dmem_rsp' \in Rsp /\ peri_rsp' \in Rsp
  BY DEF Next, Clock
<1>12. launches' \in 0 .. 1
  BY <1>2 DEF Next, Clock, TypeOK
<1> QED
  BY <1>3, <1>4, <1>5, <1>6, <1>7, <1>8, <1>9, <1>10, <1>11, <1>12, StepCsrType, StepDecode DEF TypeOK

\* How an operation under way continues.
LEMMA Continues ==
  ASSUME ExecInv, ExStateNext # "IDLE", ex_state_q # "IDLE"
  PROVE  \/ ex_state_q = "DIV_BUSY" /\ ExStateNext = "DIV_BUSY"
         \/ ex_state_q = "MEM_LAUNCH" /\ ExStateNext = "MEM_LAUNCH" /\ ~captured_hs
         \/ ex_state_q = "MEM_LAUNCH" /\ ExStateNext = "MEM_WAIT" /\ captured_hs /\ mem_read
         \/ ex_state_q = "MEM_WAIT" /\ ExStateNext = "MEM_WAIT" /\ ~mem_done
<1>1. ex_state_q \in ExState
  BY DEF ExecInv, TypeOK
<1> QED
  BY <1>1 DEF ExStateNext, ExState

LEMMA StepOwned ==
  ASSUME ExecInv, Next
  PROVE  LsuStateOwned' /\ TrapNeverFrozen'
<1>1. CASE ExStateNext = "IDLE"
  BY <1>1, Moves DEF LsuStateOwned, TrapNeverFrozen
<1>2. CASE ExStateNext # "IDLE"
  <2>1. ex_state_q' = ExStateNext /\ de' = de
    BY <1>2, Moves
  <2>2. ~wfi_halt_q /\ ~wfi_retire
    BY <1>2, Starts DEF ExecInv, TrapNeverFrozen, wfi_retire
  <2>3. ~wfi_halt_q'
    BY <2>2 DEF Next, Clock, StageTick, WfiTick
  <2>4. ExStateNext \in {"MEM_LAUNCH", "MEM_WAIT", "MEM_TRAP"} => de.valid /\ is_mem_op
    <3>1. CASE ex_state_q = "IDLE"
      BY <1>2, <3>1, Starts DEF mem_req_pending
    <3>2. CASE ex_state_q # "IDLE"
      BY <1>2, <3>2, Continues DEF ExecInv, LsuStateOwned
    <3> QED
      BY <3>1, <3>2
  <2> QED
    BY <2>1, <2>3, <2>4 DEF LsuStateOwned, TrapNeverFrozen, is_mem_op
<1> QED
  BY <1>1, <1>2

\* A port keeps an answer until it is taken, and owes one only for a read.
LEMMA PortFacts ==
  ASSUME NEW rsp \in Rsp, NEW req, NEW r \in Rsp, PortTick(rsp, req, r)
  PROVE  /\ rsp \in {"ready", "busy"} /\ ~(rsp = "ready" /\ req.wvalid /\ ~req.we)
              => r \in {"ready", "busy"}
         /\ rsp = "ready" /\ req.wvalid /\ ~req.we => r \in {"wait", "data"}
         /\ rsp = "wait" => r \in {"wait", "data"}
         /\ rsp = "data" /\ req.rready => r = "ready"
         /\ rsp = "data" /\ ~req.rready => r = "data"
BY DEF PortTick, Rsp

LEMMA StepPorts ==
  ASSUME Next
  PROVE  /\ dmem_rsp' \in Rsp /\ PortTick(dmem_rsp, mem_req_o, dmem_rsp')
         /\ peri_rsp' \in Rsp /\ PortTick(peri_rsp, peri_req_o, peri_rsp')
BY DEF Next, Clock

LEMMA StepAddress ==
  ASSUME ExecInv, Next
  PROVE  ex_state_q' \in {"MEM_LAUNCH", "MEM_WAIT", "MEM_TRAP"} =>
           /\ de' = de /\ mem_addr_q' = de.ea /\ mem_is_peri_q' = IsPeri(de.ea)
           /\ ex_state_q # "IDLE" => mem_is_peri_q = IsPeri(de.ea)
<1> SUFFICES ASSUME ex_state_q' \in {"MEM_LAUNCH", "MEM_WAIT", "MEM_TRAP"}
             PROVE  /\ de' = de /\ mem_addr_q' = de.ea /\ mem_is_peri_q' = IsPeri(de.ea)
                    /\ ex_state_q # "IDLE" => mem_is_peri_q = IsPeri(de.ea)
  OBVIOUS
<1>1. ExStateNext = ex_state_q' /\ ex_state_q' # "IDLE" /\ de' = de
  BY Moves
<1>2. LatchRequest
  BY DEF Next, Clock, StageTick
<1>3. CASE ex_state_q = "IDLE"
  <2>1. mem_req_pending
    BY <1>1, <1>3, Starts
  <2> QED
    BY <1>1, <1>2, <1>3, <2>1 DEF LatchRequest
<1>4. CASE ex_state_q # "IDLE"
  <2>1. ex_state_q \in {"MEM_LAUNCH", "MEM_WAIT", "MEM_TRAP"} /\ ~mem_req_pending
    BY <1>1, <1>4, Continues DEF mem_req_pending
  <2> QED
    BY <1>1, <1>2, <2>1 DEF LatchRequest, ExecInv, AddressHeld
<1> QED
  BY <1>3, <1>4

\* A read reaches a port exactly when execute starts to wait for it there.
LEMMA LaunchWaits ==
  ASSUME ExecInv, Next
  PROVE  /\ dmem_rsp = "ready" /\ mem_req_o.wvalid /\ ~mem_req_o.we
              => ex_state_q' = "MEM_WAIT" /\ ~mem_is_peri_q'
         /\ peri_rsp = "ready" /\ peri_req_o.wvalid /\ ~peri_req_o.we
              => ex_state_q' = "MEM_WAIT" /\ mem_is_peri_q'
<1>1. ex_state_q' = ExStateNext
  BY Moves
<1>2. dmem_load_hs => ExStateNext = "MEM_WAIT" /\ ~IsPeri(de.ea)
  <2>1. dmem_load_hs => /\ ex_state_q = "IDLE" /\ is_mem_op /\ ~IsPeri(de.ea) /\ dmem_load_drive
                        /\ ~mem_misaligned_launch
    BY DEF dmem_load_hs, dmem_load_drive, mem_req_pending, mem_misaligned_launch
  <2>2. dmem_load_hs => ~alu_start /\ ~mem_capture
    BY <2>1 DEF alu_start, mem_capture, is_div_op, is_mem_op
  <2> QED
    BY <2>1, <2>2 DEF ExStateNext
<1>3. captured_hs /\ ~mem_write => /\ ExStateNext = "MEM_WAIT" /\ ex_state_q # "IDLE"
  <2>1. captured_hs => ex_state_q = "MEM_LAUNCH" /\ ~misaligned_trap
    BY DEF captured_hs, captured_drive
  <2>2. ex_state_q = "MEM_LAUNCH" /\ ~mem_write => mem_read
    BY DEF ExecInv, LsuStateOwned, is_mem_op, mem_write, mem_read
  <2> QED
    BY <2>1, <2>2 DEF ExStateNext
<1>4. /\ dmem_rsp = "ready" /\ mem_req_o.wvalid /\ ~mem_req_o.we
          => dmem_load_hs \/ (captured_hs /\ ~mem_write /\ ~mem_is_peri_q)
      /\ peri_rsp = "ready" /\ peri_req_o.wvalid /\ ~peri_req_o.we
          => captured_hs /\ ~mem_write /\ mem_is_peri_q
  BY DEF mem_req_o, peri_req_o, dmem_load_hs, captured_hs, lsu_rsp_wait, wready
<1> QED
  BY <1>1, <1>2, <1>3, <1>4, StepAddress

LEMMA StepAddressHeld ==
  ASSUME ExecInv, Next
  PROVE  AddressHeld'
<1> USE DEF rvalid
<1>1. dmem_rsp \in Rsp /\ peri_rsp \in Rsp /\ mem_is_peri_q \in BOOLEAN
  BY DEF ExecInv, TypeOK
<1>2. AddressHeld
  BY DEF ExecInv
<1>3. ASSUME ex_state_q' \in {"MEM_LAUNCH", "MEM_WAIT", "MEM_TRAP"}
      PROVE  mem_addr_q' = de'.ea /\ mem_is_peri_q' = IsPeri(de'.ea)
  BY <1>3, StepAddress
<1>4. ASSUME ex_state_q' = "MEM_WAIT"
      PROVE  mem_read' /\ (IF mem_is_peri_q' THEN peri_rsp' ELSE dmem_rsp') \in {"wait", "data"}
  <2>1. /\ ExStateNext = "MEM_WAIT" /\ de' = de /\ mem_is_peri_q' = IsPeri(de.ea)
        /\ ex_state_q # "IDLE" => mem_is_peri_q = IsPeri(de.ea)
    BY <1>4, Moves, StepAddress
  <2>2. CASE ex_state_q = "IDLE"
    <3>1. dmem_load_hs
      BY <2>1, <2>2, Starts
    <3>2. mem_read /\ ~IsPeri(de.ea) /\ dmem_rsp = "ready" /\ mem_req_o.wvalid /\ ~mem_req_o.we
      BY <2>2, <3>1 DEF dmem_load_hs, dmem_load_drive, mem_req_o, captured_drive, wready
    <3>3. dmem_rsp' \in {"wait", "data"}
      BY <1>1, <3>2, StepPorts, PortFacts
    <3> QED
      BY <2>1, <3>2, <3>3 DEF mem_read
  <2>3. CASE ex_state_q = "MEM_LAUNCH"
    <3>1. captured_hs /\ mem_read
      BY <2>1, <2>3, Continues
    <3>2. CASE mem_is_peri_q
      <4>1. peri_rsp = "ready" /\ peri_req_o.wvalid /\ ~peri_req_o.we
        BY <3>1, <3>2 DEF captured_hs, lsu_rsp_wait, wready, peri_req_o, mem_read, mem_write
      <4>2. peri_rsp' \in {"wait", "data"}
        BY <1>1, <4>1, StepPorts, PortFacts
      <4> QED
        BY <2>1, <2>3, <3>1, <3>2, <4>2 DEF mem_read
    <3>3. CASE ~mem_is_peri_q
      <4>1. dmem_rsp = "ready" /\ mem_req_o.wvalid /\ ~mem_req_o.we
        BY <3>1, <3>3 DEF captured_hs, lsu_rsp_wait, wready, mem_req_o, mem_read, mem_write
      <4>2. dmem_rsp' \in {"wait", "data"}
        BY <1>1, <4>1, StepPorts, PortFacts
      <4> QED
        BY <2>1, <2>3, <3>1, <3>3, <4>2 DEF mem_read
    <3> QED
      BY <3>2, <3>3
  <2>4. CASE ex_state_q = "MEM_WAIT"
    <3>1. ~mem_done /\ mem_read /\ lsu_rsp_wait = "wait"
      BY <1>2, <2>1, <2>4, Continues DEF AddressHeld, mem_done
    <3>2. mem_is_peri_q => peri_rsp' \in {"wait", "data"}
      BY <1>1, <3>1, StepPorts, PortFacts DEF lsu_rsp_wait
    <3>3. ~mem_is_peri_q => dmem_rsp' \in {"wait", "data"}
      BY <1>1, <3>1, StepPorts, PortFacts DEF lsu_rsp_wait
    <3> QED
      BY <2>1, <2>4, <3>1, <3>2, <3>3 DEF mem_read
  <2> QED
    BY <2>1, <2>2, <2>3, <2>4, Continues
<1>5. ASSUME ~(ex_state_q' = "MEM_WAIT" /\ ~mem_is_peri_q')
      PROVE  dmem_rsp' \in {"ready", "busy"}
  <2>1. ~(dmem_rsp = "ready" /\ mem_req_o.wvalid /\ ~mem_req_o.we)
    BY <1>5, LaunchWaits
  <2>2. CASE dmem_rsp \in {"ready", "busy"}
    BY <1>1, <2>1, <2>2, StepPorts, PortFacts
  <2>3. CASE dmem_rsp \in {"wait", "data"}
    <3>1. ex_state_q = "MEM_WAIT" /\ ~mem_is_peri_q /\ mem_read
      BY <1>2, <2>3 DEF AddressHeld
    <3>2. ExStateNext = "IDLE"
      BY <1>5, <3>1, Moves, Continues, StepAddress
    <3>3. mem_done
      BY <3>1, <3>2 DEF ExStateNext
    <3>4. dmem_rsp = "data" /\ mem_req_o.rready
      BY <3>1, <3>3 DEF mem_done, lsu_rsp_wait, mem_req_o
    <3> QED
      BY <1>1, <3>4, StepPorts, PortFacts
  <2> QED
    BY <1>1, <2>2, <2>3 DEF Rsp
<1>6. ASSUME ~(ex_state_q' = "MEM_WAIT" /\ mem_is_peri_q')
      PROVE  peri_rsp' \in {"ready", "busy"}
  <2>1. ~(peri_rsp = "ready" /\ peri_req_o.wvalid /\ ~peri_req_o.we)
    BY <1>6, LaunchWaits
  <2>2. CASE peri_rsp \in {"ready", "busy"}
    BY <1>1, <2>1, <2>2, StepPorts, PortFacts
  <2>3. CASE peri_rsp \in {"wait", "data"}
    <3>1. ex_state_q = "MEM_WAIT" /\ mem_is_peri_q /\ mem_read
      BY <1>2, <2>3 DEF AddressHeld
    <3>2. ExStateNext = "IDLE"
      BY <1>6, <3>1, Moves, Continues, StepAddress
    <3>3. mem_done
      BY <3>1, <3>2 DEF ExStateNext
    <3>4. peri_rsp = "data" /\ peri_req_o.rready
      BY <3>1, <3>3 DEF mem_done, lsu_rsp_wait, peri_req_o
    <3> QED
      BY <1>1, <3>4, StepPorts, PortFacts
  <2> QED
    BY <1>1, <2>2, <2>3 DEF Rsp
<1> QED
  BY <1>3, <1>4, <1>5, <1>6 DEF AddressHeld, lsu_rsp_wait

LEMMA StepAlignment ==
  ASSUME ExecInv, Next
  PROVE  AlignmentDecided'
<1> SUFFICES ASSUME LSU_LIVE_LOAD, ExStateNext \in {"MEM_LAUNCH", "MEM_TRAP"}
             PROVE  /\ ExStateNext = "MEM_LAUNCH" => ~misaligned_of(de.ea)
                    /\ ExStateNext = "MEM_TRAP" => misaligned_of(de.ea)
                    /\ de' = de
  BY Moves DEF AlignmentDecided, misaligned_of
<1>1. CASE ex_state_q = "IDLE"
  <2>1. mem_misaligned_launch => misaligned_of(de.ea)
    BY DEF mem_misaligned_launch
  <2>2. mem_req_pending /\ ~mem_misaligned_launch => ~misaligned_of(de.ea)
    BY DEF mem_misaligned_launch
  <2> QED
    BY <1>1, <2>1, <2>2, Starts, Moves DEF ExStateNext
<1>2. CASE ex_state_q # "IDLE"
  BY <1>2, Continues, Moves DEF ExecInv, AlignmentDecided
<1> QED
  BY <1>1, <1>2

LEMMA StepCsrReadFresh ==
  ASSUME ExecInv, Next
  PROVE  CsrReadFresh'
<1> SUFFICES ASSUME ex_state_q' = "CSR_WAIT"
             PROVE  is_csr_op' /\ de'.valid /\ csr_rdata_q' = csr_rdata(de.csr)'
  BY Moves DEF CsrReadFresh
<1>1. ExStateNext = "CSR_WAIT" /\ de' = de
  BY Moves
<1>2. ex_state_q = "IDLE" /\ csr_start
  BY <1>1, Continues, Starts
<1>3. is_csr_op /\ de.valid /\ ~sync_trap_req /\ ~take_interrupt /\ ~mret_req /\ ~csr_we
  BY <1>2 DEF csr_start, trap_redirect_req, csr_we, result_ready, csr_ready, is_csr_op, is_mem_op
<1>4. mstatus' = mstatus /\ mie' = mie /\ csr_rdata_q' = csr_rdata(de.csr)
  BY <1>3 DEF Next, Clock, StageTick, CsrTick, CsrWrite
<1>5. csr_rdata(de.csr)' = csr_rdata(de.csr)
  BY <1>1, <1>4 DEF csr_rdata
<1> QED
  BY <1>1, <1>3, <1>4, <1>5 DEF is_csr_op

LEMMA StepDivider ==
  ASSUME ExecInv, Next
  PROVE  DividerInStep'
<1>1. DivTick /\ ex_state_q' = ExStateNext
  BY DEF Next, Clock, StageTick
<1>2. div_state_q \in {"IDLE", "RUN", "DONE"} /\ ex_state_q \in ExState
  BY DEF ExecInv, TypeOK
<1>3. CASE ex_state_q = "IDLE"
  <2>1. div_state_q = "IDLE"
    BY <1>3 DEF ExecInv, DividerInStep
  <2>2. div_state_q' # "IDLE" <=> alu_start
    BY <1>1, <2>1 DEF DivTick
  <2>3. ExStateNext = "DIV_BUSY" <=> alu_start
    BY <1>3 DEF ExStateNext
  <2>4. alu_start => de.valid /\ is_div_op
    BY DEF alu_start
  <2> QED
    BY <1>1, <2>2, <2>3, <2>4, Moves DEF DividerInStep, is_div_op
<1>4. CASE ex_state_q = "DIV_BUSY"
  <2>1. div_state_q \in {"RUN", "DONE"} /\ de.valid /\ is_div_op
    BY <1>2, <1>4 DEF ExecInv, DividerInStep
  <2>2. div_state_q = "RUN" => ExStateNext = "DIV_BUSY" /\ div_state_q' # "IDLE"
    BY <1>1, <1>4, <2>1 DEF ExStateNext, DivTick, alu_result_valid
  <2>3. div_state_q = "DONE" => ExStateNext = "IDLE" /\ div_state_q' = "IDLE"
    BY <1>1, <1>4, <2>1 DEF ExStateNext, DivTick, alu_result_valid
  <2> QED
    BY <1>1, <2>1, <2>2, <2>3, Moves DEF DividerInStep, is_div_op
<1>5. CASE ex_state_q \notin {"IDLE", "DIV_BUSY"}
  <2>1. div_state_q = "IDLE" /\ ~alu_start
    BY <1>2, <1>5 DEF ExecInv, DividerInStep, alu_start
  <2>2. div_state_q' = "IDLE"
    BY <1>1, <2>1 DEF DivTick
  <2>3. ExStateNext # "DIV_BUSY"
    BY <1>5, Continues
  <2> QED
    BY <1>1, <2>2, <2>3 DEF DividerInStep
<1> QED
  BY <1>3, <1>4, <1>5

LEMMA StepResume ==
  ASSUME ExecInv, Next
  PROVE  ResumePoint'
<1> DEFINE apc == IF de'.valid THEN de'.pc ELSE fpc'
<1>1. ASSUME wfi_halt_q', ~WFI_PAIRS
      PROVE  wfi_next_pc_q' = apc /\ ~(de'.valid /\ de'.kind = "wfi")
  <2>1. WfiTick
    BY DEF Next, Clock, StageTick
  <2>2. CASE wfi_retire
    <3>1. de.valid /\ de.kind = "wfi" /\ ex_state_q = "IDLE" /\ ~trap_redirect_req /\ ~wfi_halt_q
      BY <1>1, <2>2 DEF wfi_retire, ExecInv, ResumePoint
    <3>2. fpc = pc_link /\ wfi_next_pc_q' = pc_link
      BY <2>1, <2>2, <3>1 DEF WfiTick, ExecInv, ResumePoint
    <3>3. ~branch_valid_o /\ ~stall_o
      BY <3>1 DEF branch_valid_o, mispredict, cf_resolving, stall_o, alu_start, csr_start,
         mem_req_pending, wfi_stall, is_div_op, is_csr_op, is_mem_op
    <3>4. CASE Starve
      BY <3>2, <3>4 DEF Starve, Bubble
    <3>5. CASE \E i \in Instrs : Deliver(i)
      <4>1. PICK i \in Instrs : Deliver(i)
        BY <3>5
      <4>2. i.valid /\ i.pc = fpc
        BY InstrsTyped DEF ExecInv, TypeOK
      <4> QED
        BY <1>1, <2>2, <3>2, <4>1, <4>2 DEF Deliver
    <3> QED
      BY <3>3, <3>4, <3>5 DEF Next, Redirect, Hold
  <2>3. CASE ~wfi_retire
    <3>1. wfi_halt_q /\ ~int_pending_i /\ wfi_next_pc_q' = wfi_next_pc_q
      BY <1>1, <2>1, <2>3 DEF WfiTick
    <3>2. ex_state_q = "IDLE" /\ freeze /\ stall_o
      BY <3>1 DEF ExecInv, TrapNeverFrozen, freeze, wfi_stall, stall_o
    <3>3. ~branch_valid_o
      BY <3>1, <3>2 DEF branch_valid_o, mispredict, cf_resolving, trap_redirect_req, sync_trap_req,
         misaligned_trap, mret_req, take_interrupt
    <3>4. de' = de /\ fpc' = fpc
      BY <3>2, <3>3 DEF Next, Redirect, Hold, Starve, Deliver
    <3> QED
      BY <1>1, <3>1, <3>4 DEF ExecInv, ResumePoint, arch_pc
  <2> QED
    BY <2>2, <2>3
<1> QED
  BY <1>1, StepDecode DEF ResumePoint, arch_pc, pc_link

LEMMA StepDecoded ==
  ASSUME ExecInv, Next
  PROVE  Decoded'
<1>1. CASE de' = de \/ de' = Bubble
  BY <1>1 DEF ExecInv, Decoded, Bubble
<1>2. CASE \E i \in Instrs : de' = i
  <2>1. PICK i \in Instrs : de' = i
    BY <1>2
  <2>2. CASE i \in CsrOps
    <3>1. PICK c \in CsrForms : i = CsrOp(c)
      BY <2>2 DEF CsrOps
    <3>2. i.kind = "csr" /\ i.csr = c.csr /\ i.fn = c.fn /\ i.target = c.target
      BY <3>1 DEF CsrOp, At, Bubble
    <3> QED
      BY <2>1, <3>2 DEF Decoded
  <2>3. CASE i \notin CsrOps
    <3>1. \A k, n : At(k, n).kind = k
      BY DEF At, Bubble
    <3>2. /\ \A k, n, a, b : MemoryOp(k, n, a, b).kind = k
          /\ \A n, t, p : BranchOp(n, t, p).kind = "branch"
      BY DEF MemoryOp, BranchOp, At, Bubble
    <3>3. i.kind \in {"alu", "exception", "div", "mret", "wfi", "load", "store", "branch"}
      <4>1. i \in Plain => i.kind \in {"alu", "exception", "div", "mret", "wfi"}
        BY <3>1 DEF Plain
      <4>2. i \in Memory => i.kind \in {"load", "store"}
        BY <3>2 DEF Memory
      <4>3. i \in Branches => i.kind = "branch"
        BY <3>2 DEF Branches
      <4> QED
        BY <2>3, <4>1, <4>2, <4>3 DEF Instrs
    <3> QED
      BY <2>1, <3>3 DEF Decoded
  <2> QED
    BY <2>2, <2>3
<1> QED
  BY <1>1, <1>2, Moves

\* ExecInv is inductive.
LEMMA StepInv ==
  ASSUME ExecInv, [Next]_vars
  PROVE  ExecInv'
<1>1. CASE Next
  BY <1>1, StepTypeOK, StepOwned, StepAddressHeld, StepAlignment,
     StepCsrReadFresh, StepDivider, StepResume, StepDecoded DEF ExecInv
<1>2. CASE UNCHANGED vars
  BY <1>2 DEF vars, stageVars, csrVars, ExecInv, TypeOK, CsrTypeOK, LsuStateOwned, TrapNeverFrozen,
     AddressHeld, AlignmentDecided, CsrReadFresh, DividerInStep, ResumePoint, Decoded, arch_pc, pc_link, lsu_rsp_wait, misaligned_of, csr_rdata,
     is_mem_op, is_csr_op, is_div_op, mem_read
<1> QED
  BY <1>1, <1>2

(***************************************************************************)
(* The theorems.                                                           *)
(***************************************************************************)
THEOREM ExecInvariant == Spec => []ExecInv
BY InitInv, StepInv, PTL DEF Spec

\* Every register of the stage keeps its type.
THEOREM ExecTypeCorrect == Spec => []TypeOK
<1>1. ExecInv => TypeOK
  BY DEF ExecInv
<1> QED
  BY <1>1, ExecInvariant, PTL

\* The three assertions execute_stage.sv states about itself under SIM hold in
\* every build and under every port timing: an LSU state has its owner in the
\* D/E register, no trap or multi-cycle state meets a freeze, and the
\* registered address is the operation's.
THEOREM StageAssertions == Spec => [](LsuStateOwned /\ TrapNeverFrozen /\ AddressHeld)
<1>1. ExecInv => LsuStateOwned /\ TrapNeverFrozen /\ AddressHeld
  BY DEF ExecInv
<1> QED
  BY <1>1, ExecInvariant, PTL

\* mem_req_o and peri_req_o only ever carry an aligned access of the
\* instruction in the D/E register, to the slave its address names.
THEOREM RequestsCorrect == Spec => []RequestIsTheOps
<1>1. ASSUME ExecInv PROVE RequestIsTheOps
  <2>1. dmem_load_drive => /\ ex_state_q = "IDLE" /\ de.valid /\ is_mem_op /\ mem_read
                           /\ ~IsPeri(de.ea) /\ ~misaligned_of(de.ea)
    BY DEF dmem_load_drive, mem_req_pending
  <2>2. captured_drive => /\ ex_state_q = "MEM_LAUNCH" /\ de.valid /\ is_mem_op
                          /\ mem_addr_q = de.ea /\ mem_is_peri_q = IsPeri(de.ea)
                          /\ ~misaligned_of(de.ea)
    BY <1>1 DEF captured_drive, misaligned_trap, ExecInv, LsuStateOwned, AddressHeld, AlignmentDecided
  <2> QED
    BY <2>1, <2>2 DEF RequestIsTheOps, mem_req_o, peri_req_o, mem_read, mem_write
<1> QED
  BY <1>1, ExecInvariant, PTL

\* A flag register does not change between its registered read and the write
\* back, and the divider works for the division in the D/E register only.
THEOREM MultiCycleCorrect == Spec => [](CsrReadFresh /\ DividerInStep)
<1>1. ExecInv => CsrReadFresh /\ DividerInStep
  BY DEF ExecInv
<1> QED
  BY <1>1, ExecInvariant, PTL

LEMMA PreciseStep ==
  ASSUME ExecInv, ~WFI_PAIRS, Next, sync_trap_req \/ take_interrupt
  PROVE  mepc' = arch_pc
<1>1. mepc' = trap_mepc
  BY DEF Next, Clock, StageTick, CsrTick, EntryOr
<1>2. CASE wfi_halt_q
  BY <1>1, <1>2 DEF trap_mepc, ExecInv, ResumePoint
<1>3. CASE ~wfi_halt_q
  BY <1>1, <1>3 DEF trap_mepc, arch_pc, sync_trap_req, misaligned_trap, take_interrupt, normal_int_eligible
<1> QED
  BY <1>2, <1>3

\* Traps are precise: as long as no WFI directly follows a WFI, every trap,
\* interrupt and wake saves the address of the instruction execution is at.
THEOREM TrapsPrecise == ~WFI_PAIRS => (Spec => PreciseTraps)
<1> SUFFICES ASSUME ~WFI_PAIRS PROVE Spec => PreciseTraps
  OBVIOUS
<1>1. ASSUME ExecInv, [Next]_vars PROVE [sync_trap_req \/ take_interrupt => mepc' = arch_pc]_vars
  BY <1>1, PreciseStep
<1> QED
  BY <1>1, ExecInvariant, PTL DEF Spec, PreciseTraps

(***************************************************************************)
(* execute_stage is the sequential hart.                                   *)
(*                                                                         *)
(* A cycle is a trap (Enters), an mret (Returns), the retirement of the    *)
(* instruction in the D/E register (Retirement), or none of them           *)
(* (BetweenRetirements); each is an action of Hart on the mapped state.    *)
(***************************************************************************)
arch_ir    == IF de.valid THEN de ELSE Bubble
arch_owed  == ex_state_q = "MEM_WAIT"
arch_count == (minstret + (IF ex_valid_q THEN 1 ELSE 0)) % COUNT_MOD
archRegs   == <<mie, mtvec, mepc, mcause, mtval, mstatus>>

\* minstret counts a cycle late what retires.
LEMMA Counted ==
  ASSUME ExecInv, Next
  PROVE  arch_count' = IF op_commits THEN (arch_count + 1) % COUNT_MOD ELSE arch_count
<1>1. PICK lines \in SUBSET LINES : StageTick(lines)
  BY DEF Next, Clock
<1>2. minstret \in 0 .. (COUNT_MOD - 1) /\ COUNT_MOD \in Nat \ {0}
  BY DEF ExecInv, TypeOK, CsrTypeOK
<1>3. /\ minstret' = IF ex_valid_q THEN (minstret + 1) % COUNT_MOD ELSE minstret
      /\ ex_valid_q' = op_commits
  BY <1>1 DEF StageTick, CsrTick
<1>4. arch_count = minstret' /\ minstret' \in 0 .. (COUNT_MOD - 1)
  <2>1. minstret % COUNT_MOD = minstret /\ minstret + 0 = minstret
        /\ (minstret + 1) % COUNT_MOD \in 0 .. (COUNT_MOD - 1)
    BY <1>2
  <2> QED
    BY <1>2, <1>3, <2>1 DEF arch_count
<1>5. minstret' % COUNT_MOD = minstret' /\ minstret' + 0 = minstret'
  <2>1. ASSUME NEW m \in 0 .. (COUNT_MOD - 1) PROVE m % COUNT_MOD = m /\ m + 0 = m
    BY <1>2
  <2> QED
    BY <1>4, <2>1
<1> QED
  BY <1>3, <1>4, <1>5 DEF arch_count

\* The two ways a request reaches a slave.
LEMMA Accesses ==
  ASSUME ExecInv
  PROVE  /\ Accepted <=> dmem_load_hs \/ captured_hs
         /\ dmem_load_hs => /\ ex_state_q = "IDLE" /\ de.valid /\ mem_read /\ ~wfi_halt_q /\ ~exception
                            /\ ~misaligned_of(de.ea) /\ ~trap_redirect_req
         /\ captured_hs => /\ ex_state_q = "MEM_LAUNCH" /\ de.valid /\ is_mem_op /\ ~wfi_halt_q
                           /\ ~misaligned_of(de.ea) /\ ~trap_redirect_req
<1>1. Accepted <=> dmem_load_hs \/ captured_hs
  BY DEF Accepted, mem_req_o, peri_req_o, dmem_load_hs, captured_hs, captured_drive, dmem_load_drive,
     mem_req_pending, lsu_rsp_wait, wready
<1>2. dmem_load_hs => /\ ex_state_q = "IDLE" /\ de.valid /\ mem_read /\ ~wfi_halt_q /\ ~exception
                      /\ ~misaligned_of(de.ea) /\ ~trap_redirect_req
  <2>1. dmem_load_hs => /\ ex_state_q = "IDLE" /\ de.valid /\ mem_read /\ ~wfi_halt_q /\ ~exception
                        /\ ~misaligned_of(de.ea)
    BY DEF dmem_load_hs, dmem_load_drive, mem_req_pending
  <2> QED
    BY <2>1 DEF trap_redirect_req, sync_trap_req, misaligned_trap, mret_req, take_interrupt,
       normal_int_eligible, mem_read, is_mem_op
<1>3. captured_hs => /\ ex_state_q = "MEM_LAUNCH" /\ de.valid /\ is_mem_op /\ ~wfi_halt_q
                     /\ ~misaligned_of(de.ea) /\ ~trap_redirect_req
  <2>1. captured_hs => ex_state_q = "MEM_LAUNCH" /\ de.valid /\ ~misaligned_trap
    BY DEF captured_hs, captured_drive
  <2>2. ex_state_q = "MEM_LAUNCH" => is_mem_op /\ ~wfi_halt_q /\ mem_addr_q = de.ea
    BY DEF ExecInv, LsuStateOwned, TrapNeverFrozen, AddressHeld
  <2>3. captured_hs => ~misaligned_of(de.ea)
    BY <2>1, <2>2 DEF misaligned_trap, ExecInv, AlignmentDecided
  <2>4. captured_hs => ~trap_redirect_req
    BY <2>1, <2>2 DEF trap_redirect_req, sync_trap_req, mret_req, take_interrupt, normal_int_eligible
  <2> QED
    BY <2>1, <2>2, <2>3, <2>4
<1> QED
  BY <1>1, <1>2, <1>3

\* What a cycle leaves alone.
LEMMA Kept ==
  ASSUME ExecInv, Next
  PROVE  /\ launches' = IF Accepted THEN 1 - launches ELSE launches
         /\ ~trap_redirect_req /\ ~csr_we => UNCHANGED archRegs
         /\ wfi_halt_q' = (wfi_retire \/ (wfi_halt_q /\ ~int_pending_i))
<1>1. PICK lines \in SUBSET LINES : StageTick(lines)
  BY DEF Next, Clock
<1>2. launches' = IF Accepted THEN 1 - launches ELSE launches
  BY DEF Next, Clock
<1>3. ~trap_redirect_req /\ ~csr_we => UNCHANGED archRegs
  BY <1>1 DEF StageTick, CsrTick, CsrWrite, EntryOr, trap_redirect_req, archRegs
<1>4. wfi_halt_q' = (wfi_retire \/ (wfi_halt_q /\ ~int_pending_i))
  BY <1>1 DEF StageTick, WfiTick
<1> QED
  BY <1>2, <1>3, <1>4

\* Where a redirect, an empty cycle or a delivery leaves the hart.
LEMMA NextPlace ==
  ASSUME ExecInv, Next, branch_valid_o \/ ~stall_o
  PROVE  /\ arch_pc' = IF branch_valid_o THEN branch_addr_o ELSE fpc
         /\ arch_ir' = Bubble \/ arch_ir'.pc = arch_pc'
         /\ branch_valid_o => arch_ir' = Bubble
         /\ ~arch_owed'
<1>1. ex_state_q' = "IDLE"
  BY Moves, Released
<1>2. Bubble.valid = FALSE
  BY DEF Bubble
<1>3. CASE Redirect
  BY <1>1, <1>2, <1>3 DEF Redirect, arch_pc, arch_ir, arch_owed
<1>4. CASE Starve
  BY <1>1, <1>2, <1>4 DEF Starve, arch_pc, arch_ir, arch_owed
<1>5. CASE \E i \in Instrs : Deliver(i)
  <2>1. PICK i \in Instrs : Deliver(i)
    BY <1>5
  <2>2. i.valid /\ i.pc = fpc
    BY InstrsTyped DEF ExecInv, TypeOK
  <2> QED
    BY <1>1, <2>1, <2>2 DEF Deliver, arch_pc, arch_ir, arch_owed
<1> QED
  BY <1>3, <1>4, <1>5 DEF Next, Hold

\* The instruction in the D/E register is not the bubble.
LEMMA Present ==
  ASSUME de.valid
  PROVE  arch_ir = de /\ arch_ir # Bubble /\ arch_pc = de.pc
BY DEF arch_ir, arch_pc, Bubble

\* A trap of any kind enters the handler.
LEMMA Enters ==
  ASSUME ExecInv, ~WFI_PAIRS, Next, sync_trap_req \/ take_interrupt
  PROVE  Arch!Enter(trap_cause, trap_tval, trap_target(mtvec, take_interrupt, trap_cause)) /\ UNCHANGED arch_count
<1>1. PICK lines \in SUBSET LINES : StageTick(lines)
  BY DEF Next, Clock
<1>2. trap_redirect_req /\ branch_valid_o /\ ~mret_req
  BY DEF trap_redirect_req, branch_valid_o, sync_trap_req, take_interrupt, mret_req, exception,
     misaligned_trap
<1>3. ~arch_owed
  <2>1. misaligned_trap => ex_state_q # "MEM_WAIT"
    BY DEF misaligned_trap
  <2>2. take_interrupt => ex_state_q # "MEM_WAIT"
    BY DEF take_interrupt, normal_int_eligible, ExecInv, TrapNeverFrozen
  <2> QED
    BY <2>1, <2>2 DEF sync_trap_req, arch_owed
<1>4. wfi_halt_q => int_pending_i
  BY DEF sync_trap_req, misaligned_trap, take_interrupt, freeze, wfi_stall, ExecInv, TrapNeverFrozen
<1>5. ~wfi_halt_q'
  BY <1>2, <1>4, Kept DEF wfi_retire
<1>6. arch_pc' = trap_target(mtvec, take_interrupt, trap_cause) /\ arch_ir' = Bubble /\ ~arch_owed'
  BY <1>2, NextPlace DEF branch_addr_o, trap_redirect_addr
<1>7. mepc' = arch_pc /\ mcause' = trap_cause /\ mtval' = trap_tval
  BY <1>1, PreciseStep DEF StageTick, CsrTick
<1>8. mstatus' = {f \in {"MPIE"} : "MIE" \in mstatus}
  BY <1>1 DEF StageTick, CsrTick, mstatus_entry
<1>9. mie' = mie /\ mtvec' = mtvec
  BY <1>1, <1>2 DEF StageTick, CsrTick, CsrWrite, csr_we
<1>10. launches' = launches
  BY <1>2, Accesses, Kept
<1>11. ~op_commits /\ arch_count' = arch_count
  BY <1>2, Counted DEF op_commits
<1> QED
  BY <1>3, <1>4, <1>5, <1>6, <1>7, <1>8, <1>9, <1>10, <1>11
  DEF Arch!Enter, Arch!pending, int_pending_i, int_pending, arch_owed, arch_ir, arch_count

\* Which of Hart's three entries it is.
LEMMA TrapStep ==
  ASSUME ExecInv, ~WFI_PAIRS, Next, sync_trap_req \/ take_interrupt
  PROVE  Arch!Next
<1>1. CASE take_interrupt
  <2> DEFINE i == int_cause(mie, mip)
  <2>1. mie \in SUBSET IRQ /\ mip \in SUBSET IRQ /\ int_pending_i
    BY <1>1 DEF ExecInv, TypeOK, CsrTypeOK, take_interrupt
  <2>2. /\ i \in DOMAIN Arch!Irq /\ i \in mie \cap mip /\ Arch!Irq[i].above \cap mie \cap mip = {}
        /\ Arch!Irq[i].code = IrqCode(i)
    BY <2>1 DEF int_pending_i, int_pending, int_cause, IRQ, Arch!Irq, IrqCode
  <2>3. trap_cause = i /\ trap_tval = 0
    BY <1>1 DEF trap_cause, trap_tval
  <2>4. Arch!Interrupt(i)
    BY <1>1, <2>1, <2>2, <2>3, Enters DEF Arch!Interrupt, Arch!pending, int_pending_i, int_pending, trap_target
  <2> QED
    BY <2>2, <2>4 DEF Arch!Next
<1>2. CASE ~take_interrupt /\ misaligned_trap
  <2>1. /\ de.valid /\ is_mem_op /\ ~wfi_halt_q /\ mem_addr_q = de.ea
    BY <1>2 DEF misaligned_trap, ExecInv, LsuStateOwned, TrapNeverFrozen, AddressHeld
  <2>2. misaligned_of(de.ea)
    BY <1>2, <2>1 DEF misaligned_trap, ExecInv, AlignmentDecided
  <2>3. trap_cause = (IF de.kind = "store" THEN "SAD_MIS" ELSE "LAD_MIS") /\ trap_tval = de.ea
        /\ trap_target(mtvec, take_interrupt, trap_cause) = mtvec.base
    BY <1>2, <2>1 DEF trap_cause, trap_tval, trap_target, mem_write
  <2>4. Arch!Misaligned
    BY <1>2, <2>1, <2>2, <2>3, Enters, Present
    DEF Arch!Misaligned, Arch!Running, Arch!aligned, arch_ir, is_mem_op, misaligned_of
  <2> QED
    BY <2>4 DEF Arch!Next
<1>3. CASE ~take_interrupt /\ ~misaligned_trap
  <2>1. de.valid /\ exception
    BY <1>3 DEF sync_trap_req
  <2>2. trap_cause = "EXC" /\ trap_tval = EXC_TVAL
        /\ trap_target(mtvec, take_interrupt, trap_cause) = mtvec.base
    BY <1>3 DEF trap_cause, trap_tval, trap_target
  <2>3. Arch!Exception
    BY <1>3, <2>1, <2>2, Enters, Present DEF Arch!Exception, arch_ir, exception
  <2> QED
    BY <2>3 DEF Arch!Next
<1> QED
  BY <1>1, <1>2, <1>3

\* mret goes back to the address saved, also as what a wake meets first.
LEMMA Returns ==
  ASSUME ExecInv, Next, ~sync_trap_req, ~take_interrupt, mret_req
  PROVE  Arch!Next
<1>1. PICK lines \in SUBSET LINES : StageTick(lines)
  BY DEF Next, Clock
<1>2. /\ de.valid /\ de.kind = "mret" /\ ex_state_q = "IDLE" /\ (wfi_halt_q => int_pending_i)
      /\ trap_redirect_req /\ branch_valid_o /\ op_commits /\ ~wfi_retire /\ ~csr_we
  BY DEF mret_req, freeze, wfi_stall, trap_redirect_req, branch_valid_o, op_commits, wfi_retire, csr_we
<1>3. arch_pc' = mepc /\ arch_ir' = Bubble /\ ~arch_owed' /\ ~arch_owed
  BY <1>2, NextPlace DEF branch_addr_o, trap_redirect_addr, arch_owed
<1>4. ~wfi_halt_q' /\ launches' = launches
  BY <1>2, Accesses, Kept
<1>5. mstatus' = {"MPIE"} \cup {f \in {"MIE"} : "MPIE" \in mstatus}
  BY <1>1 DEF StageTick, CsrTick, mstatus_mret
<1>6. UNCHANGED <<mie, mtvec, mepc, mcause, mtval>>
  BY <1>1, <1>2 DEF StageTick, CsrTick, CsrWrite, EntryOr
<1>7. Arch!Mret
  BY <1>2, <1>3, <1>4, <1>5, <1>6, Present, Counted
  DEF Arch!Mret, Arch!Retires, Arch!pending, int_pending_i, int_pending, arch_owed, arch_ir, arch_count
<1> QED
  BY <1>7 DEF Arch!Next

\* What a retirement has in common, whatever retires: nothing else is under way,
\* execution goes on behind it, and its result is counted.
LEMMA Retirement ==
  ASSUME ExecInv, ~WFI_PAIRS, Next, ~trap_redirect_req, op_commits
  PROVE  /\ de.valid /\ ~wfi_halt_q /\ result_ready
         /\ de.kind \in {"alu", "div", "load", "store", "csr", "branch", "wfi"}
         /\ branch_valid_o \/ ~stall_o
         /\ arch_pc' = IF de.kind = "branch" /\ de.target # NoPc THEN de.target ELSE pc_link
         /\ arch_ir' = Bubble \/ arch_ir'.pc = arch_pc'
         /\ ~arch_owed' /\ (arch_owed <=> de.kind = "load")
         /\ arch_count' = (arch_count + 1) % COUNT_MOD
         /\ wfi_halt_q' <=> de.kind = "wfi"
         /\ Accepted <=> de.kind = "store"
<1>1. de.valid /\ ~freeze /\ result_ready /\ ~sync_trap_req /\ ~mret_req /\ ~take_interrupt
  BY DEF op_commits, trap_redirect_req
<1>2. ~wfi_halt_q
  BY <1>1 DEF freeze, wfi_stall, take_interrupt
<1>3. /\ de.kind \in Kind /\ ex_state_q \in ExState /\ div_state_q \in {"IDLE", "RUN", "DONE"}
      /\ de.target \in Pc \cup {NoPc} /\ de.pred \in Pc \cup {NoPc}
  BY DEF ExecInv, TypeOK, Op
<1>4. /\ ex_state_q \in {"MEM_LAUNCH", "MEM_WAIT", "MEM_TRAP"} => is_mem_op
      /\ ex_state_q = "CSR_WAIT" => is_csr_op
      /\ ex_state_q = "DIV_BUSY" <=> div_state_q # "IDLE"
      /\ ex_state_q = "DIV_BUSY" => is_div_op
  BY DEF ExecInv, LsuStateOwned, CsrReadFresh, DividerInStep
<1>5. is_mem_op => mem_op_done
  BY <1>1 DEF result_ready
<1>6. de.kind = "load" => ex_state_q = "MEM_WAIT" /\ mem_done
  BY <1>5 DEF mem_op_done, mem_read, mem_done, is_mem_op
<1>7. de.kind = "store" => ex_state_q = "MEM_LAUNCH" /\ captured_hs /\ store_done
  BY <1>5 DEF mem_op_done, mem_read, store_done, captured_hs, captured_drive, is_mem_op
<1>8. de.kind = "csr" => ex_state_q = "CSR_WAIT"
  BY <1>1 DEF result_ready, is_mem_op, is_csr_op, csr_ready
<1>9. de.kind = "div" => ex_state_q = "DIV_BUSY" /\ alu_result_valid
  BY <1>1, <1>4 DEF result_ready, is_mem_op, is_csr_op, alu_result_valid, is_div_op
<1>10. de.kind \in {"alu", "branch", "wfi", "exception", "mret"} => ex_state_q = "IDLE"
  BY <1>3, <1>4 DEF ExState, is_mem_op, is_csr_op, is_div_op
<1>11. de.kind \in {"alu", "div", "load", "store", "csr", "branch", "wfi"}
  <2>1. de.kind # "exception"
    BY <1>1, <1>10 DEF sync_trap_req, exception
  <2>2. de.kind # "mret"
    BY <1>1, <1>10 DEF mret_req
  <2>3. de.kind # "none"
    BY <1>1 DEF ExecInv, Decoded
  <2> QED
    BY <1>3, <2>1, <2>2, <2>3 DEF Kind
<1>12. ~stall_o
  <2>1. ~alu_start
    BY <1>9 DEF alu_start, is_div_op
  <2>2. ~csr_start
    BY <1>8 DEF csr_start, is_csr_op
  <2>3. mem_req_pending => FALSE
    BY <1>6, <1>7 DEF mem_req_pending, is_mem_op
  <2>4. ex_state_q = "MEM_LAUNCH" => store_done
    BY <1>4, <1>6, <1>7 DEF is_mem_op
  <2>5. ex_state_q # "MEM_TRAP"
    BY <1>4, <1>6, <1>7 DEF is_mem_op
  <2>6. ex_state_q = "MEM_WAIT" => mem_done
    BY <1>4, <1>6, <1>7 DEF is_mem_op
  <2>7. ex_state_q = "DIV_BUSY" => alu_result_valid
    BY <1>4, <1>9 DEF is_div_op
  <2> QED
    BY <1>2, <2>1, <2>2, <2>3, <2>4, <2>5, <2>6, <2>7 DEF stall_o, wfi_stall
<1>13. arch_pc' = IF de.kind = "branch" /\ de.target # NoPc THEN de.target ELSE pc_link
  <2>1. fpc = IF de.pred # NoPc THEN de.pred ELSE pc_link
    BY <1>1 DEF ExecInv, ResumePoint
  <2>2. CASE branch_valid_o
    <3>1. mispredict
      BY <2>2 DEF branch_valid_o
    <3> QED
      BY <2>2, <3>1, NextPlace DEF branch_addr_o, mispredict, cf_resolving
  <2>3. CASE ~branch_valid_o
    <3>1. de.kind = "branch" => de.target = de.pred
      BY <1>1, <2>3 DEF branch_valid_o, mispredict, cf_resolving, trap_redirect_req
    <3>2. de.kind # "branch" => de.pred = NoPc
      BY <1>1 DEF ExecInv, ResumePoint
    <3> QED
      BY <1>12, <2>1, <2>3, <3>1, <3>2, NextPlace
  <2> QED
    BY <2>2, <2>3
<1>14. /\ arch_ir' = Bubble \/ arch_ir'.pc = arch_pc'
       /\ ~arch_owed'
  BY <1>12, NextPlace
<1>15. arch_owed <=> de.kind = "load"
  BY <1>4, <1>6, <1>7 DEF arch_owed, is_mem_op
<1>16. arch_count' = (arch_count + 1) % COUNT_MOD
  BY Counted
<1>17. wfi_halt_q' <=> de.kind = "wfi"
  BY <1>1, <1>2, <1>10, Kept DEF wfi_retire
<1>18. Accepted <=> de.kind = "store"
  BY <1>6, <1>7, Accesses DEF mem_read, is_mem_op
<1> QED
  BY <1>1, <1>2, <1>11, <1>12, <1>13, <1>14, <1>15, <1>16, <1>17, <1>18

\* Each kind of instruction retires as Hart has it.
LEMMA RetireStep ==
  ASSUME ExecInv, ~WFI_PAIRS, Next, ~trap_redirect_req, op_commits
  PROVE  Arch!Next
<1>1. PICK lines \in SUBSET LINES : StageTick(lines)
  BY DEF Next, Clock
<1>2. arch_ir = de /\ arch_ir # Bubble /\ arch_pc = de.pc /\ de.valid /\ ~wfi_halt_q
  BY Retirement, Present
<1>3. /\ arch_ir' = Bubble \/ arch_ir'.pc = arch_pc'
      /\ arch_count' = (arch_count + 1) % COUNT_MOD
      /\ arch_pc' = IF de.kind = "branch" /\ de.target # NoPc THEN de.target ELSE pc_link
  BY Retirement
<1>4. de.kind # "csr" => ~csr_we /\ UNCHANGED archRegs
  BY Kept DEF csr_we, is_csr_op
<1> DEFINE accepted == Accepted
<1>0. /\ wfi_halt_q \in BOOLEAN /\ wfi_halt_q' \in BOOLEAN
      /\ arch_owed \in BOOLEAN /\ arch_owed' \in BOOLEAN /\ accepted \in BOOLEAN
      /\ launches' = IF accepted THEN 1 - launches ELSE launches
      /\ (wfi_halt_q' <=> de.kind = "wfi") /\ (accepted <=> de.kind = "store")
      /\ ~arch_owed' /\ (arch_owed <=> de.kind = "load")
  BY StepTypeOK, Retirement, Kept DEF ExecInv, TypeOK, arch_owed, Accepted
<1> HIDE DEF accepted
<1>5. CASE de.kind \in {"alu", "div"}
  <2>1. wfi_halt_q' = wfi_halt_q /\ arch_owed' = arch_owed /\ launches' = launches
    BY <1>0, <1>2, <1>5
  <2>2. Arch!Simple
    BY <1>2, <1>3, <1>4, <1>5, <2>1
    DEF Arch!Simple, Arch!Running, Arch!Retires, Arch!GoTo, Arch!link, Arch!archVars, archRegs,
        arch_ir, arch_count, arch_owed, pc_link
  <2> QED
    BY <2>2 DEF Arch!Next
<1>6. CASE de.kind = "branch"
  <2>1. wfi_halt_q' = wfi_halt_q /\ arch_owed' = arch_owed /\ launches' = launches
    BY <1>0, <1>2, <1>6
  <2>2. Arch!Branch
    BY <1>2, <1>3, <1>4, <1>6, <2>1
    DEF Arch!Branch, Arch!Running, Arch!Retires, Arch!GoTo, Arch!link, Arch!archVars, archRegs,
        arch_ir, arch_count, arch_owed, pc_link
  <2> QED
    BY <2>2 DEF Arch!Next
<1>7. CASE de.kind = "wfi"
  <2>1. wfi_halt_q' = TRUE /\ arch_owed' = arch_owed /\ launches' = launches
    BY <1>0, <1>2, <1>7
  <2>2. Arch!Wfi
    BY <1>2, <1>3, <1>4, <1>7, <2>1
    DEF Arch!Wfi, Arch!Running, Arch!Retires, Arch!GoTo, Arch!link, Arch!archVars, archRegs,
        arch_ir, arch_count, arch_owed, pc_link
  <2> QED
    BY <2>2 DEF Arch!Next
<1>8. CASE de.kind = "store"
  <2>1. wfi_halt_q' = wfi_halt_q /\ arch_owed' = arch_owed /\ launches' = 1 - launches
    BY <1>0, <1>2, <1>8
  <2>2. ~misaligned_of(de.ea)
    BY <1>8, Retirement, Accesses
  <2>3. Arch!Store
    BY <1>2, <1>3, <1>4, <1>8, <2>1, <2>2
    DEF Arch!Store, Arch!Running, Arch!Retires, Arch!GoTo, Arch!link, Arch!archVars, archRegs,
        Arch!aligned, Arch!Accesses, misaligned_of, arch_ir, arch_count, arch_owed, pc_link
  <2> QED
    BY <2>3 DEF Arch!Next
<1>9. CASE de.kind = "load"
  <2>1. wfi_halt_q' = wfi_halt_q /\ arch_owed /\ ~arch_owed' /\ launches' = launches
    BY <1>0, <1>2, <1>9
  <2>2. Arch!LoadRetire
    BY <1>2, <1>3, <1>4, <1>9, <2>1
    DEF Arch!LoadRetire, Arch!Running, Arch!Retires, Arch!GoTo, Arch!link, Arch!archVars, archRegs,
        arch_ir, arch_count, arch_owed, pc_link
  <2> QED
    BY <2>2 DEF Arch!Next
<1>10. CASE de.kind = "csr"
  <2>1. wfi_halt_q' = wfi_halt_q /\ arch_owed' = arch_owed /\ launches' = launches
    BY <1>0, <1>2, <1>10
  <2>2. /\ csr_rdata_q = csr_rdata(de.csr)
        /\ csr_we <=> de.fn = "RW" \/ de.flags # {}
        /\ ~sync_trap_req /\ ~take_interrupt /\ ~mret_req
    <3>1. result_ready /\ ~freeze
      BY <1>2, Retirement DEF freeze, wfi_stall
    <3>2. ex_state_q = "CSR_WAIT"
      BY <1>10, <3>1 DEF result_ready, is_mem_op, is_csr_op, csr_ready
    <3> QED
      BY <1>2, <1>10, <3>1, <3>2 DEF csr_we, is_csr_op, trap_redirect_req, ExecInv, CsrReadFresh
  <2>3. /\ mstatus' = IF csr_we /\ de.csr = "mstatus" THEN csr_new.flags \cap MstatusBits ELSE mstatus
        /\ mie' = IF csr_we /\ de.csr = "mie" THEN csr_new.flags \cap IRQ ELSE mie
        /\ mepc' = IF csr_we /\ de.csr = "mepc" THEN csr_new.pc ELSE mepc
        /\ mtvec' = IF csr_we /\ de.csr = "mtvec"
                    THEN [base |-> csr_new.pc, vectored |-> "VECTORED" \in csr_new.flags] ELSE mtvec
        /\ mcause' = mcause /\ mtval' = mtval
    BY <1>1, <2>2 DEF StageTick, CsrTick, CsrWrite, EntryOr
  <2>4. mstatus \in SUBSET MstatusBits /\ mie \in SUBSET IRQ
        /\ de.csr \in {"mstatus", "mie", "mepc", "mtvec", "none"} /\ de.fn \in {"RW", "RS", "RC"}
    BY DEF ExecInv, TypeOK, CsrTypeOK, Op
  <2>5. de.csr \in {"mepc", "mtvec"} => de.fn = "RW" /\ csr_new.pc = de.target /\ csr_new.flags = de.flags
    BY <1>2, <1>10 DEF ExecInv, Decoded, csr_new
  <2>6. ASSUME NEW old, csr_rdata_q = old
        PROVE  csr_new.flags = CASE de.fn = "RW" -> de.flags [] de.fn = "RS" -> old \cup de.flags
                                 [] OTHER -> old \ de.flags
    BY <2>6 DEF csr_new
  <2>7. mstatus' = IF de.csr = "mstatus" THEN Arch!Modified(mstatus) \cap {"MIE", "MPIE"} ELSE mstatus
    <3>1. CASE de.csr = "mstatus"
      <4>1. csr_rdata_q = mstatus
        BY <2>2, <3>1 DEF csr_rdata
      <4>2. csr_new.flags = Arch!Modified(mstatus)
        BY <1>2, <4>1, <2>6 DEF Arch!Modified, arch_ir
      <4>3. ~csr_we => Arch!Modified(mstatus) = mstatus
        BY <1>2, <2>2, <2>4 DEF Arch!Modified, arch_ir
      <4> QED
        BY <2>3, <2>4, <3>1, <4>2, <4>3 DEF MstatusBits
    <3> QED
      BY <2>3, <3>1
  <2>8. mie' = IF de.csr = "mie" THEN Arch!Modified(mie) \cap {"MEI", "MSI", "MTI"} ELSE mie
    <3>1. CASE de.csr = "mie"
      <4>1. csr_rdata_q = mie
        BY <2>2, <3>1 DEF csr_rdata
      <4>2. csr_new.flags = Arch!Modified(mie)
        BY <1>2, <4>1, <2>6 DEF Arch!Modified, arch_ir
      <4>3. ~csr_we => Arch!Modified(mie) = mie
        BY <1>2, <2>2, <2>4 DEF Arch!Modified, arch_ir
      <4> QED
        BY <2>3, <2>4, <3>1, <4>2, <4>3 DEF IRQ
    <3> QED
      BY <2>3, <3>1
  <2>9. mepc' = IF de.csr = "mepc" /\ de.fn = "RW" THEN de.target ELSE mepc
    BY <2>2, <2>3, <2>5
  <2>10. mtvec' = IF de.csr = "mtvec" /\ de.fn = "RW"
                  THEN [base |-> de.target, vectored |-> "VECTORED" \in de.flags] ELSE mtvec
    BY <2>2, <2>3, <2>5
  <2>11. arch_pc' = pc_link
    BY <1>3, <1>10
  <2>12. Arch!Csr
    BY <1>2, <1>3, <1>10, <2>1, <2>3, <2>7, <2>8, <2>9, <2>10, <2>11
    DEF Arch!Csr, Arch!Running, Arch!Retires, Arch!GoTo, Arch!link,
        arch_ir, arch_count, arch_owed, pc_link
  <2> QED
    BY <2>12 DEF Arch!Next
<1> QED
  BY <1>5, <1>6, <1>7, <1>8, <1>9, <1>10, Retirement

\* A cycle in which the instruction stays: the stage holds decode, and at most
\* its load goes out.
LEMMA Stays ==
  ASSUME ExecInv, ~WFI_PAIRS, Next, ~trap_redirect_req, ~op_commits, de.valid
  PROVE  /\ de' = de /\ fpc' = fpc
         /\ Accepted => mem_read /\ ex_state_q # "MEM_WAIT" /\ ex_state_q' = "MEM_WAIT"
         /\ ~Accepted => (ex_state_q' = "MEM_WAIT" <=> ex_state_q = "MEM_WAIT")
<1>1. /\ ~sync_trap_req /\ ~mret_req /\ ~take_interrupt
      /\ freeze \/ ~result_ready
  BY DEF op_commits, trap_redirect_req
<1>2. /\ ex_state_q \in {"MEM_LAUNCH", "MEM_WAIT", "MEM_TRAP"} => is_mem_op /\ ~wfi_halt_q
      /\ ex_state_q = "CSR_WAIT" => is_csr_op /\ ~wfi_halt_q
      /\ ex_state_q = "DIV_BUSY" <=> div_state_q # "IDLE"
      /\ ex_state_q = "DIV_BUSY" => is_div_op /\ ~wfi_halt_q
      /\ ex_state_q = "MEM_WAIT" => mem_read
      /\ ex_state_q \in ExState
  BY DEF ExecInv, TypeOK, LsuStateOwned, CsrReadFresh, DividerInStep, TrapNeverFrozen, AddressHeld
<1>3. wfi_halt_q => freeze
  BY <1>1 DEF take_interrupt, freeze, wfi_stall
<1>4. ~branch_valid_o
  <2>1. ~mispredict
    BY <1>1 DEF mispredict, cf_resolving, result_ready, is_mem_op, is_csr_op, alu_result_valid, is_div_op
  <2> QED
    BY <2>1 DEF branch_valid_o
<1>5. stall_o
  <2>1. CASE freeze
    BY <2>1 DEF freeze, stall_o
  <2>2. CASE ~freeze /\ is_mem_op
    <3>1. ~mem_op_done /\ ~wfi_halt_q
      BY <1>1, <1>3, <2>2 DEF result_ready
    <3>2. CASE ex_state_q = "IDLE"
      <4>1. mem_req_pending /\ ~store_done
        BY <2>2, <3>1, <3>2 DEF mem_req_pending, store_done, captured_hs, captured_drive, exception, is_mem_op
      <4> QED
        BY <4>1 DEF stall_o
    <3>3. CASE ex_state_q = "MEM_LAUNCH"
      BY <3>1, <3>3 DEF stall_o, mem_op_done, store_done, mem_read, mem_write
    <3>4. CASE ex_state_q = "MEM_TRAP"
      BY <3>4 DEF stall_o
    <3>5. CASE ex_state_q = "MEM_WAIT"
      BY <1>2, <3>1, <3>5 DEF stall_o, mem_op_done
    <3> QED
      BY <1>2, <2>2, <3>2, <3>3, <3>4, <3>5 DEF ExState, is_mem_op, is_csr_op, is_div_op
  <2>3. CASE ~freeze /\ is_csr_op
    <3>1. ex_state_q = "IDLE"
      BY <1>1, <1>2, <2>3 DEF result_ready, csr_ready, ExState, is_mem_op, is_csr_op, is_div_op
    <3>2. csr_start
      BY <2>3, <3>1 DEF csr_start
    <3> QED
      BY <3>2 DEF stall_o
  <2>4. CASE ~freeze /\ ~is_mem_op /\ ~is_csr_op
    <3>1. ~alu_result_valid /\ is_div_op /\ div_state_q # "DONE"
      BY <1>1, <2>4 DEF result_ready, alu_result_valid
    <3>2. CASE ex_state_q = "DIV_BUSY"
      BY <3>1, <3>2 DEF stall_o
    <3>3. CASE ex_state_q # "DIV_BUSY"
      <4>1. ex_state_q = "IDLE"
        BY <1>2, <2>4, <3>3 DEF ExState
      <4>2. alu_start
        BY <2>4, <3>1, <4>1 DEF alu_start
      <4> QED
        BY <4>2 DEF stall_o
    <3> QED
      BY <3>2, <3>3
  <2> QED
    BY <2>1, <2>2, <2>3, <2>4
<1>6. de' = de /\ fpc' = fpc
  BY <1>4, <1>5 DEF Next, Redirect, Hold, Starve, Deliver
<1>7. ASSUME dmem_load_hs
      PROVE  mem_read /\ ex_state_q # "MEM_WAIT" /\ ex_state_q' = "MEM_WAIT"
  <2>1. dmem_rsp = "ready" /\ mem_req_o.wvalid /\ ~mem_req_o.we /\ mem_read /\ ex_state_q = "IDLE"
    BY <1>7, Accesses DEF dmem_load_hs, mem_req_o, captured_drive, wready
  <2> QED
    BY <2>1, LaunchWaits
<1>8. ASSUME captured_hs
      PROVE  mem_read /\ ex_state_q # "MEM_WAIT" /\ ex_state_q' = "MEM_WAIT"
  <2>1. ex_state_q = "MEM_LAUNCH" /\ is_mem_op /\ ~wfi_halt_q
    BY <1>8, Accesses
  <2>2. ~mem_write
    <3>1. ~freeze
      BY <2>1 DEF freeze, wfi_stall
    <3> QED
      BY <1>1, <1>8, <2>1, <3>1 DEF result_ready, mem_op_done, store_done, mem_read, mem_write
  <2>3. \/ dmem_rsp = "ready" /\ mem_req_o.wvalid /\ ~mem_req_o.we
        \/ peri_rsp = "ready" /\ peri_req_o.wvalid /\ ~peri_req_o.we
    BY <1>8, <2>2 DEF captured_hs, lsu_rsp_wait, wready, mem_req_o, peri_req_o
  <2> QED
    BY <2>1, <2>2, <2>3, LaunchWaits DEF is_mem_op, mem_read, mem_write
<1>9. ASSUME ~Accepted
      PROVE  ex_state_q' = "MEM_WAIT" <=> ex_state_q = "MEM_WAIT"
  <2>1. ~dmem_load_hs /\ ~captured_hs /\ ex_state_q' = ExStateNext
    BY <1>9, Accesses, Moves
  <2>2. ex_state_q = "MEM_WAIT" => ExStateNext = "MEM_WAIT"
    <3>1. ex_state_q = "MEM_WAIT" => ~mem_done
      BY <1>1, <1>2 DEF result_ready, mem_op_done, freeze, wfi_stall
    <3> QED
      BY <3>1 DEF ExStateNext
  <2>3. ex_state_q = "IDLE" => ExStateNext # "MEM_WAIT"
    BY <2>1, Starts
  <2>4. ex_state_q \notin {"IDLE", "MEM_WAIT"} => ExStateNext # "MEM_WAIT"
    BY <2>1, Continues
  <2> QED
    BY <2>1, <2>2, <2>3, <2>4
<1> QED
  BY <1>6, <1>7, <1>8, <1>9, Accesses

LEMMA BetweenRetirements ==
  ASSUME ExecInv, ~WFI_PAIRS, Next, ~trap_redirect_req, ~op_commits
  PROVE  Arch!Next
<1>1. arch_count' = arch_count
  BY Counted
<1>2. UNCHANGED archRegs
  BY Kept DEF csr_we, op_commits
<1>3. wfi_halt_q' = wfi_halt_q
  <2>1. ~wfi_retire
    BY DEF wfi_retire, op_commits, freeze, wfi_stall, result_ready, is_mem_op, is_csr_op, is_div_op,
       alu_result_valid, ExecInv, ResumePoint
  <2>2. wfi_halt_q => ~int_pending_i
    BY DEF trap_redirect_req, take_interrupt
  <2>3. wfi_halt_q \in BOOLEAN /\ wfi_halt_q' \in BOOLEAN
    BY StepTypeOK DEF ExecInv, TypeOK
  <2> QED
    BY <2>1, <2>2, <2>3, Kept
<1>4. CASE de.valid
  <2>1. arch_pc' = arch_pc /\ arch_ir' = arch_ir
    BY <1>4, Stays DEF arch_pc, arch_ir
  <2>2. CASE Accepted
    <3>1. mem_read /\ ~wfi_halt_q /\ ~misaligned_of(de.ea) /\ ~arch_owed /\ arch_owed'
      BY <1>4, <2>2, Stays, Accesses DEF arch_owed
    <3>2. launches' = 1 - launches /\ arch_ir = de /\ arch_ir # Bubble
      BY <1>4, <2>2, Kept, Present
    <3>3. Arch!LoadRequest
      BY <1>1, <1>2, <1>3, <2>1, <3>1, <3>2
      DEF Arch!LoadRequest, Arch!Running, Arch!aligned, Arch!Accesses, Arch!archVars, archRegs,
          misaligned_of, mem_read, arch_ir, arch_count, arch_owed
    <3> QED
      BY <3>3 DEF Arch!Next
  <2>3. CASE ~Accepted
    <3>1. arch_owed' = arch_owed
      BY <1>4, <2>3, Stays DEF arch_owed
    <3>2. launches' = launches
      BY <2>3, Kept
    <3>3. Arch!Lines
      BY <1>1, <1>2, <1>3, <2>1, <3>1, <3>2
      DEF Arch!Lines, Arch!archVars, archRegs, arch_ir, arch_count, arch_owed
    <3> QED
      BY <3>3 DEF Arch!Next
  <2> QED
    BY <2>2, <2>3
<1>5. CASE ~de.valid
  <2>1. ~Accepted /\ launches' = launches /\ ~branch_valid_o
    BY <1>5, Accesses, Kept DEF branch_valid_o, mispredict, cf_resolving
  <2>2. ex_state_q # "MEM_WAIT" /\ ex_state_q' # "MEM_WAIT"
    <3>1. ex_state_q # "MEM_WAIT"
      BY <1>5 DEF ExecInv, LsuStateOwned
    <3>2. ~dmem_load_hs /\ ~captured_hs
      BY <2>1, Accesses
    <3>3. ExStateNext # "MEM_WAIT"
      <4>1. CASE ex_state_q = "IDLE"
        BY <3>2, <4>1, Starts
      <4>2. CASE ex_state_q # "IDLE"
        BY <3>1, <3>2, <4>2, Continues
      <4> QED
        BY <4>1, <4>2
    <3> QED
      BY <3>1, <3>3, Moves
  <2>3. arch_owed' = arch_owed
    BY <2>2 DEF arch_owed
  <2>4. arch_ir = Bubble /\ arch_pc = fpc
    BY <1>5 DEF arch_ir, arch_pc
  <2>5. arch_pc' = arch_pc /\ (arch_ir' = Bubble \/ arch_ir'.pc = arch_pc)
    <3>1. CASE stall_o
      BY <1>5, <2>1, <2>4, <3>1 DEF Next, Redirect, Hold, Starve, Deliver, arch_pc, arch_ir
    <3>2. CASE ~stall_o
      BY <2>1, <2>4, <3>2, NextPlace
    <3> QED
      BY <3>1, <3>2
  <2>6. arch_ir' = Bubble => Arch!Lines
    BY <1>1, <1>2, <1>3, <2>1, <2>3, <2>4, <2>5
    DEF Arch!Lines, Arch!archVars, archRegs, arch_ir, arch_count, arch_owed
  <2>7. arch_ir' # Bubble => Arch!Fetch
    BY <1>1, <1>2, <1>3, <2>1, <2>3, <2>4, <2>5
    DEF Arch!Fetch, Arch!archVars, archRegs, arch_ir, arch_count, arch_owed
  <2> QED
    BY <2>6, <2>7 DEF Arch!Next
<1> QED
  BY <1>4, <1>5

LEMMA ArchInit ==
  ASSUME Init
  PROVE  Arch!Init
<1>1. minstret = 0 /\ ex_valid_q = FALSE /\ de.valid = FALSE /\ ex_state_q = "IDLE" /\ ~wfi_halt_q
      /\ mstatus = {} /\ mie = {}
  BY DEF Init, StageInit, CsrInit, Bubble
<1>2. arch_count = 0
  BY <1>1 DEF arch_count
<1> QED
  BY <1>1, <1>2 DEF Arch!Init, arch_count

LEMMA ArchStep ==
  ASSUME ExecInv, ~WFI_PAIRS, [Next]_vars
  PROVE  [Arch!Next]_Arch!vars
<1>1. CASE Next
  BY <1>1, TrapStep, Returns, RetireStep, BetweenRetirements DEF trap_redirect_req
<1>2. CASE UNCHANGED vars
  BY <1>2 DEF vars, stageVars, csrVars, Arch!vars, Arch!archVars, arch_pc
<1> QED
  BY <1>1, <1>2

\* execute_stage is a sequential hart: whatever the interrupts, traps,
\* mispredictions, port delays and bubbles, each instruction of the path
\* retires, traps or gives way to an interrupt, in order; its access reaches a
\* slave once if it retires and never otherwise; a CSR operation modifies the
\* value the CSR holds. As long as no WFI directly follows a WFI.
THEOREM ExecImplementsHart == ~WFI_PAIRS => (Spec => ImplementsHart)
<1> SUFFICES ASSUME ~WFI_PAIRS PROVE Spec => ImplementsHart
  OBVIOUS
<1>1. Init => Arch!Init
  BY ArchInit
<1>2. ASSUME ExecInv, [Next]_vars PROVE [Arch!Next]_Arch!vars
  BY <1>2, ArchStep
<1> QED
  BY <1>1, <1>2, ExecInvariant, PTL DEF Spec, ImplementsHart, Arch!Spec
=============================================================================
