------------------------------ MODULE ExecUnit ------------------------------
(***************************************************************************)
(* execute_stage between its neighbours.  Decode follows the path execute  *)
(* and the predictor steer it to, and delivers any instruction after any   *)
(* number of bubbles; the D-mem and the peripheral bridge answer after any *)
(* number of cycles; the interrupt lines move freely.                      *)
(***************************************************************************)
EXTENDS ExecuteStage

CONSTANTS
  LINES,       \* interrupt lines that move
  Kinds,       \* kinds of instruction in the program
  LENS,        \* halfwords of the instructions that may be compressed
  SIZES,       \* bytes its loads and stores access
  CsrForms,    \* its CSR instructions: [csr, fn, flags, target]; an address
               \* register is only written whole
  WFI_PAIRS    \* TRUE: a WFI may directly follow a WFI

ASSUME ExecAssumption ==
  /\ LSU_LIVE_LOAD \in BOOLEAN /\ WFI_PAIRS \in BOOLEAN
  /\ EA \subseteq Nat /\ 0 \in EA /\ PERI \in Nat /\ SIZES \subseteq {1, 2, 4}
  /\ EA \cup {0, EXC_TVAL} \subseteq Tval
  /\ XLEN \in Nat \ {0} /\ COUNT_MOD \in Nat \ {0}
  /\ NoPc \notin Pc
  /\ LINES \subseteq IRQ /\ LENS \subseteq 1 .. 2
  /\ CsrForms \subseteq [csr : {"mstatus", "mie", "mepc", "mtvec"}, fn : {"RW", "RS", "RC"},
                         flags : SUBSET Flags, target : Pc \cup {NoPc}]
  /\ \A c \in CsrForms : c.csr \in {"mepc", "mtvec"} => c.fn = "RW" /\ c.target \in Pc

VARIABLES
  fpc,         \* address of the next instruction decode delivers
  launches     \* history: parity of the requests the slaves accepted

vars == <<stageVars, csrVars, de, dmem_rsp, peri_rsp, fpc, launches>>

(***************************************************************************)
(* Decode: the D/E register.                                               *)
(***************************************************************************)
Bubble == [valid |-> FALSE, kind |-> "none", pc |-> 0, len |-> 2, ea |-> 0, size |-> 1,
           target |-> NoPc, pred |-> NoPc, csr |-> "none", fn |-> "RS", flags |-> {}]

At(k, n) == [Bubble EXCEPT !.valid = TRUE, !.kind = k, !.pc = fpc, !.len = n]

MemoryOp(k, n, a, b) == [At(k, n) EXCEPT !.ea = a, !.size = b]
BranchOp(n, t, p)    == [At("branch", n) EXCEPT !.target = t, !.pred = p]
CsrOp(c) == [At("csr", 2) EXCEPT !.csr = c.csr, !.fn = c.fn, !.flags = c.flags, !.target = c.target]

Plain    == {At(k, n) : k \in {"alu", "exception"} \cap Kinds, n \in LENS}
            \cup {At(k, 2) : k \in {"div", "mret", "wfi"} \cap Kinds}
Memory   == {MemoryOp(k, n, a, b) : k \in {"load", "store"} \cap Kinds, n \in LENS, a \in EA, b \in SIZES}
Branches == IF "branch" \in Kinds
            THEN {BranchOp(n, t, p) : n \in LENS, t \in Pc \cup {NoPc}, p \in Pc \cup {NoPc}}
            ELSE {}
CsrOps   == IF "csr" \in Kinds THEN {CsrOp(c) : c \in CsrForms} ELSE {}

Instrs == Plain \cup Memory \cup Branches \cup CsrOps

\* execute flushes decode and redirects fetch.
Redirect == branch_valid_o /\ de' = Bubble /\ fpc' = branch_addr_o

\* execute holds decode.
Hold == ~branch_valid_o /\ stall_o /\ UNCHANGED <<de, fpc>>

\* Decode has nothing to deliver.
Starve == ~branch_valid_o /\ ~stall_o /\ de' = Bubble /\ UNCHANGED fpc

Deliver(i) ==
  /\ ~branch_valid_o /\ ~stall_o
  /\ i.kind = "wfi" /\ wfi_retire => WFI_PAIRS
  /\ de' = i
  /\ fpc' = IF i.pred # NoPc THEN i.pred ELSE (i.pc + i.len) % NPC

Accepted == \/ mem_req_o.wvalid /\ wready(dmem_rsp)
            \/ peri_req_o.wvalid /\ wready(peri_rsp)

Clock ==
  /\ \E lines \in SUBSET LINES : StageTick(lines)
  /\ \E r \in Rsp : PortTick(dmem_rsp, mem_req_o, r) /\ dmem_rsp' = r
  /\ \E r \in Rsp : PortTick(peri_rsp, peri_req_o, r) /\ peri_rsp' = r
  /\ launches' = IF Accepted THEN 1 - launches ELSE launches

Init ==
  /\ StageInit
  /\ de = Bubble /\ fpc = 0
  /\ dmem_rsp = "ready" /\ peri_rsp = "ready"
  /\ launches = 0

Next ==
  \/ Redirect /\ Clock
  \/ Hold /\ Clock
  \/ Starve /\ Clock
  \/ \E i \in Instrs : Deliver(i) /\ Clock

Spec == Init /\ [][Next]_vars

\* The clock runs, and no port owes an answer or stays busy for ever.
FairSpec ==
  /\ Spec /\ WF_vars(Next)
  /\ []<>(dmem_rsp \in {"ready", "data"}) /\ []<>(peri_rsp \in {"ready", "data"})

(***************************************************************************)
(* Properties.                                                             *)
(***************************************************************************)
TypeOK ==
  /\ de \in Op /\ fpc \in Pc
  /\ ex_state_q \in ExState
  /\ mem_addr_q \in EA /\ mem_is_peri_q \in BOOLEAN
  /\ wfi_halt_q \in BOOLEAN /\ wfi_next_pc_q \in Pc /\ ex_valid_q \in BOOLEAN
  /\ div_state_q \in {"IDLE", "RUN", "DONE"} /\ div_cnt_q \in 0 .. (XLEN - 1)
  /\ dmem_rsp \in Rsp /\ peri_rsp \in Rsp
  /\ launches \in 0 .. 1
  /\ CsrTypeOK

\* The assertion "LSU state has no owner": while a launch, a wait or a
\* misaligned trap is under way the D/E register still holds its memory
\* operation (a captured store would otherwise write, or the pipe hang).
LsuStateOwned ==
  ex_state_q \in {"MEM_LAUNCH", "MEM_WAIT", "MEM_TRAP"} => de.valid /\ is_mem_op

\* The assertion "EX_MEM_TRAP under freeze": the one trap that is not gated by
\* freeze never meets it, and no multi-cycle operation is caught by a halt.
TrapNeverFrozen == ex_state_q # "IDLE" => ~wfi_halt_q

\* The assertion "mem_addr_q != lsu_ea": whatever reads the registered address
\* a cycle or more after the launch reads the address of the operation it
\* serves, and the answer awaited is the one that port owes for it.
AddressHeld ==
  /\ ex_state_q \in {"MEM_LAUNCH", "MEM_WAIT", "MEM_TRAP"} =>
       mem_addr_q = de.ea /\ mem_is_peri_q = IsPeri(de.ea)
  /\ ex_state_q = "MEM_WAIT" => mem_read /\ lsu_rsp_wait \in {"wait", "data"}
  /\ ~(ex_state_q = "MEM_WAIT" /\ ~mem_is_peri_q) => dmem_rsp \in {"ready", "busy"}
  /\ ~(ex_state_q = "MEM_WAIT" /\ mem_is_peri_q) => peri_rsp \in {"ready", "busy"}

\* What reaches a slave is an aligned access of the instruction in the D/E
\* register, in its direction, at its address, and only at the slave it names.
RequestIsTheOps ==
  /\ mem_req_o.wvalid =>
       mem_req_o.addr = de.ea /\ ~IsPeri(de.ea) /\ mem_req_o.we = mem_write
  /\ peri_req_o.wvalid =>
       peri_req_o.addr = de.ea /\ IsPeri(de.ea) /\ peri_req_o.we = mem_write
  /\ mem_req_o.wvalid \/ peri_req_o.wvalid =>
       de.valid /\ is_mem_op /\ ~misaligned_of(de.ea) /\ ~(mem_req_o.wvalid /\ peri_req_o.wvalid)

\* In the cycle a CSR operation modifies a flag register, the value read a
\* cycle earlier is still what the register holds.
CsrReadFresh ==
  ex_state_q = "CSR_WAIT" => is_csr_op /\ de.valid /\ csr_rdata_q = csr_rdata(de.csr)

\* The divider runs exactly while execute waits for it: it is never started
\* for a squashed division and never answers another operation.
DividerInStep ==
  /\ (ex_state_q = "DIV_BUSY") <=> (div_state_q # "IDLE")
  /\ ex_state_q = "DIV_BUSY" => de.valid /\ is_div_op

\* The instruction execution is at: the next to retire, trap or be interrupted.
arch_pc == IF de.valid THEN de.pc ELSE fpc

\* Decode continues where the instruction in the D/E register is predicted to
\* go; and as long as no WFI follows a WFI, the address a wake would save is
\* where execution is.
ResumePoint ==
  /\ de.valid => fpc = IF de.pred # NoPc THEN de.pred ELSE pc_link
  /\ de.valid /\ de.kind # "branch" => de.pred = NoPc
  /\ wfi_halt_q /\ ~WFI_PAIRS =>
       wfi_next_pc_q = arch_pc /\ ~(de.valid /\ de.kind = "wfi")

\* What is in the D/E register is an instruction of the program.
Decoded ==
  de.valid =>
    /\ de.kind # "none"
    /\ de.kind = "csr" /\ de.csr \in {"mepc", "mtvec"} => de.fn = "RW" /\ de.target \in Pc

\* With live loads the alignment is decided before a request is captured.
AlignmentDecided ==
  LSU_LIVE_LOAD =>
    /\ ex_state_q = "MEM_LAUNCH" => ~misaligned_of(de.ea)
    /\ ex_state_q = "MEM_TRAP" => misaligned_of(de.ea)

\* The invariant the proofs carry.
ExecInv ==
  /\ TypeOK
  /\ LsuStateOwned
  /\ TrapNeverFrozen
  /\ AddressHeld
  /\ AlignmentDecided
  /\ CsrReadFresh
  /\ DividerInStep
  /\ ResumePoint
  /\ Decoded

\* Whatever is saved in mepc, by an exception, an interrupt or a wake, is the
\* instruction execution is at: nothing is skipped and nothing runs twice.
PreciseTraps ==
  [][sync_trap_req \/ take_interrupt => mepc' = arch_pc]_vars

Arch == INSTANCE Hart WITH
  NoOp <- Bubble, pc <- arch_pc, ir <- IF de.valid THEN de ELSE Bubble,
  halted <- wfi_halt_q, owed <- ex_state_q = "MEM_WAIT",
  instret <- (minstret + (IF ex_valid_q THEN 1 ELSE 0)) % COUNT_MOD

\* The stage executes one instruction after the other, as Hart says, under
\* every interleaving of interrupts, traps, mispredictions, port delays and
\* bubbles.
ImplementsHart == Arch!Spec

\* Only a WFI waiting for an interrupt holds decode for ever.
NoStuckStall == []<>(~stall_o \/ branch_valid_o) \/ <>[]wfi_stall

\* execute_stage.sv: on a WFI wake "mepc = wfi.pc + size", the address after
\* the WFI that retired.
WakeReturnsAfterWfi ==
  [][wfi_halt_q /\ take_interrupt => mepc' = arch_pc]_vars
=============================================================================
