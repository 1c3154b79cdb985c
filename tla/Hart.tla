-------------------------------- MODULE Hart --------------------------------
(***************************************************************************)
(* What execute_stage promises: a machine-mode hart that executes one      *)
(* instruction after the other.  An instruction retires, traps or gives    *)
(* way to an interrupt; it puts exactly its own access on the bus, and     *)
(* nothing if it does not retire; mepc is always the instruction to resume *)
(* at; a CSR operation modifies the value the CSR holds.                   *)
(***************************************************************************)
EXTENDS Integers

CONSTANTS NPC, COUNT_MOD, EXC_TVAL, NoPc, NoOp

VARIABLES
  pc,       \* the next instruction to execute
  ir,       \* that instruction once it is known, else NoOp
  halted,   \* a WFI waits
  owed,     \* the load at pc is on the bus and unanswered
  launches, \* parity of the accesses the slaves accepted
  mstatus, mie, mip, mtvec, mepc, mcause, mtval, instret

archVars == <<mie, mtvec, mepc, mcause, mtval, mstatus>>
vars == <<pc, ir, halted, owed, launches, mip, instret, archVars>>

link    == (ir.pc + ir.len) % NPC
aligned == ir.ea % ir.size = 0
pending == "MIE" \in mstatus /\ mie \cap mip # {}

GoTo(a) == pc' = a /\ (ir' = NoOp \/ ir'.pc = a)
Retires == instret' = (instret + 1) % COUNT_MOD

\* The access of the instruction at pc.
Accesses == launches' = 1 - launches

Running(k) == ir # NoOp /\ ir.kind \in k /\ ~halted

Simple ==
  /\ Running({"alu", "div"}) /\ Retires /\ GoTo(link)
  /\ UNCHANGED <<halted, owed, launches, archVars>>

Branch ==
  /\ Running({"branch"}) /\ Retires /\ GoTo(IF ir.target = NoPc THEN link ELSE ir.target)
  /\ UNCHANGED <<halted, owed, launches, archVars>>

Wfi ==
  /\ Running({"wfi"}) /\ Retires /\ GoTo(link) /\ halted' = TRUE
  /\ UNCHANGED <<owed, launches, archVars>>

Store ==
  /\ Running({"store"}) /\ aligned /\ Accesses /\ Retires /\ GoTo(link)
  /\ UNCHANGED <<halted, owed, archVars>>

LoadRequest ==
  /\ Running({"load"}) /\ aligned /\ ~owed /\ Accesses /\ owed' = TRUE
  /\ UNCHANGED <<pc, ir, halted, instret, archVars>>

LoadRetire ==
  /\ Running({"load"}) /\ owed /\ owed' = FALSE /\ Retires /\ GoTo(link)
  /\ UNCHANGED <<halted, launches, archVars>>

\* What a CSR function makes of the flags a register holds now; a bit the
\* register does not have stays 0.
Modified(old) ==
  CASE ir.fn = "RW" -> ir.flags [] ir.fn = "RS" -> old \cup ir.flags [] OTHER -> old \ ir.flags

Csr ==
  /\ Running({"csr"}) /\ Retires /\ GoTo(link)
  /\ mstatus' = IF ir.csr = "mstatus" THEN Modified(mstatus) \cap {"MIE", "MPIE"} ELSE mstatus
  /\ mie'     = IF ir.csr = "mie" THEN Modified(mie) \cap {"MEI", "MSI", "MTI"} ELSE mie
  /\ mepc'    = IF ir.csr = "mepc" /\ ir.fn = "RW" THEN ir.target ELSE mepc
  /\ mtvec'   = IF ir.csr = "mtvec" /\ ir.fn = "RW"
                THEN [base |-> ir.target, vectored |-> "VECTORED" \in ir.flags] ELSE mtvec
  /\ UNCHANGED <<halted, owed, launches, mcause, mtval>>

Mret ==
  /\ ir # NoOp /\ ir.kind = "mret" /\ (halted => pending) /\ Retires
  /\ pc' = mepc /\ ir' = NoOp
  /\ mstatus' = {"MPIE"} \cup {f \in {"MIE"} : "MPIE" \in mstatus}
  /\ halted' = FALSE
  /\ UNCHANGED <<owed, launches, mie, mtvec, mepc, mcause, mtval>>

Enter(cause, tval, target) ==
  /\ ~owed /\ (halted => pending)
  /\ mepc' = pc /\ mcause' = cause /\ mtval' = tval
  /\ mstatus' = {f \in {"MPIE"} : "MIE" \in mstatus}
  /\ pc' = target /\ ir' = NoOp /\ halted' = FALSE
  /\ UNCHANGED <<owed, launches, instret, mie, mtvec>>

Exception == ir # NoOp /\ ir.kind = "exception" /\ Enter("EXC", EXC_TVAL, mtvec.base)

Misaligned ==
  /\ Running({"load", "store"}) /\ ~aligned
  /\ Enter(IF ir.kind = "store" THEN "SAD_MIS" ELSE "LAD_MIS", ir.ea, mtvec.base)

\* Code of the interrupt, and the causes that go before it.
Irq == [MEI |-> [code |-> 11, above |-> {}],
        MSI |-> [code |-> 3,  above |-> {"MEI"}],
        MTI |-> [code |-> 7,  above |-> {"MEI", "MSI"}]]

Interrupt(i) ==
  /\ pending /\ i \in mie \cap mip /\ Irq[i].above \cap mie \cap mip = {}
  /\ Enter(i, 0, IF mtvec.vectored THEN (mtvec.base + 2 * Irq[i].code) % NPC ELSE mtvec.base)

Fetch ==
  /\ ir = NoOp /\ pc' = pc /\ ir'.pc = pc
  /\ UNCHANGED <<halted, owed, launches, instret, archVars>>

\* Interrupt lines move on their own.
Lines == UNCHANGED <<pc, ir, halted, owed, launches, instret, archVars>>

Next ==
  \/ Simple \/ Branch \/ Wfi \/ Store \/ LoadRequest \/ LoadRetire \/ Csr \/ Mret
  \/ Exception \/ Misaligned \/ (\E i \in DOMAIN Irq : Interrupt(i))
  \/ Fetch \/ Lines

Init ==
  /\ ir = NoOp /\ ~halted /\ ~owed /\ instret = 0
  /\ mstatus = {} /\ mie = {}

Spec == Init /\ [][Next]_vars
=============================================================================
