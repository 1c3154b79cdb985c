------------------------------ MODULE TrapCsrs ------------------------------
(***************************************************************************)
(* trap_unit and the CSRs it reads and writes.                             *)
(*                                                                         *)
(* trap_unit is combinational: which interrupt is pending, where a trap,   *)
(* an interrupt or an mret sends fetch, and what each does to mstatus.  A  *)
(* register of flags is the set of the flags that are 1; an address counts *)
(* halfwords.                                                              *)
(*                                                                         *)
(* csr_regfile: the machine CSRs that steer traps, their read-modify-write *)
(* port with its registered read, the trap-write bundle, and minstret.     *)
(* mscratch, misa and mcycle steer nothing and are left out; MPP is        *)
(* hard-wired to M.                                                        *)
(***************************************************************************)
EXTENDS Integers

CONSTANTS NPC      \* halfwords in the instruction address space (the PC wraps)

ASSUME PcAssumption == NPC \in Nat \ {0}

Pc  == 0 .. (NPC - 1)
IRQ == {"MEI", "MSI", "MTI"}

\* Exception code of an interrupt: mcause[30:0].
IrqCode(cause) == CASE cause = "MEI" -> 11 [] cause = "MSI" -> 3 [] OTHER -> 7

int_pending(mstatus, mie, mip) == "MIE" \in mstatus /\ mie \cap mip # {}

int_cause(mie, mip) ==
  IF "MEI" \in mie \cap mip THEN "MEI"
  ELSE IF "MSI" \in mie \cap mip THEN "MSI" ELSE "MTI"

\* redirect_addr_o on an entry (mret goes to mepc).
trap_target(mtvec, isInterrupt, cause) ==
  IF isInterrupt /\ mtvec.vectored THEN (mtvec.base + 2 * IrqCode(cause)) % NPC
  ELSE mtvec.base

\* Entry: MPIE <= MIE, MIE <= 0.
mstatus_entry(mstatus) == IF "MIE" \in mstatus THEN {"MPIE"} ELSE {}

\* mret: MIE <= MPIE, MPIE <= 1.
mstatus_mret(mstatus) == {"MPIE"} \cup (IF "MPIE" \in mstatus THEN {"MIE"} ELSE {})

-----------------------------------------------------------------------------
CONSTANTS
  COUNT_MOD,  \* minstret counts modulo this (a power of two in hardware)
  Tval        \* values of mtval

VARIABLES
  mstatus, mie, mip,      \* sets of flags
  mtvec,                  \* [base, vectored]
  mepc, mcause, mtval,
  minstret,
  csr_rdata_q             \* the registered read of a flag register

csrVars == <<mstatus, mie, mip, mtvec, mepc, mcause, mtval, minstret, csr_rdata_q>>

MstatusBits == {"MIE", "MPIE"}
Flags       == MstatusBits \cup IRQ \cup {"VECTORED"}
Cause       == IRQ \cup {"EXC", "LAD_MIS", "SAD_MIS", "NONE"}

CsrTypeOK ==
  /\ mstatus \in SUBSET MstatusBits
  /\ mie \in SUBSET IRQ /\ mip \in SUBSET IRQ
  /\ mtvec \in [base : Pc, vectored : BOOLEAN]
  /\ mepc \in Pc /\ mcause \in Cause /\ mtval \in Tval
  /\ minstret \in 0 .. (COUNT_MOD - 1)
  /\ csr_rdata_q \in SUBSET Flags

CsrInit ==
  /\ mstatus = {} /\ mie = {} /\ mip = {}
  /\ mtvec = [base |-> 0, vectored |-> FALSE]
  /\ mepc = 0 /\ mcause = "NONE" /\ mtval = 0
  /\ minstret = 0 /\ csr_rdata_q = {}

\* The read mux, for the flag registers (other CSRs only reach rd).
csr_rdata(addr) ==
  CASE addr = "mstatus" -> mstatus [] addr = "mie" -> mie [] OTHER -> {}

\* The RMW port writes <<address part, flag part>> of the new value to CSR addr.
\* The three interrupt bits of mip are read-only, misa too.
CsrWrite(wren, addr, new) ==
  /\ mie'   = IF wren /\ addr = "mie" THEN new.flags \cap IRQ ELSE mie
  /\ mtvec' = IF wren /\ addr = "mtvec"
              THEN [base |-> new.pc, vectored |-> "VECTORED" \in new.flags] ELSE mtvec

\* The trap port wins over the RMW port.
EntryOr(entry, trapVal, wren, rmwVal, old) ==
  IF entry THEN trapVal ELSE IF wren THEN rmwVal ELSE old

\* One clock edge.  t describes the trap port: entry, mret, and the payload.
CsrTick(t, wren, addr, new, retire, lines) ==
  /\ mstatus' = IF t.entry THEN mstatus_entry(mstatus)
                ELSE IF t.mret THEN mstatus_mret(mstatus)
                ELSE IF wren /\ addr = "mstatus" THEN new.flags \cap MstatusBits
                ELSE mstatus
  /\ mepc'   = EntryOr(t.entry, t.pc, wren /\ addr = "mepc", new.pc, mepc)
  /\ mcause' = IF t.entry THEN t.cause ELSE mcause
  /\ mtval'  = IF t.entry THEN t.tval ELSE mtval
  /\ CsrWrite(wren, addr, new)
  /\ mip' = lines
  /\ minstret' = IF retire THEN (minstret + 1) % COUNT_MOD ELSE minstret
  /\ csr_rdata_q' = csr_rdata(addr)
=============================================================================
