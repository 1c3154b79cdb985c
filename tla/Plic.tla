-------------------------------- MODULE Plic --------------------------------
(***************************************************************************)
(* axi4_lite_plic: an enable bit per source; everything else follows from  *)
(* the lines.  Source 0 is "no source".                                    *)
(***************************************************************************)
EXTENDS Integers, FiniteSetsExt

CONSTANTS
  SRC_N,
  NoEnable     \* no write to ENABLE in this cycle

VARIABLE enable_q

PlicInit == enable_q = 0 .. (SRC_N - 1)

PlicTick(enable) == enable_q' = IF enable = NoEnable THEN enable_q ELSE enable

\* Mutant: the bare OR of the lines.
BareOr(irq) == irq \ {0} # {}

\* Mutant: the lowest line is picked first, and masked then.
PickThenMask(irq) == irq \ {0} # {} /\ Min(irq \ {0}) \in enable_q

meip(irq) == (irq \cap enable_q) \ {0} # {}

\* What a CLAIM read returns: the lowest enabled pending source, or 0.
sel_id(irq) ==
  LET claimable == (irq \cap enable_q) \ {0}
  IN  IF claimable = {} THEN 0 ELSE Min(claimable)

\* What a read of a register returns.
plic_rdata(reg, irq) ==
  CASE reg = "PENDING" -> irq
    [] reg = "ENABLE"  -> enable_q
    [] reg = "CLAIM"   -> sel_id(irq)
=============================================================================
