------------------------------- MODULE MCExec -------------------------------
(* One aligned and one misaligned D-mem address, and a peripheral one.      *)
EXTENDS ExecUnit

MCEA   == {0, 1, 4}
MCTval == MCEA \cup {EXC_TVAL}

Form(c, f, b, t) == [csr |-> c, fn |-> f, flags |-> b, target |-> t]

\* Just enough to enable interrupts.
MCEnable == {Form("mstatus", "RW", {"MIE"}, NoPc), Form("mie", "RS", LINES, NoPc)}

\* Vectored mode and a software write of mepc besides.
MCModify ==
  MCEnable \cup {Form("mtvec", "RW", {"VECTORED"}, 0), Form("mepc", "RW", {}, 1)}
=============================================================================
