------------------------------- MODULE PeriBus -------------------------------
(***************************************************************************)
(* What the peripheral bus promises the load/store unit: one transaction   *)
(* at a time, performed once and atomically on the registers behind its    *)
(* address; an address nothing answers to is read as ZERO and swallows     *)
(* writes.                                                                 *)
(***************************************************************************)
EXTENDS Integers

CONSTANTS
  Mapped,      \* addresses of registers
  PeriAddr,    \* addresses of requests
  Val, ZERO,
  NoTxn

VARIABLES
  mem,         \* the registers
  txn          \* the transaction under way: [we, addr, val, done]

vars == <<mem, txn>>

Init == mem = [a \in Mapped |-> ZERO] /\ txn = NoTxn

\* The effect of transaction t, now or not yet.
Effect(t, now) ==
  LET read == IF t.addr \in Mapped THEN mem[t.addr] ELSE ZERO
  IN  /\ txn' = [t EXCEPT !.done = now, !.val = IF t.we \/ ~now THEN t.val ELSE read]
      /\ mem' = IF now /\ t.we /\ t.addr \in Mapped THEN [mem EXCEPT ![t.addr] = t.val] ELSE mem

Begin(we, addr, val, now) ==
  /\ txn = NoTxn
  /\ Effect([we |-> we, addr |-> addr, val |-> val, done |-> FALSE], now)

Perform == txn # NoTxn /\ ~txn.done /\ Effect(txn, TRUE)

End == txn # NoTxn /\ txn.done /\ txn' = NoTxn /\ UNCHANGED mem

Next ==
  \/ \E addr \in PeriAddr, now \in BOOLEAN :
       \/ Begin(FALSE, addr, ZERO, now)
       \/ \E val \in Val : Begin(TRUE, addr, val, now)
  \/ Perform
  \/ End

Spec == Init /\ [][Next]_vars
=============================================================================
