----------------------------- MODULE InstrStream -----------------------------
(***************************************************************************)
(* What decode promises execute: the D/E register holds, one after the     *)
(* other, the instructions of the program in the order of the path that    *)
(* execute and the predictions steer, each whole, with its own address and *)
(* its own prediction.  Addresses count halfwords.                         *)
(***************************************************************************)
EXTENDS Integers, Sequences

CONSTANTS
  BLOCKS, IMEM_BLOCKS, BOOT_ADDR,
  Image,    \* Image[block][word][half]: a halfword [wide, cf, off, at]
  PHT,      \* direction the predictor gives a conditional branch at an address
  NoAddr

VARIABLES
  de,       \* the D/E register
  npc       \* address of the next instruction

Addr == 0 .. (4 * BLOCKS - 1)
Plus(a, n) == (a + n) % (4 * BLOCKS)

Fetchable(a) == a \div 4 < IMEM_BLOCKS
Half(a) == Image[a \div 4][(a \div 2) % 2][a % 2]

Empty == [valid |-> FALSE, pc |-> 0, halves |-> << >>, fault |-> FALSE, pred |-> NoAddr]
Instr(a, halves) == [Empty EXCEPT !.valid = TRUE, !.pc = a, !.halves = halves]

\* An access fault names the halfword that cannot be fetched.
Fault(a) == [Empty EXCEPT !.valid = TRUE, !.pc = a, !.fault = TRUE]

InstrAt(a) ==
  LET b == Plus(a, 1)
  IN  IF ~Fetchable(a) THEN Fault(a)
      ELSE IF ~Half(a).wide THEN Instr(a, <<Half(a)>>)
      ELSE IF ~Fetchable(b) THEN Fault(b)
      ELSE Instr(a, <<Half(a), Half(b)>>)

\* The predictions instruction i may carry: jumps are taken, a conditional
\* branch follows the table, a return goes wherever the return stack says.
Predictions(i) ==
  LET cf     == IF i.halves = << >> THEN "none" ELSE i.halves[1].cf
      target == Plus(i.pc, i.halves[1].off)
  IN  CASE cf = "jal"  -> {target}
        [] cf = "cond" -> IF PHT[i.pc] THEN {target} ELSE {NoAddr}
        [] cf = "ret"  -> Addr \cup {NoAddr}
        [] OTHER       -> {NoAddr}

Init == de = Empty /\ npc = BOOT_ADDR

Redirect(target) == de' = Empty /\ npc' = target

\* Execute never lets an access fault pass: it traps, and redirects.
Bubble == ~de.fault /\ de' = Empty /\ UNCHANGED npc

Deliver(pred) ==
  /\ ~de.fault
  /\ de' = [InstrAt(npc) EXCEPT !.pred = pred]
  /\ npc' = IF pred # NoAddr THEN pred ELSE Plus(npc, Len(InstrAt(npc).halves))

Next ==
  \/ \E target \in Addr : Redirect(target)
  \/ Bubble
  \/ \E pred \in Predictions(InstrAt(npc)) : Deliver(pred)

Spec == Init /\ [][Next]_<<de, npc>>
=============================================================================
