------------------------------ MODULE MCDecode ------------------------------
(***************************************************************************)
(* A program of twelve halfwords with every kind of instruction at both     *)
(* alignments, as flushes can land on any of them; and, with that stage at  *)
(* its reset, the decoder over every halfword and many native words.        *)
(***************************************************************************)
EXTENDS DecodeUnit, RvcIsa

\* [wide, cf, off] of the halfwords, in order of address; the last one, before
\* the end of the memory, is an instruction or begins one that cannot be fetched.
Code(last) == <<
  <<FALSE, "none", 0>>, <<TRUE, "cond", 5>>,  <<FALSE, "ret", 0>>,  <<TRUE, "none", 0>>,
  <<TRUE, "jal", 3>>,   <<FALSE, "cond", 2>>, <<FALSE, "jal", -4>>, <<TRUE, "ret", 0>>,
  <<FALSE, "none", 0>>, <<FALSE, "cond", -8>>, <<FALSE, "none", 0>>, last >>

HalfAt(code, a) == [wide |-> code[a + 1][1], cf |-> code[a + 1][2], off |-> code[a + 1][3], at |-> a]
NoHalf == [wide |-> FALSE, cf |-> "none", off |-> 0, at |-> 99]

Blocks(code) ==
  [b \in 0 .. 2 |-> [w \in 0 .. 1 |-> [h \in 0 .. 1 |-> HalfAt(code, 4 * b + 2 * w + h)]]]

MCImage     == Blocks(Code(<<FALSE, "none", 0>>))
MCImageSpan == Blocks(Code(<<TRUE, "jal", -6>>))
MCZero      == [h \in 0 .. 1 |-> NoHalf]
MCPHT       == [a \in 0 .. (4 * BLOCKS - 1) |-> a \in {1, 4, 9}]

Opcodes == {"LUI", "AUIPC", "JAL", "JALR", "BRANCH", "LOAD", "STORE", "OP_IMM", "OP",
            "AMO", "SYSTEM", "MISC_MEM", "none"}
\* Every opcode and funct3, the funct7 values some arm tells apart and one it
\* does not, and registers on both sides of every register test.
MCWords ==
  [op : Opcodes, rd : {0, 1, 31}, f3 : 0 .. 7, rs1 : {0, 1, 5, 30},
   rs2 : {0, 1, 2, 5}, f7 : {0, 1, 8, 9, 24, 32, 72, 104, 105, 127}]
MCNoWord == {IllegalWord}

\* The program runs while the source selection shows no instruction.
DecodeNext ==
  \/ src = Native(IllegalWord) /\ Next /\ UNCHANGED src
  \/ NextSource /\ UNCHANGED unitVars
DecodeInit == Init /\ InitSource
DecodeSpec == DecodeInit /\ [][DecodeNext]_<<unitVars, src>>
=============================================================================
