------------------------------- MODULE RvcIsa -------------------------------
(***************************************************************************)
(* The reference for Decoder: what the RISC-V manual says the compressed   *)
(* instructions of RV32C do, written from its encoding tables, where an    *)
(* immediate is given by the list of its bits an encoding's bits are.      *)
(***************************************************************************)
EXTENDS Decoder

\* The immediate whose bits to[1], to[2], .. are the bits hi, hi - 1, .. of c.
Scatter(c, hi, to) ==
  LET s[n \in 0 .. Len(to)] == IF n = 0 THEN 0 ELSE s[n - 1] + 2^to[n] * Bit(c, hi + 1 - n)
  IN  s[Len(to)]

Effect(op, rd, rs1, rs2, imm) == [op |-> op, rd |-> rd, rs1 |-> rs1, rs2 |-> rs2, imm |-> imm]

CImm(c)    == Sext(Scatter(c, 12, <<5>>) + Scatter(c, 6, <<4, 3, 2, 1, 0>>), 6)
CShamt(c)  == Scatter(c, 12, <<5>>) + Scatter(c, 6, <<4, 3, 2, 1, 0>>)
CJump(c)   == Sext(Scatter(c, 12, <<11, 4, 9, 8, 10, 6, 7, 3, 2, 1, 5>>), 12)
CBranch(c) == Sext(Scatter(c, 12, <<8, 4, 3>>) + Scatter(c, 6, <<7, 6, 2, 1, 5>>), 9)
CWord(c)   == Scatter(c, 12, <<5, 4, 3>>) + Scatter(c, 6, <<2, 6>>)
CSpn(c)    == Scatter(c, 12, <<5, 4, 9, 8, 7, 6, 2, 3>>)
C16sp(c)   == Sext(Scatter(c, 12, <<9>>) + Scatter(c, 6, <<4, 6, 8, 7, 5>>), 10)
CLwsp(c)   == Scatter(c, 12, <<5>>) + Scatter(c, 6, <<4, 3, 2, 7, 6>>)
CSwsp(c)   == Scatter(c, 12, <<5, 4, 3, 2, 7, 6>>)

\* One row per instruction: whether c encodes it, hints and reserved values
\* left out, and what it does.
Row(encodes, effect) == IF encodes THEN {effect} ELSE {}

Meanings(c) ==
  LET q  == Bits(c, 1, 0)   f == Bits(c, 15, 13)
      rd == Bits(c, 11, 7)  r2 == Bits(c, 6, 2)
      lo == 8 + Bits(c, 4, 2)  hi == 8 + Bits(c, 9, 7)
      b12 == Bit(c, 12)  sel == Bits(c, 11, 10)
  IN UNION {
       Row(q = 0 /\ f = 0 /\ CSpn(c) # 0, Effect("ADD", lo, 2, 0, CSpn(c))),
       Row(q = 0 /\ f = 2, Effect("LW", lo, hi, 0, CWord(c))),
       Row(q = 0 /\ f = 6, Effect("SW", 0, hi, lo, CWord(c))),
       Row(q = 1 /\ f = 0 /\ (rd # 0 \/ CImm(c) = 0), Effect("ADD", rd, rd, 0, CImm(c))),
       Row(q = 1 /\ f = 1, Effect("JAL", 1, 0, 0, CJump(c))),
       Row(q = 1 /\ f = 2 /\ rd # 0, Effect("ADD", rd, 0, 0, CImm(c))),
       Row(q = 1 /\ f = 3 /\ rd = 2 /\ C16sp(c) # 0, Effect("ADD", 2, 2, 0, C16sp(c))),
       Row(q = 1 /\ f = 3 /\ rd \notin {0, 2} /\ CImm(c) # 0, Effect("ADD", rd, 0, 0, 4096 * CImm(c))),
       Row(q = 1 /\ f = 4 /\ sel = 0 /\ b12 = 0, Effect("SRL", hi, hi, 0, CShamt(c))),
       Row(q = 1 /\ f = 4 /\ sel = 1 /\ b12 = 0, Effect("SRA", hi, hi, 0, CShamt(c))),
       Row(q = 1 /\ f = 4 /\ sel = 2, Effect("AND", hi, hi, 0, CImm(c))),
       Row(q = 1 /\ f = 4 /\ sel = 3 /\ b12 = 0 /\ r2 \div 8 = 0, Effect("SUB", hi, hi, lo, 0)),
       Row(q = 1 /\ f = 4 /\ sel = 3 /\ b12 = 0 /\ r2 \div 8 = 1, Effect("XOR", hi, hi, lo, 0)),
       Row(q = 1 /\ f = 4 /\ sel = 3 /\ b12 = 0 /\ r2 \div 8 = 2, Effect("OR", hi, hi, lo, 0)),
       Row(q = 1 /\ f = 4 /\ sel = 3 /\ b12 = 0 /\ r2 \div 8 = 3, Effect("AND", hi, hi, lo, 0)),
       Row(q = 1 /\ f = 5, Effect("JAL", 0, 0, 0, CJump(c))),
       Row(q = 1 /\ f = 6, Effect("BEQ", 0, hi, 0, CBranch(c))),
       Row(q = 1 /\ f = 7, Effect("BNE", 0, hi, 0, CBranch(c))),
       Row(q = 2 /\ f = 0 /\ rd # 0 /\ b12 = 0, Effect("SLL", rd, rd, 0, CShamt(c))),
       Row(q = 2 /\ f = 2 /\ rd # 0, Effect("LW", rd, 2, 0, CLwsp(c))),
       Row(q = 2 /\ f = 4 /\ b12 = 0 /\ rd # 0 /\ r2 = 0, Effect("JALR", 0, rd, 0, 0)),
       Row(q = 2 /\ f = 4 /\ b12 = 0 /\ rd # 0 /\ r2 # 0, Effect("ADD", rd, 0, r2, 0)),
       Row(q = 2 /\ f = 4 /\ b12 = 1 /\ rd = 0 /\ r2 = 0, Effect("BREAKPOINT", 0, 0, 0, 0)),
       Row(q = 2 /\ f = 4 /\ b12 = 1 /\ rd # 0 /\ r2 = 0, Effect("JALR", 1, rd, 0, 0)),
       Row(q = 2 /\ f = 4 /\ b12 = 1 /\ rd # 0 /\ r2 # 0, Effect("ADD", rd, rd, r2, 0)),
       Row(q = 2 /\ f = 6, Effect("SW", 0, 2, r2, CSwsp(c))) }

(***************************************************************************)
(* What the decoded controls make execute do.                              *)
(***************************************************************************)
Shifts == {"SLL", "SRL", "SRA"}

Decoded ==
  LET e == de_controls
      d == e.d
      rd  == IF d.reg_write THEN e.rd ELSE 0
      imm == IF d.alu_src_b = "RS2" /\ d.branch_type = "NONE" THEN 0
             ELSE IF d.alu_op \in Shifts THEN d.imm % 32 ELSE d.imm
      op  == CASE d.exc # "NONE"         -> d.exc
               [] d.exc = "NONE" /\ d.branch_type # "NONE" -> d.branch_type
               [] d.mem_read /\ d.size = "W"  -> "LW"
               [] d.mem_write /\ d.size = "W" -> "SW"
               [] OTHER                  -> d.alu_op
  IN  Effect(op, rd, e.rs1, e.rs2, imm)

(***************************************************************************)
(* Properties.                                                             *)
(***************************************************************************)

\* A compressed halfword, expanded and decoded, does what the manual's table
\* says it does, with every bit of its scrambled immediate in its place; the
\* code calls these forms "pending exhaustive sim verification".  A halfword
\* of no row (a hint, a reserved value, an RV64 form) never becomes a memory
\* access or a jump.
ExpansionIsTheIsa ==
  src.compressed =>
    LET meanings == Meanings(src.half)
    IN  IF meanings = {} THEN Decoded.op \notin {"LW", "SW", "JAL", "JALR", "BEQ", "BNE"}
        ELSE meanings = {Decoded}

\* The predictor's decoder agrees with the real one on what is control flow,
\* of which kind and how far: execute recovers only from what the real one
\* calls a branch, so a redirect for anything else would never be undone.
FastPathAgrees ==
  LET d == de_controls.d
  IN  /\ (cf_jal \/ cf_jalr \/ cf_cond) = (d.branch_type # "NONE")
      /\ cf_cond = (d.branch_type \notin {"NONE", "JAL", "JALR"})
      /\ cf_ret = (d.branch_type = "JALR" /\ src_instr32.rs1 \in {1, 5} /\ src_instr32.rd = 0)
      /\ cf_jal \/ cf_cond => pred_imm = d.imm
=============================================================================
