------------------------------- MODULE Decoder -------------------------------
(***************************************************************************)
(* The pure part of decode_stage: expanding a compressed halfword into a   *)
(* 32-bit instruction, decoding that into control signals, and the second, *)
(* faster decoder that tells the branch predictor what kind of control     *)
(* flow a source is and how far it jumps.                                  *)
(*                                                                         *)
(* A halfword is a number; a 32-bit word is the record of its fields.      *)
(* Offsets and immediates are signed integers.  The model keeps one        *)
(* source, as the stage's always_comb sees one per cycle.                  *)
(***************************************************************************)
EXTENDS Integers, Sequences

CONSTANT
  Words     \* the native words considered

VARIABLE
  src       \* [compressed, half, word]: what source selection hands over

Bits(v, hi, lo) == (v \div 2^lo) % 2^(hi - lo + 1)
Bit(v, i) == Bits(v, i, i)

\* The bits of v at the positions listed, most significant first.
Gather(v, positions) ==
  LET g[n \in 0 .. Len(positions)] == IF n = 0 THEN 0 ELSE 2 * g[n - 1] + Bit(v, positions[n])
  IN  g[Len(positions)]

Sext(v, width) == IF v >= 2^(width - 1) THEN v - 2^width ELSE v

(***************************************************************************)
(* The builders of 32-bit words.                                           *)
(***************************************************************************)
mk_r(op, rd, rs1, rs2, f3, f7) ==
  [op |-> op, rd |-> rd, f3 |-> f3, rs1 |-> rs1, rs2 |-> rs2, f7 |-> f7]

mk_i(op, rd, rs1, f3, off) == mk_r(op, rd, rs1, Bits(off, 4, 0), f3, Bits(off, 11, 5))

mk_s(op, rs1, rs2, f3, off) == mk_r(op, Bits(off, 4, 0), rs1, rs2, f3, Bits(off, 11, 5))

mk_b(op, rs1, rs2, f3, off) ==
  mk_r(op, 2 * Bits(off, 4, 1) + Bit(off, 11), rs1, rs2, f3, 64 * Bit(off, 12) + Bits(off, 10, 5))

mk_u(op, rd, off) ==
  mk_r(op, rd, Bits(off, 19, 15), Bits(off, 24, 20), Bits(off, 14, 12), Bits(off, 31, 25))

mk_j(op, rd, off) ==
  mk_r(op, rd, Bits(off, 19, 15), 2 * Bits(off, 4, 1) + Bit(off, 11), Bits(off, 14, 12),
       64 * Bit(off, 20) + Bits(off, 10, 5))

IllegalWord == mk_r("none", 0, 0, 0, 0, 0)

(***************************************************************************)
(* c_expand.                                                               *)
(***************************************************************************)
\* Mutant: the six-bit immediate is not sign-extended.
Imm6Unsigned(c) == Gather(c, <<12, 6, 5, 4, 3, 2>>)

imm6(c) == Sext(Gather(c, <<12, 6, 5, 4, 3, 2>>), 6)

joff(c) == Sext(2 * Gather(c, <<12, 8, 10, 9, 6, 7, 2, 11, 5, 4, 3>>), 12)
boff(c) == Sext(2 * Gather(c, <<12, 6, 5, 2, 11, 10, 4, 3>>), 9)
crd(c)   == 8 + Bits(c, 4, 2)
crs1(c)  == 8 + Bits(c, 9, 7)
rd5(c)   == Bits(c, 11, 7)
rs2_5(c) == Bits(c, 6, 2)

Quadrant0(c) ==
  LET nz    == 4 * Gather(c, <<10, 9, 8, 7, 12, 11, 5, 6>>)
      lwoff == 4 * Gather(c, <<5, 12, 11, 10, 6>>)
  IN  CASE Bits(c, 15, 13) = 0 /\ nz # 0 -> mk_i("OP_IMM", crd(c), 2, 0, nz)
        [] Bits(c, 15, 13) = 2 -> mk_i("LOAD", crd(c), crs1(c), 2, lwoff)
        [] Bits(c, 15, 13) = 6 -> mk_s("STORE", crs1(c), crd(c), 2, lwoff)
        [] OTHER -> IllegalWord

\* c.srli, c.srai, c.andi, then c.sub, c.xor, c.or, c.and.
Arithmetic(c) ==
  CASE Bits(c, 11, 10) = 0 -> mk_i("OP_IMM", crs1(c), crs1(c), 5, rs2_5(c))
    [] Bits(c, 11, 10) = 1 -> mk_i("OP_IMM", crs1(c), crs1(c), 5, 1024 + rs2_5(c))
    [] Bits(c, 11, 10) = 2 -> mk_i("OP_IMM", crs1(c), crs1(c), 7, imm6(c))
    [] Bits(c, 11, 10) = 3 ->
         mk_r("OP", crs1(c), crs1(c), crd(c), <<0, 4, 6, 7>>[Bits(c, 6, 5) + 1],
              IF Bits(c, 6, 5) = 0 THEN 32 ELSE 0)

Quadrant1(c) ==
  LET f3 == Bits(c, 15, 13)
      rd == rd5(c)
      nz == 16 * Sext(Gather(c, <<12, 4, 3, 5, 2, 6>>), 6)
  IN  CASE f3 = 0 /\ (rd # 0 \/ imm6(c) = 0) -> mk_i("OP_IMM", rd, rd, 0, imm6(c))
        [] f3 = 1 -> mk_j("JAL", 1, joff(c))
        [] f3 = 2 /\ rd # 0 -> mk_i("OP_IMM", rd, 0, 0, imm6(c))
        [] f3 = 3 /\ rd = 2 /\ nz # 0 -> mk_i("OP_IMM", 2, 2, 0, nz)
        [] f3 = 3 /\ rd \notin {0, 2} /\ imm6(c) # 0 -> mk_u("LUI", rd, 4096 * imm6(c))
        [] f3 = 4 -> Arithmetic(c)
        [] f3 = 5 -> mk_j("JAL", 0, joff(c))
        [] f3 = 6 -> mk_b("BRANCH", crs1(c), 0, 0, boff(c))
        [] f3 = 7 -> mk_b("BRANCH", crs1(c), 0, 1, boff(c))
        [] OTHER -> IllegalWord

Quadrant2(c) ==
  LET f3 == Bits(c, 15, 13)
      rd == rd5(c)
      rs2 == rs2_5(c)
      lwsp == 4 * Gather(c, <<3, 2, 12, 6, 5, 4>>)
      swsp == 4 * Gather(c, <<8, 7, 12, 11, 10, 9>>)
  IN  CASE f3 = 0 /\ rd # 0 -> mk_i("OP_IMM", rd, rd, 1, rs2)
        [] f3 = 2 /\ rd # 0 -> mk_i("LOAD", rd, 2, 2, lwsp)
        [] f3 = 4 /\ rd = 0 /\ rs2 = 0 -> mk_i("SYSTEM", 0, 0, 0, 1)
        [] f3 = 4 /\ rd # 0 /\ rs2 = 0 -> mk_i("JALR", Bit(c, 12), rd, 0, 0)
        [] f3 = 4 /\ rd # 0 /\ rs2 # 0 -> mk_r("OP", rd, IF Bit(c, 12) = 1 THEN rd ELSE 0, rs2, 0, 0)
        [] f3 = 6 -> mk_s("STORE", 2, rs2, 2, swsp)
        [] OTHER -> IllegalWord

c_expand(c) ==
  CASE Bits(c, 1, 0) = 0 -> Quadrant0(c)
    [] Bits(c, 1, 0) = 1 -> Quadrant1(c)
    [] Bits(c, 1, 0) = 2 -> Quadrant2(c)
    [] OTHER -> IllegalWord

\* The word the uniform decoder sees.
src_instr32 == IF src.compressed THEN c_expand(src.half) ELSE src.word

(***************************************************************************)
(* Immediates of a 32-bit word.                                            *)
(***************************************************************************)
imm_i(w) == Sext(32 * w.f7 + w.rs2, 12)
imm_s(w) == Sext(32 * w.f7 + w.rd, 12)
imm_b(w) ==
  Sext(4096 * Bit(w.f7, 6) + 2048 * Bit(w.rd, 0) + 32 * Bits(w.f7, 5, 0) + 2 * Bits(w.rd, 4, 1), 13)
imm_u(w) == 4096 * Sext(8192 * w.f7 + 256 * w.rs2 + 8 * w.rs1 + w.f3, 20)
imm_j(w) ==
  Sext(1048576 * Bit(w.f7, 6) + 32768 * w.rs1 + 4096 * w.f3 + 2048 * Bit(w.rs2, 0)
       + 32 * Bits(w.f7, 5, 0) + 2 * Bits(w.rs2, 4, 1), 21)
funct12(w) == 32 * w.f7 + w.rs2

(***************************************************************************)
(* The uniform decoder, one arm per major opcode.                          *)
(***************************************************************************)
Default ==
  [illegal |-> TRUE, reg_write |-> FALSE, mem_read |-> FALSE, mem_write |-> FALSE,
   size |-> "W", unsigned |-> FALSE, shamt |-> 0, branch_type |-> "NONE",
   alu_op |-> "ADD", alu_src_a |-> "RS1", alu_src_b |-> "IMM", wb_src |-> "ALU",
   uses_rs1 |-> FALSE, uses_rs2 |-> FALSE, imm |-> 0,
   csr_wren |-> FALSE, csr_op |-> "NONE", sys_op |-> "NONE", exc |-> "NONE"]

Lui(w)   == [Default EXCEPT !.illegal = FALSE, !.reg_write = TRUE, !.imm = imm_u(w)]
Auipc(w) == [Lui(w) EXCEPT !.alu_src_a = "PC"]
Jal(w)   == [Default EXCEPT !.illegal = FALSE, !.reg_write = TRUE, !.alu_src_a = "PC",
                            !.wb_src = "PC4", !.branch_type = "JAL", !.imm = imm_j(w)]
Jalr(w)  ==
  IF w.f3 # 0 THEN Default
  ELSE [Default EXCEPT !.illegal = FALSE, !.reg_write = TRUE, !.wb_src = "PC4",
                       !.branch_type = "JALR", !.uses_rs1 = TRUE, !.imm = imm_i(w)]

BranchTypes == <<"BEQ", "BNE", "NONE", "NONE", "BLT", "BGE", "BLTU", "BGEU">>
Branch(w) ==
  [Default EXCEPT !.illegal = w.f3 \in {2, 3}, !.branch_type = BranchTypes[w.f3 + 1],
                  !.alu_op = "SUB", !.alu_src_b = "RS2",
                  !.uses_rs1 = TRUE, !.uses_rs2 = TRUE, !.imm = imm_b(w)]

LoadSize(w) ==
  CASE w.f3 \in {0, 4} -> "B"
    [] w.f3 \in {1, 5} -> "H"
    [] OTHER           -> "W"
Load(w) ==
  [Default EXCEPT !.illegal = w.f3 \notin {0, 1, 2, 4, 5}, !.reg_write = TRUE, !.wb_src = "MEM",
                  !.mem_read = TRUE, !.size = LoadSize(w), !.unsigned = w.f3 \in {4, 5},
                  !.uses_rs1 = TRUE, !.imm = imm_i(w)]
Store(w) ==
  [Default EXCEPT !.illegal = w.f3 > 2, !.mem_write = TRUE, !.size = LoadSize(w),
                  !.uses_rs1 = TRUE, !.uses_rs2 = TRUE, !.imm = imm_s(w)]

AluOps == <<"ADD", "SLL", "SLT", "SLTU", "XOR", "SRL", "OR", "AND">>
MulOps == <<"MUL", "MULH", "MULHSU", "MULHU", "DIV", "DIVU", "REM", "REMU">>

OpImm(w) ==
  [Default EXCEPT !.illegal = \/ w.f3 = 1 /\ w.f7 # 0
                              \/ w.f3 = 5 /\ w.f7 \notin {0, 32},
                  !.reg_write = TRUE, !.uses_rs1 = TRUE, !.imm = imm_i(w),
                  !.alu_op = IF w.f3 = 5 /\ Bit(w.f7, 5) = 1 THEN "SRA" ELSE AluOps[w.f3 + 1]]
Op(w) ==
  [Default EXCEPT !.illegal = w.f7 \notin {0, 1, 32}, !.reg_write = TRUE, !.alu_src_b = "RS2",
                  !.uses_rs1 = TRUE, !.uses_rs2 = TRUE,
                  !.alu_op = CASE w.f7 = 1 -> MulOps[w.f3 + 1]
                               [] w.f7 # 1 /\ w.f3 = 0 /\ Bit(w.f7, 5) = 1 -> "SUB"
                               [] w.f7 # 1 /\ w.f3 = 5 /\ Bit(w.f7, 5) = 1 -> "SRA"
                               [] OTHER -> AluOps[w.f3 + 1]]

\* Zilx: funct5 is the mode, the aq and rl bits are reserved.
zilx_ok(w) ==
  /\ w.f3 \in {0, 1, 2, 4, 5}
  /\ \/ w.f7 = 4 * 18 /\ w.f3 % 4 # 0
     \/ w.f7 = 4 * 26
Amo(w) ==
  LET shamt == IF w.f7 # 4 * 26 \/ LoadSize(w) = "B" THEN 0
               ELSE IF LoadSize(w) = "H" THEN 1 ELSE 2
  IN  IF ~zilx_ok(w) THEN Default
      ELSE [Default EXCEPT !.illegal = FALSE, !.reg_write = TRUE, !.mem_read = TRUE,
                           !.wb_src = "MEM", !.alu_op = "LX", !.alu_src_a = "RS2",
                           !.alu_src_b = "RS1", !.uses_rs1 = TRUE, !.uses_rs2 = TRUE,
                           !.size = LoadSize(w), !.unsigned = w.f3 \in {4, 5}, !.shamt = shamt]

CsrOps == <<"RW", "RS", "RC", "NONE", "RWI", "RSI", "RCI">>
System(w) ==
  CASE w.f3 # 0 ->
         [Default EXCEPT !.illegal = w.f3 = 4, !.reg_write = TRUE, !.wb_src = "CSR",
                         !.csr_wren = TRUE, !.csr_op = CsrOps[w.f3], !.uses_rs1 = w.f3 < 4,
                         !.imm = IF w.f3 > 4 THEN w.rs1 ELSE 0]
    [] w.f3 = 0 /\ funct12(w) = 0 ->
         [Default EXCEPT !.illegal = FALSE, !.sys_op = "ECALL", !.exc = "ECALL_M"]
    [] w.f3 = 0 /\ funct12(w) = 1 ->
         [Default EXCEPT !.illegal = FALSE, !.sys_op = "EBREAK", !.exc = "BREAKPOINT"]
    [] w.f3 = 0 /\ w.f7 = 8 /\ w.rs2 = 5 /\ w.rs1 = 0 ->
         [Default EXCEPT !.illegal = FALSE, !.sys_op = "WFI"]
    [] w.f3 = 0 /\ w.f7 = 24 /\ w.rs2 = 2 /\ w.rs1 = 0 ->
         [Default EXCEPT !.illegal = FALSE, !.sys_op = "MRET"]
    [] OTHER -> Default

MiscMem(w) ==
  IF w.f3 > 1 THEN Default
  ELSE [Default EXCEPT !.illegal = FALSE, !.sys_op = IF w.f3 = 0 THEN "FENCE" ELSE "FENCE_I"]

decode(w) ==
  CASE w.op = "LUI"    -> Lui(w)
    [] w.op = "AUIPC"  -> Auipc(w)
    [] w.op = "JAL"    -> Jal(w)
    [] w.op = "JALR"   -> Jalr(w)
    [] w.op = "BRANCH" -> Branch(w)
    [] w.op = "LOAD"   -> Load(w)
    [] w.op = "STORE"  -> Store(w)
    [] w.op = "OP_IMM" -> OpImm(w)
    [] w.op = "OP"     -> Op(w)
    [] w.op = "AMO"    -> Amo(w)
    [] w.op = "SYSTEM" -> System(w)
    [] w.op = "MISC_MEM" -> MiscMem(w)
    [] OTHER           -> Default

\* An illegal instruction does nothing but trap.
squash(d) ==
  IF d.illegal
    THEN [d EXCEPT !.exc = "ILLEGAL", !.reg_write = FALSE, !.mem_read = FALSE,
                   !.mem_write = FALSE, !.csr_wren = FALSE, !.branch_type = "NONE"]
    ELSE d

\* The fields of the D/E word the decoder fills from the source.
de_controls ==
  LET w == src_instr32
      d == squash(decode(w))
  IN  [d |-> d, rd |-> w.rd,
       rs1 |-> IF d.uses_rs1 THEN w.rs1 ELSE 0,
       rs2 |-> IF d.uses_rs2 THEN w.rs2 ELSE 0]

(***************************************************************************)
(* The predictor's decoder, off the source halves.                         *)
(***************************************************************************)
cf_c_jal(c)  == Bits(c, 1, 0) = 1 /\ Bits(c, 15, 13) \in {1, 5}
cf_c_cond(c) == Bits(c, 1, 0) = 1 /\ Bits(c, 15, 14) = 3

\* Mutant: c.ebreak is taken for a jump.
EbreakJumps(c) == Bits(c, 1, 0) = 2 /\ Bits(c, 15, 13) = 4 /\ rs2_5(c) = 0

cf_c_jalr(c) == Bits(c, 1, 0) = 2 /\ Bits(c, 15, 13) = 4 /\ rs2_5(c) = 0 /\ rd5(c) # 0
cf_c_ret(c)  == cf_c_jalr(c) /\ Bit(c, 12) = 0 /\ rd5(c) \in {1, 5}

cf_n_jal(w)  == w.op = "JAL"
cf_n_jalr(w) == w.op = "JALR" /\ w.f3 = 0
cf_n_cond(w) == w.op = "BRANCH" /\ w.f3 \div 2 # 1
cf_n_ret(w)  == cf_n_jalr(w) /\ w.rd = 0 /\ w.rs1 \in {1, 5}

cf_jal  == IF src.compressed THEN cf_c_jal(src.half)  ELSE cf_n_jal(src.word)
cf_cond == IF src.compressed THEN cf_c_cond(src.half) ELSE cf_n_cond(src.word)
cf_jalr == IF src.compressed THEN cf_c_jalr(src.half) ELSE cf_n_jalr(src.word)
cf_ret  == IF src.compressed THEN cf_c_ret(src.half)  ELSE cf_n_ret(src.word)

pred_cj_imm(c) == Sext(2 * Gather(c, <<12, 8, 10, 9, 6, 7, 2, 11, 5, 4, 3>>), 12)
pred_cb_imm(c) == Sext(2 * Gather(c, <<12, 6, 5, 2, 11, 10, 4, 3>>), 9)

pred_imm ==
  IF src.compressed
    THEN IF Bit(src.half, 14) = 1 THEN pred_cb_imm(src.half) ELSE pred_cj_imm(src.half)
    ELSE IF src.word.op = "JAL" THEN imm_j(src.word) ELSE imm_b(src.word)

(***************************************************************************)
(* Every halfword in turn, in 256 lanes, and the native words.             *)
(***************************************************************************)
Compressed(c) == [compressed |-> TRUE, half |-> c, word |-> IllegalWord]
Native(w)     == [compressed |-> FALSE, half |-> 0, word |-> w]

InitSource ==
  \/ \E lane \in 0 .. 255 : Bits(lane, 1, 0) # 3 /\ src = Compressed(lane)
  \/ \E w \in Words : src = Native(w)

NextHalf ==
  /\ src.compressed
  /\ src' = Compressed((src.half + 256) % 65536)

NextSource == NextHalf \/ (~src.compressed /\ UNCHANGED src)

SourceSpec == InitSource /\ [][NextSource]_src
=============================================================================
