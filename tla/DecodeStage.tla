----------------------------- MODULE DecodeStage -----------------------------
(***************************************************************************)
(* decode_stage: finding the instructions in the words fetch delivers.     *)
(* Instructions are one or two halfwords at any halfword address, so the   *)
(* upper half of a word may be an instruction of its own, or the first     *)
(* half of one that ends in the next word; it waits in the hold buffer.    *)
(*                                                                         *)
(* A word is a function from 0 .. 1 (low, high half) to halfwords.  A      *)
(* halfword says whether an instruction that starts with it is wide (its   *)
(* bits [1:0] are 11), what control flow that instruction is, and by how   *)
(* much it jumps.  The rest of the encoding is not looked at here: what    *)
(* the opcode tables make of it are the instructions of ExecUnit, and how  *)
(* a compressed halfword is expanded is Decoder.  Addresses count        *)
(* halfwords.                                                              *)
(***************************************************************************)
EXTENDS Integers, Sequences

CONSTANTS
  BLOCKS,
  PHT,       \* the direction bit pushed with the halfword at an address
  NoAddr

VARIABLES
  queue,     \* input: the entries [pc, instr, fault] of the fetch buffer
  hold_q, hold_word_q, hold_pc_q, hold_pred_q,
  de_q       \* the D/E register

decodeVars == <<hold_q, hold_word_q, hold_pc_q, hold_pred_q, de_q>>

Advance(a, n) == (a + n) % (4 * BLOCKS)

Bubble == [valid |-> FALSE, pc |-> 0, halves |-> << >>, fault |-> FALSE, pred |-> NoAddr]

\* The fetch buffer's two read ports.
fe_valid      == Len(queue) > 0
fe_next_valid == Len(queue) > 1
fe            == queue[1]
fe_next       == queue[2]
PredHi(entry) == PHT[2 * (entry.pc \div 2) + 1]
PredLo(entry) == PHT[2 * (entry.pc \div 2)]

(***************************************************************************)
(* What stands at the head of the stream.                                  *)
(***************************************************************************)
hold_plain_pending == hold_q /\ ~hold_word_q.wide
span_pending       == hold_q /\ hold_word_q.wide

\* Mutant: a fault entry goes before the stashed instruction.
TakeFaultFirst == fe_valid /\ fe.fault

take_fault == fe_valid /\ fe.fault /\ ~hold_plain_pending

span_complete == ~take_fault /\ span_pending /\ fe_valid
span_wait     == ~take_fault /\ span_pending /\ ~fe_valid
target_upper  == ~take_fault /\ ~hold_q /\ fe_valid /\ fe.pc % 2 = 1
target_span   == target_upper /\ fe.instr[1].wide

target_span_complete == target_span /\ fe_next_valid /\ ~fe_next.fault
target_span_wait     == target_span /\ ~target_span_complete

fe_is_compressed == ~fe.instr[0].wide
buffer_upper     == ~hold_q /\ ~target_upper /\ fe_valid /\ fe_is_compressed

decoded_valid ==
  \/ take_fault \/ span_complete \/ hold_plain_pending
  \/ fe_valid /\ ~hold_q /\ ~target_span_wait

src_pc == IF span_complete \/ hold_plain_pending THEN hold_pc_q ELSE fe.pc

\* The halfwords of the instruction decoded.
src_halves ==
  IF take_fault                THEN << >>
  ELSE IF span_complete        THEN <<hold_word_q, fe.instr[0]>>
  ELSE IF hold_plain_pending   THEN <<hold_word_q>>
  ELSE IF target_span_complete THEN <<fe.instr[1], fe_next.instr[0]>>
  ELSE IF target_upper         THEN <<fe.instr[1]>>
  ELSE IF fe_is_compressed     THEN <<fe.instr[0]>>
  ELSE <<fe.instr[0], fe.instr[1]>>

(***************************************************************************)
(* Prediction at decode.  ras is the top of the return stack, or NoAddr.   *)
(***************************************************************************)
cf == IF src_halves = << >> THEN "none" ELSE src_halves[1].cf

pht_taken_src ==
  IF span_complete \/ hold_plain_pending THEN hold_pred_q
  ELSE IF fe.pc % 2 = 1 THEN PredHi(fe) ELSE PredLo(fe)

cf_taken(ras) == cf = "jal" \/ (cf = "cond" /\ pht_taken_src) \/ (cf = "ret" /\ ras # NoAddr)
cf_target(ras) == IF cf = "ret" THEN ras ELSE Advance(src_pc, src_halves[1].off)

pred_redirect(ras) == decoded_valid /\ cf_taken(ras)

de_d(ras) ==
  IF ~decoded_valid THEN Bubble
  ELSE [valid |-> TRUE, pc |-> src_pc, halves |-> src_halves, fault |-> take_fault,
        pred |-> IF cf_taken(ras) THEN cf_target(ras) ELSE NoAddr]

(***************************************************************************)
(* Back-pressure to fetch, and the entries it may drop.                    *)
(***************************************************************************)
resource_stall == hold_plain_pending /\ fe_valid

fe_pop == IF ~fe_valid \/ resource_stall THEN 0 ELSE IF target_span_complete THEN 2 ELSE 1

(***************************************************************************)
(* The hold buffer's next state.                                           *)
(***************************************************************************)
Stash(half, pc, pred) ==
  hold_q' = TRUE /\ hold_word_q' = half /\ hold_pc_q' = pc /\ hold_pred_q' = pred
Keep == UNCHANGED <<hold_q, hold_word_q, hold_pc_q, hold_pred_q>>
Drop == hold_q' = FALSE /\ UNCHANGED <<hold_word_q, hold_pc_q, hold_pred_q>>

HoldStall == IF take_fault THEN Drop ELSE Keep
HoldNext ==
  IF take_fault                THEN Drop
  ELSE IF span_wait            THEN Keep
  ELSE IF span_complete        THEN Stash(fe.instr[1], Advance(fe.pc, 1), PredHi(fe))
  ELSE IF hold_plain_pending   THEN Drop
  ELSE IF target_span_complete THEN Stash(fe_next.instr[1], Advance(fe_next.pc, 1), PredHi(fe_next))
  ELSE IF target_span_wait     THEN Stash(fe.instr[1], fe.pc, PredHi(fe))
  ELSE IF buffer_upper         THEN Stash(fe.instr[1], Advance(fe.pc, 1), PredHi(fe))
  ELSE Drop

(***************************************************************************)
(* One clock edge, by what execute says: flush, stall, or neither; and in  *)
(* the last case by whether the instruction decoded is predicted taken.    *)
(***************************************************************************)
DecodeFlush     == Drop /\ de_q' = Bubble
DecodeStall     == HoldStall /\ UNCHANGED de_q
DecodeTake(ras) == HoldNext /\ de_q' = de_d(ras)

\* Mutant: what follows a predicted jump in its word stays in the buffer.
PredictKeepsHalf(ras) == HoldNext /\ de_q' = de_d(ras)

DecodePredict(ras) == Drop /\ de_q' = de_d(ras)
=============================================================================
