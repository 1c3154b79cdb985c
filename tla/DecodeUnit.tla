----------------------------- MODULE DecodeUnit -----------------------------
(***************************************************************************)
(* Decode behind fetch.  Fetch is taken at its promise, FetchStream, which *)
(* FetchUnit is shown to keep; execute is the environment: in any cycle it *)
(* may redirect anywhere, stall, or let the pipeline go.                   *)
(***************************************************************************)
EXTENDS DecodeStage

CONSTANTS
  IMEM_BLOCKS, BOOT_ADDR,
  Image,     \* Image[block][word][half]
  ZERO,
  BUF_DEPTH

ASSUME DecodeAssumption ==
  /\ BLOCKS \in Nat \ {0} /\ IMEM_BLOCKS \in 0 .. BLOCKS
  /\ BOOT_ADDR \in 0 .. (4 * BLOCKS - 1) /\ BUF_DEPTH \in Nat \ {0, 1}
  /\ PHT \in [0 .. (4 * BLOCKS - 1) -> BOOLEAN]
  /\ NoAddr \notin Int
  /\ \A b \in 0 .. (IMEM_BLOCKS - 1), w, h \in 0 .. 1 :
       Image[b][w][h].wide \in BOOLEAN /\ Image[b][w][h].off \in Int

VARIABLES
  next, redir,   \* the rest of FetchStream's state
  ipc            \* history: address of the next instruction on the path

unitVars == <<decodeVars, queue, next, redir, ipc>>

F == INSTANCE FetchStream

Init ==
  /\ F!Init
  /\ hold_q = FALSE /\ hold_word_q = ZERO[0] /\ hold_pc_q = 0 /\ hold_pred_q = FALSE
  /\ de_q = Bubble
  /\ ipc = BOOT_ADDR

\* An access fault in D/E makes execute trap, which is a redirect.
Goes == ~(de_q.valid /\ de_q.fault)

Redirect(target) == F!Redirect(target) /\ DecodeFlush /\ ipc' = target

Stall(pushed) == F!Advance(0, pushed) /\ DecodeStall /\ UNCHANGED ipc

Take(ras, pushed) ==
  /\ Goes
  /\ ~pred_redirect(ras)
  /\ F!Advance(fe_pop, pushed)
  /\ DecodeTake(ras)
  /\ ipc' = IF decoded_valid THEN Advance(ipc, Len(src_halves)) ELSE ipc

Predict(ras) ==
  /\ Goes
  /\ pred_redirect(ras)
  /\ F!Redirect(cf_target(ras))
  /\ DecodePredict(ras)
  /\ ipc' = cf_target(ras)

Next ==
  \/ \E target \in F!Addr : Redirect(target)
  \/ \E pushed \in 0 .. 2 : Stall(pushed)
  \/ \E ras \in F!Addr \cup {NoAddr}, pushed \in 0 .. 2 : Take(ras, pushed)
  \/ \E ras \in F!Addr \cup {NoAddr} : Predict(ras)

Spec == Init /\ [][Next]_unitVars

(***************************************************************************)
(* Properties.                                                             *)
(***************************************************************************)

\* Decode delivers the program: no instruction is dropped, repeated, torn or
\* put together from the wrong halfwords, whatever the alignment, whenever
\* words arrive, and wherever execute and the predictions steer; each carries
\* its own address and its own halfword's direction bit.
Instructions == INSTANCE InstrStream WITH de <- de_q, npc <- ipc

ImplementsInstrStream == Instructions!Spec

\* What lets the hold buffer keep one direction bit instead of two, and what
\* the simulation asserts: the stash is always the high half of a word; and
\* it is the half before the one fetch delivers next.
HighHalfStash ==
  hold_q =>
    /\ hold_pc_q % 2 = 1
    /\ Advance(hold_pc_q, 1) = IF queue = << >> THEN next ELSE queue[1].pc

\* "Precise synchronous traps at commit: instruction access fault": the trap
\* names the instruction that could not be fetched.
FaultNamesInstruction ==
  [][de_q'.fault /\ ~de_q.fault => de_q'.pc = ipc]_unitVars
=============================================================================
