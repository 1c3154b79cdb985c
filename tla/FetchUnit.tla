------------------------------ MODULE FetchUnit ------------------------------
(***************************************************************************)
(* fetch_stage wired to its I-mem, a read-only native_ram with two         *)
(* response slots and one-cycle latency.  Decode and execute are the       *)
(* environment: in any cycle execute may redirect anywhere, decode may     *)
(* redirect anywhere, stall, or consume one or two entries.                *)
(***************************************************************************)
EXTENDS Integers, Sequences

CONSTANTS BLOCKS, IMEM_BLOCKS, EXEC_REDIR_INCYCLE, BOOT_ADDR, Image, Instr, ZERO, NoAddr

ASSUME FetchAssumption ==
  /\ IMEM_BLOCKS \in Nat \ {0}
  /\ BLOCKS \in Nat
  /\ IMEM_BLOCKS < BLOCKS
  /\ EXEC_REDIR_INCYCLE \in BOOLEAN
  /\ BOOT_ADDR \in 0 .. (4 * BLOCKS - 1)
  /\ ZERO \in Instr
  /\ Image \in [0 .. (IMEM_BLOCKS - 1) -> [0 .. 1 -> Instr]]
  /\ NoAddr \notin 0 .. (4 * BLOCKS - 1)

VARIABLES
  pc_q, req_pc_q, inflight_q, stale_q, redir_launched_q,
  buf_q, head_q, tail_q, count_q, redir,
  mem, rif_q, rd_d_q, skid_count_q, skid_q   \* the I-mem's registers

Imem == INSTANCE NativeRam WITH
          OUTSTANDING <- 2, READ_ONLY <- TRUE, DEPTH_WORDS <- IMEM_BLOCKS,
          STRB_W <- 2, WORD_UNITS <- 4, LaneVal <- Instr, count_q <- skid_count_q

\* imem_req_o.rready, which the RAM's wready looks through.
imem_rready == stale_q # 0 \/ count_q <= 6

INSTANCE FetchStage WITH
  imem_ready  <- Imem!rsp_wready(imem_rready),
  imem_rvalid <- Imem!rsp_rvalid,
  imem_rdata  <- Imem!rsp_rdata

vars == <<fetchVars, mem, rif_q, rd_d_q, skid_count_q, skid_q>>

ImemTick(branch, pred) ==
  Imem!RamTick(bus_issue(branch, pred), FALSE, issue_addr(branch, pred),
               Imem!ZeroWord, {}, imem_rready)

ExecRedirect(branch, pred) == FetchExecRedirect(branch, pred) /\ ImemTick(branch, pred)
PredRedirect(pred) == FetchPredRedirect(pred) /\ ImemTick(NoAddr, pred)
Run(stall, pop2) == FetchRun(stall, pop2) /\ ImemTick(NoAddr, NoAddr)

Init == FetchInit /\ mem = Image /\ Imem!RamInit

Next ==
  \/ \E branch \in Addr, pred \in Addr \cup {NoAddr} : ExecRedirect(branch, pred)
  \/ \E pred \in Addr : PredRedirect(pred)
  \/ \E stall, pop2 \in BOOLEAN : Run(stall, pop2)

Spec == Init /\ [][Next]_vars

\* The clock does not stop: a cycle without redirect that has an effect is
\* taken eventually, unless redirects keep pre-empting it.
FairSpec == Spec /\ WF_vars(\E stall, pop2 \in BOOLEAN : Run(stall, pop2))

(***************************************************************************)
(* Properties of the composition.                                          *)
(***************************************************************************)

TypeOK == FetchTypeOK /\ Imem!RamTypeOK

\* On this memory a read is answered in the cycle after its launch and the
\* answer is always taken: at most one read is in flight, the RAM's skid is
\* never used and no response is ever owed to a killed path.  (fetch_stage.sv
\* only reports that inflight_q "stays in {0,1}" as measured on four programs.)
OneReadInFlight ==
  /\ inflight_q = IF rif_q THEN 1 ELSE 0
  /\ stale_q = 0
  /\ skid_count_q = 0

\* The read in flight is the one req_pc_q names, and pc_q is the address that
\* follows it; right after a redirect launch the advance is still to come.
ReadMatchesPc ==
  /\ mem = Image
  /\ redir_launched_q => rif_q
  /\ rif_q => /\ rd_d_q = mem[Imem!word_addr(req_pc_q)]
              /\ pc_q = IF redir_launched_q THEN req_pc_q ELSE BlockAfter(req_pc_q, 1)

\* Every entry shown to decode is the word stored at its PC, or the fault of an
\* unfetchable block, and its successor is the next entry shown or, for the
\* youngest, the address fetched next: no gap, repeat or killed-path word.
WindowInOrder ==
  \A s \in Ring :
    Offset(head_q, s) < count_q =>
      /\ buf_q[s] = Stream!Entry(buf_q[s].pc)
      /\ Stream!Succ(buf_q[s].pc) =
           IF Offset(head_q, s) + 1 = count_q THEN NextEntry
           ELSE buf_q[(s + 1) % BUF_DEPTH].pc

\* The invariant the proofs carry.
FetchInv ==
  /\ TypeOK
  /\ OneReadInFlight
  /\ ReservedFits
  /\ tail_q = (head_q + count_q) % BUF_DEPTH
  /\ ReadMatchesPc
  /\ WindowInOrder

\* Unless redirects never cease, decode is shown an entry again and again:
\* no mix of stale responses, faults and full buffers leaves fetch idle.
KeepsDelivering ==
  \/ []<>(count_q # 0)
  \/ []<><<\/ \E branch \in Addr, pred \in Addr \cup {NoAddr} : ExecRedirect(branch, pred)
           \/ \E pred \in Addr : PredRedirect(pred)>>_vars

=============================================================================
