----------------------------- MODULE FetchStage ------------------------------
(***************************************************************************)
(* fetch_stage: the PC, the outstanding reads, the eight-entry instruction *)
(* buffer and the split of a 64-bit response into 32-bit words.            *)
(* FetchUnit composes it with the block RAM of the design, which drives    *)
(* the three imem_ inputs.                                                 *)
(*                                                                         *)
(* One step is one rising clock edge.  Addresses count halfwords: four     *)
(* make a 64-bit fetch block, two a 32-bit word.                           *)
(***************************************************************************)
EXTENDS Integers, Sequences

CONSTANTS
  BLOCKS,              \* fetch blocks in the address space (the 32-bit PC wraps)
  IMEM_BLOCKS,         \* implemented I-mem blocks, from address 0
  EXEC_REDIR_INCYCLE,  \* TRUE: an execute redirect launches in its own cycle
  BOOT_ADDR,           \* PC after reset
  Image,               \* I-mem contents: block |-> <<low word, high word>> as 0..1
  Instr,               \* 32-bit instruction words
  ZERO,                \* the all-zero word
  NoAddr               \* no redirect this cycle

BUF_DEPTH == 8
Addr  == 0 .. (4 * BLOCKS - 1)
Ring  == 0 .. (BUF_DEPTH - 1)

VARIABLES
  pc_q,              \* next fetch address
  req_pc_q,          \* address of the in-flight read
  inflight_q,        \* outstanding reads
  stale_q,           \* of those, reads owed to a killed path
  redir_launched_q,  \* the redirect cycle already launched at pc_q
  buf_q,             \* buffer slots: buf_instr_q, buf_pc_q, buf_fault_q
  head_q, tail_q, count_q,
  redir,             \* history: target of the redirect in the last cycle, or NoAddr
  imem_ready,        \* input: the memory accepts a request this cycle
  imem_rvalid,       \* input: a response is offered this cycle
  imem_rdata         \* input: its two words

fetchVars == <<pc_q, req_pc_q, inflight_q, stale_q, redir_launched_q,
               buf_q, head_q, tail_q, count_q, redir>>

\* A slot's contents are not kept once it leaves the live window: no output
\* reads it before the next push overwrites it.
Dead == [pc |-> NoAddr, instr |-> ZERO, fault |-> FALSE]
Slot == [pc : Addr, instr : Instr, fault : BOOLEAN] \cup {Dead}

(***************************************************************************)
(* Address arithmetic.                                                     *)
(***************************************************************************)
Block(a)     == a \div 4
OutOfRange(a) == Block(a) >= IMEM_BLOCKS
BlockAfter(a, n) == (4 * (Block(a) + n)) % (4 * BLOCKS)
pc_next_block  == BlockAfter(pc_q, 1)
pc_next_block2 == BlockAfter(pc_q, 2)

(***************************************************************************)
(* Wires.  branch is execute's redirect target, pred decode's; NoAddr when *)
(* the valid line is low.                                                  *)
(***************************************************************************)
pc_fault == OutOfRange(pc_q)

rready  == stale_q # 0 \/ count_q <= 6
rsp_cap == imem_rvalid /\ rready

pred_redirect(branch, pred) == pred # NoAddr /\ branch = NoAddr
redirect(branch, pred)      == branch # NoAddr \/ pred_redirect(branch, pred)
redirect_addr(branch, pred) == IF branch # NoAddr THEN branch ELSE pred

reserved  == count_q + 2 * inflight_q
available == (BUF_DEPTH - reserved) % 32   \* 5-bit, unsigned

incycle_launch(branch, pred) ==
  IF EXEC_REDIR_INCYCLE THEN redirect(branch, pred) ELSE pred_redirect(branch, pred)

issue_addr(branch, pred) ==
  IF incycle_launch(branch, pred) THEN redirect_addr(branch, pred)
  ELSE IF redir_launched_q THEN pc_next_block ELSE pc_q

available_issue(branch, pred) ==
  IF redirect(branch, pred) THEN BUF_DEPTH - 2 * inflight_q ELSE available

exec_redir_hold(branch) == ~EXEC_REDIR_INCYCLE /\ branch # NoAddr

\* Mutant: room for one word suffices to launch a read that pushes two.
BusIssueRoomForOne(branch, pred) ==
  /\ inflight_q < 2
  /\ available_issue(branch, pred) >= 1
  /\ incycle_launch(branch, pred) \/ ~pc_fault
  /\ ~exec_redir_hold(branch)

bus_issue(branch, pred) ==
  /\ inflight_q < 2
  /\ available_issue(branch, pred) >= 2
  /\ incycle_launch(branch, pred) \/ ~pc_fault
  /\ ~exec_redir_hold(branch)

launch(branch, pred) == bus_issue(branch, pred) /\ imem_ready

\* Mutant: faults are left to the response side alone.
FaultPushNever == FALSE

fault_push == pc_fault /\ available >= 1 /\ ~rsp_cap /\ inflight_q = 0

(***************************************************************************)
(* Response split: nothing, one entry or two are pushed in a cycle.        *)
(***************************************************************************)
do_rsp       == rsp_cap /\ stale_q = 0
rsp_fault    == OutOfRange(req_pc_q)
do_rsp_data  == do_rsp /\ ~rsp_fault
do_rsp_fault == do_rsp /\ rsp_fault
rsp_two      == req_pc_q % 4 < 2

push_cnt == IF do_rsp_data THEN (IF rsp_two THEN 2 ELSE 1)
            ELSE IF do_rsp_fault \/ fault_push THEN 1 ELSE 0

\* Mutant: the stamp of a target in the high half is rounded down to the word.
Push0WordAligned ==
  [pc    |-> IF do_rsp THEN (IF rsp_two THEN req_pc_q ELSE 4 * Block(req_pc_q) + 2) ELSE pc_q,
   instr |-> IF do_rsp_data THEN imem_rdata[IF rsp_two THEN 0 ELSE 1] ELSE ZERO,
   fault |-> ~do_rsp_data]

push0 == [pc    |-> IF do_rsp THEN req_pc_q ELSE pc_q,
          instr |-> IF do_rsp_data THEN imem_rdata[IF rsp_two THEN 0 ELSE 1] ELSE ZERO,
          fault |-> ~do_rsp_data]
push1 == [pc |-> 4 * Block(req_pc_q) + 2, instr |-> imem_rdata[1], fault |-> FALSE]

buf_pop_cnt(stall, pop2) ==
  IF count_q # 0 /\ ~stall THEN (IF pop2 THEN 2 ELSE 1) ELSE 0

(***************************************************************************)
(* One clock edge.                                                         *)
(***************************************************************************)

\* Position of slot s in the window that starts at head h.
Offset(h, s) == (s + BUF_DEPTH - h) % BUF_DEPTH

BufferWrite ==
  buf_q' = [s \in Ring |->
              IF Offset(head_q', s) >= count_q' THEN Dead
              ELSE IF push_cnt >= 1 /\ s = tail_q THEN push0
              ELSE IF push_cnt = 2 /\ s = (tail_q + 1) % BUF_DEPTH THEN push1
              ELSE buf_q[s]]

PcAdvance(branch, pred) ==
  pc_q' = IF fault_push THEN pc_next_block
          ELSE IF redir_launched_q
            THEN (IF launch(branch, pred) THEN pc_next_block2 ELSE pc_next_block)
          ELSE IF launch(branch, pred) THEN pc_next_block ELSE pc_q

\* The redirect half of the next-state block: kill the buffer, restart at
\* the target and mark every read still outstanding as stale.  The read
\* launched in this very cycle belongs to the new path.
Kill(branch, pred) ==
  /\ pc_q' = redirect_addr(branch, pred) /\ redir' = redirect_addr(branch, pred)
  /\ head_q' = 0 /\ tail_q' = 0 /\ count_q' = 0
  /\ stale_q' = inflight_q - (IF rsp_cap THEN 1 ELSE 0)

\* The other half: advance the PC, push the response, drain the buffer.
Flow(branch, pred, stall, pop2) ==
  /\ PcAdvance(branch, pred) /\ redir' = NoAddr
  /\ head_q' = (head_q + buf_pop_cnt(stall, pop2)) % BUF_DEPTH
  /\ tail_q' = (tail_q + push_cnt) % BUF_DEPTH
  /\ count_q' = count_q + push_cnt - buf_pop_cnt(stall, pop2)
  /\ stale_q' = IF rsp_cap /\ stale_q # 0 THEN stale_q - 1 ELSE stale_q

\* Read bookkeeping and the buffer write: every cycle.
Clock(branch, pred) ==
  /\ inflight_q' = inflight_q + (IF launch(branch, pred) THEN 1 ELSE 0)
                              - (IF rsp_cap THEN 1 ELSE 0)
  /\ req_pc_q' = IF launch(branch, pred) THEN issue_addr(branch, pred) ELSE req_pc_q
  /\ redir_launched_q' = (incycle_launch(branch, pred) /\ launch(branch, pred))
  /\ BufferWrite

\* Execute redirects (trap, mret, mispredict); decode's prediction of the same
\* cycle is subordinate.
FetchExecRedirect(branch, pred) ==
  branch # NoAddr /\ Kill(branch, pred) /\ Clock(branch, pred)

\* Decode predicts a taken branch.
FetchPredRedirect(pred) ==
  pred # NoAddr /\ Kill(NoAddr, pred) /\ Clock(NoAddr, pred)

\* No redirect.  Decode asks for two entries only when it is shown two.
FetchRun(stall, pop2) ==
  /\ pop2 => count_q >= 2
  /\ Flow(NoAddr, NoAddr, stall, pop2)
  /\ Clock(NoAddr, NoAddr)

FetchInit ==
  /\ pc_q = BOOT_ADDR
  /\ req_pc_q = 0
  /\ inflight_q = 0
  /\ stale_q = 0
  /\ redir_launched_q = FALSE
  /\ redir = NoAddr
  /\ buf_q = [s \in Ring |-> Dead]
  /\ head_q = 0 /\ tail_q = 0 /\ count_q = 0

(***************************************************************************)
(* Properties.                                                             *)
(***************************************************************************)

FetchTypeOK ==
  /\ pc_q \in Addr
  /\ req_pc_q \in Addr
  /\ inflight_q \in 0 .. 2
  /\ stale_q \in 0 .. 2
  /\ redir_launched_q \in BOOLEAN
  /\ redir \in Addr \cup {NoAddr}
  /\ buf_q \in [Ring -> Slot]
  /\ head_q \in Ring
  /\ tail_q \in Ring
  /\ count_q \in 0 .. BUF_DEPTH

\* Every outstanding read has two buffer entries set aside for it, so a
\* response always finds room (the second assertion of fetch_stage.sv: a
\* breach would wrap the unsigned "available" and open the issue gate).
ReservedFits == reserved <= BUF_DEPTH

\* req_pc_q is one register: a read may be launched, whoever redirects, only
\* when the previous one is answered in the same cycle (the first assertion
\* of fetch_stage.sv, "an assumption about the slave").
ReqPcNotOverwritten ==
  \A branch, pred \in Addr \cup {NoAddr} :
    launch(branch, pred) => inflight_q = 0 \/ rsp_cap

\* The entries shown to decode, and the address of the entry after them: the
\* live outstanding read's, if there is one, else the next fetch address.
Window == [i \in 1 .. count_q |-> buf_q[(head_q + i - 1) % BUF_DEPTH]]
NextEntry == IF inflight_q > stale_q THEN req_pc_q ELSE pc_q

\* Fetch implements the instruction stream: whatever redirects and stalls
\* happen, decode sees the words of the current path, in order, once each,
\* each with its own PC, and never a word of a killed path.
Stream == INSTANCE FetchStream WITH queue <- Window, next <- NextEntry
ImplementsStream == Stream!Spec
=============================================================================
