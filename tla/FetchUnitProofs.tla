--------------------------- MODULE FetchUnitProofs ---------------------------
(* Proofs about fetch_stage on its block RAM, for every memory size, image *)
(* and boot address and for both settings of EXEC_REDIR_INCYCLE.           *)
EXTENDS FetchUnit, SequenceTheorems, TLAPS

\* The control part of the invariant: registers that steer the handshake.
CtlInv ==
  /\ inflight_q \in 0 .. 2 /\ count_q \in 0 .. BUF_DEPTH
  /\ rif_q \in BOOLEAN /\ redir_launched_q \in BOOLEAN
  /\ OneReadInFlight
  /\ ReservedFits
  /\ redir_launched_q => rif_q

\* With the skid empty and no stale read, the RAM's outputs are those of a
\* one-cycle memory: the landing read is taken and a request is accepted.
LEMMA OneCycleMemory ==
  ASSUME CtlInv
  PROVE  /\ rsp_cap <=> rif_q
         /\ Imem!rsp_wready(imem_rready)
         /\ Imem!new_count(imem_rready) = 0
         /\ Imem!rsp_rdata = rd_d_q
         /\ available = BUF_DEPTH - reserved
  BY DEF CtlInv, OneReadInFlight, ReservedFits, reserved, available, BUF_DEPTH,
         rsp_cap, rready, imem_rready, Imem!rsp_wready, Imem!new_count,
         Imem!write_idx, Imem!land_stored, Imem!land_consumed, Imem!skid_pop,
         Imem!rsp_rdata, Imem!rsp_rvalid

\* What every clock edge does to the read in flight, whoever redirects.
LEMMA ClockEdge ==
  ASSUME CtlInv, NEW branch, NEW pred,
         Clock(branch, pred), ImemTick(branch, pred)
  PROVE  /\ rif_q' = launch(branch, pred)
         /\ rif_q' \in BOOLEAN
         /\ skid_count_q' = 0
         /\ inflight_q' = IF launch(branch, pred) THEN 1 ELSE 0
         /\ launch(branch, pred) <=> bus_issue(branch, pred)
         /\ req_pc_q' = IF launch(branch, pred) THEN issue_addr(branch, pred) ELSE req_pc_q
         /\ redir_launched_q' = (incycle_launch(branch, pred) /\ launch(branch, pred))
         /\ mem' = mem
         /\ rd_d_q' = IF launch(branch, pred)
                        THEN mem[Imem!word_addr(issue_addr(branch, pred))] ELSE rd_d_q
  <1>1. launch(branch, pred) <=> bus_issue(branch, pred)
    BY OneCycleMemory DEF launch
  <1>2. launch(branch, pred) \in BOOLEAN
    BY DEF launch
  <1>3. launch(branch, pred) <=> Imem!launch_hs(bus_issue(branch, pred), imem_rready)
    BY OneCycleMemory DEF launch, Imem!launch_hs
  <1>4. /\ rif_q' = launch(branch, pred)
        /\ rd_d_q' = IF launch(branch, pred)
                       THEN mem[Imem!word_addr(issue_addr(branch, pred))] ELSE rd_d_q
    BY <1>2, <1>3 DEF ImemTick, Imem!RamTick, Imem!ReadPort
  <1>5. mem' = mem /\ skid_count_q' = 0
    BY OneCycleMemory DEF ImemTick, Imem!RamTick, Imem!WritePort
  <1>6. inflight_q' = IF launch(branch, pred) THEN 1 ELSE 0
    BY OneCycleMemory DEF Clock, CtlInv, OneReadInFlight
  <1> QED
    BY <1>1, <1>2, <1>4, <1>5, <1>6 DEF Clock

\* Reset establishes the control invariant.
LEMMA CtlInit == Init => CtlInv
  <1> SUFFICES ASSUME Init PROVE CtlInv
    OBVIOUS
  <1>1. rif_q \in BOOLEAN /\ ~rif_q /\ redir_launched_q \in BOOLEAN /\ ~redir_launched_q
    BY Zenon DEF Init, FetchInit, Imem!RamInit
  <1>2. inflight_q = 0 /\ stale_q = 0 /\ skid_count_q = 0 /\ count_q = 0
    BY DEF Init, FetchInit, Imem!RamInit
  <1> QED
    BY <1>1, <1>2 DEF CtlInv, OneReadInFlight, ReservedFits, reserved, BUF_DEPTH

\* A redirect preserves it: the buffer is emptied, so one read always fits.
LEMMA CtlRedirect ==
  ASSUME CtlInv, NEW branch, NEW pred,
         Kill(branch, pred), Clock(branch, pred), ImemTick(branch, pred)
  PROVE  CtlInv'
  <1>1. stale_q' = 0 /\ count_q' = 0
    BY OneCycleMemory DEF Kill, CtlInv, OneReadInFlight
  <1>2. redir_launched_q' \in BOOLEAN
    BY ClockEdge
  <1> QED
    BY <1>1, <1>2, ClockEdge
    DEF CtlInv, OneReadInFlight, ReservedFits, reserved, BUF_DEPTH

\* So does a cycle without redirect: a read is launched only when two entries
\* are free beyond those the landing response fills.
LEMMA CtlRun ==
  ASSUME CtlInv, NEW stall \in BOOLEAN, NEW pop2 \in BOOLEAN, Run(stall, pop2)
  PROVE  CtlInv'
  <1>1. Flow(NoAddr, NoAddr, stall, pop2) /\ Clock(NoAddr, NoAddr) /\ ImemTick(NoAddr, NoAddr)
    BY DEF Run, FetchRun
  <1>2. stale_q' = 0
    BY <1>1 DEF Flow, CtlInv, OneReadInFlight
  <1>3. redir_launched_q' \in BOOLEAN /\ ~redir_launched_q'
    <2>1. ~incycle_launch(NoAddr, NoAddr)
      BY DEF incycle_launch, redirect, pred_redirect
    <2> QED
      BY <1>1, <2>1 DEF Clock
  <1>4. /\ push_cnt \in 0 .. 2
        /\ push_cnt <= (IF rif_q THEN 2 ELSE 1)
        /\ ~rif_q /\ push_cnt = 1 => fault_push
    BY OneCycleMemory DEF push_cnt, do_rsp_data, do_rsp_fault, do_rsp, CtlInv
  <1>5. buf_pop_cnt(stall, pop2) \in 0 .. 2 /\ buf_pop_cnt(stall, pop2) <= count_q
    BY DEF buf_pop_cnt, CtlInv, Run, FetchRun
  <1>6. count_q' = count_q + push_cnt - buf_pop_cnt(stall, pop2)
    BY <1>1 DEF Flow
  <1>7. fault_push => count_q < 8 /\ ~launch(NoAddr, NoAddr)
    BY OneCycleMemory, ClockEdge, <1>1
    DEF fault_push, reserved, CtlInv, OneReadInFlight, BUF_DEPTH, bus_issue,
        incycle_launch, redirect, pred_redirect
  <1>8. launch(NoAddr, NoAddr) => count_q + 2 * inflight_q + 2 <= 8
    BY OneCycleMemory, ClockEdge, <1>1
    DEF bus_issue, available_issue, redirect, pred_redirect, reserved, BUF_DEPTH, CtlInv
  <1>9. count_q' \in 0 .. 8 /\ count_q' + 2 * inflight_q' <= 8
    <2>1. inflight_q' = IF launch(NoAddr, NoAddr) THEN 1 ELSE 0
      BY <1>1, ClockEdge
    <2>2. push_cnt = 0 \/ rif_q \/ fault_push
      BY <1>4
    <2> QED
      BY <2>1, <2>2, <1>4, <1>5, <1>6, <1>7, <1>8
      DEF CtlInv, OneReadInFlight, ReservedFits, reserved, BUF_DEPTH
  <1> QED
    BY <1>1, <1>2, <1>3, <1>9, ClockEdge
    DEF CtlInv, OneReadInFlight, ReservedFits, reserved, BUF_DEPTH

LEMMA CtlStep == CtlInv /\ [Next]_vars => CtlInv'
  <1> SUFFICES ASSUME CtlInv, [Next]_vars PROVE CtlInv'
    OBVIOUS
  <1>1. ASSUME NEW branch \in Addr, NEW pred \in Addr \cup {NoAddr},
               ExecRedirect(branch, pred)
        PROVE  CtlInv'
    BY <1>1, CtlRedirect DEF ExecRedirect, FetchExecRedirect
  <1>2. ASSUME NEW pred \in Addr, PredRedirect(pred)
        PROVE  CtlInv'
    BY <1>2, CtlRedirect DEF PredRedirect, FetchPredRedirect
  <1>3. ASSUME NEW stall \in BOOLEAN, NEW pop2 \in BOOLEAN, Run(stall, pop2)
        PROVE  CtlInv'
    BY <1>3, CtlRun
  <1>4. CASE UNCHANGED vars
    BY <1>4 DEF vars, fetchVars, CtlInv, OneReadInFlight, ReservedFits, reserved
  <1> QED
    BY <1>1, <1>2, <1>3, <1>4 DEF Next

-----------------------------------------------------------------------------
(* Address arithmetic. *)

LEMMA ModRange == ASSUME NEW x \in Nat, NEW n \in Nat \ {0}
                  PROVE  x % n \in 0 .. (n - 1)
  OBVIOUS

LEMMA BlockNat == ASSUME NEW a \in Addr
                  PROVE  /\ Block(a) \in Nat /\ Block(a) < BLOCKS
                         /\ 4 * Block(a) <= a /\ a < 4 * Block(a) + 4
  BY FetchAssumption DEF Addr, Block

LEMMA BlockAfterAddr == ASSUME NEW a \in Addr, NEW n \in Nat
                        PROVE  BlockAfter(a, n) \in Addr
  <1>1. 4 * (Block(a) + n) \in Nat
    BY BlockNat
  <1>2. 4 * BLOCKS \in Nat \ {0}
    BY FetchAssumption
  <1> QED
    BY <1>1, <1>2, ModRange DEF BlockAfter, Addr

\* The address of the second word of a block.
LEMMA HighWordAddr == ASSUME NEW a \in Addr
                      PROVE  4 * Block(a) + 2 \in Addr
  <1>1. Block(a) \in Nat /\ Block(a) < BLOCKS
    BY BlockNat
  <1> QED
    BY <1>1, FetchAssumption DEF Addr

LEMMA ModSmall == ASSUME NEW x \in Nat, NEW n \in Nat \ {0}, x < n
                  PROVE  x % n = x
  OBVIOUS

\* An in-range address reads its own block, its low word from lane 0 and its
\* high word from lane 1.
LEMMA OwnWord ==
  ASSUME NEW a \in Addr, ~OutOfRange(a)
  PROVE  /\ Block(a) \in 0 .. (IMEM_BLOCKS - 1)
         /\ Imem!word_addr(a) = Block(a)
         /\ (a \div 2) % 2 = IF a % 4 < 2 THEN 0 ELSE 1
  <1>1. Block(a) \in Nat /\ Block(a) < IMEM_BLOCKS
    BY BlockNat, FetchAssumption DEF OutOfRange
  <1>2. Block(a) % IMEM_BLOCKS = Block(a)
    BY <1>1, ModSmall, FetchAssumption
  <1>3. a \in Nat
    BY DEF Addr
  <1>4. (a \div 2) % 2 = IF a % 4 < 2 THEN 0 ELSE 1
    BY <1>3
  <1> QED
    BY <1>1, <1>2, <1>4, FetchAssumption DEF Imem!word_addr, Block

\* The stream successor, case by case.
LEMMA SuccLow ==
  ASSUME NEW a \in Addr, ~OutOfRange(a), a % 4 < 2
  PROVE  Stream!Succ(a) = 4 * Block(a) + 2
  <1>1. a \in Nat /\ 2 * (a \div 2 + 1) = 4 * (a \div 4) + 2
    BY DEF Addr
  <1>2. 4 * Block(a) + 2 \in Nat /\ 4 * Block(a) + 2 < 4 * BLOCKS
    <2>1. 4 * Block(a) + 2 \in Addr
      BY HighWordAddr
    <2> QED
      BY <2>1, FetchAssumption DEF Addr
  <1>3. 4 * BLOCKS \in Nat \ {0}
    BY FetchAssumption
  <1>4. (4 * Block(a) + 2) % (4 * BLOCKS) = 4 * Block(a) + 2
    BY <1>2, <1>3, ModSmall
  <1>5. Stream!Fetchable(a)
    BY BlockNat, FetchAssumption DEF Stream!Fetchable, OutOfRange, Block
  <1> QED
    BY <1>1, <1>4, <1>5 DEF Stream!Succ, Block

LEMMA SuccHigh ==
  ASSUME NEW a \in Addr, ~OutOfRange(a), a % 4 >= 2
  PROVE  Stream!Succ(a) = BlockAfter(a, 1)
  <1>1. a \in Nat /\ 2 * (a \div 2 + 1) = 4 * (a \div 4 + 1)
    BY DEF Addr
  <1>2. Stream!Fetchable(a)
    BY BlockNat, FetchAssumption DEF Stream!Fetchable, OutOfRange, Block
  <1> QED
    BY <1>1, <1>2 DEF Stream!Succ, BlockAfter, Block

LEMMA SuccFault ==
  ASSUME NEW a \in Addr, OutOfRange(a)
  PROVE  Stream!Succ(a) = BlockAfter(a, 1)
  <1>1. ~Stream!Fetchable(a)
    BY BlockNat, FetchAssumption DEF Stream!Fetchable, OutOfRange, Block
  <1> QED
    BY <1>1 DEF Stream!Succ, BlockAfter, Block

\* The second word of a block follows the first and ends the block.
LEMMA HighWord ==
  ASSUME NEW a \in Addr, ~OutOfRange(a)
  PROVE  /\ ~OutOfRange(4 * Block(a) + 2)
         /\ Block(4 * Block(a) + 2) = Block(a)
         /\ (4 * Block(a) + 2) % 4 = 2
         /\ BlockAfter(4 * Block(a) + 2, 1) = BlockAfter(a, 1)
  <1>1. Block(a) \in Nat
    BY BlockNat
  <1>2. Block(4 * Block(a) + 2) = Block(a) /\ (4 * Block(a) + 2) % 4 = 2
    <2>1. ASSUME NEW b \in Nat PROVE (4 * b + 2) \div 4 = b /\ (4 * b + 2) % 4 = 2
      OBVIOUS
    <2> QED
      BY <1>1, <2>1 DEF Block
  <1> QED
    BY <1>2 DEF OutOfRange, BlockAfter

-----------------------------------------------------------------------------
(* The data invariant. *)

LEMMA InvCtl == FetchInv => CtlInv
  BY DEF FetchInv, TypeOK, FetchTypeOK, Imem!RamTypeOK, ReadMatchesPc, CtlInv

LEMMA InvInit == Init => FetchInv
  <1> SUFFICES ASSUME Init PROVE FetchInv
    OBVIOUS
  <1>1. CtlInv
    BY CtlInit
  <1>2. /\ pc_q \in Addr /\ req_pc_q \in Addr /\ stale_q \in 0 .. 2
        /\ head_q = 0 /\ tail_q = 0 /\ count_q = 0 /\ redir = NoAddr
    BY FetchAssumption DEF Init, FetchInit, Addr
  <1>3. buf_q \in [Ring -> Slot]
    BY DEF Init, FetchInit, Slot
  <1>4. FetchTypeOK
    BY <1>1, <1>2, <1>3 DEF FetchTypeOK, CtlInv, Ring, BUF_DEPTH
  <1>5. Imem!ZeroWord \in Imem!Word
    BY FetchAssumption DEF Imem!ZeroWord, Imem!Word, Imem!Lane
  <1>6. mem \in [Imem!Index -> Imem!Word]
    BY FetchAssumption DEF Init, Imem!Index, Imem!Word, Imem!Lane
  <1>7. Imem!RamTypeOK
    BY <1>1, <1>5, <1>6 DEF Init, Imem!RamInit, Imem!RamTypeOK, CtlInv, OneReadInFlight
  <1>8. ~rif_q /\ ~redir_launched_q /\ mem = Image
    BY Zenon DEF Init, FetchInit, Imem!RamInit
  <1>9. WindowInOrder
    BY <1>2 DEF WindowInOrder, Offset, Ring, BUF_DEPTH
  <1> QED
    BY <1>1, <1>2, <1>4, <1>7, <1>8, <1>9
    DEF FetchInv, TypeOK, CtlInv, ReadMatchesPc, BUF_DEPTH

\* The registers every cycle writes keep their types.
LEMMA TypeEdge ==
  ASSUME FetchInv, NEW branch \in Addr \cup {NoAddr}, NEW pred \in Addr \cup {NoAddr},
         Clock(branch, pred), ImemTick(branch, pred)
  PROVE  /\ Imem!RamTypeOK'
         /\ req_pc_q' \in Addr
         /\ redir_launched_q' \in BOOLEAN
         /\ issue_addr(branch, pred) \in Addr
         /\ rif_q' => rd_d_q' = mem[Imem!word_addr(req_pc_q')]
  <1>1. CtlInv /\ TypeOK
    BY InvCtl DEF FetchInv
  <1>2. issue_addr(branch, pred) \in Addr
    BY <1>1, BlockAfterAddr
    DEF issue_addr, incycle_launch, redirect, pred_redirect, redirect_addr, pc_next_block,
        TypeOK, FetchTypeOK
  <1>3. \A a \in Addr : Imem!word_addr(a) \in Imem!Index
    BY BlockNat, ModRange, FetchAssumption DEF Imem!word_addr, Imem!Index, Block
  <1>4. Imem!ZeroWord \in Imem!Word
    BY FetchAssumption DEF Imem!ZeroWord, Imem!Word, Imem!Lane
  <1>5. skid_q' \in [Imem!Slot -> Imem!Word]
    BY <1>1, <1>4 DEF ImemTick, Imem!RamTick, Imem!SkidAfter, TypeOK, Imem!RamTypeOK, Imem!Slot
  <1>6. mem' = mem /\ rd_d_q' \in Imem!Word /\ rif_q' \in BOOLEAN /\ skid_count_q' \in 0 .. 2
    BY <1>1, <1>2, <1>3, ClockEdge DEF TypeOK, Imem!RamTypeOK
  <1>7. Imem!RamTypeOK'
    BY <1>1, <1>5, <1>6 DEF TypeOK, Imem!RamTypeOK
  <1>8. req_pc_q' \in Addr
    BY <1>1, <1>2, ClockEdge DEF TypeOK, FetchTypeOK
  <1>9. redir_launched_q' \in BOOLEAN
    BY DEF Clock
  <1>10. rif_q' => rd_d_q' = mem[Imem!word_addr(req_pc_q')]
    BY <1>1, ClockEdge
  <1> QED
    BY <1>2, <1>7, <1>8, <1>9, <1>10

LEMMA ModWrap == ASSUME NEW x \in Nat, NEW n \in Nat \ {0}, x < n
                 PROVE  (n + x) % n = x
  OBVIOUS

\* Two one-block advances are one two-block advance, also across the wrap.
LEMMA BlockAfterTwice == ASSUME NEW a \in Addr
                         PROVE  BlockAfter(BlockAfter(a, 1), 1) = BlockAfter(a, 2)
  <1> DEFINE q == Block(a) + 1
  <1>1. q \in Nat /\ q <= BLOCKS /\ BLOCKS \in Nat /\ BLOCKS >= 2
    BY BlockNat, FetchAssumption
  <1>2. Block(4 * q) = q /\ Block(0) = 0
    <2>1. ASSUME NEW b \in Nat PROVE (4 * b) \div 4 = b
      OBVIOUS
    <2> QED
      BY <1>1, <2>1 DEF Block
  <1>3. BlockAfter(a, 1) = (4 * q) % (4 * BLOCKS) /\ BlockAfter(a, 2) = (4 * (q + 1)) % (4 * BLOCKS)
    <2>1. Block(a) \in Nat /\ Block(a) + 2 = q + 1
      BY BlockNat
    <2> QED
      BY <2>1 DEF BlockAfter
  <1>4. CASE q < BLOCKS
    <2>1. BlockAfter(a, 1) = 4 * q
      BY <1>1, <1>3, <1>4, ModSmall
    <2> QED
      BY <2>1, <1>2, <1>3 DEF BlockAfter
  <1>5. CASE q = BLOCKS
    <2>1. BlockAfter(a, 1) = 0
      <3>1. (4 * q) % (4 * q) = 0
        BY <1>1, <1>5, ModWrap
      <3> QED
        BY <3>1, <1>3, <1>5
    <2>2. BlockAfter(0, 1) = 4
      <3>1. 4 % (4 * BLOCKS) = 4
        BY <1>1, ModSmall
      <3> QED
        BY <3>1, <1>2 DEF BlockAfter
    <2>3. (4 * (q + 1)) % (4 * BLOCKS) = 4
      <3>1. 4 * (q + 1) = 4 * BLOCKS + 4
        BY <1>1, <1>5
      <3>2. (4 * BLOCKS + 4) % (4 * BLOCKS) = 4
        BY <1>1, ModWrap
      <3> QED
        BY <3>1, <3>2
    <2> QED
      BY <2>1, <2>2, <2>3, <1>3
  <1> QED
    BY <1>1, <1>4, <1>5

\* A stream entry is a well-typed buffer slot.
LEMMA EntrySlot == ASSUME NEW a \in Addr PROVE Stream!Entry(a) \in Slot
  <1>1. CASE Stream!Fetchable(a)
    <2>1. ~OutOfRange(a)
      BY <1>1, BlockNat, FetchAssumption DEF Stream!Fetchable, OutOfRange, Block
    <2>2. a \div 4 \in 0 .. (IMEM_BLOCKS - 1) /\ (a \div 2) % 2 \in 0 .. 1
      BY <2>1, OwnWord DEF Block
    <2>3. Image[a \div 4][(a \div 2) % 2] \in Instr
      BY <2>2, FetchAssumption
    <2> QED
      BY <1>1, <2>3 DEF Stream!Entry, Slot
  <1>2. CASE ~Stream!Fetchable(a)
    BY <1>2, FetchAssumption DEF Stream!Entry, Slot
  <1> QED
    BY <1>1, <1>2

\* A redirect, from either source.
LEMMA InvRedirect ==
  ASSUME FetchInv, NEW branch \in Addr \cup {NoAddr}, NEW pred \in Addr \cup {NoAddr},
         redirect(branch, pred),
         Kill(branch, pred), Clock(branch, pred), ImemTick(branch, pred)
  PROVE  FetchInv'
  <1>1. CtlInv /\ CtlInv'
    BY InvCtl, CtlRedirect
  <1>2. redirect_addr(branch, pred) \in Addr
    BY DEF redirect, pred_redirect, redirect_addr
  <1>3. /\ pc_q' = redirect_addr(branch, pred) /\ redir' = redirect_addr(branch, pred)
        /\ head_q' = 0 /\ tail_q' = 0 /\ count_q' = 0
    BY DEF Kill
  <1>4. buf_q' \in [Ring -> Slot]
    <2>1. \A s \in Ring : Offset(head_q', s) >= count_q'
      BY <1>3 DEF Offset, Ring, BUF_DEPTH
    <2> QED
      BY <2>1 DEF Clock, BufferWrite, Slot
  <1>5. FetchTypeOK'
    BY <1>1, <1>2, <1>3, <1>4, TypeEdge
    DEF FetchTypeOK, CtlInv, OneReadInFlight, Ring, BUF_DEPTH
  <1>6. WindowInOrder'
    BY <1>3 DEF WindowInOrder, Offset, Ring, BUF_DEPTH
  <1>7. rif_q' => /\ redir_launched_q'
                  /\ req_pc_q' = pc_q'
    <2>1. launch(branch, pred) => incycle_launch(branch, pred)
      BY DEF launch, bus_issue, exec_redir_hold, incycle_launch, redirect
    <2> QED
      BY <1>1, <1>3, <2>1, ClockEdge DEF issue_addr
  <1>8. mem' = Image
    BY <1>1, ClockEdge DEF FetchInv, ReadMatchesPc
  <1>9. ReadMatchesPc'
    BY <1>1, <1>7, <1>8, TypeEdge DEF ReadMatchesPc, CtlInv, FetchInv
  <1> QED
    BY <1>1, <1>3, <1>5, <1>6, <1>9, TypeEdge DEF FetchInv, TypeOK, CtlInv, BUF_DEPTH

\* Without a redirect, what is pushed is exactly the next entries of the
\* stream, and the address that follows them becomes the next one.
LEMMA PushesStream ==
  ASSUME FetchInv, NEW stall \in BOOLEAN, NEW pop2 \in BOOLEAN, Run(stall, pop2)
  PROVE  /\ push_cnt \in 0 .. 2
         /\ NextEntry \in Addr
         /\ pc_q' \in Addr
         /\ push_cnt = 0 => NextEntry' = NextEntry
         /\ push_cnt >= 1 => push0 = Stream!Entry(NextEntry)
         /\ push_cnt = 1 => NextEntry' = Stream!Succ(NextEntry)
         /\ push_cnt = 2 => /\ push1 = Stream!Entry(Stream!Succ(NextEntry))
                            /\ NextEntry' = Stream!Succ(Stream!Succ(NextEntry))
                            /\ Stream!Succ(NextEntry) \in Addr
         /\ rif_q' => pc_q' = BlockAfter(req_pc_q', 1)
  <1> DEFINE launched == launch(NoAddr, NoAddr)
  <1>1. /\ CtlInv /\ CtlInv' /\ FetchTypeOK /\ ReadMatchesPc
        /\ Clock(NoAddr, NoAddr) /\ ImemTick(NoAddr, NoAddr) /\ PcAdvance(NoAddr, NoAddr)
    BY InvCtl, CtlRun DEF FetchInv, TypeOK, Run, FetchRun, Flow
  <1>2. /\ pc_q \in Addr /\ req_pc_q \in Addr
        /\ rif_q \in BOOLEAN /\ rif_q' \in BOOLEAN
        /\ redir_launched_q => rif_q
        /\ NextEntry = IF rif_q THEN req_pc_q ELSE pc_q
        /\ NextEntry' = IF rif_q' THEN req_pc_q' ELSE pc_q'
    BY <1>1 DEF CtlInv, OneReadInFlight, FetchTypeOK, NextEntry
  <1>3. /\ rif_q' = launched
        /\ launched => req_pc_q' = IF redir_launched_q THEN pc_next_block ELSE pc_q
    BY <1>1, ClockEdge DEF issue_addr, incycle_launch, redirect, pred_redirect
  <1>4. pc_next_block \in Addr /\ pc_next_block2 \in Addr /\ pc_next_block2 = BlockAfter(pc_next_block, 1)
    BY <1>2, BlockAfterAddr, BlockAfterTwice DEF pc_next_block, pc_next_block2
  <1>5. pc_q' \in Addr
    BY <1>1, <1>2, <1>4 DEF PcAdvance
  <1>6. fault_push => ~launched /\ ~rif_q
    BY <1>1, OneCycleMemory
    DEF fault_push, launch, bus_issue, incycle_launch, redirect, pred_redirect
  <1>7. rif_q' => pc_q' = BlockAfter(req_pc_q', 1)
    BY <1>1, <1>3, <1>4, <1>6 DEF PcAdvance, pc_next_block, pc_next_block2
  <1>8. CASE rif_q
    <2> DEFINE a == req_pc_q
    <2>1. NextEntry = a /\ a \in Addr /\ do_rsp /\ ~fault_push
      BY <1>1, <1>2, <1>6, <1>8, OneCycleMemory DEF do_rsp, CtlInv, OneReadInFlight
    <2>2. NextEntry' = BlockAfter(a, 1)
      BY <1>1, <1>2, <1>3, <1>8, <2>1 DEF PcAdvance, ReadMatchesPc, pc_next_block
    <2>3. Imem!rsp_rdata = Image[Imem!word_addr(a)]
      BY <1>1, <1>8, OneCycleMemory DEF ReadMatchesPc
    <2>4. CASE OutOfRange(a)
      <3>1. push_cnt = 1
        BY <2>1, <2>4 DEF push_cnt, do_rsp_data, do_rsp_fault, rsp_fault
      <3>2. ~Stream!Fetchable(a)
        BY <2>1, <2>4, BlockNat, FetchAssumption DEF Stream!Fetchable, OutOfRange, Block
      <3>3. push0 = Stream!Entry(a)
        BY <2>1, <2>4, <3>2 DEF push0, do_rsp_data, rsp_fault, Stream!Entry
      <3> QED
        BY <1>5, <1>7, <2>1, <2>2, <2>4, <3>1, <3>3, SuccFault
    <2>5. CASE ~OutOfRange(a)
      <3>1. do_rsp_data
        BY <2>1, <2>5 DEF do_rsp_data, rsp_fault
      <3>2. Stream!Fetchable(a) /\ Block(a) \in Nat
        BY <2>1, <2>5, BlockNat, FetchAssumption DEF Stream!Fetchable, OutOfRange, Block
      <3>3. Imem!rsp_rdata = Image[Block(a)]
        BY <2>1, <2>3, <2>5, OwnWord
      <3>4. (a \div 2) % 2 = IF a % 4 < 2 THEN 0 ELSE 1
        BY <2>1, <2>5, OwnWord
      <3>5. push0 = Stream!Entry(a)
        BY <2>1, <3>1, <3>2, <3>3, <3>4 DEF push0, rsp_two, Stream!Entry, Block
      <3>6. CASE a % 4 >= 2
        <4>1. push_cnt = 1
          BY <2>1, <3>1, <3>6 DEF push_cnt, rsp_two, Addr
        <4> QED
          BY <1>5, <1>7, <2>1, <2>2, <2>5, <3>5, <3>6, <4>1, SuccHigh
      <3>7. CASE a % 4 < 2
        <4> DEFINE h == 4 * Block(a) + 2
        <4>1. push_cnt = 2
          BY <3>1, <3>7 DEF push_cnt, rsp_two
        <4>2. Stream!Succ(a) = h /\ h \in Addr
          BY <2>1, <2>5, <3>7, SuccLow, HighWordAddr
        <4>3. ~OutOfRange(h) /\ Block(h) = Block(a) /\ h % 4 = 2 /\ BlockAfter(h, 1) = BlockAfter(a, 1)
          BY <2>1, <2>5, HighWord
        <4>4. Stream!Succ(h) = BlockAfter(a, 1)
          BY <4>2, <4>3, SuccHigh
        <4>5. (h \div 2) % 2 = 1 /\ Stream!Fetchable(h)
          BY <4>2, <4>3, <3>2, OwnWord DEF Stream!Fetchable, OutOfRange, Block
        <4>6. push1 = Stream!Entry(h)
          BY <4>3, <4>5, <3>3 DEF push1, Stream!Entry, Block
        <4> QED
          BY <1>5, <1>7, <2>1, <2>2, <3>5, <4>1, <4>2, <4>4, <4>6
      <3>8. a % 4 \in 0 .. 3
        BY <2>1 DEF Addr
      <3> QED
        BY <3>6, <3>7, <3>8
    <2> QED
      BY <2>4, <2>5
  <1>9. CASE ~rif_q
    <2>1. NextEntry = pc_q /\ ~do_rsp /\ ~redir_launched_q
      BY <1>1, <1>2, <1>9, OneCycleMemory DEF do_rsp
    <2>2. CASE fault_push
      <3>1. push_cnt = 1 /\ OutOfRange(pc_q)
        BY <2>1, <2>2 DEF push_cnt, do_rsp_data, do_rsp_fault, fault_push, pc_fault
      <3>2. ~Stream!Fetchable(pc_q)
        BY <1>2, <3>1, BlockNat, FetchAssumption DEF Stream!Fetchable, OutOfRange, Block
      <3>3. push0 = Stream!Entry(pc_q)
        BY <2>1, <3>2 DEF push0, do_rsp_data, Stream!Entry
      <3>4. NextEntry' = BlockAfter(pc_q, 1)
        BY <1>1, <1>2, <1>3, <1>6, <2>2 DEF PcAdvance, pc_next_block
      <3> QED
        BY <1>2, <1>5, <1>7, <2>1, <3>1, <3>3, <3>4, SuccFault
    <2>3. CASE ~fault_push
      <3>1. push_cnt = 0
        BY <2>1, <2>3 DEF push_cnt, do_rsp_data, do_rsp_fault
      <3>2. NextEntry' = pc_q
        BY <1>1, <1>2, <1>3, <2>1, <2>3 DEF PcAdvance
      <3> QED
        BY <1>2, <1>5, <1>7, <2>1, <3>1, <3>2
    <2> QED
      BY <2>2, <2>3
  <1> QED
    BY <1>2, <1>8, <1>9

(* Ring positions. *)

LEMMA OffsetNat == ASSUME NEW h \in Ring, NEW s \in Ring
                   PROVE  Offset(h, s) \in Nat
  BY DEF Offset, Ring, BUF_DEPTH

LEMMA RingAdvance ==
  ASSUME NEW h \in Ring, NEW c \in 0 .. 8, NEW n \in 0 .. 2, NEW p \in 0 .. 2, p <= c
  PROVE  (((h + c) % 8) + n) % 8 = (((h + p) % 8) + (c + n - p)) % 8
  BY SMTT(60) DEF Ring, BUF_DEPTH

\* A cycle without redirect: what it pops and pushes fits, and the pointers
\* move with it.
LEMMA RunFlow ==
  ASSUME FetchInv, NEW stall \in BOOLEAN, NEW pop2 \in BOOLEAN, Run(stall, pop2)
  PROVE  /\ buf_pop_cnt(stall, pop2) \in 0 .. 2 /\ buf_pop_cnt(stall, pop2) <= count_q
         /\ push_cnt \in 0 .. 2 /\ count_q + push_cnt <= 8
         /\ head_q \in Ring /\ tail_q \in Ring /\ count_q \in 0 .. 8
         /\ buf_q \in [Ring -> Slot]
         /\ tail_q = (head_q + count_q) % BUF_DEPTH
         /\ head_q' = (head_q + buf_pop_cnt(stall, pop2)) % 8
         /\ tail_q' = (tail_q + push_cnt) % 8
         /\ count_q' = count_q + push_cnt - buf_pop_cnt(stall, pop2)
         /\ redir' = NoAddr
         /\ head_q' \in Ring /\ tail_q' \in Ring
         /\ tail_q' = (head_q' + count_q') % BUF_DEPTH
  <1> DEFINE p == buf_pop_cnt(stall, pop2)
             n == push_cnt
  <1>1. /\ CtlInv /\ CtlInv' /\ FetchTypeOK /\ WindowInOrder
        /\ tail_q = (head_q + count_q) % BUF_DEPTH
        /\ Clock(NoAddr, NoAddr) /\ ImemTick(NoAddr, NoAddr)
    BY InvCtl, CtlRun DEF FetchInv, TypeOK, Run, FetchRun, Flow
  <1>2. /\ head_q \in Ring /\ tail_q \in Ring /\ count_q \in 0 .. 8
        /\ buf_q \in [Ring -> Slot]
    BY <1>1 DEF FetchTypeOK, BUF_DEPTH
  <1>3. p \in 0 .. 2 /\ p <= count_q
    BY <1>2 DEF buf_pop_cnt, Run, FetchRun
  <1>4. n \in 0 .. 2 /\ count_q + n <= 8
    <2>1. n \in 0 .. 2 /\ (n = 0 \/ rif_q \/ (n = 1 /\ fault_push))
      BY <1>1, OneCycleMemory DEF push_cnt, do_rsp_data, do_rsp_fault, do_rsp
    <2>2. fault_push => count_q < 8
      BY <1>1, OneCycleMemory DEF fault_push, reserved, CtlInv, OneReadInFlight, BUF_DEPTH
    <2> QED
      BY <2>1, <2>2, <1>1, <1>2 DEF CtlInv, OneReadInFlight, ReservedFits, reserved, BUF_DEPTH
  <1>5. /\ head_q' = (head_q + p) % 8
        /\ tail_q' = (tail_q + n) % 8
        /\ count_q' = count_q + n - p
        /\ redir' = NoAddr
    BY DEF Run, FetchRun, Flow, BUF_DEPTH
  <1>6. head_q' \in Ring /\ tail_q' \in Ring
    BY <1>2, <1>3, <1>4, <1>5 DEF Ring, BUF_DEPTH
  <1>7. tail_q' = (head_q' + count_q') % BUF_DEPTH
    BY <1>1, <1>2, <1>3, <1>4, <1>5, RingAdvance DEF BUF_DEPTH
  <1> QED
    BY <1>1, <1>2, <1>3, <1>4, <1>5, <1>6, <1>7

\* The slot k places behind the new head holds the entry that was k + p places
\* behind the old one, or one of the entries pushed.
LEMMA RunBuffer ==
  ASSUME FetchInv, NEW stall \in BOOLEAN, NEW pop2 \in BOOLEAN, Run(stall, pop2),
         NEW s \in Ring,
         Offset((head_q + buf_pop_cnt(stall, pop2)) % 8, s) < count_q'
  PROVE  LET p == buf_pop_cnt(stall, pop2)
             at(t) == Offset((head_q + p) % 8, t)
         IN  /\ at(s) \in Nat /\ at(s) + p <= count_q + 1
             /\ buf_q'[s] = IF at(s) + p < count_q THEN buf_q[s]
                            ELSE IF at(s) + p = count_q THEN push0 ELSE push1
             /\ at(s) + p < count_q => Offset(head_q, s) = at(s) + p
             /\ at(s) + p = count_q => push_cnt >= 1
             /\ at(s) + p = count_q + 1 => push_cnt = 2
             /\ at(s) + 1 < count_q' => at((s + 1) % 8) = at(s) + 1
  <1> DEFINE p == buf_pop_cnt(stall, pop2)
             n == push_cnt
             at(t) == Offset((head_q + p) % 8, t)
  <1>1. /\ p \in 0 .. 2 /\ p <= count_q /\ n \in 0 .. 2 /\ count_q + n <= 8
        /\ head_q \in Ring /\ tail_q \in Ring /\ count_q \in 0 .. 8
        /\ tail_q = (head_q + count_q) % BUF_DEPTH
        /\ head_q' = (head_q + p) % 8 /\ count_q' = count_q + n - p
        /\ head_q' \in Ring
        /\ at(s) < count_q'
    BY RunFlow
  <1>2. Clock(NoAddr, NoAddr)
    BY DEF Run, FetchRun
  <1>3. at(s) \in Nat
    BY <1>1, OffsetNat
  <1>4. /\ at(s) + p < count_q =>
              /\ Offset(head_q, s) = at(s) + p
              /\ n >= 1 => s # tail_q
              /\ n = 2 => s # (tail_q + 1) % 8
        /\ at(s) + p = count_q => s = tail_q /\ n >= 1
        /\ at(s) + p = count_q + 1 => s = (tail_q + 1) % 8 /\ n = 2
        /\ at(s) + p <= count_q + 1
        /\ at(s) + 1 < count_q' => at((s + 1) % 8) = at(s) + 1
    <2> HIDE DEF n, p
    <2>1. at(s) < count_q + n - p /\ tail_q = (head_q + count_q) % 8
      BY <1>1 DEF BUF_DEPTH
    <2>2. /\ at(s) + p < count_q =>
                /\ Offset(head_q, s) = at(s) + p
                /\ n >= 1 => s # tail_q
                /\ n = 2 => s # (tail_q + 1) % 8
          /\ at(s) + p = count_q => s = tail_q /\ n >= 1
          /\ at(s) + p = count_q + 1 => s = (tail_q + 1) % 8 /\ n = 2
          /\ at(s) + p <= count_q + 1
          /\ at(s) + 1 < count_q + n - p => at((s + 1) % 8) = at(s) + 1
      BY <1>1, <1>3, <2>1, SMTT(60) DEF Offset, Ring, BUF_DEPTH
    <2> QED
      BY <1>1, <2>2
  <1>5. buf_q'[s] = IF n >= 1 /\ s = tail_q THEN push0
                    ELSE IF n = 2 /\ s = (tail_q + 1) % 8 THEN push1
                    ELSE buf_q[s]
    <2>1. count_q' \in Int /\ at(s) \in Int
      BY <1>1, <1>3
    <2>2. ~(Offset(head_q', s) >= count_q')
      BY <1>1, <2>1
    <2> QED
      BY <1>1, <1>2, <2>2 DEF Clock, BufferWrite, BUF_DEPTH
  <1>6. s = (tail_q + 1) % 8 => s # tail_q
    BY <1>1 DEF Ring, BUF_DEPTH
  <1> QED
    BY <1>1, <1>3, <1>4, <1>5, <1>6

\* A cycle without redirect preserves the data invariant.
LEMMA InvRun ==
  ASSUME FetchInv, NEW stall \in BOOLEAN, NEW pop2 \in BOOLEAN, Run(stall, pop2)
  PROVE  FetchInv'
  <1> DEFINE p == buf_pop_cnt(stall, pop2)
             n == push_cnt
             at(s) == Offset((head_q + p) % 8, s)
  <1>1. /\ CtlInv /\ CtlInv' /\ FetchTypeOK /\ WindowInOrder
        /\ Clock(NoAddr, NoAddr) /\ ImemTick(NoAddr, NoAddr)
    BY InvCtl, CtlRun DEF FetchInv, TypeOK, Run, FetchRun, Flow
  <1>2. /\ head_q \in Ring /\ tail_q \in Ring /\ count_q \in 0 .. 8
        /\ buf_q \in [Ring -> Slot]
    BY RunFlow
  <1>3. p \in 0 .. 2 /\ p <= count_q
    BY RunFlow
  <1>4. n \in 0 .. 2 /\ count_q + n <= 8
    BY RunFlow
  <1>5. /\ head_q' = (head_q + p) % 8
        /\ tail_q' = (tail_q + n) % 8
        /\ count_q' = count_q + n - p
        /\ redir' = NoAddr
    BY RunFlow
  <1>6. head_q' \in Ring /\ tail_q' \in Ring
    BY RunFlow
  <1>7. tail_q' = (head_q' + count_q') % BUF_DEPTH
    BY RunFlow
  <1>8. ASSUME NEW s \in Ring, at(s) < count_q'
        PROVE  /\ at(s) \in Nat /\ at(s) + p <= count_q + 1
               /\ buf_q'[s] = IF at(s) + p < count_q THEN buf_q[s]
                              ELSE IF at(s) + p = count_q THEN push0 ELSE push1
               /\ at(s) + p < count_q => Offset(head_q, s) = at(s) + p
               /\ at(s) + p = count_q => n >= 1
               /\ at(s) + p = count_q + 1 => n = 2
               /\ at(s) + 1 < count_q' => at((s + 1) % 8) = at(s) + 1
    BY <1>8, RunBuffer
  <1>9. WindowInOrder'
    <2> SUFFICES ASSUME NEW s \in Ring, at(s) < count_q'
                 PROVE  /\ buf_q'[s] = Stream!Entry(buf_q'[s].pc)
                        /\ Stream!Succ(buf_q'[s].pc) =
                             IF at(s) + 1 = count_q' THEN NextEntry'
                             ELSE buf_q'[(s + 1) % 8].pc
      BY <1>5 DEF WindowInOrder, BUF_DEPTH, Stream!Entry, Stream!Succ, Stream!Fetchable
    <2> DEFINE r == (s + 1) % 8
               k == at(s) + p
    <2>1. \A a : Stream!Entry(a).pc = a
      BY DEF Stream!Entry
    <2>2. r \in Ring /\ count_q' \in Int
      BY <1>2, <1>3, <1>4, <1>5 DEF Ring, BUF_DEPTH
    <2>3. /\ at(s) \in Nat /\ k <= count_q + 1
          /\ buf_q'[s] = IF k < count_q THEN buf_q[s] ELSE IF k = count_q THEN push0 ELSE push1
          /\ k < count_q => Offset(head_q, s) = k
          /\ k = count_q => n >= 1
          /\ k = count_q + 1 => n = 2
          /\ at(s) + 1 < count_q' => at(r) = at(s) + 1
      BY <1>8
    <2>4. at(s) + 1 < count_q' =>
            buf_q'[r] = IF k + 1 < count_q THEN buf_q[r]
                        ELSE IF k + 1 = count_q THEN push0 ELSE push1
      <3> SUFFICES ASSUME at(s) + 1 < count_q'
                   PROVE  buf_q'[r] = IF k + 1 < count_q THEN buf_q[r]
                                      ELSE IF k + 1 = count_q THEN push0 ELSE push1
        OBVIOUS
      <3>1. at(r) = at(s) + 1
        BY <2>3
      <3>2. buf_q'[r] = IF at(r) + p < count_q THEN buf_q[r]
                        ELSE IF at(r) + p = count_q THEN push0 ELSE push1
        BY <1>8, <2>2, <3>1
      <3>3. at(r) + p = k + 1
        BY <3>1, <2>3, <1>3
      <3> QED
        BY <3>2, <3>3
    <2>5. k < count_q => /\ buf_q[s] = Stream!Entry(buf_q[s].pc)
                         /\ Stream!Succ(buf_q[s].pc) =
                              IF k + 1 = count_q THEN NextEntry ELSE buf_q[r].pc
      BY <1>1, <2>3 DEF WindowInOrder, BUF_DEPTH
    <2>6. CASE k < count_q
      BY <2>1, <2>2, <2>3, <2>4, <2>5, <2>6, <1>2, <1>3, <1>4, <1>5, PushesStream
    <2>7. CASE k = count_q
      BY <2>1, <2>2, <2>3, <2>4, <2>7, <1>2, <1>3, <1>4, <1>5, PushesStream
    <2>8. CASE k = count_q + 1
      BY <2>1, <2>2, <2>3, <2>8, <1>2, <1>3, <1>4, <1>5, PushesStream
    <2> QED
      BY <2>3, <2>6, <2>7, <2>8, <1>2, <1>3
  <1>10. buf_q' \in [Ring -> Slot]
    <2>1. /\ n >= 1 => push0 \in Slot
          /\ n = 2 => push1 \in Slot
      BY <1>4, PushesStream, EntrySlot
    <2> QED
      BY <1>1, <1>2, <1>4, <2>1 DEF Clock, BufferWrite, Slot
  <1>11. FetchTypeOK'
    BY <1>1, <1>5, <1>6, <1>10, PushesStream, TypeEdge
    DEF FetchTypeOK, CtlInv, OneReadInFlight
  <1>12. redir_launched_q' = FALSE /\ mem' = Image
    BY <1>1, ClockEdge
    DEF incycle_launch, redirect, pred_redirect, FetchInv, ReadMatchesPc
  <1>13. rif_q' => rd_d_q' = mem'[Imem!word_addr(req_pc_q')]
    BY <1>1, ClockEdge, TypeEdge
  <1>14. ReadMatchesPc'
    BY <1>12, <1>13, PushesStream DEF ReadMatchesPc
  <1> QED
    BY <1>1, <1>7, <1>9, <1>11, <1>14, TypeEdge DEF FetchInv, TypeOK, CtlInv

LEMMA InvStep == FetchInv /\ [Next]_vars => FetchInv'
  <1> SUFFICES ASSUME FetchInv, [Next]_vars PROVE FetchInv'
    OBVIOUS
  <1>1. ASSUME NEW branch \in Addr, NEW pred \in Addr \cup {NoAddr},
               ExecRedirect(branch, pred)
        PROVE  FetchInv'
    <2>1. redirect(branch, pred)
      BY <1>1 DEF ExecRedirect, FetchExecRedirect, redirect
    <2> QED
      BY <1>1, <2>1, InvRedirect DEF ExecRedirect, FetchExecRedirect
  <1>2. ASSUME NEW pred \in Addr, PredRedirect(pred)
        PROVE  FetchInv'
    <2>1. redirect(NoAddr, pred)
      BY <1>2 DEF PredRedirect, FetchPredRedirect, redirect, pred_redirect
    <2> QED
      BY <1>2, <2>1, InvRedirect DEF PredRedirect, FetchPredRedirect
  <1>3. ASSUME NEW stall \in BOOLEAN, NEW pop2 \in BOOLEAN, Run(stall, pop2)
        PROVE  FetchInv'
    BY <1>3, InvRun
  <1>4. CASE UNCHANGED vars
    BY <1>4 DEF vars, fetchVars, FetchInv, TypeOK, FetchTypeOK, Imem!RamTypeOK,
                OneReadInFlight, ReservedFits, reserved, ReadMatchesPc, WindowInOrder, NextEntry
  <1> QED
    BY <1>1, <1>2, <1>3, <1>4 DEF Next

\* The inductive invariant holds in every reachable state.
THEOREM FetchInvariant == Spec => []FetchInv
  BY InvInit, InvStep, PTL DEF Spec

\* Every register keeps its type, whatever redirects, stalls and pops happen.
THEOREM TypeCorrect == Spec => []TypeOK
  <1>1. FetchInv => TypeOK
    BY DEF FetchInv
  <1> QED
    BY <1>1, FetchInvariant, PTL

\* The buffer never overflows: the room a read needs is reserved at launch.
THEOREM BufferNeverOverflows == Spec => []ReservedFits
  <1>1. FetchInv => ReservedFits
    BY DEF FetchInv
  <1> QED
    BY <1>1, FetchInvariant, PTL

\* The single req_pc_q register is enough on this memory, for every program.
THEOREM ReqPcSafe == Spec => []ReqPcNotOverwritten
  <1>1. FetchInv => ReqPcNotOverwritten
    <2> SUFFICES ASSUME FetchInv PROVE ReqPcNotOverwritten
      OBVIOUS
    <2>1. CtlInv
      BY InvCtl
    <2> QED
      BY <2>1, OneCycleMemory DEF ReqPcNotOverwritten, CtlInv, OneReadInFlight
  <1> QED
    BY <1>1, FetchInvariant, PTL

\* The bound measured on four programs holds for all: never two reads at once.
THEOREM AtMostOneRead == Spec => []OneReadInFlight
  <1>1. FetchInv => OneReadInFlight
    BY DEF FetchInv
  <1> QED
    BY <1>1, FetchInvariant, PTL

\* Decode is shown the words of the current path only, in order, each once and
\* with its own PC, for every image, memory size and redirect pattern.
THEOREM StreamInOrder == Spec => []WindowInOrder
  <1>1. FetchInv => WindowInOrder
    BY DEF FetchInv
  <1> QED
    BY <1>1, FetchInvariant, PTL

-----------------------------------------------------------------------------
(* The refinement of the instruction stream. *)

\* A sequence that drops a prefix of another and gains a suffix, seen entry
\* by entry.
LEMMA SlideSeq ==
  ASSUME NEW S, NEW q \in Seq(S), NEW w \in Seq(S), NEW e \in Seq(S),
         NEW p \in Nat, p <= Len(q), Len(w) = Len(q) - p + Len(e),
         \A i \in 1 .. Len(w) :
           w[i] = IF i + p <= Len(q) THEN q[i + p] ELSE e[i + p - Len(q)]
  PROVE  w = SubSeq(q, p + 1, Len(q)) \o e
  <1> DEFINE d == SubSeq(q, p + 1, Len(q))
  <1>1. d \in Seq(S) /\ Len(d) = Len(q) - p
    OBVIOUS
  <1>2. \A i \in 1 .. Len(d) : d[i] = q[i + p]
    OBVIOUS
  <1> HIDE DEF d
  <1>3. d \o e \in Seq(S) /\ Len(d \o e) = Len(w)
    BY <1>1
  <1>4. ASSUME NEW i \in 1 .. Len(w) PROVE w[i] = (d \o e)[i]
    BY <1>1, <1>2
  <1>5. w = d \o e
    BY <1>3, <1>4, SeqEqual
  <1> QED
    BY <1>5 DEF d

LEMMA WindowSeq ==
  ASSUME NEW b \in [Ring -> Slot], NEW h \in Ring, NEW c \in 0 .. 8
  PROVE  LET w == [i \in 1 .. c |-> b[(h + i - 1) % BUF_DEPTH]]
         IN  w \in Seq(Slot) /\ Len(w) = c
  <1>1. \A i \in 1 .. c : (h + i - 1) % BUF_DEPTH \in Ring
    BY DEF Ring, BUF_DEPTH
  <1> QED
    BY <1>1

LEMMA WindowType ==
  ASSUME FetchInv
  PROVE  Window \in Seq(Slot) /\ Len(Window) = count_q
  BY WindowSeq DEF FetchInv, TypeOK, FetchTypeOK, Window, BUF_DEPTH

\* Positions in the ring, seen from the new head.
LEMMA RingPosition ==
  ASSUME NEW h \in Ring, NEW p \in 0 .. 2, NEW i \in 1 .. 8
  PROVE  LET s == (((h + p) % 8) + i - 1) % 8
         IN  /\ s \in Ring /\ Offset((h + p) % 8, s) = i - 1
             /\ s = (h + (i + p) - 1) % 8
  BY SMTT(60) DEF Ring, BUF_DEPTH, Offset

\* A cycle without redirect takes p entries from the front of the window and
\* adds the pushed ones behind it.
LEMMA WindowRun ==
  ASSUME FetchInv, FetchInv', NEW stall \in BOOLEAN, NEW pop2 \in BOOLEAN, Run(stall, pop2),
         NEW e \in Seq(Slot), Len(e) = push_cnt,
         push_cnt >= 1 => e[1] = push0,
         push_cnt = 2 => e[2] = push1
  PROVE  Window' = Stream!Drop(buf_pop_cnt(stall, pop2)) \o e
  <1> DEFINE p == buf_pop_cnt(stall, pop2)
             n == push_cnt
  <1>1. /\ p \in 0 .. 2 /\ p <= count_q /\ n \in 0 .. 2 /\ count_q + n <= 8
        /\ head_q \in Ring /\ count_q \in 0 .. 8
        /\ head_q' = (head_q + p) % 8 /\ count_q' = count_q + n - p
        /\ head_q' \in Ring
    BY RunFlow
  <1> HIDE DEF p, n
  <1>2. /\ Window \in Seq(Slot) /\ Len(Window) = count_q
        /\ Window' \in Seq(Slot) /\ Len(Window') = count_q'
    <2>1. buf_q' \in [Ring -> Slot] /\ count_q' \in 0 .. 8
      BY DEF FetchInv, TypeOK, FetchTypeOK, BUF_DEPTH
    <2> QED
      BY <1>1, <2>1, WindowSeq, WindowType DEF Window
  <1>3. ASSUME NEW i \in 1 .. count_q'
        PROVE  Window'[i] = IF i + p <= count_q THEN Window[i + p] ELSE e[i + p - count_q]
    <2> DEFINE s == (head_q' + i - 1) % 8
    <2>1. /\ s \in Ring /\ Offset(head_q', s) = i - 1
          /\ s = (head_q + (i + p) - 1) % 8
      <3>1. i \in 1 .. 8
        BY <1>1
      <3> QED
        BY <1>1, <3>1, RingPosition
    <2>2. Window'[i] = buf_q'[s]
      BY DEF Window, BUF_DEPTH
    <2>3. buf_q'[s] = IF i - 1 + p < count_q THEN buf_q[s]
                      ELSE IF i - 1 + p = count_q THEN push0 ELSE push1
      <3> HIDE DEF s
      <3>1. Offset((head_q + p) % 8, s) = i - 1 /\ i - 1 < count_q'
        BY <1>1, <2>1
      <3> QED
        BY <2>1, <3>1, RunBuffer DEF p
    <2>4. ASSUME i + p <= count_q PROVE Window[i + p] = buf_q[s]
      <3>1. i + p \in 1 .. count_q
        BY <1>1, <2>4
      <3> QED
        BY <2>1, <3>1 DEF Window, BUF_DEPTH
    <2>5. i + p <= count_q + n /\ i \in Nat
      BY <1>1
    <2> QED
      BY <1>1, <2>2, <2>3, <2>4, <2>5 DEF n
  <1> QED
    <2>1. \A i \in 1 .. Len(Window') :
             Window'[i] = IF i + p <= Len(Window) THEN Window[i + p]
                          ELSE e[i + p - Len(Window)]
      BY <1>2, <1>3
    <2>2. Len(Window') = Len(Window) - p + Len(e) /\ p \in Nat /\ p <= Len(Window)
      BY <1>1, <1>2 DEF n
    <2> QED
      BY <1>2, <2>1, <2>2, SlideSeq DEF Stream!Drop, p

\* A cycle without redirect is an Advance of the stream.
LEMMA RunAdvances ==
  ASSUME FetchInv, FetchInv', NEW stall \in BOOLEAN, NEW pop2 \in BOOLEAN, Run(stall, pop2)
  PROVE  Stream!Advance(buf_pop_cnt(stall, pop2), push_cnt)
  <1> DEFINE p == buf_pop_cnt(stall, pop2)
  <1>1. /\ p \in 0 .. 2 /\ p <= count_q /\ push_cnt \in 0 .. 2 /\ count_q + push_cnt <= 8
        /\ count_q \in 0 .. 8 /\ redir' = NoAddr
    BY RunFlow
  <1>2. Len(Window) = count_q
    BY WindowType
  <1>3. CASE push_cnt = 0
    <2> DEFINE e == << >>
    <2>1. Window' = Stream!Drop(p) \o e
      <3>1. e \in Seq(Slot) /\ Len(e) = 0
        OBVIOUS
      <3> HIDE DEF e
      <3>2. /\ e \in Seq(Slot) /\ Len(e) = push_cnt
            /\ push_cnt >= 1 => e[1] = push0
            /\ push_cnt = 2 => e[2] = push1
        BY <1>3, <3>1
      <3> QED
        BY <3>2, WindowRun
    <2>2. Stream!Drop(p) \in Seq(Slot)
      BY <1>1, WindowType DEF Stream!Drop
    <2> QED
      BY <1>1, <1>2, <1>3, <2>1, <2>2, PushesStream DEF Stream!Advance, BUF_DEPTH
  <1>4. CASE push_cnt = 1
    <2>1. push0 = Stream!Entry(NextEntry) /\ push0 \in Slot /\ NextEntry' = Stream!Succ(NextEntry)
      BY <1>4, PushesStream, EntrySlot
    <2> DEFINE e == <<push0>>
    <2>2. e \in Seq(Slot) /\ Len(e) = 1 /\ e[1] = push0
      BY <2>1
    <2> HIDE DEF e
    <2>3. Window' = Stream!Drop(p) \o e
      BY <1>4, <2>2, WindowRun
    <2> QED
      BY <1>1, <1>2, <1>4, <2>1, <2>3 DEF Stream!Advance, BUF_DEPTH, e
  <1>5. CASE push_cnt = 2
    <2>1. /\ push0 = Stream!Entry(NextEntry) /\ push0 \in Slot
          /\ push1 = Stream!Entry(Stream!Succ(NextEntry)) /\ push1 \in Slot
          /\ NextEntry' = Stream!Succ(Stream!Succ(NextEntry))
      BY <1>5, PushesStream, EntrySlot
    <2> DEFINE e == <<push0, push1>>
    <2>2. e \in Seq(Slot) /\ Len(e) = 2 /\ e[1] = push0 /\ e[2] = push1
      BY <2>1
    <2> HIDE DEF e
    <2>3. Window' = Stream!Drop(p) \o e
      BY <1>5, <2>2, WindowRun
    <2> QED
      BY <1>1, <1>2, <1>5, <2>1, <2>3 DEF Stream!Advance, BUF_DEPTH, e
  <1> QED
    BY <1>1, <1>3, <1>4, <1>5

\* A redirect of either kind is the stream's: the window is emptied and its
\* next entry is the target.
LEMMA RedirectRestarts ==
  ASSUME FetchInv, NEW branch \in Addr \cup {NoAddr}, NEW pred \in Addr \cup {NoAddr},
         redirect(branch, pred),
         Kill(branch, pred), Clock(branch, pred), ImemTick(branch, pred)
  PROVE  \E target \in Addr : Stream!Redirect(target)
  <1>1. CtlInv /\ CtlInv'
    BY InvCtl, CtlRedirect
  <1>2. redirect_addr(branch, pred) \in Addr
    BY DEF redirect, pred_redirect, redirect_addr
  <1>3. /\ pc_q' = redirect_addr(branch, pred) /\ redir' = redirect_addr(branch, pred)
        /\ count_q' = 0
    BY DEF Kill
  <1>4. Window' = << >>
    BY <1>3 DEF Window
  <1>5. NextEntry' = redirect_addr(branch, pred)
    <2>1. launch(branch, pred) => incycle_launch(branch, pred)
      BY DEF launch, bus_issue, exec_redir_hold, incycle_launch, redirect
    <2>2. rif_q' => req_pc_q' = pc_q'
      BY <1>1, <1>3, <2>1, ClockEdge DEF issue_addr
    <2> QED
      BY <1>1, <1>3, <2>2 DEF NextEntry, CtlInv, OneReadInFlight
  <1> QED
    BY <1>2, <1>3, <1>4, <1>5 DEF Stream!Redirect

\* Fetch implements the instruction stream: for every image, memory size and
\* boot address, whatever redirects, stalls and double pops the pipeline makes,
\* each cycle delivers the next words of the current path or restarts at the
\* target, and does nothing else.
THEOREM FetchImplementsStream == Spec => ImplementsStream
  <1>1. Init => Stream!Init
    BY DEF Init, FetchInit, Stream!Init, Window, NextEntry
  <1>2. FetchInv /\ FetchInv' /\ [Next]_vars => [Stream!Next]_<<Window, NextEntry, redir>>
    <2> SUFFICES ASSUME FetchInv, FetchInv', Next PROVE Stream!Next
      BY DEF vars, fetchVars, Window, NextEntry
    <2>1. ASSUME NEW branch \in Addr, NEW pred \in Addr \cup {NoAddr},
                 ExecRedirect(branch, pred)
          PROVE  Stream!Next
      <3>1. redirect(branch, pred)
        BY <2>1 DEF ExecRedirect, FetchExecRedirect, redirect
      <3> QED
        BY <2>1, <3>1, RedirectRestarts
        DEF ExecRedirect, FetchExecRedirect, Stream!Next, Stream!Addr, Addr
    <2>2. ASSUME NEW pred \in Addr, PredRedirect(pred)
          PROVE  Stream!Next
      <3>1. redirect(NoAddr, pred)
        BY <2>2 DEF PredRedirect, FetchPredRedirect, redirect, pred_redirect
      <3> QED
        BY <2>2, <3>1, RedirectRestarts
        DEF PredRedirect, FetchPredRedirect, Stream!Next, Stream!Addr, Addr
    <2>3. ASSUME NEW stall \in BOOLEAN, NEW pop2 \in BOOLEAN, Run(stall, pop2)
          PROVE  Stream!Next
      <3>1. buf_pop_cnt(stall, pop2) \in 0 .. 2 /\ push_cnt \in 0 .. 2
        BY <2>3, RunFlow
      <3> QED
        BY <2>3, <3>1, RunAdvances DEF Stream!Next
    <2> QED
      BY <2>1, <2>2, <2>3 DEF Next
  <1> QED
    BY <1>1, <1>2, FetchInvariant, PTL DEF Spec, ImplementsStream, Stream!Spec
=============================================================================
