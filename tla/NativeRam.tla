------------------------------ MODULE NativeRam ------------------------------
(***************************************************************************)
(* native_ram: the single-port block RAM behind the native request bus.    *)
(* The I-mem is an instance with READ_ONLY and two outstanding reads, the  *)
(* D-mem one with a single outstanding read and byte-strobed writes.       *)
(*                                                                         *)
(* One step is one rising clock edge.  A word is a function from its       *)
(* write-strobe lanes to lane values; an address counts units of which     *)
(* WORD_UNITS make a word.                                                 *)
(***************************************************************************)
EXTENDS Naturals, Sequences

CONSTANTS
  OUTSTANDING,  \* read response slots (skid depth)
  READ_ONLY,    \* TRUE: the write path is not generated
  DEPTH_WORDS,  \* words in the array
  STRB_W,       \* write-strobe lanes of a word
  WORD_UNITS,   \* address units per word (the byte-select bits)
  LaneVal,      \* values of one lane
  ZERO          \* the lane value a reset register holds

VARIABLES
  mem,      \* the array
  rif_q,    \* a read was launched last cycle, its data lands now
  rd_d_q,   \* the landing word
  count_q,  \* occupied skid slots
  skid_q    \* shift FIFO, slot 0 is the head

Lane     == 0 .. (STRB_W - 1)
Slot     == 0 .. (OUTSTANDING - 1)
Word     == [Lane -> LaneVal]
ZeroWord == [l \in Lane |-> ZERO]
Index    == 0 .. (DEPTH_WORDS - 1)

(***************************************************************************)
(* Combinational outputs and strobes.  rready is the master's input.       *)
(***************************************************************************)

\* Only ADDR_W bits are decoded: an address past the array aliases into it.
word_addr(addr) == (addr \div WORD_UNITS) % DEPTH_WORDS

skid_pop(rready)      == count_q # 0 /\ rready
land_consumed(rready) == rif_q /\ count_q = 0 /\ rready
land_stored(rready)   == rif_q /\ ~land_consumed(rready)

\* Mutant: no bypass, the landing word is shown only once it is in the skid.
RvalidNoBypass == count_q # 0

rsp_rvalid == count_q # 0 \/ rif_q
rsp_rdata  == IF count_q # 0 THEN skid_q[0] ELSE rd_d_q

write_idx(rready) == count_q - (IF skid_pop(rready) THEN 1 ELSE 0)
new_count(rready) == write_idx(rready) + (IF land_stored(rready) THEN 1 ELSE 0)

rsp_wready(rready) == new_count(rready) < OUTSTANDING

(***************************************************************************)
(* One clock edge, given the master's request and its rready.              *)
(***************************************************************************)

launch_hs(valid, rready) == valid /\ rsp_wready(rready)

\* The skid after the edge: the pop shifts left, then the landing word takes
\* the first free slot (it is assigned last and wins a shared slot).
SkidAfter(rready) ==
  [i \in Slot |->
     IF land_stored(rready) /\ i = write_idx(rready) THEN rd_d_q
     ELSE IF ~skid_pop(rready) THEN skid_q[i]
     ELSE IF i + 1 \in Slot THEN skid_q[i + 1] ELSE ZeroWord]

ReadPort(valid, we, addr, rready) ==
  IF launch_hs(valid, rready) /\ ~we
    THEN rif_q' = TRUE  /\ rd_d_q' = mem[word_addr(addr)]
    ELSE rif_q' = FALSE /\ rd_d_q' = rd_d_q

WritePort(valid, we, addr, wdata, wstrb, rready) ==
  mem' = IF launch_hs(valid, rready) /\ we /\ ~READ_ONLY
           THEN [mem EXCEPT ![word_addr(addr)] =
                   [l \in Lane |-> IF l \in wstrb THEN wdata[l] ELSE @[l]]]
           ELSE mem

RamTick(valid, we, addr, wdata, wstrb, rready) ==
  /\ ReadPort(valid, we, addr, rready)
  /\ WritePort(valid, we, addr, wdata, wstrb, rready)
  /\ skid_q' = SkidAfter(rready)
  /\ count_q' = new_count(rready)

\* Reset leaves the array alone; skid_q has no reset, but is unread at count 0.
RamInit ==
  /\ rif_q = FALSE
  /\ rd_d_q = ZeroWord
  /\ count_q = 0
  /\ skid_q = [i \in Slot |-> ZeroWord]

RamTypeOK ==
  /\ mem \in [Index -> Word]
  /\ rif_q \in BOOLEAN
  /\ rd_d_q \in Word
  /\ count_q \in 0 .. OUTSTANDING
  /\ skid_q \in [Slot -> Word]
=============================================================================
