---------------------------- MODULE DecodeProofs ----------------------------
(***************************************************************************)
(* Proofs about decode behind fetch, for every program, every prediction   *)
(* table and whatever execute does.                                        *)
(*                                                                         *)
(* DecodeInv ties the three places an instruction can be cut at: the stash, *)
(* the head of fetch's queue, and the address ipc of the next instruction. *)
(*                                                                         *)
(* The last part is about what the instructions so cut decode to: the      *)
(* predictor's decoder against the real one, for every native word.        *)
(***************************************************************************)
EXTENDS DecodeUnit, RvcIsa, SequenceTheorems, TLAPS

Addr    == 0 .. (4 * BLOCKS - 1)
Entries == {F!Entry(a) : a \in Addr}

\* The address of the i-th entry fetch shows, or will show next.
At(i) == IF i <= Len(queue) THEN queue[i].pc ELSE next

\* Fetch's queue holds consecutive entries that end where fetch continues.
QueueInv ==
  /\ queue \in Seq(Entries) /\ next \in Addr
  /\ \A i \in 1 .. Len(queue) : F!Succ(queue[i].pc) = At(i + 1)

\* The stash is the halfword before the head of the queue, at an odd address,
\* with its own direction bit, and the instruction it begins is the next one.
HoldInv ==
  hold_q =>
    /\ hold_pc_q \in Addr /\ hold_pc_q % 2 = 1 /\ F!Fetchable(hold_pc_q)
    /\ Advance(hold_pc_q, 1) = At(1)
    /\ hold_word_q = Instructions!Half(hold_pc_q)
    /\ hold_pred_q = PHT[hold_pc_q]
    /\ ipc = hold_pc_q

\* Without a stash the next instruction is at the head of the queue; or its
\* stash was dropped in a stalled cycle, because the fault entry at the head
\* is the second half it lacks.
HeadInv ==
  ~hold_q /\ Goes =>
    \/ ipc = At(1)
    \/ /\ queue # << >> /\ queue[1].fault
       /\ F!Fetchable(ipc) /\ Instructions!Half(ipc).wide
       /\ Advance(ipc, 1) = At(1)

DecodeInv ==
  /\ QueueInv /\ HoldInv /\ HeadInv
  /\ ipc \in Addr
  /\ hold_q \in BOOLEAN
  /\ de_q.fault => de_q.valid /\ ~hold_q

(***************************************************************************)
(* Address arithmetic.                                                     *)
(***************************************************************************)
LEMMA Wrap ==
  ASSUME NEW n \in Nat \ {0}, NEW x \in 0 .. (2 * n - 1)
  PROVE  x % n = IF x < n THEN x ELSE x - n
  <1>1. CASE x < n
    BY <1>1
  <1>2. CASE x >= n
    <2>1. x - n \in 0 .. (n - 1) /\ x = n + (x - n)
      BY <1>2
    <2>2. x \div n = 1
      BY <2>1
    <2> QED
      BY <1>2, <2>1, <2>2
  <1> QED
    BY <1>1, <1>2

LEMMA AdvanceOne ==
  ASSUME NEW a \in Addr
  PROVE  /\ Advance(a, 1) = IF a + 1 < 4 * BLOCKS THEN a + 1 ELSE 0
         /\ Advance(a, 2) = IF a + 2 < 4 * BLOCKS THEN a + 2 ELSE a + 2 - 4 * BLOCKS
         /\ Advance(a, 0) = a
         /\ Advance(a, 1) \in Addr /\ Advance(a, 2) \in Addr
         /\ Advance(a, 2) = Advance(Advance(a, 1), 1)
  <1> DEFINE n == 4 * BLOCKS
  <1>1. n \in Nat \ {0} /\ n >= 4 /\ a \in 0 .. (n - 1)
    BY DecodeAssumption DEF Addr
  <1>2. \A b \in Addr : Advance(b, 1) = IF b + 1 < n THEN b + 1 ELSE 0
    <2> TAKE b \in Addr
    <2>1. b + 1 \in 0 .. (2 * n - 1) /\ b \in 0 .. (n - 1)
      BY <1>1 DEF Addr
    <2> DEFINE x == b + 1
    <2> HIDE DEF n, x
    <2>2. x % n = IF x < n THEN x ELSE x - n
      BY <1>1, <2>1, Wrap DEF x
    <2> QED
      BY <1>1, <2>1, <2>2 DEF Advance, n, x
  <1>3. Advance(a, 2) = IF a + 2 < n THEN a + 2 ELSE a + 2 - n
    <2>1. a + 2 \in 0 .. (2 * n - 1)
      BY <1>1
    <2> DEFINE x == a + 2
    <2> HIDE DEF n, x
    <2>2. x % n = IF x < n THEN x ELSE x - n
      BY <1>1, <2>1, Wrap DEF x
    <2> QED
      BY <1>1, <2>1, <2>2 DEF Advance, n, x
  <1>4. Advance(a, 0) = a
    <2> HIDE DEF n
    <2>1. a % n = a
      BY <1>1, Wrap
    <2> QED
      BY <1>1, <2>1 DEF Advance, n
  <1>5. Advance(a, 1) \in Addr /\ Advance(a, 2) \in Addr
    BY <1>1, <1>2, <1>3 DEF Addr
  <1>6. Advance(a, 2) = Advance(Advance(a, 1), 1)
    BY <1>1, <1>2, <1>3, <1>5
  <1> QED
    BY <1>2, <1>3, <1>4, <1>5, <1>6

\* A jump's target is an address.
LEMMA AdvanceAddr ==
  ASSUME NEW a \in Addr, NEW k \in Int
  PROVE  Advance(a, k) \in Addr
  BY DecodeAssumption DEF Advance, Addr

\* The low half of a word and its high half.
LEMMA LowHalf ==
  ASSUME NEW a \in Addr, a % 2 = 0
  PROVE  /\ Advance(a, 1) = a + 1 /\ (a + 1) % 2 = 1 /\ a + 1 \in Addr
         /\ 2 * (a \div 2) = a /\ 2 * (a \div 2) + 1 = a + 1
         /\ F!Fetchable(a + 1) <=> F!Fetchable(a)
         /\ Instructions!Half(a) = Image[a \div 4][(a \div 2) % 2][0]
         /\ Instructions!Half(a + 1) = Image[a \div 4][(a \div 2) % 2][1]
  <1>1. a \in Nat /\ a + 1 < 4 * BLOCKS
    BY DecodeAssumption DEF Addr
  <1>2. /\ (a + 1) % 2 = 1 /\ 2 * (a \div 2) = a
        /\ (a + 1) \div 4 = a \div 4 /\ (a + 1) \div 2 = a \div 2
    BY <1>1
  <1>3. a + 1 \in Addr /\ Advance(a, 1) = a + 1
    BY <1>1, AdvanceOne DEF Addr
  <1> QED
    BY <1>2, <1>3 DEF F!Fetchable, Instructions!Half

LEMMA HighHalf ==
  ASSUME NEW a \in Addr, a % 2 = 1
  PROVE  /\ 2 * (a \div 2) + 1 = a
         /\ Advance(a, 1) % 2 = 0
         /\ Instructions!Half(a) = Image[a \div 4][(a \div 2) % 2][1]
  <1>1. a \in Nat /\ 2 * (a \div 2) + 1 = a
    BY DEF Addr
  <1>2. Advance(a, 1) % 2 = 0
    BY <1>1, AdvanceOne
  <1> QED
    BY <1>1, <1>2 DEF Instructions!Half

\* The stream's successor of a word that can be fetched, from either half.
LEMMA SuccOf ==
  ASSUME NEW a \in Addr
  PROVE  /\ F!Succ(a) \in Addr
         /\ F!Fetchable(a) /\ a % 2 = 0 => F!Succ(a) = Advance(a, 2)
         /\ F!Fetchable(a) /\ a % 2 = 1 => F!Succ(a) = Advance(a, 1)
  <1>1. a \in Nat /\ 4 * BLOCKS \in Nat \ {0}
    BY DecodeAssumption DEF Addr
  <1>2. F!Succ(a) \in Addr
    <2>1. \A x \in Nat, n \in Nat \ {0} : x % n \in 0 .. (n - 1)
      OBVIOUS
    <2>2. 2 * (a \div 2 + 1) \in Nat /\ 4 * (a \div 4 + 1) \in Nat
      BY <1>1
    <2> QED
      BY <1>1, <2>1, <2>2 DEF F!Succ, Addr
  <1>3. /\ a % 2 = 0 => 2 * (a \div 2 + 1) = a + 2
        /\ a % 2 = 1 => 2 * (a \div 2 + 1) = a + 1
    BY <1>1
  <1> QED
    BY <1>2, <1>3 DEF F!Succ, Advance

(***************************************************************************)
(* Fetch's queue.                                                          *)
(***************************************************************************)
LEMMA EntryFields ==
  ASSUME NEW a \in Addr
  PROVE  /\ F!Entry(a) \in Entries
         /\ F!Entry(a).pc = a
         /\ F!Entry(a).fault = ~F!Fetchable(a)
         /\ F!Fetchable(a) => F!Entry(a).instr = Image[a \div 4][(a \div 2) % 2]
  BY DEF Entries, F!Entry

LEMMA QueueEntry ==
  ASSUME QueueInv, NEW i \in 1 .. Len(queue)
  PROVE  /\ queue[i].pc \in Addr /\ queue[i].pc = At(i)
         /\ queue[i].fault = ~F!Fetchable(At(i))
         /\ F!Fetchable(At(i)) => queue[i].instr = Image[At(i) \div 4][(At(i) \div 2) % 2]
         /\ F!Succ(At(i)) = At(i + 1)
  <1>1. PICK a \in Addr : queue[i] = F!Entry(a)
    BY DEF QueueInv, Entries
  <1>2. queue[i].pc = a
    BY <1>1, EntryFields
  <1> QED
    BY <1>1, <1>2, EntryFields DEF QueueInv, At

\* What pushing and popping does to the entries and to the address at the head.
LEMMA QueueStep ==
  ASSUME QueueInv, NEW p \in 0 .. 2, NEW n \in 0 .. 2, F!Advance(p, n)
  PROVE  /\ QueueInv'
         /\ At(1)' = At(p + 1)
         /\ p = 0 /\ queue # << >> => queue' # << >> /\ queue'[1] = queue[1]
  <1> DEFINE d == SubSeq(queue, p + 1, Len(queue))
             e == CASE n = 0 -> << >>
                    [] n = 1 -> <<F!Entry(next)>>
                    [] n = 2 -> <<F!Entry(next), F!Entry(F!Succ(next))>>
             L == Len(queue) - p
  <1>1. /\ queue \in Seq(Entries) /\ next \in Addr /\ F!Succ(next) \in Addr
        /\ F!Succ(F!Succ(next)) \in Addr
        /\ \A i \in 1 .. Len(queue) : F!Succ(queue[i].pc) = At(i + 1)
    BY SuccOf DEF QueueInv
  <1>2. /\ p <= Len(queue)
        /\ queue' = d \o e
        /\ next' = CASE n = 0 -> next [] n = 1 -> F!Succ(next) [] n = 2 -> F!Succ(F!Succ(next))
    <2>1. d \in Seq(Entries)
      BY <1>1
    <2>2. d \o << >> = d
      BY <2>1
    <2>3. /\ n = 0 => e = << >>
          /\ n = 1 => e = <<F!Entry(next)>>
          /\ n = 2 => e = <<F!Entry(next), F!Entry(F!Succ(next))>>
      OBVIOUS
    <2>4. /\ p <= Len(queue)
          /\ n = 0 => queue' = d /\ next' = next
          /\ n = 1 => queue' = d \o <<F!Entry(next)>> /\ next' = F!Succ(next)
          /\ n = 2 => /\ queue' = d \o <<F!Entry(next), F!Entry(F!Succ(next))>>
                      /\ next' = F!Succ(F!Succ(next))
      <3> HIDE DEF e
      <3>1. p <= Len(queue)
        BY DEF F!Advance
      <3>2. ASSUME n = 0 PROVE queue' = d /\ next' = next
        BY <3>2 DEF F!Advance, F!Drop
      <3>3. ASSUME n = 1 PROVE queue' = d \o <<F!Entry(next)>> /\ next' = F!Succ(next)
        <4>1. queue' = F!Drop(p) \o <<F!Entry(next)>> /\ next' = F!Succ(next)
          BY <3>3 DEF F!Advance
        <4> QED
          BY <4>1 DEF F!Drop
      <3>4. ASSUME n = 2
            PROVE  /\ queue' = d \o <<F!Entry(next), F!Entry(F!Succ(next))>>
                   /\ next' = F!Succ(F!Succ(next))
        BY <3>4 DEF F!Advance, F!Drop
      <3> QED
        BY <3>1, <3>2, <3>3, <3>4
    <2> HIDE DEF d, e
    <2>5. n = 0 \/ n = 1 \/ n = 2
      OBVIOUS
    <2> QED
      BY <2>2, <2>3, <2>4, <2>5
  <1>3. d \in Seq(Entries) /\ Len(d) = L /\ L \in Nat
    BY <1>1, <1>2
  <1>4. \A i \in 1 .. L : d[i] = queue[i + p]
    BY <1>1, <1>2
  <1>5. /\ e \in Seq(Entries) /\ Len(e) = n
        /\ n >= 1 => e[1] = F!Entry(next)
        /\ n = 2 => e[2] = F!Entry(F!Succ(next))
    BY <1>1, EntryFields
  <1> HIDE DEF d, e
  <1>6. /\ queue' \in Seq(Entries) /\ Len(queue') = L + n
        /\ \A i \in 1 .. L : queue'[i] = queue[i + p]
        /\ n >= 1 => queue'[L + 1] = F!Entry(next)
        /\ n = 2 => queue'[L + 2] = F!Entry(F!Succ(next))
    BY <1>2, <1>3, <1>4, <1>5
  <1>7. At(1)' = At(p + 1)
    <2>1. At(1)' = IF 1 <= Len(queue') THEN queue'[1].pc ELSE next'
      BY DEF At
    <2>2. CASE L >= 1
      BY <1>3, <1>6, <2>1, <2>2 DEF At
    <2>3. CASE L = 0
      <3>1. At(p + 1) = next
        BY <1>1, <2>3 DEF At
      <3> QED
        BY <1>1, <1>2, <1>6, <2>1, <2>3, <3>1, EntryFields
    <2> QED
      BY <1>3, <2>2, <2>3
  <1>8. QueueInv'
    <2>1. next' \in Addr
      BY <1>1, <1>2
    <2>2. ASSUME NEW i \in 1 .. Len(queue')
          PROVE  F!Succ(queue'[i].pc) = IF i + 1 <= Len(queue') THEN queue'[i + 1].pc ELSE next'
      <3>1. CASE i <= L
        <4>1. i + p \in 1 .. Len(queue) /\ queue'[i] = queue[i + p]
          BY <1>1, <1>3, <1>6, <3>1
        <4>2. F!Succ(queue'[i].pc) = At(i + p + 1)
          BY <1>1, <4>1
        <4>3. CASE i < L
          <5>1. queue'[i + 1] = queue[i + 1 + p]
            BY <1>3, <1>6, <4>3
          <5>2. At(i + p + 1) = queue[i + 1 + p].pc
            BY <1>1, <4>3 DEF At
          <5> QED
            BY <1>3, <1>6, <4>2, <4>3, <5>1, <5>2
        <4>4. CASE i = L
          <5>1. At(i + p + 1) = next
            BY <1>1, <4>4 DEF At
          <5>2. CASE n = 0
            BY <1>2, <1>3, <1>6, <4>2, <4>4, <5>1, <5>2
          <5>3. CASE n >= 1
            <6>1. i + 1 = L + 1 /\ i + 1 <= Len(queue') /\ queue'[i + 1].pc = next
              BY <1>1, <1>3, <1>6, <4>4, <5>3, EntryFields
            <6> QED
              BY <4>2, <5>1, <6>1
          <5> QED
            BY <5>2, <5>3
        <4> QED
          BY <1>3, <3>1, <4>3, <4>4
      <3>2. CASE i = L + 1
        <4>1. n >= 1 /\ queue'[i].pc = next
          BY <1>1, <1>3, <1>6, <3>2, EntryFields
        <4>2. CASE n = 1
          BY <1>2, <1>3, <1>6, <3>2, <4>1, <4>2
        <4>3. CASE n = 2
          <5>1. i + 1 = L + 2 /\ i + 1 <= Len(queue') /\ queue'[i + 1].pc = F!Succ(next)
            BY <1>1, <1>3, <1>6, <3>2, <4>3, EntryFields
          <5> QED
            BY <4>1, <5>1
        <4> QED
          BY <4>1, <4>2, <4>3
      <3>3. CASE i = L + 2
        BY <1>1, <1>2, <1>3, <1>6, <3>3, EntryFields
      <3> QED
        BY <1>3, <1>6, <3>1, <3>2, <3>3
    <2>3. F!Succ(1)' = F!Succ(1)
      BY DEF F!Succ, F!Fetchable
    <2> QED
      BY <1>6, <2>1, <2>2 DEF QueueInv, At, Entries, F!Entry, F!Succ, F!Fetchable, Addr
  <1>9. p = 0 /\ queue # << >> => queue' # << >> /\ queue'[1] = queue[1]
    BY <1>1, <1>3, <1>6
  <1> QED
    BY <1>7, <1>8, <1>9

(***************************************************************************)
(* What stands at the head of the stream is the next instruction.          *)
(***************************************************************************)

\* The two halves of the i-th entry shown, when it can be fetched.
LEMMA EntryHalves ==
  ASSUME QueueInv, NEW i \in 1 .. Len(queue), F!Fetchable(At(i))
  PROVE  LET a == At(i)
         IN  /\ a \in Addr /\ queue[i].pc = a
             /\ a % 2 = 0 => /\ queue[i].instr[0] = Instructions!Half(a)
                             /\ queue[i].instr[1] = Instructions!Half(a + 1)
                             /\ Advance(a, 1) = a + 1 /\ a + 1 \in Addr /\ (a + 1) % 2 = 1
                             /\ F!Fetchable(a + 1)
                             /\ PredHi(queue[i]) = PHT[a + 1] /\ PredLo(queue[i]) = PHT[a]
                             /\ At(i + 1) = Advance(a, 2) /\ Advance(a, 2) = Advance(a + 1, 1)
             /\ a % 2 = 1 => /\ queue[i].instr[1] = Instructions!Half(a)
                             /\ PredHi(queue[i]) = PHT[a]
                             /\ At(i + 1) = Advance(a, 1) /\ Advance(a, 1) % 2 = 0
                             /\ Advance(a, 1) \in Addr
  <1> DEFINE a == At(i)
  <1>1. /\ a \in Addr /\ queue[i].pc = a
        /\ queue[i].instr = Image[a \div 4][(a \div 2) % 2]
        /\ F!Succ(a) = At(i + 1)
    BY QueueEntry
  <1> HIDE DEF a
  <1>2. ASSUME a % 2 = 0
        PROVE  /\ queue[i].instr[0] = Instructions!Half(a)
               /\ queue[i].instr[1] = Instructions!Half(a + 1)
               /\ Advance(a, 1) = a + 1 /\ a + 1 \in Addr /\ (a + 1) % 2 = 1
               /\ F!Fetchable(a + 1)
               /\ PredHi(queue[i]) = PHT[a + 1] /\ PredLo(queue[i]) = PHT[a]
               /\ At(i + 1) = Advance(a, 2) /\ Advance(a, 2) = Advance(a + 1, 1)
    BY <1>1, <1>2, LowHalf, SuccOf, AdvanceOne DEF PredHi, PredLo, a
  <1>3. ASSUME a % 2 = 1
        PROVE  /\ queue[i].instr[1] = Instructions!Half(a)
               /\ PredHi(queue[i]) = PHT[a]
               /\ At(i + 1) = Advance(a, 1) /\ Advance(a, 1) % 2 = 0
               /\ Advance(a, 1) \in Addr
    BY <1>1, <1>3, HighHalf, SuccOf, AdvanceOne DEF PredHi, a
  <1> QED
    BY <1>1, <1>2, <1>3 DEF a

LEMMA HalfType ==
  ASSUME NEW a \in Addr, F!Fetchable(a)
  PROVE  Instructions!Half(a).wide \in BOOLEAN /\ Instructions!Half(a).off \in Int
  <1>1. a \div 4 \in 0 .. (IMEM_BLOCKS - 1) /\ (a \div 2) % 2 \in 0 .. 1 /\ a % 2 \in 0 .. 1
    BY DecodeAssumption DEF Addr, F!Fetchable
  <1> QED
    BY <1>1, DecodeAssumption DEF Instructions!Half

\* The D/E register's value for an instruction and for an access fault.
Delivered(a, halves, fault, pred) ==
  [valid |-> TRUE, pc |-> a, halves |-> halves, fault |-> fault, pred |-> pred]

LEMMA Shapes ==
  /\ \A a, halves : Instructions!Instr(a, halves) = Delivered(a, halves, FALSE, NoAddr)
  /\ \A a : Instructions!Fault(a) = Delivered(a, << >>, TRUE, NoAddr)
  /\ \A a, halves, fault, p, q :
       [Delivered(a, halves, fault, p) EXCEPT !.pred = q] = Delivered(a, halves, fault, q)
  <1>1. ASSUME NEW a, NEW halves
        PROVE  Instructions!Instr(a, halves) = Delivered(a, halves, FALSE, NoAddr)
    <2>1. Instructions!Instr(a, halves) =
            [[[Instructions!Empty EXCEPT !.valid = TRUE] EXCEPT !.pc = a] EXCEPT !.halves = halves]
      BY DEF Instructions!Instr
    <2> QED
      BY <2>1 DEF Instructions!Empty, Delivered
  <1>2. ASSUME NEW a
        PROVE  Instructions!Fault(a) = Delivered(a, << >>, TRUE, NoAddr)
    <2>1. Instructions!Fault(a) =
            [[[Instructions!Empty EXCEPT !.valid = TRUE] EXCEPT !.pc = a] EXCEPT !.fault = TRUE]
      BY DEF Instructions!Fault
    <2> QED
      BY <2>1 DEF Instructions!Empty, Delivered
  <1>3. ASSUME NEW a, NEW halves, NEW fault, NEW p, NEW q
        PROVE  [Delivered(a, halves, fault, p) EXCEPT !.pred = q] = Delivered(a, halves, fault, q)
    <2> DEFINE r == [Delivered(a, halves, fault, p) EXCEPT !.pred = q]
               t == Delivered(a, halves, fault, q)
    <2>1. DOMAIN r = DOMAIN t
      BY DEF Delivered
    <2>2. r.valid = t.valid /\ r.pc = t.pc /\ r.halves = t.halves /\ r.fault = t.fault /\ r.pred = t.pred
      BY DEF Delivered
    <2>3. \A f \in DOMAIN t : r[f] = t[f]
      BY <2>1, <2>2 DEF Delivered
    <2> QED
      BY <2>1, <2>3 DEF Delivered
  <1> QED
    BY <1>1, <1>2, <1>3
\* The entry at the head is a fault exactly when its address cannot be fetched.
LEMMA HeadFault ==
  ASSUME QueueInv
  PROVE  fe_valid => /\ queue # << >> /\ 1 \in 1 .. Len(queue)
                     /\ fe.pc = At(1) /\ At(1) \in Addr
                     /\ fe.fault = ~F!Fetchable(At(1))
  BY QueueEntry DEF QueueInv, fe_valid, fe

\* The wires when nothing is stashed and the head of the queue is no fault.
HeadWires ==
  /\ fe.pc % 2 = 1 /\ fe.instr[1].wide /\ fe_next_valid /\ ~fe_next.fault =>
       /\ decoded_valid /\ src_pc = fe.pc /\ src_halves = <<fe.instr[1], fe_next.instr[0]>>
       /\ pht_taken_src = PredHi(fe) /\ fe_pop = 2
       /\ HoldNext => Stash(fe_next.instr[1], Advance(fe_next.pc, 1), PredHi(fe_next))
  /\ fe.pc % 2 = 1 /\ fe.instr[1].wide /\ ~(fe_next_valid /\ ~fe_next.fault) =>
       /\ ~decoded_valid /\ fe_pop = 1
       /\ HoldNext => Stash(fe.instr[1], fe.pc, PredHi(fe))
  /\ fe.pc % 2 = 1 /\ ~fe.instr[1].wide =>
       /\ decoded_valid /\ src_pc = fe.pc /\ src_halves = <<fe.instr[1]>>
       /\ pht_taken_src = PredHi(fe) /\ fe_pop = 1 /\ (HoldNext => Drop)
  /\ fe.pc % 2 = 0 /\ ~fe.instr[0].wide =>
       /\ decoded_valid /\ src_pc = fe.pc /\ src_halves = <<fe.instr[0]>>
       /\ pht_taken_src = PredLo(fe) /\ fe_pop = 1
       /\ HoldNext => Stash(fe.instr[1], Advance(fe.pc, 1), PredHi(fe))
  /\ fe.pc % 2 = 0 /\ fe.instr[0].wide =>
       /\ decoded_valid /\ src_pc = fe.pc /\ src_halves = <<fe.instr[0], fe.instr[1]>>
       /\ pht_taken_src = PredLo(fe) /\ fe_pop = 1 /\ (HoldNext => Drop)

\* The wires in each of the ten situations decode can be in.
Wires ==
  /\ take_fault =>
       decoded_valid /\ src_pc = fe.pc /\ src_halves = << >> /\ (HoldNext => Drop)
  /\ ~take_fault /\ span_pending /\ fe_valid =>
       /\ decoded_valid /\ src_pc = hold_pc_q /\ src_halves = <<hold_word_q, fe.instr[0]>>
       /\ pht_taken_src = hold_pred_q /\ fe_pop = 1
       /\ HoldNext => Stash(fe.instr[1], Advance(fe.pc, 1), PredHi(fe))
  /\ ~take_fault /\ span_pending /\ ~fe_valid =>
       ~decoded_valid /\ fe_pop = 0 /\ (HoldNext => Keep)
  /\ hold_plain_pending =>
       /\ ~take_fault
       /\ decoded_valid /\ src_pc = hold_pc_q /\ src_halves = <<hold_word_q>>
       /\ pht_taken_src = hold_pred_q /\ fe_pop = 0 /\ (HoldNext => Drop)
  /\ ~take_fault /\ ~hold_q /\ fe_valid => HeadWires
  /\ ~hold_q /\ ~fe_valid => ~take_fault /\ ~decoded_valid /\ fe_pop = 0 /\ (HoldNext => Drop)

LEMMA WiresHold == Wires
  <1>1. ASSUME take_fault
        PROVE  decoded_valid /\ src_pc = fe.pc /\ src_halves = << >> /\ (HoldNext => Drop)
    <2>1. ~span_complete /\ ~hold_plain_pending
      BY <1>1 DEF take_fault, span_complete
    <2>2. decoded_valid
      BY <1>1, <2>1 DEF decoded_valid
    <2>3. src_pc = fe.pc
      BY <1>1, <2>1 DEF src_pc
    <2>4. src_halves = << >>
      BY <1>1, <2>1 DEF src_halves
    <2>5. HoldNext => Drop
      BY <1>1, <2>1 DEF HoldNext
    <2> QED
      BY <2>2, <2>3, <2>4, <2>5
  <1>2. ASSUME ~take_fault, span_pending, fe_valid
        PROVE  /\ decoded_valid /\ src_pc = hold_pc_q /\ src_halves = <<hold_word_q, fe.instr[0]>>
               /\ pht_taken_src = hold_pred_q /\ fe_pop = 1
               /\ HoldNext => Stash(fe.instr[1], Advance(fe.pc, 1), PredHi(fe))
    <2>1. span_complete /\ ~span_wait /\ ~resource_stall /\ ~target_span_complete
      BY <1>2 DEF span_complete, span_wait, resource_stall, hold_plain_pending, span_pending,
                  target_span_complete, target_span, target_upper
    <2> QED
      BY <1>2, <2>1 DEF decoded_valid, src_pc, src_halves, HoldNext, pht_taken_src, fe_pop
  <1>3. ASSUME ~take_fault, span_pending, ~fe_valid
        PROVE  ~decoded_valid /\ fe_pop = 0 /\ (HoldNext => Keep)
    <2>1. span_wait /\ ~span_complete /\ ~hold_plain_pending
      BY <1>3 DEF span_wait, span_complete, hold_plain_pending, span_pending
    <2> QED
      BY <1>3, <2>1 DEF decoded_valid, HoldNext, fe_pop
  <1>4. ASSUME hold_plain_pending
        PROVE  /\ ~take_fault
               /\ decoded_valid /\ src_pc = hold_pc_q /\ src_halves = <<hold_word_q>>
               /\ pht_taken_src = hold_pred_q /\ fe_pop = 0 /\ (HoldNext => Drop)
    <2>1. ~take_fault /\ ~span_complete /\ ~span_wait
      BY <1>4 DEF take_fault, span_complete, span_wait, span_pending, hold_plain_pending
    <2>2. fe_valid => resource_stall
      BY <1>4 DEF resource_stall
    <2> QED
      BY <1>4, <2>1, <2>2 DEF decoded_valid, src_pc, src_halves, HoldNext, pht_taken_src, fe_pop
  <1>5. ASSUME ~take_fault, ~hold_q, fe_valid
        PROVE  HeadWires
    <2>1. ~span_complete /\ ~span_wait /\ ~hold_plain_pending /\ ~resource_stall
      BY <1>5 DEF span_complete, span_wait, span_pending, hold_plain_pending, resource_stall
    <2>2. target_upper <=> fe.pc % 2 = 1
      BY <1>5 DEF target_upper
    <2>3. ASSUME fe.pc % 2 = 1, fe.instr[1].wide, fe_next_valid, ~fe_next.fault
          PROVE  /\ decoded_valid /\ src_pc = fe.pc /\ src_halves = <<fe.instr[1], fe_next.instr[0]>>
                 /\ pht_taken_src = PredHi(fe) /\ fe_pop = 2
                 /\ HoldNext => Stash(fe_next.instr[1], Advance(fe_next.pc, 1), PredHi(fe_next))
      <3>1. target_span_complete /\ ~target_span_wait
        BY <2>2, <2>3 DEF target_span_complete, target_span_wait, target_span
      <3> QED
        BY <1>5, <2>1, <2>3, <3>1
        DEF decoded_valid, src_pc, src_halves, HoldNext, pht_taken_src, fe_pop
    <2>4. ASSUME fe.pc % 2 = 1, fe.instr[1].wide, ~(fe_next_valid /\ ~fe_next.fault)
          PROVE  /\ ~decoded_valid /\ fe_pop = 1
                 /\ HoldNext => Stash(fe.instr[1], fe.pc, PredHi(fe))
      <3>1. ~target_span_complete /\ target_span_wait
        BY <2>2, <2>4 DEF target_span_complete, target_span_wait, target_span
      <3> QED
        BY <1>5, <2>1, <3>1 DEF decoded_valid, HoldNext, fe_pop
    <2>5. ASSUME fe.pc % 2 = 1, ~fe.instr[1].wide
          PROVE  /\ decoded_valid /\ src_pc = fe.pc /\ src_halves = <<fe.instr[1]>>
                 /\ pht_taken_src = PredHi(fe) /\ fe_pop = 1 /\ (HoldNext => Drop)
      <3>1. ~target_span_complete /\ ~target_span_wait /\ target_upper /\ ~buffer_upper
        BY <2>2, <2>5 DEF target_span_complete, target_span_wait, target_span, buffer_upper
      <3> QED
        BY <1>5, <2>1, <2>5, <3>1
        DEF decoded_valid, src_pc, src_halves, HoldNext, pht_taken_src, fe_pop
    <2>6. ASSUME fe.pc % 2 = 0
          PROVE  ~target_upper /\ ~target_span_complete /\ ~target_span_wait /\ fe.pc % 2 # 1
      BY <2>2, <2>6 DEF target_span_complete, target_span_wait, target_span
    <2>7. ASSUME fe.pc % 2 = 0, ~fe.instr[0].wide
          PROVE  /\ decoded_valid /\ src_pc = fe.pc /\ src_halves = <<fe.instr[0]>>
                 /\ pht_taken_src = PredLo(fe) /\ fe_pop = 1
                 /\ HoldNext => Stash(fe.instr[1], Advance(fe.pc, 1), PredHi(fe))
      <3>1. fe_is_compressed /\ buffer_upper
        BY <1>5, <2>6, <2>7 DEF fe_is_compressed, buffer_upper
      <3> QED
        BY <1>5, <2>1, <2>6, <2>7, <3>1
        DEF decoded_valid, src_pc, src_halves, HoldNext, pht_taken_src, fe_pop
    <2>8. ASSUME fe.pc % 2 = 0, fe.instr[0].wide
          PROVE  /\ decoded_valid /\ src_pc = fe.pc /\ src_halves = <<fe.instr[0], fe.instr[1]>>
                 /\ pht_taken_src = PredLo(fe) /\ fe_pop = 1 /\ (HoldNext => Drop)
      <3>1. ~fe_is_compressed /\ ~buffer_upper
        BY <1>5, <2>8 DEF fe_is_compressed, buffer_upper
      <3> QED
        BY <1>5, <2>1, <2>6, <2>8, <3>1
        DEF decoded_valid, src_pc, src_halves, HoldNext, pht_taken_src, fe_pop
    <2> QED
      BY <2>3, <2>4, <2>5, <2>7, <2>8 DEF HeadWires
  <1>6. ASSUME ~hold_q, ~fe_valid
        PROVE  ~take_fault /\ ~decoded_valid /\ fe_pop = 0 /\ (HoldNext => Drop)
    <2>1. ~take_fault /\ ~span_wait /\ ~span_complete /\ ~hold_plain_pending
          /\ ~target_span_complete /\ ~target_span_wait /\ ~buffer_upper
      BY <1>6 DEF take_fault, span_wait, span_complete, span_pending, hold_plain_pending,
                  target_span_complete, target_span_wait, target_span, target_upper, buffer_upper
    <2> QED
      BY <1>6, <2>1 DEF decoded_valid, HoldNext, fe_pop
  <1> QED
    BY <1>1, <1>2, <1>3, <1>4, <1>5, <1>6 DEF Wires

\* The instruction stream's instruction at an address, in decode's terms.
LEMMA InstrAtIs ==
  ASSUME NEW a \in Addr
  PROVE  LET b == Advance(a, 1)
         IN  Instructions!InstrAt(a) =
               IF ~F!Fetchable(a) THEN Delivered(a, << >>, TRUE, NoAddr)
               ELSE IF ~Instructions!Half(a).wide
                 THEN Delivered(a, <<Instructions!Half(a)>>, FALSE, NoAddr)
               ELSE IF ~F!Fetchable(b) THEN Delivered(b, << >>, TRUE, NoAddr)
               ELSE Delivered(a, <<Instructions!Half(a), Instructions!Half(b)>>, FALSE, NoAddr)
  <1>1. \A x : Instructions!Fetchable(x) = F!Fetchable(x)
    BY DEF Instructions!Fetchable, F!Fetchable
  <1>2. Instructions!Plus(a, 1) = Advance(a, 1)
    BY DEF Instructions!Plus, Advance
  <1> QED
    BY <1>1, <1>2, Shapes DEF Instructions!InstrAt

\* What decode makes of the head of the stream is the next instruction.
Decodes ==
  /\ Instructions!InstrAt(ipc) = Delivered(src_pc, src_halves, take_fault, NoAddr)
  /\ take_fault => src_halves = << >>
  /\ ~take_fault => /\ src_pc = ipc /\ F!Fetchable(ipc)
                    /\ src_halves # << >> /\ src_halves[1] = Instructions!Half(ipc)
                    /\ pht_taken_src = PHT[ipc]
  /\ Len(src_halves) \in 0 .. 2

\* Where the path continues: in the stash, or at the head of fetch's queue.
Following == IF decoded_valid THEN Advance(ipc, Len(src_halves)) ELSE ipc

Lands ==
  \/ hold_q' = FALSE /\ (take_fault \/ Following = At(fe_pop + 1))
  \/ /\ hold_q' = TRUE /\ ~take_fault
     /\ hold_pc_q' = Following /\ Following \in Addr /\ Following % 2 = 1
     /\ F!Fetchable(Following) /\ Advance(Following, 1) = At(fe_pop + 1)
     /\ hold_word_q' = Instructions!Half(Following)
     /\ hold_pred_q' = PHT[Following]

\* The head of the stream when nothing is stashed and it is no fault.
LEMMA HeadCase ==
  ASSUME DecodeInv, Goes, ~hold_q, fe_valid, ~take_fault
  PROVE  /\ ipc = At(1) /\ ipc = fe.pc /\ F!Fetchable(ipc) /\ 1 \in 1 .. Len(queue)
         /\ Instructions!Half(ipc).wide \in BOOLEAN
         /\ fe_next_valid <=> 2 \in 1 .. Len(queue)
         /\ fe_next_valid => fe_next.pc = At(2) /\ (fe_next.fault <=> ~F!Fetchable(At(2)))
         /\ fe_pop \in {1, 2}
  <1>1. /\ queue # << >> /\ 1 \in 1 .. Len(queue)
        /\ fe.pc = At(1) /\ At(1) \in Addr /\ fe.fault = ~F!Fetchable(At(1))
    BY HeadFault DEF DecodeInv
  <1>2. ~fe.fault
    BY DEF take_fault, hold_plain_pending
  <1>3. ipc = At(1)
    BY <1>2 DEF DecodeInv, HeadInv, fe
  <1>4. Instructions!Half(ipc).wide \in BOOLEAN
    BY <1>1, <1>2, <1>3, HalfType
  <1>5. fe_next_valid <=> 2 \in 1 .. Len(queue)
    BY DEF DecodeInv, QueueInv, fe_next_valid
  <1>6. fe_next_valid => fe_next.pc = At(2) /\ (fe_next.fault <=> ~F!Fetchable(At(2)))
    BY <1>5, QueueEntry DEF DecodeInv, fe_next
  <1>7. fe_pop \in {1, 2}
    BY DEF fe_pop, resource_stall, hold_plain_pending
  <1> QED
    BY <1>1, <1>2, <1>3, <1>4, <1>5, <1>6, <1>7

\* What to show when no fault is taken.
LEMMA DecodesIf ==
  ASSUME ~take_fault, F!Fetchable(ipc), src_pc = ipc,
         src_halves # << >>, src_halves[1] = Instructions!Half(ipc), Len(src_halves) \in 0 .. 2,
         pht_taken_src = PHT[ipc],
         Instructions!InstrAt(ipc) = Delivered(ipc, src_halves, FALSE, NoAddr)
  PROVE  Decodes
  <1>1. take_fault = FALSE
    BY DEF take_fault
  <1>2. Delivered(ipc, src_halves, take_fault, NoAddr) = Delivered(ipc, src_halves, FALSE, NoAddr)
    BY <1>1 DEF take_fault
  <1> QED
    BY <1>2 DEF Decodes

\* A fault entry at the head, alone or under the first half of an instruction.
LEMMA FaultCase ==
  ASSUME DecodeInv, Goes, take_fault
  PROVE  Decodes /\ (HoldNext => Lands)
  <1>1. /\ fe_valid /\ fe.fault /\ fe.pc = At(1) /\ At(1) \in Addr /\ ~F!Fetchable(At(1))
        /\ queue # << >>
    BY HeadFault DEF take_fault, DecodeInv
  <1>2. src_pc = At(1) /\ src_halves = << >> /\ (HoldNext => Drop)
    BY <1>1, WiresHold DEF Wires
  <1>3. Instructions!InstrAt(ipc) = Delivered(At(1), << >>, TRUE, NoAddr)
    <2>1. CASE hold_q
      <3>1. /\ Advance(ipc, 1) = At(1) /\ F!Fetchable(ipc)
            /\ hold_word_q = Instructions!Half(ipc) /\ ipc \in Addr
        BY <2>1 DEF DecodeInv, HoldInv
      <3>2. Instructions!Half(ipc).wide
        BY <2>1, <3>1 DEF take_fault, hold_plain_pending
      <3> QED
        BY <1>1, <3>1, <3>2, InstrAtIs
    <2>2. CASE ~hold_q
      <3>1. CASE ipc = At(1)
        BY <1>1, <3>1, InstrAtIs
      <3>2. CASE ipc # At(1)
        <4>1. F!Fetchable(ipc) /\ Instructions!Half(ipc).wide /\ Advance(ipc, 1) = At(1)
          BY <2>2, <3>2 DEF DecodeInv, HeadInv
        <4> QED
          BY <1>1, <4>1, InstrAtIs DEF DecodeInv
      <3> QED
        BY <3>1, <3>2
    <2> QED
      BY <2>1, <2>2 DEF DecodeInv
  <1>4. Len(src_halves) = 0
    BY <1>2
  <1>5. Decodes
    BY <1>2, <1>3, <1>4 DEF Decodes
  <1>6. HoldNext => Lands
    BY <1>2 DEF Lands, Drop
  <1> QED
    BY <1>5, <1>6

\* The stash is an instruction of its own.
LEMMA PlainCase ==
  ASSUME DecodeInv, Goes, hold_plain_pending
  PROVE  Decodes /\ (HoldNext => Lands)
  <1>1. /\ hold_q /\ ~hold_word_q.wide /\ ~take_fault /\ decoded_valid
        /\ src_pc = hold_pc_q /\ src_halves = <<hold_word_q>>
        /\ pht_taken_src = hold_pred_q /\ fe_pop = 0 /\ (HoldNext => Drop)
    BY WiresHold DEF Wires, hold_plain_pending
  <1>2. /\ ipc = hold_pc_q /\ ipc \in Addr /\ F!Fetchable(ipc)
        /\ hold_word_q = Instructions!Half(ipc) /\ hold_pred_q = PHT[ipc]
        /\ Advance(ipc, 1) = At(1)
    BY <1>1 DEF DecodeInv, HoldInv
  <1>3. Instructions!InstrAt(ipc) = Delivered(ipc, <<Instructions!Half(ipc)>>, FALSE, NoAddr)
    BY <1>1, <1>2, InstrAtIs
  <1>4. src_halves # << >> /\ src_halves[1] = hold_word_q /\ Len(src_halves) = 1
    BY <1>1
  <1>5. Decodes
    BY <1>1, <1>2, <1>3, <1>4, DecodesIf
  <1>6. Following = At(fe_pop + 1)
    BY <1>1, <1>2, <1>4 DEF Following
  <1>7. HoldNext => Lands
    BY <1>1, <1>6 DEF Lands, Drop
  <1> QED
    BY <1>5, <1>7

\* The stash is the first half of a wide instruction whose second half is
\* the low half of the word at the head.
LEMMA SpanCase ==
  ASSUME DecodeInv, Goes, ~take_fault, span_pending, fe_valid
  PROVE  Decodes /\ (HoldNext => Lands)
  <1>1. /\ hold_q /\ hold_word_q.wide /\ decoded_valid
        /\ src_pc = hold_pc_q /\ src_halves = <<hold_word_q, fe.instr[0]>>
        /\ pht_taken_src = hold_pred_q /\ fe_pop = 1
        /\ HoldNext => Stash(fe.instr[1], Advance(fe.pc, 1), PredHi(fe))
    BY WiresHold DEF Wires, span_pending
  <1>2. /\ ipc = hold_pc_q /\ ipc \in Addr /\ F!Fetchable(ipc)
        /\ hold_word_q = Instructions!Half(ipc) /\ hold_pred_q = PHT[ipc]
        /\ Advance(ipc, 1) = At(1) /\ At(1) % 2 = 0
    BY <1>1, HighHalf DEF DecodeInv, HoldInv
  <1>3. 1 \in 1 .. Len(queue) /\ fe.pc = At(1) /\ F!Fetchable(At(1)) /\ At(1) \in Addr
    BY <1>1, HeadFault DEF DecodeInv, take_fault, hold_plain_pending
  <1> DEFINE a == At(1)
  <1>4. /\ fe.instr[0] = Instructions!Half(a)
        /\ fe.instr[1] = Instructions!Half(a + 1)
        /\ Advance(a, 1) = a + 1 /\ a + 1 \in Addr /\ (a + 1) % 2 = 1
        /\ F!Fetchable(a + 1)
        /\ PredHi(fe) = PHT[a + 1]
        /\ At(2) = Advance(a + 1, 1)
    BY <1>2, <1>3, EntryHalves DEF DecodeInv, fe
  <1>5. Instructions!InstrAt(ipc) =
          Delivered(ipc, <<Instructions!Half(ipc), Instructions!Half(a)>>, FALSE, NoAddr)
    BY <1>1, <1>2, <1>3, InstrAtIs
  <1> HIDE DEF a
  <1>6. src_halves # << >> /\ src_halves[1] = hold_word_q /\ Len(src_halves) = 2
    BY <1>1
  <1>7. Decodes
    <2>1. src_halves = <<Instructions!Half(ipc), Instructions!Half(a)>>
      BY <1>1, <1>2, <1>4
    <2>2. src_pc = ipc /\ pht_taken_src = PHT[ipc] /\ src_halves[1] = Instructions!Half(ipc)
      BY <1>1, <1>2, <1>6
    <2>3. Instructions!InstrAt(ipc) = Delivered(ipc, src_halves, FALSE, NoAddr)
      BY <1>5, <2>1
    <2> QED
      BY <1>2, <1>6, <2>2, <2>3, DecodesIf
  <1>8. Following = a + 1
    <2>1. Advance(ipc, 2) = Advance(a, 1)
      BY <1>2, AdvanceOne DEF a
    <2> QED
      BY <1>1, <1>4, <1>6, <2>1 DEF Following
  <1>9. HoldNext => Lands
    BY <1>1, <1>3, <1>4, <1>8 DEF Lands, Stash, a
  <1> QED
    BY <1>7, <1>9

\* That second half has not come yet.
LEMMA WaitCase ==
  ASSUME DecodeInv, Goes, ~take_fault, span_pending, ~fe_valid
  PROVE  ~decoded_valid /\ (HoldNext => Lands)
  <1>1. hold_q /\ ~decoded_valid /\ fe_pop = 0 /\ (HoldNext => Keep)
    BY WiresHold DEF Wires, span_pending
  <1>2. Following = hold_pc_q
    BY <1>1 DEF DecodeInv, HoldInv, Following
  <1>3. HoldNext => Lands
    BY <1>1, <1>2 DEF Lands, Keep, DecodeInv, HoldInv
  <1> QED
    BY <1>1, <1>3

\* There is nothing to decode.
LEMMA EmptyCase ==
  ASSUME DecodeInv, Goes, ~hold_q, ~fe_valid
  PROVE  ~decoded_valid /\ (HoldNext => Lands)
  <1>1. ~decoded_valid /\ fe_pop = 0 /\ (HoldNext => Drop)
    BY WiresHold DEF Wires
  <1>2. queue = << >>
    BY DEF fe_valid, DecodeInv, QueueInv
  <1>3. Following = At(1)
    BY <1>1, <1>2 DEF Following, DecodeInv, HeadInv
  <1> QED
    BY <1>1, <1>3 DEF Lands, Drop

\* A jump has landed on a high half that is an instruction of its own.
LEMMA UpperCase ==
  ASSUME DecodeInv, Goes, ~hold_q, fe_valid, ~take_fault,
         fe.pc % 2 = 1, ~fe.instr[1].wide
  PROVE  Decodes /\ (HoldNext => Lands)
  <1>1. /\ ipc = At(1) /\ fe.pc = ipc /\ F!Fetchable(ipc) /\ 1 \in 1 .. Len(queue) /\ ipc \in Addr
    BY HeadCase DEF DecodeInv
  <1>2. /\ decoded_valid /\ src_pc = ipc /\ src_halves = <<fe.instr[1]>>
        /\ pht_taken_src = PredHi(fe) /\ fe_pop = 1 /\ (HoldNext => Drop)
    BY <1>1, WiresHold DEF Wires, HeadWires
  <1>3. /\ fe.instr[1] = Instructions!Half(ipc) /\ PredHi(fe) = PHT[ipc] /\ At(2) = Advance(ipc, 1)
    BY <1>1, EntryHalves DEF DecodeInv, fe
  <1>4. src_halves # << >> /\ src_halves[1] = fe.instr[1] /\ Len(src_halves) = 1
    BY <1>2
  <1>6. Instructions!InstrAt(ipc) = Delivered(ipc, <<Instructions!Half(ipc)>>, FALSE, NoAddr)
    BY <1>1, <1>3, InstrAtIs
  <1>7. Decodes
    <2>1. src_halves = <<Instructions!Half(ipc)>>
      BY <1>2, <1>3
    <2> QED
      BY <1>1, <1>2, <1>3, <1>4, <1>6, <2>1, DecodesIf
  <1>8. Following = At(fe_pop + 1)
    BY <1>2, <1>3, <1>4 DEF Following
  <1> QED
    BY <1>2, <1>7, <1>8 DEF Lands, Drop

\* It has landed on the first half of a wide instruction, and both words of
\* it are shown.
LEMMA UpperSpanCase ==
  ASSUME DecodeInv, Goes, ~hold_q, fe_valid, ~take_fault,
         fe.pc % 2 = 1, fe.instr[1].wide, fe_next_valid, ~fe_next.fault
  PROVE  Decodes /\ (HoldNext => Lands)
  <1>1. /\ ipc = At(1) /\ fe.pc = ipc /\ F!Fetchable(ipc) /\ 1 \in 1 .. Len(queue) /\ ipc \in Addr
        /\ 2 \in 1 .. Len(queue) /\ fe_next.pc = At(2) /\ F!Fetchable(At(2))
    BY HeadCase DEF DecodeInv
  <1>2. /\ decoded_valid /\ src_pc = ipc /\ src_halves = <<fe.instr[1], fe_next.instr[0]>>
        /\ pht_taken_src = PredHi(fe) /\ fe_pop = 2
        /\ HoldNext => Stash(fe_next.instr[1], Advance(fe_next.pc, 1), PredHi(fe_next))
    BY <1>1, WiresHold DEF Wires, HeadWires
  <1>3. /\ fe.instr[1] = Instructions!Half(ipc) /\ PredHi(fe) = PHT[ipc] /\ At(2) = Advance(ipc, 1)
        /\ At(2) % 2 = 0
    BY <1>1, EntryHalves DEF DecodeInv, fe
  <1> DEFINE a == At(2)
  <1>4. /\ a \in Addr /\ fe_next.instr[0] = Instructions!Half(a)
        /\ fe_next.instr[1] = Instructions!Half(a + 1)
        /\ Advance(a, 1) = a + 1 /\ a + 1 \in Addr /\ (a + 1) % 2 = 1
        /\ F!Fetchable(a + 1)
        /\ PredHi(fe_next) = PHT[a + 1]
        /\ At(3) = Advance(a + 1, 1)
    <2>1. 2 + 1 = 3
      OBVIOUS
    <2> QED
      BY <1>1, <1>3, <2>1, EntryHalves DEF DecodeInv, fe_next
  <1>5. Instructions!InstrAt(ipc) =
          Delivered(ipc, <<Instructions!Half(ipc), Instructions!Half(a)>>, FALSE, NoAddr)
    BY <1>1, <1>3, InstrAtIs
  <1> HIDE DEF a
  <1>6. src_halves # << >> /\ src_halves[1] = fe.instr[1] /\ Len(src_halves) = 2
    BY <1>2
  <1>8. Decodes
    <2>1. src_halves = <<Instructions!Half(ipc), Instructions!Half(a)>>
      BY <1>2, <1>3, <1>4
    <2> QED
      BY <1>1, <1>2, <1>3, <1>4, <1>5, <1>6, <2>1, DecodesIf
  <1>9. Following = a + 1
    <2>1. Advance(ipc, 2) = Advance(a, 1)
      BY <1>1, <1>3, AdvanceOne DEF a
    <2> QED
      BY <1>2, <1>4, <1>6, <2>1 DEF Following
  <1>10. HoldNext => Lands
    BY <1>1, <1>2, <1>4, <1>9 DEF Lands, Stash, a
  <1> QED
    BY <1>8, <1>10

\* Only the first is: the half is stashed, to wait for the second.
LEMMA UpperWaitCase ==
  ASSUME DecodeInv, Goes, ~hold_q, fe_valid, ~take_fault,
         fe.pc % 2 = 1, fe.instr[1].wide, ~(fe_next_valid /\ ~fe_next.fault)
  PROVE  ~decoded_valid /\ (HoldNext => Lands)
  <1>1. /\ ipc = At(1) /\ fe.pc = ipc /\ F!Fetchable(ipc) /\ 1 \in 1 .. Len(queue) /\ ipc \in Addr
    BY HeadCase DEF DecodeInv
  <1>2. /\ ~decoded_valid /\ fe_pop = 1
        /\ HoldNext => Stash(fe.instr[1], fe.pc, PredHi(fe))
    BY <1>1, WiresHold DEF Wires, HeadWires
  <1>3. /\ fe.instr[1] = Instructions!Half(ipc) /\ PredHi(fe) = PHT[ipc] /\ At(2) = Advance(ipc, 1)
    BY <1>1, EntryHalves DEF DecodeInv, fe
  <1>4. Following = ipc
    BY <1>2 DEF Following
  <1> QED
    BY <1>1, <1>2, <1>3, <1>4 DEF Lands, Stash

\* A compressed instruction in the low half: the high half is stashed.
LEMMA LowCase ==
  ASSUME DecodeInv, Goes, ~hold_q, fe_valid, ~take_fault,
         fe.pc % 2 = 0, ~fe.instr[0].wide
  PROVE  Decodes /\ (HoldNext => Lands)
  <1>1. /\ ipc = At(1) /\ fe.pc = ipc /\ F!Fetchable(ipc) /\ 1 \in 1 .. Len(queue) /\ ipc \in Addr
    BY HeadCase DEF DecodeInv
  <1>2. /\ decoded_valid /\ src_pc = ipc /\ src_halves = <<fe.instr[0]>>
        /\ pht_taken_src = PredLo(fe) /\ fe_pop = 1
        /\ HoldNext => Stash(fe.instr[1], Advance(fe.pc, 1), PredHi(fe))
    BY <1>1, WiresHold DEF Wires, HeadWires
  <1>3. /\ fe.instr[0] = Instructions!Half(ipc)
        /\ fe.instr[1] = Instructions!Half(ipc + 1)
        /\ Advance(ipc, 1) = ipc + 1 /\ ipc + 1 \in Addr /\ (ipc + 1) % 2 = 1
        /\ F!Fetchable(ipc + 1)
        /\ PredHi(fe) = PHT[ipc + 1] /\ PredLo(fe) = PHT[ipc]
        /\ At(2) = Advance(ipc + 1, 1)
    BY <1>1, EntryHalves DEF DecodeInv, fe
  <1>4. src_halves # << >> /\ src_halves[1] = fe.instr[0] /\ Len(src_halves) = 1
    BY <1>2
  <1>6. Instructions!InstrAt(ipc) = Delivered(ipc, <<Instructions!Half(ipc)>>, FALSE, NoAddr)
    BY <1>1, <1>3, InstrAtIs
  <1>7. Decodes
    <2>1. src_halves = <<Instructions!Half(ipc)>>
      BY <1>2, <1>3
    <2> QED
      BY <1>1, <1>2, <1>3, <1>4, <1>6, <2>1, DecodesIf
  <1>8. Following = ipc + 1
    BY <1>2, <1>3, <1>4 DEF Following
  <1> QED
    BY <1>1, <1>2, <1>3, <1>7, <1>8 DEF Lands, Stash

\* A whole word.
LEMMA WordCase ==
  ASSUME DecodeInv, Goes, ~hold_q, fe_valid, ~take_fault,
         fe.pc % 2 = 0, fe.instr[0].wide
  PROVE  Decodes /\ (HoldNext => Lands)
  <1>1. /\ ipc = At(1) /\ fe.pc = ipc /\ F!Fetchable(ipc) /\ 1 \in 1 .. Len(queue) /\ ipc \in Addr
    BY HeadCase DEF DecodeInv
  <1>2. /\ decoded_valid /\ src_pc = ipc /\ src_halves = <<fe.instr[0], fe.instr[1]>>
        /\ pht_taken_src = PredLo(fe) /\ fe_pop = 1 /\ (HoldNext => Drop)
    BY <1>1, WiresHold DEF Wires, HeadWires
  <1>3. /\ fe.instr[0] = Instructions!Half(ipc)
        /\ fe.instr[1] = Instructions!Half(ipc + 1)
        /\ Advance(ipc, 1) = ipc + 1 /\ F!Fetchable(ipc + 1)
        /\ PredLo(fe) = PHT[ipc]
        /\ At(2) = Advance(ipc, 2)
    BY <1>1, EntryHalves DEF DecodeInv, fe
  <1>4. src_halves # << >> /\ src_halves[1] = fe.instr[0] /\ Len(src_halves) = 2
    BY <1>2
  <1>6. Instructions!InstrAt(ipc) =
          Delivered(ipc, <<Instructions!Half(ipc), Instructions!Half(ipc + 1)>>, FALSE, NoAddr)
    BY <1>1, <1>3, InstrAtIs
  <1>7. Decodes
    <2>1. src_halves = <<Instructions!Half(ipc), Instructions!Half(ipc + 1)>>
      BY <1>2, <1>3
    <2> QED
      BY <1>1, <1>2, <1>3, <1>4, <1>6, <2>1, DecodesIf
  <1>8. Following = At(fe_pop + 1)
    BY <1>2, <1>3, <1>4 DEF Following
  <1> QED
    BY <1>2, <1>7, <1>8 DEF Lands, Drop

\* The cases are all there are.
LEMMA DecodedInstr ==
  ASSUME DecodeInv, Goes
  PROVE  (decoded_valid => Decodes) /\ (HoldNext => Lands)
  <1>1. CASE take_fault
    BY <1>1, FaultCase
  <1>2. CASE ~take_fault /\ hold_q
    <2>1. hold_plain_pending \/ span_pending
      BY <1>2 DEF hold_plain_pending, span_pending
    <2> QED
      BY <1>2, <2>1, PlainCase, SpanCase, WaitCase
  <1>3. CASE ~take_fault /\ ~hold_q /\ ~fe_valid
    BY <1>3, EmptyCase
  <1>4. CASE ~take_fault /\ ~hold_q /\ fe_valid
    <2>1. fe.pc % 2 = 0 \/ fe.pc % 2 = 1
      BY <1>4, HeadFault DEF DecodeInv, Addr
    <2> QED
      BY <1>4, <2>1, UpperCase, UpperSpanCase, UpperWaitCase, LowCase, WordCase
  <1> QED
    BY <1>1, <1>2, <1>3, <1>4

(***************************************************************************)
(* Every step keeps the invariant.                                         *)
(***************************************************************************)
LEMMA InitInv == Init => DecodeInv
  <1> SUFFICES ASSUME Init PROVE DecodeInv
    OBVIOUS
  <1>1. /\ queue = << >> /\ next = BOOT_ADDR /\ hold_q = FALSE /\ de_q = Bubble
        /\ ipc = BOOT_ADDR /\ BOOT_ADDR \in Addr
    BY DecodeAssumption DEF Init, F!Init, Addr
  <1>2. QueueInv
    BY <1>1 DEF QueueInv
  <1>3. ipc = At(1)
    BY <1>1 DEF At
  <1>4. ~de_q.fault
    BY <1>1 DEF Bubble
  <1> QED
    BY <1>1, <1>2, <1>3, <1>4 DEF DecodeInv, HoldInv, HeadInv

\* After a redirect, from execute or from the prediction, nothing is left.
LEMMA Restarts ==
  ASSUME DecodeInv, NEW target \in Addr, F!Redirect(target), Drop, ipc' = target,
         de_q'.fault => de_q'.valid
  PROVE  DecodeInv'
  <1>1. queue' = << >> /\ next' = target /\ hold_q' = FALSE
    BY DEF F!Redirect, Drop
  <1>2. QueueInv'
    BY <1>1 DEF QueueInv, Addr
  <1>3. At(1)' = target
    BY <1>1 DEF At
  <1> QED
    BY <1>1, <1>2, <1>3 DEF DecodeInv, HoldInv, HeadInv, Addr

LEMMA StallInv ==
  ASSUME DecodeInv, NEW pushed \in 0 .. 2, Stall(pushed)
  PROVE  DecodeInv'
  <1>1. F!Advance(0, pushed) /\ HoldStall /\ de_q' = de_q /\ ipc' = ipc
    BY DEF Stall, DecodeStall
  <1>2. /\ QueueInv' /\ At(1)' = At(1)
        /\ queue # << >> => queue' # << >> /\ queue'[1] = queue[1]
    <2>1. 0 \in 0 .. 2 /\ 0 + 1 = 1
      OBVIOUS
    <2> QED
      BY <1>1, <2>1, QueueStep DEF DecodeInv
  <1>3. CASE take_fault
    <2>1. hold_q' = FALSE
      BY <1>1, <1>3 DEF HoldStall, Drop
    <2>2. queue # << >> /\ queue[1].fault
      BY <1>3, HeadFault DEF take_fault, DecodeInv, fe
    <2>3. HeadInv'
      <3>1. CASE hold_q
        <4>1. F!Fetchable(ipc) /\ Instructions!Half(ipc).wide /\ Advance(ipc, 1) = At(1)
          BY <1>3, <3>1 DEF DecodeInv, HoldInv, take_fault, hold_plain_pending
        <4> QED
          BY <1>1, <1>2, <2>2, <4>1
          DEF HeadInv, F!Fetchable, Instructions!Half, Advance
      <3>2. CASE ~hold_q
        BY <1>1, <1>2, <2>2, <3>2
        DEF DecodeInv, HeadInv, Goes, F!Fetchable, Instructions!Half, Advance
      <3> QED
        BY <3>1, <3>2
    <2> QED
      BY <1>1, <1>2, <2>1, <2>3 DEF DecodeInv, HoldInv
  <1>4. CASE ~take_fault
    <2>1. UNCHANGED <<hold_q, hold_word_q, hold_pc_q, hold_pred_q>>
      BY <1>1, <1>4 DEF HoldStall, Keep
    <2>2. HoldInv'
      BY <1>1, <1>2, <2>1 DEF DecodeInv, HoldInv, F!Fetchable, Instructions!Half, Advance, Addr
    <2>3. HeadInv'
      BY <1>1, <1>2, <2>1
      DEF DecodeInv, HeadInv, Goes, F!Fetchable, Instructions!Half, Advance
    <2> QED
      BY <1>1, <1>2, <2>1, <2>2, <2>3 DEF DecodeInv
  <1> QED
    BY <1>3, <1>4

\* What decode delivers.
LEMMA DecodedRegister ==
  ASSUME NEW ras
  PROVE  /\ ~decoded_valid => de_d(ras) = Bubble
         /\ decoded_valid => de_d(ras) = Delivered(src_pc, src_halves, take_fault,
                                           IF cf_taken(ras) THEN cf_target(ras) ELSE NoAddr)
  BY DEF de_d, Delivered

LEMMA TakeInv ==
  ASSUME DecodeInv, NEW ras \in Addr \cup {NoAddr}, NEW pushed \in 0 .. 2, Take(ras, pushed)
  PROVE  DecodeInv'
  <1>1. /\ Goes /\ F!Advance(fe_pop, pushed) /\ HoldNext /\ de_q' = de_d(ras)
        /\ ipc' = Following
    BY DEF Take, DecodeTake, Following
  <1>2. (decoded_valid => Decodes) /\ Lands
    BY <1>1, DecodedInstr
  <1>3. QueueInv' /\ At(1)' = At(fe_pop + 1)
    <2>1. fe_pop \in 0 .. 2
      BY DEF fe_pop
    <2> QED
      BY <1>1, <2>1, QueueStep DEF DecodeInv
  <1>4. ipc' \in Addr
    <2>1. CASE decoded_valid
      <3>1. Len(src_halves) \in Int
        BY <1>2, <2>1 DEF Decodes
      <3> QED
        BY <1>1, <2>1, <3>1, AdvanceAddr DEF Following, DecodeInv
    <2>2. CASE ~decoded_valid
      BY <1>1, <2>2 DEF Following, DecodeInv
    <2> QED
      BY <2>1, <2>2
  <1>5. de_q'.fault => de_q'.valid /\ take_fault
    <2>1. CASE decoded_valid
      BY <1>1, <2>1, DecodedRegister DEF Delivered
    <2>2. CASE ~decoded_valid
      BY <1>1, <2>2, DecodedRegister DEF Bubble
    <2> QED
      BY <2>1, <2>2
  <1>6. take_fault => de_q'.fault /\ de_q'.valid
    <2>1. take_fault => decoded_valid
      BY DEF decoded_valid
    <2> QED
      BY <1>1, <2>1, DecodedRegister DEF Delivered
  <1>7. CASE hold_q' = FALSE /\ (take_fault \/ Following = At(fe_pop + 1))
    <2>1. HeadInv'
      BY <1>1, <1>3, <1>6, <1>7 DEF HeadInv, Goes
    <2> QED
      BY <1>3, <1>4, <1>5, <1>7, <2>1 DEF DecodeInv, HoldInv, Addr
  <1>8. CASE /\ hold_q' = TRUE /\ ~take_fault
             /\ hold_pc_q' = Following /\ Following \in Addr /\ Following % 2 = 1
             /\ F!Fetchable(Following) /\ Advance(Following, 1) = At(fe_pop + 1)
             /\ hold_word_q' = Instructions!Half(Following)
             /\ hold_pred_q' = PHT[Following]
    <2>1. HoldInv'
      BY <1>1, <1>3, <1>8 DEF HoldInv, F!Fetchable, Instructions!Half, Advance, Addr
    <2> QED
      BY <1>3, <1>4, <1>5, <1>8, <2>1 DEF DecodeInv, HeadInv, Addr
  <1> QED
    BY <1>2, <1>7, <1>8 DEF Lands

\* A predicted jump is an instruction, and its target an address.
LEMMA Predicted ==
  ASSUME DecodeInv, Goes, NEW ras \in Addr \cup {NoAddr}, pred_redirect(ras)
  PROVE  /\ decoded_valid /\ Decodes /\ ~take_fault /\ cf_taken(ras)
         /\ cf_target(ras) \in Addr
  <1>1. decoded_valid /\ Decodes /\ cf_taken(ras)
    BY DecodedInstr DEF pred_redirect
  <1>2. src_halves # << >>
    BY <1>1 DEF cf_taken, cf
  <1>3. ~take_fault
    BY <1>1, <1>2 DEF Decodes
  <1>4. src_pc \in Addr /\ src_halves[1].off \in Int
    BY <1>1, <1>3, HalfType DEF Decodes, DecodeInv
  <1>5. cf_target(ras) \in Addr
    <2>1. CASE cf = "ret"
      BY <1>1, <2>1 DEF cf_taken, cf_target
    <2>2. CASE cf # "ret"
      BY <1>4, <2>2, AdvanceAddr DEF cf_target
    <2> QED
      BY <2>1, <2>2
  <1> QED
    BY <1>1, <1>3, <1>5

LEMMA PredictInv ==
  ASSUME DecodeInv, NEW ras \in Addr \cup {NoAddr}, Predict(ras)
  PROVE  DecodeInv'
  <1>1. /\ Goes /\ pred_redirect(ras) /\ F!Redirect(cf_target(ras)) /\ Drop
        /\ de_q' = de_d(ras) /\ ipc' = cf_target(ras)
    BY DEF Predict, DecodePredict
  <1>2. decoded_valid /\ cf_target(ras) \in Addr
    BY <1>1, Predicted
  <1>3. de_q'.fault => de_q'.valid
    BY <1>1, <1>2, DecodedRegister DEF Delivered
  <1> QED
    BY <1>1, <1>2, <1>3, Restarts

LEMMA SameAddr == F!Addr = Addr /\ Instructions!Addr = Addr
  BY DEF F!Addr, Instructions!Addr, Addr

LEMMA StepInv == DecodeInv /\ [Next]_unitVars => DecodeInv'
  <1> SUFFICES ASSUME DecodeInv, [Next]_unitVars PROVE DecodeInv'
    OBVIOUS
  <1>1. ASSUME NEW target \in F!Addr, Redirect(target)
        PROVE  DecodeInv'
    <2>1. F!Redirect(target) /\ Drop /\ ipc' = target /\ de_q' = Bubble /\ target \in Addr
      BY <1>1, SameAddr DEF Redirect, DecodeFlush
    <2>2. de_q'.fault => de_q'.valid
      BY <2>1 DEF Bubble
    <2> QED
      BY <2>1, <2>2, Restarts
  <1>2. ASSUME NEW pushed \in 0 .. 2, Stall(pushed)
        PROVE  DecodeInv'
    BY <1>2, StallInv
  <1>3. ASSUME NEW ras \in F!Addr \cup {NoAddr}, NEW pushed \in 0 .. 2, Take(ras, pushed)
        PROVE  DecodeInv'
    BY <1>3, SameAddr, TakeInv
  <1>4. ASSUME NEW ras \in F!Addr \cup {NoAddr}, Predict(ras)
        PROVE  DecodeInv'
    BY <1>4, SameAddr, PredictInv
  <1>5. CASE UNCHANGED unitVars
    <2>1. /\ UNCHANGED <<queue, next, ipc, de_q>>
          /\ UNCHANGED <<hold_q, hold_word_q, hold_pc_q, hold_pred_q>>
      BY <1>5 DEF unitVars, decodeVars
    <2>2. QueueInv' /\ At(1)' = At(1)
      BY <2>1 DEF DecodeInv, QueueInv, At, Entries, F!Entry, F!Succ, F!Fetchable, Addr
    <2>3. HoldInv' /\ HeadInv'
      BY <2>1, <2>2
      DEF DecodeInv, HoldInv, HeadInv, Goes, F!Fetchable, Instructions!Half, Advance, Addr
    <2> QED
      BY <2>1, <2>2, <2>3 DEF DecodeInv, Addr
  <1> QED
    BY <1>1, <1>2, <1>3, <1>4, <1>5 DEF Next

\* In every state decode's stash, fetch's queue and the path agree.
THEOREM DecodeInvariant == Spec => []DecodeInv
  BY InitInv, StepInv, PTL DEF Spec

\* The stash is always the high half of a word, just before what fetch shows
\* next: the one direction bit kept with it is its own.
THEOREM StashIsHighHalf == Spec => []HighHalfStash
  <1>1. DecodeInv => HighHalfStash
    <2> SUFFICES ASSUME DecodeInv, hold_q
                 PROVE  /\ hold_pc_q % 2 = 1
                        /\ Advance(hold_pc_q, 1) = IF queue = << >> THEN next ELSE queue[1].pc
      BY DEF HighHalfStash
    <2>1. hold_pc_q % 2 = 1 /\ Advance(hold_pc_q, 1) = At(1)
      BY DEF DecodeInv, HoldInv
    <2>2. queue = << >> \/ Len(queue) >= 1
      BY DEF DecodeInv, QueueInv
    <2> QED
      BY <2>1, <2>2 DEF At, DecodeInv, QueueInv
  <1> QED
    BY <1>1, DecodeInvariant, PTL

(***************************************************************************)
(* Decode delivers the program.                                            *)
(***************************************************************************)
LEMMA SamePlus == \A a, n : Instructions!Plus(a, n) = Advance(a, n)
  BY DEF Instructions!Plus, Advance

\* What the abstract machine knows of an instruction decoded: it and its
\* prediction.
LEMMA Foreseen ==
  ASSUME DecodeInv, Goes, decoded_valid, NEW ras \in Addr \cup {NoAddr},
         cf_taken(ras) => cf_target(ras) \in Addr
  PROVE  LET pred == IF cf_taken(ras) THEN cf_target(ras) ELSE NoAddr
         IN  /\ pred \in Instructions!Predictions(Instructions!InstrAt(ipc))
             /\ de_d(ras) = [Instructions!InstrAt(ipc) EXCEPT !.pred = pred]
  <1> DEFINE pred == IF cf_taken(ras) THEN cf_target(ras) ELSE NoAddr
             i == Instructions!InstrAt(ipc)
             flow == IF i.halves = << >> THEN "none" ELSE i.halves[1].cf
             target == Instructions!Plus(i.pc, i.halves[1].off)
  <1>1. Decodes /\ i = Delivered(src_pc, src_halves, take_fault, NoAddr)
    BY DecodedInstr DEF Decodes
  <1>2. de_d(ras) = [i EXCEPT !.pred = pred]
    <2>1. de_d(ras) = Delivered(src_pc, src_halves, take_fault, pred)
      BY DecodedRegister
    <2> HIDE DEF pred
    <2> QED
      BY <1>1, <2>1, Shapes
  <1>3. i.halves = src_halves /\ i.pc = src_pc
    BY <1>1 DEF Delivered
  <1> HIDE DEF i
  <1>4. flow = cf /\ target = Advance(src_pc, src_halves[1].off)
    BY <1>3, SamePlus DEF cf
  <1>5. cf # "none" => src_halves # << >>
    BY DEF cf
  <1>6. src_halves # << >> => pht_taken_src = PHT[src_pc]
    BY <1>1 DEF Decodes
  <1>7. Instructions!Predictions(i) =
          CASE flow = "jal"  -> {target}
            [] flow = "cond" -> IF PHT[i.pc] THEN {target} ELSE {NoAddr}
            [] flow = "ret"  -> Addr \cup {NoAddr}
            [] OTHER         -> {NoAddr}
    BY SameAddr DEF Instructions!Predictions
  <1> HIDE DEF flow, target
  <1>8. CASE cf = "jal"
    <2>1. Instructions!Predictions(i) = {target}
      BY <1>4, <1>7, <1>8
    <2> QED
      BY <1>2, <1>4, <1>8, <2>1 DEF cf_taken, cf_target, i
  <1>9. CASE cf = "cond"
    <2>1. Instructions!Predictions(i) = IF PHT[src_pc] THEN {target} ELSE {NoAddr}
      BY <1>3, <1>4, <1>7, <1>9
    <2>2. cf_taken(ras) <=> PHT[src_pc]
      BY <1>5, <1>6, <1>9 DEF cf_taken
    <2> QED
      BY <1>2, <1>4, <1>9, <2>1, <2>2 DEF cf_target, i
  <1>10. CASE cf = "ret"
    <2>1. Instructions!Predictions(i) = Addr \cup {NoAddr}
      BY <1>4, <1>7, <1>10
    <2> QED
      BY <1>2, <2>1 DEF i
  <1>11. CASE cf \notin {"jal", "cond", "ret"}
    <2>1. Instructions!Predictions(i) = {NoAddr}
      BY <1>4, <1>7, <1>11
    <2>2. ~cf_taken(ras)
      BY <1>11 DEF cf_taken
    <2> QED
      BY <1>2, <2>1, <2>2 DEF i
  <1> QED
    BY <1>8, <1>9, <1>10, <1>11

LEMMA RedirectMaps ==
  ASSUME NEW target \in F!Addr, Redirect(target)
  PROVE  Instructions!Next
  <1>1. de_q' = Bubble /\ ipc' = target /\ target \in Instructions!Addr
    BY SameAddr DEF Redirect, DecodeFlush
  <1>2. Instructions!Redirect(target)
    BY <1>1 DEF Instructions!Redirect, Instructions!Empty, Bubble
  <1> QED
    BY <1>1, <1>2 DEF Instructions!Next

LEMMA TakeMaps ==
  ASSUME DecodeInv, NEW ras \in Addr \cup {NoAddr}, NEW pushed \in 0 .. 2, Take(ras, pushed)
  PROVE  Instructions!Next
  <1>1. /\ Goes /\ ~pred_redirect(ras) /\ de_q' = de_d(ras)
        /\ ipc' = IF decoded_valid THEN Advance(ipc, Len(src_halves)) ELSE ipc
    BY DEF Take, DecodeTake
  <1>2. ~de_q.fault
    BY <1>1 DEF Goes, DecodeInv
  <1>3. CASE decoded_valid
    <2> DEFINE i == Instructions!InstrAt(ipc)
    <2>1. ~cf_taken(ras)
      BY <1>1, <1>3 DEF pred_redirect
    <2>2. NoAddr \in Instructions!Predictions(i) /\ de_d(ras) = [i EXCEPT !.pred = NoAddr]
      BY <1>1, <1>3, <2>1, Foreseen
    <2>3. i.halves = src_halves
      BY <1>1, <1>3, DecodedInstr DEF Decodes, Delivered
    <2> HIDE DEF i
    <2>4. Instructions!Deliver(NoAddr)
      BY <1>1, <1>2, <1>3, <2>2, <2>3, SamePlus DEF Instructions!Deliver, i
    <2> QED
      BY <2>2, <2>4 DEF Instructions!Next, i
  <1>4. CASE ~decoded_valid
    <2>1. de_q' = Bubble /\ ipc' = ipc
      BY <1>1, <1>4, DecodedRegister
    <2>2. Instructions!Bubble
      BY <1>2, <2>1 DEF Instructions!Bubble, Instructions!Empty, Bubble
    <2> QED
      BY <2>2 DEF Instructions!Next
  <1> QED
    BY <1>3, <1>4

LEMMA PredictMaps ==
  ASSUME DecodeInv, NEW ras \in Addr \cup {NoAddr}, Predict(ras)
  PROVE  Instructions!Next
  <1>1. Goes /\ pred_redirect(ras) /\ de_q' = de_d(ras) /\ ipc' = cf_target(ras)
    BY DEF Predict, DecodePredict
  <1>2. ~de_q.fault
    BY <1>1 DEF Goes, DecodeInv
  <1> DEFINE i == Instructions!InstrAt(ipc)
             pred == cf_target(ras)
  <1>3. decoded_valid /\ cf_taken(ras) /\ pred \in Addr
    BY <1>1, Predicted
  <1>4. pred \in Instructions!Predictions(i) /\ de_d(ras) = [i EXCEPT !.pred = pred]
    BY <1>1, <1>3, Foreseen
  <1>5. pred # NoAddr
    BY <1>3, DecodeAssumption DEF Addr
  <1> HIDE DEF i, pred
  <1>6. Instructions!Deliver(pred)
    BY <1>1, <1>2, <1>4, <1>5 DEF Instructions!Deliver, i, pred
  <1> QED
    BY <1>4, <1>6 DEF Instructions!Next, i

\* Decode delivers the instructions of the program in path order, each whole,
\* once, under its own address and its own prediction, whatever the
\* alignment, whenever words arrive, and wherever execute and the
\* predictions steer.
THEOREM DecodeImplementsInstrStream == Spec => ImplementsInstrStream
  <1>1. Init => Instructions!Init
    BY DEF Init, Instructions!Init, Instructions!Empty, Bubble
  <1>2. DecodeInv /\ [Next]_unitVars => [Instructions!Next]_<<de_q, ipc>>
    <2> SUFFICES ASSUME DecodeInv, [Next]_unitVars
                 PROVE  Instructions!Next \/ UNCHANGED <<de_q, ipc>>
      OBVIOUS
    <2>1. ASSUME NEW pushed \in 0 .. 2, Stall(pushed)
          PROVE  UNCHANGED <<de_q, ipc>>
      BY <2>1 DEF Stall, DecodeStall
    <2>2. CASE UNCHANGED unitVars
      BY <2>2 DEF unitVars, decodeVars
    <2> QED
      BY <2>1, <2>2, SameAddr, RedirectMaps, TakeMaps, PredictMaps DEF Next
  <1> QED
    BY <1>1, <1>2, DecodeInvariant, PTL DEF Spec, ImplementsInstrStream, Instructions!Spec

-----------------------------------------------------------------------------
(***************************************************************************)
(* The two decoders behind the stage's cut-out instructions, for every set *)
(* of native words.                                                        *)
(***************************************************************************)
\* What a compressed source can hold.
Halfwords == {c \in Nat : c < 65536}

\* A bit of a number is 0 or 1.
LEMMA BitRange ==
  ASSUME NEW v \in Int, NEW i \in 0 .. 15
  PROVE  Bit(v, i) \in 0 .. 1
  <1>1. 2^i \in Int /\ 2^(i - i + 1) = 2
    OBVIOUS
  <1> QED
    BY <1>1 DEF Bit, Bits

\* Gathering n bits most significant first.
Gathers(v, ps, n, g) ==
  g = [k \in 0 .. n |-> IF k = 0 THEN 0 ELSE 2 * g[k - 1] + Bit(v, ps[k])]

\* The gathering exists, and ends below m.
Gathered(v, ps, n, m) ==
  /\ \E g : Gathers(v, ps, n, g)
  /\ \A g : Gathers(v, ps, n, g) => g[n] \in 0 .. m - 1

\* No bit gathers to 0, and each further one doubles the bound.
LEMMA GatheredNone ==
  ASSUME NEW v, NEW ps
  PROVE  Gathered(v, ps, 0, 1)
  <1> DEFINE g == [k \in 0 .. 0 |-> 0]
  <1>1. g = [k \in 0 .. 0 |-> IF k = 0 THEN 0 ELSE 2 * g[k - 1] + Bit(v, ps[k])]
    OBVIOUS
  <1>2. Gathers(v, ps, 0, g)
    <2> HIDE DEF g
    <2> QED
      BY <1>1 DEF Gathers
  <1>3. ASSUME NEW h, Gathers(v, ps, 0, h) PROVE h[0] = 0
    BY <1>3 DEF Gathers
  <1> HIDE DEF g
  <1> QED
    BY <1>2, <1>3 DEF Gathered

LEMMA GatheredOneMore ==
  ASSUME NEW v, NEW ps, NEW n \in Nat, NEW m \in Nat, Gathered(v, ps, n, m),
         Bit(v, ps[n + 1]) \in 0 .. 1
  PROVE  Gathered(v, ps, n + 1, 2 * m)
  <1> DEFINE b(k) == Bit(v, ps[k])
  <1>1. ASSUME NEW g, Gathers(v, ps, n, g) PROVE \E e : Gathers(v, ps, n + 1, e)
    <2> DEFINE e == [k \in 0 .. (n + 1) |-> IF k <= n THEN g[k] ELSE 2 * g[n] + b(n + 1)]
    <2>1. g = [k \in 0 .. n |-> IF k = 0 THEN 0 ELSE 2 * g[k - 1] + b(k)]
      BY <1>1 DEF Gathers
    <2> HIDE DEF b
    <2>2. \A k \in 0 .. (n + 1) : e[k] = IF k = 0 THEN 0 ELSE 2 * e[k - 1] + b(k)
      <3> TAKE k \in 0 .. (n + 1)
      <3>1. CASE k = 0
        BY <2>1, <3>1
      <3>2. CASE k \in 1 .. n
        <4>1. g[k] = 2 * g[k - 1] + b(k)
          BY <2>1, <3>2
        <4>2. e[k] = g[k] /\ e[k - 1] = g[k - 1] /\ k # 0
          BY <3>2
        <4> QED
          BY <4>1, <4>2
      <3>3. CASE k = n + 1
        <4>1. e[k] = 2 * g[n] + b(k) /\ e[k - 1] = g[n] /\ k # 0
          BY <3>3
        <4> QED
          BY <4>1
      <3> QED
        BY <3>1, <3>2, <3>3
    <2>3. e = [k \in 0 .. (n + 1) |-> e[k]]
      OBVIOUS
    <2> HIDE DEF e
    <2>4. e = [k \in 0 .. (n + 1) |-> IF k = 0 THEN 0 ELSE 2 * e[k - 1] + b(k)]
      BY <2>2, <2>3, Zenon
    <2>5. Gathers(v, ps, n + 1, e)
      BY <2>4 DEF Gathers, b
    <2> QED
      BY <2>5
  <1>2. ASSUME NEW e, Gathers(v, ps, n + 1, e) PROVE e[n + 1] \in 0 .. 2 * m - 1
    <2> DEFINE g == [k \in 0 .. n |-> e[k]]
    <2>1. e = [k \in 0 .. (n + 1) |-> IF k = 0 THEN 0 ELSE 2 * e[k - 1] + b(k)]
      BY <1>2 DEF Gathers
    <2> HIDE DEF b
    <2>2. \A k \in 0 .. n : g[k] = IF k = 0 THEN 0 ELSE 2 * g[k - 1] + b(k)
      <3> TAKE k \in 0 .. n
      <3>1. CASE k = 0
        BY <2>1, <3>1
      <3>2. CASE k # 0
        <4>1. e[k] = 2 * e[k - 1] + b(k)
          BY <2>1, <3>2
        <4>2. g[k] = e[k] /\ g[k - 1] = e[k - 1]
          BY <3>2
        <4> QED
          BY <3>2, <4>1, <4>2
      <3> QED
        BY <3>1, <3>2
    <2>3. g = [k \in 0 .. n |-> g[k]]
      OBVIOUS
    <2>4. g[n] = e[n] /\ e[n + 1] = 2 * e[n] + b(n + 1)
      BY <2>1
    <2> HIDE DEF g
    <2>5. g = [k \in 0 .. n |-> IF k = 0 THEN 0 ELSE 2 * g[k - 1] + b(k)]
      BY <2>2, <2>3, Zenon
    <2>6. Gathers(v, ps, n, g)
      BY <2>5 DEF Gathers, b
    <2>7. g[n] \in 0 .. m - 1
      BY <2>6 DEF Gathered
    <2>8. b(n + 1) \in 0 .. 1
      BY DEF b
    <2> QED
      BY <2>4, <2>7, <2>8
  <1> QED
    BY <1>1, <1>2 DEF Gathered

\* Gather is that gathering's last value.
LEMMA GatherIs ==
  ASSUME NEW v, NEW ps, NEW m \in Nat, Gathered(v, ps, Len(ps), m)
  PROVE  Gather(v, ps) \in 0 .. m - 1
  <1> DEFINE f == CHOOSE g : Gathers(v, ps, Len(ps), g)
  <1>1. Gathers(v, ps, Len(ps), f)
    BY DEF Gathered
  <1>2. Gather(v, ps) = f[Len(ps)]
    BY DEF Gather, Gathers
  <1> HIDE DEF f
  <1> QED
    BY <1>1, <1>2 DEF Gathered

\* A list of at least n bit positions of a halfword.
Places(ps, n) == ps \in Seq(0 .. 15) /\ Len(ps) >= n

\* The eight bits of a branch offset and the eleven of a jump offset.
LEMMA GatherEight ==
  ASSUME NEW v, NEW ps, v \in Int, Places(ps, 8)
  PROVE  Gathered(v, ps, 8, 256)
  <1>1. \A k \in 1 .. 8 : Bit(v, ps[k]) \in 0 .. 1
    <2> TAKE k \in 1 .. 8
    <2>1. ps[k] \in 0 .. 15
      BY DEF Places
    <2> QED
      BY <2>1, BitRange
  <1>2. Gathered(v, ps, 0, 1)
    BY GatheredNone
  <1>3. Gathered(v, ps, 1, 2)
    <2>1. Bit(v, ps[0 + 1]) \in 0 .. 1
      BY <1>1
    <2>2. Gathered(v, ps, 0 + 1, 2 * 1)
      BY <1>2, <2>1, GatheredOneMore
    <2> QED
      BY <2>2
  <1>4. Gathered(v, ps, 2, 4)
    BY <1>1, <1>3, GatheredOneMore
  <1>5. Gathered(v, ps, 3, 8)
    BY <1>1, <1>4, GatheredOneMore
  <1>6. Gathered(v, ps, 4, 16)
    BY <1>1, <1>5, GatheredOneMore
  <1>7. Gathered(v, ps, 5, 32)
    BY <1>1, <1>6, GatheredOneMore
  <1>8. Gathered(v, ps, 6, 64)
    BY <1>1, <1>7, GatheredOneMore
  <1>9. Gathered(v, ps, 7, 128)
    BY <1>1, <1>8, GatheredOneMore
  <1>10. Gathered(v, ps, 8, 256)
    BY <1>1, <1>9, GatheredOneMore
  <1> QED
    BY <1>10

LEMMA GatherEleven ==
  ASSUME NEW v, NEW ps, v \in Int, Places(ps, 11)
  PROVE  Gathered(v, ps, 11, 2048)
  <1>1. \A k \in 9 .. 11 : Bit(v, ps[k]) \in 0 .. 1
    <2> TAKE k \in 9 .. 11
    <2>1. ps[k] \in 0 .. 15
      BY DEF Places
    <2> QED
      BY <2>1, BitRange
  <1>2. Gathered(v, ps, 8, 256)
    <2>1. Places(ps, 8)
      BY DEF Places
    <2> QED
      BY <2>1, GatherEight
  <1>3. Gathered(v, ps, 9, 512)
    BY <1>1, <1>2, GatheredOneMore
  <1>4. Gathered(v, ps, 10, 1024)
    BY <1>1, <1>3, GatheredOneMore
  <1>5. Gathered(v, ps, 11, 2048)
    BY <1>1, <1>4, GatheredOneMore
  <1> QED
    BY <1>5

\* How far a compressed jump and a compressed branch reach.
JumpOffsets   == {off \in Int : -2048 <= off /\ off < 2048 /\ off % 2 = 0}
BranchOffsets == {off \in Int : -256 <= off /\ off < 256 /\ off % 2 = 0}

\* The scrambled bits of a halfword make an even offset within reach, and the
\* predictor's copy of the wiring is c_expand's.
LEMMA Offsets ==
  ASSUME NEW c \in Halfwords
  PROVE  /\ joff(c) \in JumpOffsets /\ boff(c) \in BranchOffsets
         /\ pred_cj_imm(c) = joff(c) /\ pred_cb_imm(c) = boff(c)
  <1> DEFINE j == <<12, 8, 10, 9, 6, 7, 2, 11, 5, 4, 3>>
             b == <<12, 6, 5, 2, 11, 10, 4, 3>>
  <1>1. j \in Seq(0 .. 15) /\ Len(j) = 11 /\ b \in Seq(0 .. 15) /\ Len(b) = 8
    OBVIOUS
  <1>2. /\ joff(c) = Sext(2 * Gather(c, j), 12)
        /\ boff(c) = Sext(2 * Gather(c, b), 9)
        /\ pred_cj_imm(c) = joff(c) /\ pred_cb_imm(c) = boff(c)
    BY DEF joff, boff, pred_cj_imm, pred_cb_imm
  <1>3. c \in Int
    BY DEF Halfwords
  <1> HIDE DEF j, b
  <1>4. Gather(c, j) \in 0 .. 2047
    <2>1. Places(j, 11)
      BY <1>1 DEF Places
    <2>2. Gathered(c, j, 11, 2048)
      BY <1>3, <2>1, GatherEleven
    <2> DEFINE m == 2048
    <2>3. m \in Nat /\ Gathered(c, j, Len(j), m)
      BY <1>1, <2>2
    <2> HIDE DEF m
    <2>4. Gather(c, j) \in 0 .. m - 1
      BY <2>3, GatherIs, Zenon
    <2> QED
      BY <2>4 DEF m
  <1>5. Gather(c, b) \in 0 .. 255
    <2>1. Places(b, 8)
      BY <1>1 DEF Places
    <2>2. Gathered(c, b, 8, 256)
      BY <1>3, <2>1, GatherEight
    <2> DEFINE m == 256
    <2>3. m \in Nat /\ Gathered(c, b, Len(b), m)
      BY <1>1, <2>2
    <2> HIDE DEF m
    <2>4. Gather(c, b) \in 0 .. m - 1
      BY <2>3, GatherIs, Zenon
    <2> QED
      BY <2>4 DEF m
  <1>6. joff(c) \in JumpOffsets
    <2> DEFINE x == Gather(c, j)
    <2>1. x \in 0 .. 2047 /\ joff(c) = Sext(2 * x, 12)
      BY <1>2, <1>4
    <2> HIDE DEF x
    <2> QED
      BY <2>1 DEF Sext, JumpOffsets
  <1>7. boff(c) \in BranchOffsets
    <2> DEFINE x == Gather(c, b)
    <2>1. x \in 0 .. 255 /\ boff(c) = Sext(2 * x, 9)
      BY <1>2, <1>5
    <2> HIDE DEF x
    <2> QED
      BY <2>1 DEF Sext, BranchOffsets
  <1> QED
    BY <1>2, <1>6, <1>7

\* A number is made of its bit fields.
LEMMA TwoFields ==
  ASSUME NEW x \in 0 .. 15, NEW y \in 0 .. 1
  PROVE  /\ Bits(2 * x + y, 4, 1) = x /\ Bit(2 * x + y, 0) = y
  BY DEF Bits, Bit

LEMMA SixFields ==
  ASSUME NEW x \in 0 .. 1, NEW y \in 0 .. 63
  PROVE  Bit(64 * x + y, 6) = x /\ Bits(64 * x + y, 5, 0) = y
  BY DEF Bits, Bit

\* The fields of an offset, put back together, are its two's complement.
LEMMA JumpFields ==
  ASSUME NEW off \in JumpOffsets
  PROVE 1048576 * ((off \div 1048576) % 2)
        + 32768 * ((off \div 32768) % 32) + 4096 * ((off \div 4096) % 8)
        + 2048 * ((off \div 2048) % 2) + 32 * ((off \div 32) % 64) + 2 * ((off \div 2) % 16)
        = IF off < 0 THEN off + 2097152 ELSE off
  BY DEF JumpOffsets

LEMMA BranchFields ==
  ASSUME NEW off \in BranchOffsets
  PROVE 4096 * ((off \div 4096) % 2)
        + 2048 * ((off \div 2048) % 2) + 32 * ((off \div 32) % 64) + 2 * ((off \div 2) % 16)
        = IF off < 0 THEN off + 8192 ELSE off
  BY DEF BranchOffsets

\* The offset mk_j and mk_b lay out is the one imm_j and imm_b read back.
LEMMA JumpRoundTrip ==
  ASSUME NEW off \in JumpOffsets, NEW rd
  PROVE  imm_j(mk_j("JAL", rd, off)) = off
  <1> DEFINE w == mk_j("JAL", rd, off)
             a == (off \div 1048576) % 2
             b == (off \div 32768) % 32
             f == (off \div 4096) % 8
             d == (off \div 2048) % 2
             e == (off \div 32) % 64
             g == (off \div 2) % 16
  <1>1. off \in Int
    BY DEF JumpOffsets
  <1>2. a \in 0 .. 1 /\ d \in 0 .. 1 /\ e \in 0 .. 63 /\ g \in 0 .. 15
    BY <1>1
  <1>3. w.f7 = 64 * a + e /\ w.rs1 = b /\ w.f3 = f /\ w.rs2 = 2 * g + d
    <2>1. /\ Bit(off, 20) = a /\ Bits(off, 10, 5) = e /\ Bits(off, 19, 15) = b
          /\ Bits(off, 14, 12) = f /\ Bits(off, 4, 1) = g /\ Bit(off, 11) = d
      BY <1>1 DEF Bits, Bit
    <2> HIDE DEF a, b, d, e, f, g
    <2> QED
      BY <2>1 DEF mk_j, mk_r
  <1>4. 1048576 * a + 32768 * b + 4096 * f + 2048 * d + 32 * e + 2 * g
        = IF off < 0 THEN off + 2097152 ELSE off
    BY JumpFields
  <1> HIDE DEF a, b, d, e, f, g, w
  <1>5. /\ Bit(w.f7, 6) = a /\ Bits(w.f7, 5, 0) = e
        /\ Bit(w.rs2, 0) = d /\ Bits(w.rs2, 4, 1) = g
    BY <1>2, <1>3, TwoFields, SixFields
  <1>6. imm_j(w) = Sext(IF off < 0 THEN off + 2097152 ELSE off, 21)
    BY <1>3, <1>4, <1>5 DEF imm_j
  <1>7. Sext(IF off < 0 THEN off + 2097152 ELSE off, 21) = off
    BY DEF Sext, JumpOffsets
  <1> QED
    BY <1>6, <1>7 DEF w

LEMMA BranchRoundTrip ==
  ASSUME NEW off \in BranchOffsets, NEW rs1, NEW f3
  PROVE  imm_b(mk_b("BRANCH", rs1, 0, f3, off)) = off
  <1> DEFINE w == mk_b("BRANCH", rs1, 0, f3, off)
             a == (off \div 4096) % 2
             d == (off \div 2048) % 2
             e == (off \div 32) % 64
             g == (off \div 2) % 16
  <1>1. off \in Int
    BY DEF BranchOffsets
  <1>2. a \in 0 .. 1 /\ d \in 0 .. 1 /\ e \in 0 .. 63 /\ g \in 0 .. 15
    BY <1>1
  <1>3. w.f7 = 64 * a + e /\ w.rd = 2 * g + d
    <2>1. /\ Bit(off, 12) = a /\ Bits(off, 10, 5) = e
          /\ Bits(off, 4, 1) = g /\ Bit(off, 11) = d
      BY <1>1 DEF Bits, Bit
    <2> HIDE DEF a, d, e, g
    <2> QED
      BY <2>1 DEF mk_b, mk_r
  <1>4. 4096 * a + 2048 * d + 32 * e + 2 * g = IF off < 0 THEN off + 8192 ELSE off
    BY BranchFields
  <1> HIDE DEF a, d, e, g, w
  <1>5. /\ Bit(w.f7, 6) = a /\ Bits(w.f7, 5, 0) = e
        /\ Bit(w.rd, 0) = d /\ Bits(w.rd, 4, 1) = g
    BY <1>2, <1>3, TwoFields, SixFields
  <1>6. imm_b(w) = Sext(IF off < 0 THEN off + 8192 ELSE off, 13)
    BY <1>3, <1>4, <1>5 DEF imm_b
  <1>7. Sext(IF off < 0 THEN off + 8192 ELSE off, 13) = off
    BY DEF Sext, BranchOffsets
  <1> QED
    BY <1>6, <1>7 DEF w

\* What the uniform decoder calls control flow.
LEMMA ControlFlow ==
  ASSUME NEW w, w.op = "BRANCH" => w.f3 \in 0 .. 7
  PROVE  LET d == squash(decode(w)) IN
         /\ w.op = "JAL" => d.branch_type = "JAL" /\ d.imm = imm_j(w)
         /\ w.op = "JALR" => d.branch_type = IF w.f3 = 0 THEN "JALR" ELSE "NONE"
         /\ w.op = "BRANCH" => /\ d.branch_type = BranchTypes[w.f3 + 1]
                               /\ d.imm = imm_b(w)
         /\ w.op \notin {"JAL", "JALR", "BRANCH"} => d.branch_type = "NONE"
  <1>1. CASE w.op = "JAL"
    <2>1. decode(w) = Jal(w)
      BY <1>1 DEF decode
    <2> QED
      BY <1>1, <2>1 DEF Jal, Default, squash
  <1>2. CASE w.op = "JALR"
    <2>1. decode(w) = Jalr(w)
      BY <1>2 DEF decode
    <2> QED
      BY <1>2, <2>1 DEF Jalr, Default, squash
  <1>3. CASE w.op = "BRANCH"
    <2>1. decode(w) = Branch(w)
      BY <1>3 DEF decode
    <2> DEFINE d == Branch(w)
    <2>2. /\ d.illegal = (w.f3 \in {2, 3})
          /\ d.branch_type = BranchTypes[w.f3 + 1] /\ d.imm = imm_b(w)
          /\ [d EXCEPT !.exc = "ILLEGAL", !.reg_write = FALSE, !.mem_read = FALSE,
                       !.mem_write = FALSE, !.csr_wren = FALSE, !.branch_type = "NONE"].imm = imm_b(w)
          /\ [d EXCEPT !.exc = "ILLEGAL", !.reg_write = FALSE, !.mem_read = FALSE,
                       !.mem_write = FALSE, !.csr_wren = FALSE, !.branch_type = "NONE"].branch_type = "NONE"
      <3> HIDE DEF imm_b, BranchTypes
      <3> QED
        BY DEF Branch, Default
    <2>3. w.f3 \in {2, 3} => BranchTypes[w.f3 + 1] = "NONE"
      BY DEF BranchTypes
    <2> HIDE DEF d
    <2>4. squash(d).branch_type = BranchTypes[w.f3 + 1] /\ squash(d).imm = imm_b(w)
      BY <2>2, <2>3 DEF squash
    <2> QED
      BY <1>3, <2>1, <2>4 DEF d
  <1>4. CASE w.op \notin {"JAL", "JALR", "BRANCH"}
    <2>1. decode(w).branch_type = "NONE"
      <3>1. CASE w.op = "SYSTEM"
        <4>1. decode(w) = System(w)
          BY <3>1 DEF decode
        <4> QED
          BY <4>1 DEF System, Default
      <3>2. CASE w.op = "AMO"
        <4>1. decode(w) = Amo(w)
          BY <3>2 DEF decode
        <4> QED
          BY <4>1 DEF Amo, Default
      <3>3. CASE w.op \in {"LUI", "AUIPC"}
        <4>1. decode(w) \in {Lui(w), Auipc(w)}
          BY <3>3 DEF decode
        <4> QED
          BY <4>1 DEF Lui, Auipc, Default
      <3>4. CASE w.op = "LOAD"
        <4>1. decode(w) = Load(w)
          BY <3>4 DEF decode
        <4> QED
          BY <4>1 DEF Load, Default
      <3>5. CASE w.op = "STORE"
        <4>1. decode(w) = Store(w)
          BY <3>5 DEF decode
        <4> QED
          BY <4>1 DEF Store, Default
      <3>6. CASE w.op = "OP_IMM"
        <4>1. decode(w) = OpImm(w)
          BY <3>6 DEF decode
        <4> QED
          BY <4>1 DEF OpImm, Default
      <3>7. CASE w.op = "OP"
        <4>1. decode(w) = Op(w)
          BY <3>7 DEF decode
        <4> QED
          BY <4>1 DEF Op, Default
      <3>8. CASE w.op = "MISC_MEM"
        <4>1. decode(w) = MiscMem(w)
          BY <3>8 DEF decode
        <4> QED
          BY <4>1 DEF MiscMem, Default
      <3>9. CASE w.op \notin {"LUI", "AUIPC", "SYSTEM", "AMO", "LOAD", "STORE", "OP_IMM", "OP", "MISC_MEM"}
        <4>1. decode(w) = Default
          BY <1>4, <3>9 DEF decode
        <4> QED
          BY <4>1 DEF Default
      <3> QED
        BY <3>1, <3>2, <3>3, <3>4, <3>5, <3>6, <3>7, <3>8, <3>9
    <2> HIDE DEF decode
    <2>2. squash(decode(w)).branch_type = "NONE"
      <3> DEFINE d == decode(w)
      <3>1. d.branch_type = "NONE"
        BY <2>1
      <3> HIDE DEF d
      <3>2. [d EXCEPT !.exc = "ILLEGAL", !.reg_write = FALSE, !.mem_read = FALSE,
                   !.mem_write = FALSE, !.csr_wren = FALSE, !.branch_type = "NONE"].branch_type \in {"NONE", d.branch_type}
        OBVIOUS
      <3> QED
       BY <3>1, <3>2 DEF squash, d
    <2> QED
      BY <1>4, <2>2
  <1> QED
    BY <1>1, <1>2, <1>3, <1>4

\* What the uniform decoder's verdict amounts to.
LEMMA Agreement ==
  ASSUME NEW w, w.op = "BRANCH" => w.f3 \in 0 .. 7, src_instr32 = w,
         cf_jal <=> w.op = "JAL",
         cf_jalr <=> w.op = "JALR" /\ w.f3 = 0,
         cf_cond <=> w.op = "BRANCH" /\ w.f3 \notin {2, 3},
         cf_ret <=> cf_jalr /\ w.rs1 \in {1, 5} /\ w.rd = 0,
         w.op = "JAL" => pred_imm = imm_j(w),
         w.op = "BRANCH" => pred_imm = imm_b(w)
  PROVE  FastPathAgrees
  <1> DEFINE d == squash(decode(w))
  <1>1. /\ w.op = "JAL" => d.branch_type = "JAL" /\ d.imm = imm_j(w)
        /\ w.op = "JALR" => d.branch_type = IF w.f3 = 0 THEN "JALR" ELSE "NONE"
        /\ w.op = "BRANCH" => d.branch_type = BranchTypes[w.f3 + 1] /\ d.imm = imm_b(w)
        /\ w.op \notin {"JAL", "JALR", "BRANCH"} => d.branch_type = "NONE"
    BY ControlFlow
  <1>2. de_controls.d = d
    BY DEF de_controls
  <1>3. w.op = "BRANCH" =>
          /\ w.f3 \in {2, 3} => BranchTypes[w.f3 + 1] = "NONE"
          /\ w.f3 \notin {2, 3} => BranchTypes[w.f3 + 1] \notin {"NONE", "JAL", "JALR"}
    BY DEF BranchTypes
  <1> HIDE DEF d
  <1>4. /\ d.branch_type = "JAL" <=> cf_jal
        /\ d.branch_type = "JALR" <=> cf_jalr
        /\ d.branch_type \notin {"NONE", "JAL", "JALR"} <=> cf_cond
    BY <1>1, <1>3
  <1>5. cf_jal \/ cf_cond => pred_imm = d.imm
    BY <1>1
  <1>6. (cf_jal \/ cf_jalr \/ cf_cond) = (d.branch_type # "NONE")
    BY <1>4
  <1>7. cf_cond = (d.branch_type \notin {"NONE", "JAL", "JALR"})
    BY <1>4 DEF cf_cond, cf_c_cond, cf_n_cond
  <1>8. cf_ret = (d.branch_type = "JALR" /\ w.rs1 \in {1, 5} /\ w.rd = 0)
    BY <1>4 DEF cf_ret, cf_c_ret, cf_n_ret
  <1> QED
    BY <1>2, <1>5, <1>6, <1>7, <1>8 DEF FastPathAgrees

\* The two decoders agree on a native word, whatever its fields,
LEMMA NativeAgrees ==
  ASSUME ~src.compressed, src.word.f3 \in 0 .. 7
  PROVE  FastPathAgrees
  <1> DEFINE w == src.word
  <1>1. src_instr32 = w
    BY DEF src_instr32
  <1>2. w.f3 \div 2 # 1 <=> w.f3 \notin {2, 3}
    OBVIOUS
  <1>3. /\ cf_jal <=> w.op = "JAL"
        /\ cf_jalr <=> w.op = "JALR" /\ w.f3 = 0
        /\ cf_cond <=> w.op = "BRANCH" /\ w.f3 \notin {2, 3}
        /\ cf_ret <=> cf_jalr /\ w.rs1 \in {1, 5} /\ w.rd = 0
    BY <1>2 DEF cf_jal, cf_jalr, cf_cond, cf_ret, cf_n_jal, cf_n_jalr, cf_n_cond, cf_n_ret
  <1>4. /\ w.op = "JAL" => pred_imm = imm_j(w)
        /\ w.op = "BRANCH" => pred_imm = imm_b(w)
    BY DEF pred_imm
  <1> QED
    BY <1>1, <1>3, <1>4, Agreement

\* The quadrant and funct3 of a halfword, and the two bits the predictor
\* looks at instead.
LEMMA Selectors ==
  ASSUME NEW c \in Halfwords
  PROVE  /\ Bits(c, 1, 0) \in 0 .. 3 /\ Bits(c, 15, 13) \in 0 .. 7
         /\ Bits(c, 15, 14) = 3 <=> Bits(c, 15, 13) \in {6, 7}
         /\ Bit(c, 14) = 1 <=> Bits(c, 15, 13) \in {2, 3, 6, 7}
         /\ Bit(c, 12) \in 0 .. 1 /\ Bits(c, 11, 10) \in 0 .. 3
  <1>1. /\ Bits(c, 1, 0) = c % 4 /\ Bits(c, 15, 13) = (c \div 8192) % 8
        /\ Bits(c, 15, 14) = (c \div 16384) % 4 /\ Bit(c, 14) = (c \div 16384) % 2
        /\ Bit(c, 12) = (c \div 4096) % 2 /\ Bits(c, 11, 10) = (c \div 1024) % 4
    BY DEF Halfwords, Bits, Bit
  <1> DEFINE f == c \div 8192
             g == c \div 16384
  <1>2. f \in 0 .. 7 /\ g = f \div 2
    <2> DEFINE t == c % 8192
    <2>1. /\ t \in Int /\ 0 <= t /\ t < 8192
          /\ f \in Int /\ 0 <= f /\ f < 8 /\ c = 8192 * f + t
      BY DEF Halfwords
    <2> HIDE DEF f, t
    <2> QED
      BY <2>1
  <1>3. Bits(c, 15, 13) = f % 8 /\ Bits(c, 15, 14) = g % 4 /\ Bit(c, 14) = g % 2
    BY <1>1
  <1> HIDE DEF f, g
  <1>4. /\ Bits(c, 15, 14) = 3 <=> Bits(c, 15, 13) \in {6, 7}
        /\ Bit(c, 14) = 1 <=> Bits(c, 15, 13) \in {2, 3, 6, 7}
        /\ Bits(c, 15, 13) \in 0 .. 7
    BY <1>2, <1>3
  <1>5. Bits(c, 1, 0) \in 0 .. 3 /\ Bit(c, 12) \in 0 .. 1 /\ Bits(c, 11, 10) \in 0 .. 3
    <2>1. c \in Int
      BY DEF Halfwords
    <2>2. c % 4 \in 0 .. 3 /\ (c \div 4096) % 2 \in 0 .. 1 /\ (c \div 1024) % 4 \in 0 .. 3
      BY <2>1
    <2> QED
      BY <1>1, <2>2
  <1> QED
    BY <1>4, <1>5

\* The halfwords that are control flow, and what they expand into.
LEMMA Expansion ==
  ASSUME NEW c \in Halfwords
  PROVE  LET q == Bits(c, 1, 0)
             f == Bits(c, 15, 13)
             jumps == q = 1 /\ f \in {1, 5}
             branches == q = 1 /\ f \in {6, 7}
             calls == q = 2 /\ f = 4 /\ rs2_5(c) = 0 /\ rd5(c) # 0
         IN  /\ jumps => c_expand(c) = mk_j("JAL", IF f = 1 THEN 1 ELSE 0, joff(c))
             /\ branches => c_expand(c) = mk_b("BRANCH", crs1(c), 0, IF f = 6 THEN 0 ELSE 1, boff(c))
             /\ calls => c_expand(c) = mk_i("JALR", Bit(c, 12), rd5(c), 0, 0)
             /\ ~jumps /\ ~branches /\ ~calls => c_expand(c).op \notin {"JAL", "JALR", "BRANCH"}
  <1> DEFINE q == Bits(c, 1, 0)
             f == Bits(c, 15, 13)
  <1>1. CASE q = 0
    <2>1. c_expand(c) = Quadrant0(c)
      BY <1>1 DEF c_expand
    <2>2. Quadrant0(c).op \notin {"JAL", "JALR", "BRANCH"}
      BY DEF Quadrant0, IllegalWord, mk_i, mk_s, mk_r
    <2> QED
      BY <1>1, <2>1, <2>2
  <1>2. CASE q = 1
    <2>1. c_expand(c) = Quadrant1(c)
      BY <1>2 DEF c_expand
    <2>2. CASE f = 1
      BY <1>2, <2>1, <2>2 DEF Quadrant1
    <2>3. CASE f = 5
      BY <1>2, <2>1, <2>3 DEF Quadrant1
    <2>4. CASE f = 6
      BY <1>2, <2>1, <2>4 DEF Quadrant1
    <2>5. CASE f = 7
      BY <1>2, <2>1, <2>5 DEF Quadrant1
    <2>6. CASE f = 4
      <3>1. Bits(c, 11, 10) \in 0 .. 3
        BY Selectors
      <3>2. Arithmetic(c).op \in {"OP", "OP_IMM"}
        BY <3>1 DEF Arithmetic, mk_i, mk_r
      <3>3. Quadrant1(c) = Arithmetic(c)
        BY <2>6 DEF Quadrant1
      <3> QED
        BY <1>2, <2>1, <2>6, <3>2, <3>3
    <2>7. CASE f \notin {1, 4, 5, 6, 7}
      <3>1. Quadrant1(c).op \notin {"JAL", "JALR", "BRANCH"}
        BY <2>7 DEF Quadrant1, IllegalWord, mk_i, mk_u, mk_r
      <3> QED
        BY <1>2, <2>1, <2>7, <3>1
    <2> QED
      BY <2>2, <2>3, <2>4, <2>5, <2>6, <2>7
  <1>3. CASE q = 2
    <2>1. c_expand(c) = Quadrant2(c)
      BY <1>3 DEF c_expand
    <2>2. CASE f = 4 /\ rs2_5(c) = 0 /\ rd5(c) # 0
      <3>1. Quadrant2(c) = mk_i("JALR", Bit(c, 12), rd5(c), 0, 0)
        BY <2>2 DEF Quadrant2
      <3> QED
        BY <1>3, <2>1, <2>2, <3>1
    <2>3. CASE ~(f = 4 /\ rs2_5(c) = 0 /\ rd5(c) # 0)
      <3>1. Quadrant2(c).op \notin {"JAL", "JALR", "BRANCH"}
        BY <2>3 DEF Quadrant2, IllegalWord, mk_i, mk_s, mk_r
      <3> QED
        BY <1>3, <2>1, <2>3, <3>1
    <2> QED
      BY <2>2, <2>3
  <1>4. CASE q \notin {0, 1, 2}
    <2>1. c_expand(c) = IllegalWord
      BY <1>4 DEF c_expand
    <2> QED
      BY <1>4, <2>1 DEF IllegalWord, mk_r
  <1> QED
    BY <1>1, <1>2, <1>3, <1>4

\* and on every halfword.
LEMMA CompressedAgrees ==
  ASSUME src.compressed, src.half \in Halfwords
  PROVE  FastPathAgrees
  <1> DEFINE c == src.half
             w == c_expand(c)
             q == Bits(c, 1, 0)
             f == Bits(c, 15, 13)
             jumps == q = 1 /\ f \in {1, 5}
             branches == q = 1 /\ f \in {6, 7}
             calls == q = 2 /\ f = 4 /\ rs2_5(c) = 0 /\ rd5(c) # 0
  <1>1. src_instr32 = w
    BY DEF src_instr32
  <1>2. /\ q \in 0 .. 3 /\ f \in 0 .. 7
        /\ Bits(c, 15, 14) = 3 <=> f \in {6, 7}
        /\ Bit(c, 14) = 1 <=> f \in {2, 3, 6, 7}
        /\ Bit(c, 12) \in 0 .. 1
    BY Selectors
  <1>3. /\ cf_jal <=> jumps
        /\ cf_jalr <=> calls
        /\ cf_cond <=> branches
        /\ cf_ret <=> cf_jalr /\ Bit(c, 12) = 0 /\ rd5(c) \in {1, 5}
    BY <1>2 DEF cf_jal, cf_jalr, cf_cond, cf_ret, cf_c_jal, cf_c_jalr, cf_c_cond, cf_c_ret
  <1>4. /\ jumps => pred_imm = joff(c)
        /\ branches => pred_imm = boff(c)
    BY <1>2, Offsets DEF pred_imm
  <1>5. /\ jumps => w = mk_j("JAL", IF f = 1 THEN 1 ELSE 0, joff(c))
        /\ branches => w = mk_b("BRANCH", crs1(c), 0, IF f = 6 THEN 0 ELSE 1, boff(c))
        /\ calls => w = mk_i("JALR", Bit(c, 12), rd5(c), 0, 0)
        /\ ~jumps /\ ~branches /\ ~calls => w.op \notin {"JAL", "JALR", "BRANCH"}
    BY Expansion
  <1> HIDE DEF w
  <1>6. CASE jumps
    <2>1. w.op = "JAL"
      BY <1>5, <1>6 DEF mk_j, mk_r
    <2>2. imm_j(w) = joff(c)
      <3>1. \A rd : imm_j(mk_j("JAL", rd, joff(c))) = joff(c)
        BY Offsets, JumpRoundTrip
      <3> QED
        BY <1>5, <1>6, <3>1
    <2>3. ~calls /\ ~branches
      BY <1>6
    <2> HIDE DEF calls, branches, jumps
    <2>4. cf_jal /\ ~cf_jalr /\ ~cf_cond /\ ~cf_ret /\ pred_imm = imm_j(w)
      BY <1>3, <1>4, <1>6, <2>2, <2>3
    <2> QED
      BY <1>1, <2>1, <2>4, Agreement
  <1>7. CASE branches
    <2>1. w.op = "BRANCH" /\ w.f3 \in 0 .. 1
      BY <1>5, <1>7 DEF mk_b, mk_r
    <2>2. imm_b(w) = boff(c)
      <3>1. \A rs1, f3 : imm_b(mk_b("BRANCH", rs1, 0, f3, boff(c))) = boff(c)
        BY Offsets, BranchRoundTrip
      <3> QED
        BY <1>5, <1>7, <3>1
    <2>3. ~calls /\ ~jumps
      BY <1>7
    <2>4. w.f3 \in 0 .. 7 /\ w.f3 \notin {2, 3}
      BY <2>1
    <2> HIDE DEF calls, branches, jumps
    <2>5. ~cf_jal /\ ~cf_jalr /\ cf_cond /\ ~cf_ret /\ pred_imm = imm_b(w)
      BY <1>3, <1>4, <1>7, <2>2, <2>3
    <2> QED
      BY <1>1, <2>1, <2>4, <2>5, Agreement
  <1>8. CASE calls
    <2>1. w.op = "JALR" /\ w.f3 = 0 /\ w.rs1 = rd5(c) /\ w.rd = Bit(c, 12)
      BY <1>5, <1>8 DEF mk_i, mk_r
    <2>2. ~branches /\ ~jumps
      BY <1>8
    <2> HIDE DEF calls, branches, jumps
    <2>3. /\ ~cf_jal /\ cf_jalr /\ ~cf_cond
          /\ cf_ret <=> cf_jalr /\ w.rs1 \in {1, 5} /\ w.rd = 0
      BY <1>3, <1>8, <2>1, <2>2
    <2> QED
      BY <1>1, <2>1, <2>3, Agreement
  <1>9. CASE ~jumps /\ ~branches /\ ~calls
    <2>1. w.op \notin {"JAL", "JALR", "BRANCH"}
      BY <1>5, <1>9
    <2> HIDE DEF calls, branches, jumps
    <2>2. ~cf_jal /\ ~cf_jalr /\ ~cf_cond /\ ~cf_ret
      BY <1>3, <1>9
    <2> QED
      BY <1>1, <2>1, <2>2, Agreement
  <1> QED
    BY <1>6, <1>7, <1>8, <1>9

\* The fields of a 32-bit word.
WordFields ==
  [op : STRING, rd : 0 .. 31, f3 : 0 .. 7, rs1 : 0 .. 31, rs2 : 0 .. 31, f7 : 0 .. 127]

SourceInv == IF src.compressed THEN src.half \in Halfwords ELSE src.word.f3 \in 0 .. 7

\* The next halfword of a lane is a halfword.
LEMMA NextLane ==
  ASSUME NEW c \in Halfwords
  PROVE  (c + 256) % 65536 \in Halfwords
  <1> DEFINE n == c + 256
  <1>1. c \in Int
    BY DEF Halfwords
  <1>2. n \in Int
    BY <1>1
  <1> HIDE DEF n
  <1> DEFINE m == n % 65536
  <1>3. m \in Int /\ 0 <= m /\ m < 65536
    BY <1>2
  <1>4. m \in Halfwords
    <2> HIDE DEF m
    <2> QED
      BY <1>3 DEF Halfwords
  <1> QED
    BY <1>4 DEF n

\* A source is a halfword or a word of 32 bits.
LEMMA SourceInvariant ==
  ASSUME Words \subseteq WordFields
  PROVE  SourceSpec => []SourceInv
  <1>1. InitSource => SourceInv
    <2>1. ASSUME NEW lane \in 0 .. 255, src = Compressed(lane) PROVE SourceInv
      BY <2>1 DEF SourceInv, Compressed, Halfwords
    <2>2. ASSUME NEW w \in Words, src = Native(w) PROVE SourceInv
      <3>1. w.f3 \in 0 .. 7
        BY DEF WordFields
      <3> QED
        BY <2>2, <3>1 DEF SourceInv, Native
    <2> QED
      BY <2>1, <2>2 DEF InitSource
  <1>2. SourceInv /\ [NextSource]_src => SourceInv'
    <2> SUFFICES ASSUME SourceInv, [NextSource]_src PROVE SourceInv'
      OBVIOUS
    <2>1. CASE NextHalf
      <3> DEFINE h == (src.half + 256) % 65536
      <3>1. src.compressed /\ src' = Compressed(h)
        BY <2>1 DEF NextHalf
      <3>2. src.half \in Halfwords
        BY <3>1 DEF SourceInv
      <3>3. h \in Halfwords
        BY <3>2, NextLane
      <3> HIDE DEF h
      <3>4. src'.compressed /\ src'.half = h
        BY <3>1 DEF Compressed
      <3> QED
        BY <3>3, <3>4 DEF SourceInv
    <2>2. CASE UNCHANGED src
      BY <2>2 DEF SourceInv
    <2> QED
      BY <2>1, <2>2 DEF NextSource
  <1> QED
    BY <1>1, <1>2, PTL DEF SourceSpec

\* The predictor's decoder agrees with the real one on every compressed
\* halfword and on every native word: on whether it is control flow, of which
\* kind, whether it returns, and how far it jumps.  Execute recovers only from
\* what the real decoder calls a branch.
THEOREM FastDecoderAgrees ==
  ASSUME Words \subseteq WordFields
  PROVE  SourceSpec => []FastPathAgrees
  <1>1. SourceInv => FastPathAgrees
    BY CompressedAgrees, NativeAgrees DEF SourceInv
  <1> QED
    BY <1>1, SourceInvariant, PTL
=============================================================================
