----------------------------- MODULE FetchStream -----------------------------
(***************************************************************************)
(* What fetch promises decode: a queue holding, in order and without gap   *)
(* or repetition, the entries of the instruction stream that starts at the *)
(* last redirect target.  An in-range entry carries the word stored at its *)
(* PC; an unfetchable block yields one fault entry.                        *)
(***************************************************************************)
EXTENDS Naturals, Sequences

CONSTANTS BLOCKS, IMEM_BLOCKS, BOOT_ADDR, Image, ZERO, BUF_DEPTH, NoAddr

VARIABLES
  queue,  \* the entries shown to decode, oldest first
  next,   \* address of the entry that will follow them
  redir   \* the redirect just made, or NoAddr

Addr == 0 .. (4 * BLOCKS - 1)

Fetchable(a) == a \div 4 < IMEM_BLOCKS

Entry(a) ==
  [pc    |-> a,
   instr |-> IF Fetchable(a) THEN Image[a \div 4][(a \div 2) % 2] ELSE ZERO,
   fault |-> ~Fetchable(a)]

\* The address after a in the stream: the next word, or past the whole block
\* when it cannot be fetched.
Succ(a) ==
  (IF Fetchable(a) THEN 2 * (a \div 2 + 1) ELSE 4 * (a \div 4 + 1)) % (4 * BLOCKS)

Init == queue = << >> /\ next = BOOT_ADDR /\ redir = NoAddr

Drop(n) == SubSeq(queue, n + 1, Len(queue))

\* Decode consumes up to two entries while up to two more arrive.
Advance(popped, pushed) ==
  /\ popped <= Len(queue)
  /\ Len(queue) + pushed - popped <= BUF_DEPTH
  /\ redir' = NoAddr
  /\ CASE pushed = 0 -> queue' = Drop(popped) /\ next' = next
       [] pushed = 1 -> queue' = Drop(popped) \o <<Entry(next)>> /\ next' = Succ(next)
       [] pushed = 2 -> /\ queue' = Drop(popped) \o <<Entry(next), Entry(Succ(next))>>
                        /\ next' = Succ(Succ(next))

Redirect(target) == queue' = << >> /\ next' = target /\ redir' = target

Next ==
  \/ \E popped, pushed \in 0 .. 2 : Advance(popped, pushed)
  \/ \E target \in Addr : Redirect(target)

Spec == Init /\ [][Next]_<<queue, next, redir>>
=============================================================================
