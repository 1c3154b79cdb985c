---------------------------- MODULE MCFetchUnit ----------------------------
(* Five blocks of address space of which three are implemented: a stream    *)
(* leaves the I-mem, faults and wraps within the depth of the buffer.  Every *)
(* word of the image is different, so a wrong word is seen.                 *)
EXTENDS FetchUnit

MCImage == [b \in 0 .. (IMEM_BLOCKS - 1) |-> [l \in 0 .. 1 |-> 2 * b + l + 1]]
MCInstr == 0 .. (2 * IMEM_BLOCKS)
=============================================================================
