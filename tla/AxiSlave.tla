------------------------------ MODULE AxiSlave ------------------------------
(***************************************************************************)
(* The AXI4-Lite slave side the peripherals share (axi4_lite_ram, msip,    *)
(* CLINT, PLIC, GPIO, SPI, I2C, I2S and, with a gated AWREADY, the UART):  *)
(* AW and W are taken in either order, the write happens when both are     *)
(* there, B is held until taken, and R is registered and held until taken. *)
(*                                                                         *)
(* A vector with one bit per target is the set of the targets whose bit is *)
(* 1; a flag and the register it qualifies (aw_seen_q and the address) are *)
(* one variable that is NONE while the flag is 0.                          *)
(***************************************************************************)
EXTENDS Integers

CONSTANTS
  N,        \* number of targets
  Addr,     \* addresses a request carries
  Value,    \* values of a register, and of what a write carries
  ZERO,     \* its reset value
  NONE,     \* no phase held
  STALLS    \* channels whose READY target t may hold low

VARIABLES
  stall,    \* input: the channels some peripheral holds off (a full TX FIFO)
  aw_q, w_q, bvalid_q, r_q,
  regs      \* each target's registers

slaveVars == <<aw_q, w_q, bvalid_q, r_q, regs>>

Targets  == 0 .. (N - 1)
Channels == {"aw", "w", "ar"}

Stalled(t, c) == c \in stall \cap STALLS[t]

s_awready == {t \in Targets : aw_q[t] = NONE /\ t \notin bvalid_q /\ ~Stalled(t, "aw")}
s_wready  == {t \in Targets : w_q[t] = NONE /\ t \notin bvalid_q /\ ~Stalled(t, "w")}
s_arready(rready_i) == {t \in Targets : (r_q[t] = NONE \/ t \in rready_i) /\ ~Stalled(t, "ar")}

DoWrite(t, awHs, wHs) ==
  (aw_q[t] # NONE \/ t \in awHs) /\ (w_q[t] # NONE \/ t \in wHs) /\ t \notin bvalid_q

SlaveWrite(awHs, wHs, awaddr_i, wdata_i, bready_i) ==
  /\ aw_q' = [t \in Targets |-> IF DoWrite(t, awHs, wHs) THEN NONE
                                ELSE IF t \in awHs THEN awaddr_i ELSE aw_q[t]]
  /\ w_q'  = [t \in Targets |-> IF DoWrite(t, awHs, wHs) THEN NONE
                                ELSE IF t \in wHs THEN wdata_i ELSE w_q[t]]
  /\ regs' = [t \in Targets |->
                IF DoWrite(t, awHs, wHs)
                THEN [regs[t] EXCEPT ![IF t \in awHs THEN awaddr_i ELSE aw_q[t]] =
                                       IF t \in wHs THEN wdata_i ELSE w_q[t]]
                ELSE regs[t]]
  /\ bvalid_q' = {t \in Targets : DoWrite(t, awHs, wHs) \/ (t \in bvalid_q /\ t \notin bready_i)}

SlaveRead(arHs, araddr_i, rready_i) ==
  r_q' = [t \in Targets |-> IF t \in arHs THEN regs[t][araddr_i]
                            ELSE IF t \in rready_i THEN NONE ELSE r_q[t]]

SlaveInit ==
  /\ aw_q = [t \in Targets |-> NONE] /\ w_q = [t \in Targets |-> NONE]
  /\ r_q = [t \in Targets |-> NONE] /\ bvalid_q = {}
  /\ regs = [t \in Targets |-> [a \in Addr |-> ZERO]]
=============================================================================
