------------------------------- MODULE AxiXbar -------------------------------
(***************************************************************************)
(* axi4_lite_xbar between the bridge and its N targets: base-and-size      *)
(* windows, the target latched on the AW or AR handshake, and a terminator *)
(* that answers for addresses no window holds.  wr_err_q and rd_err_q are  *)
(* latched with, and equal to, "no bit of the latched match is set".       *)
(***************************************************************************)
EXTENDS AxiBridge, AxiSlave

CONSTANTS BASES, SIZES    \* the windows

VARIABLES
  wr_busy_q, wr_match_q,
  rd_busy_q, rd_match_q,
  err_aw_seen_q, err_w_seen_q, err_bvalid_q, err_rvalid_q

xbarVars == <<wr_busy_q, wr_match_q, rd_busy_q, rd_match_q,
              err_aw_seen_q, err_w_seen_q, err_bvalid_q, err_rvalid_q>>

Match(addr) == {t \in Targets : BASES[t] <= addr /\ addr < BASES[t] + SIZES[t]}

wr_match == Match(awaddr)
rd_match == Match(araddr)

\* Mutant: W always follows the live address.
WrEffLive == wr_match

wr_eff_match == IF wr_busy_q THEN wr_match_q ELSE wr_match

aw_go == ~wr_busy_q /\ awvalid
ar_go == ~rd_busy_q /\ arvalid

m_awvalid == IF aw_go THEN wr_match ELSE {}
m_arvalid == IF ar_go THEN rd_match ELSE {}
m_wvalid  == IF wvalid THEN wr_eff_match ELSE {}
m_bready  == IF wr_busy_q THEN wr_match_q ELSE {}
m_rready  == IF rd_busy_q /\ rready THEN rd_match_q ELSE {}

err_awready == ~err_aw_seen_q /\ ~err_bvalid_q
err_wready  == ~err_w_seen_q /\ ~err_bvalid_q
err_arready == ~err_rvalid_q

aw_hs == aw_go /\ IF wr_match = {} THEN err_awready ELSE wr_match \cap s_awready # {}
w_hs  == wvalid /\ IF wr_eff_match = {} THEN err_wready ELSE wr_eff_match \cap s_wready # {}
ar_hs == ar_go /\ IF rd_match = {} THEN err_arready ELSE rd_match \cap s_arready(m_rready) # {}

bvalid == wr_busy_q /\ IF wr_match_q = {} THEN err_bvalid_q ELSE wr_match_q \cap bvalid_q # {}

\* Mutant: nothing answers a read that no window holds.
RvalidMapped == rd_busy_q /\ \E t \in rd_match_q : r_q[t] # NONE

rvalid == rd_busy_q /\ IF rd_match_q = {} THEN err_rvalid_q ELSE \E t \in rd_match_q : r_q[t] # NONE

\* The highest matching target drives R.
rdata ==
  IF rd_match_q = {} THEN ZERO
  ELSE r_q[CHOOSE t \in rd_match_q : \A u \in rd_match_q : u <= t]

\* Mutant: R is taken when the load/store unit is not ready.
RHsUnready == rvalid /\ state_q = "RD_WAIT"

r_hs == rvalid /\ rready
b_hs == bvalid

(***************************************************************************)
(* One clock edge.                                                         *)
(***************************************************************************)
err_aw_hs == aw_hs /\ wr_match = {}
err_w_hs  == w_hs /\ wr_eff_match = {}
err_ar_hs == ar_hs /\ rd_match = {}

err_do_write == (err_aw_seen_q \/ err_aw_hs) /\ (err_w_seen_q \/ err_w_hs) /\ ~err_bvalid_q

Terminator ==
  /\ err_aw_seen_q' = (~err_do_write /\ (err_aw_seen_q \/ err_aw_hs))
  /\ err_w_seen_q'  = (~err_do_write /\ (err_w_seen_q \/ err_w_hs))
  /\ err_bvalid_q'  = (~(b_hs /\ wr_match_q = {}) /\ (err_do_write \/ err_bvalid_q))
  /\ err_rvalid_q'  = (err_ar_hs \/ (err_rvalid_q /\ ~(r_hs /\ rd_match_q = {})))

Route ==
  /\ wr_busy_q'  = (aw_hs \/ (wr_busy_q /\ ~b_hs))
  /\ wr_match_q' = IF aw_hs THEN wr_match ELSE wr_match_q
  /\ rd_busy_q'  = (ar_hs \/ (rd_busy_q /\ ~r_hs))
  /\ rd_match_q' = IF ar_hs THEN rd_match ELSE rd_match_q

XbarInit ==
  /\ wr_busy_q = FALSE /\ wr_match_q = {} /\ rd_busy_q = FALSE /\ rd_match_q = {}
  /\ err_aw_seen_q = FALSE /\ err_w_seen_q = FALSE
  /\ err_bvalid_q = FALSE /\ err_rvalid_q = FALSE
=============================================================================
