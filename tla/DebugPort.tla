----------------------------- MODULE DebugPort -----------------------------
(***************************************************************************)
(* External: the target's JTAG debug port and memory access port, as the   *)
(* ARM debug interface defines them and cc3200_jtagdp.c uses them.  A      *)
(* transaction starts at Update-DR and its outcome is shifted out by the   *)
(* next scan.  A memory access takes time: a scan that finds one pending   *)
(* may be answered WAIT and is then discarded.  A failed access sets       *)
(* STICKYERR, and until that is cleared the access port does nothing.      *)
(***************************************************************************)
EXTENDS Integers, Sequences

CONSTANTS
  Words,  \* the target's memory is the words 0..Words-1
  Page    \* words within which the transfer address increments (256)

ASSUME DebugPortAssumption ==
  /\ Words \in Nat \ {0} /\ Page \in Nat \ {0}
  /\ Page % 4 = 0 /\ Words % Page = 0

Address == 0..(Words - 1)
\* A word is 1 iff its bit 5, where the status has STICKYERR, is set, else 0.
Word == {0, 1}
\* An address that is stored where a word was meant has no such bit.
AsWord(v) == IF v \in Word THEN v ELSE 0

\* The transfer address wraps at the end of its page.
NextTar(t) == (t - (t % Page)) + ((t + 1) % Page)

\* A pending access ends; it works where there is memory, if the port has power.
Complete(hw, works) ==
  IF hw.pending = <<>> THEN hw
  ELSE LET p == hw.pending[1]
           ok == works /\ p.addr \in hw.mapped
       IN [hw EXCEPT
            !.pending = <<>>,
            !.sticky = @ \/ ~ok,
            !.mem = IF ok /\ ~p.rnw THEN [@ EXCEPT ![p.addr] = p.v] ELSE @,
            !.data = IF ok /\ p.rnw THEN hw.mem[p.addr] ELSE @,
            !.tar = IF ok /\ p.inc THEN NextTar(@) ELSE @]

Access(hw, r, addr, inc) ==
  [hw EXCEPT !.pending = <<[addr |-> addr, rnw |-> r.rnw, v |-> AsWord(r.v), inc |-> inc]>>]

\* Transactions are [rnw, a, v]: a register's offset, and what is written to it.
\* Writing CTRL/STAT replaces the power request along with clearing the flags.
StartDP(hw, r) ==
  CASE r.a = 4 /\ r.rnw  -> [hw EXCEPT !.data = IF hw.sticky THEN 1 ELSE 0]
    [] r.a = 4 /\ ~r.rnw -> [hw EXCEPT !.sticky = @ /\ r.v # "clear", !.power = (r.v = "power")]
    [] r.a = 8 /\ ~r.rnw -> [hw EXCEPT !.bank = r.v]
    [] OTHER             -> [hw EXCEPT !.data = 0]

StartAP(hw, r) ==
  CASE hw.sticky                         -> hw
    [] ~hw.sticky /\ hw.bank = 1         -> Access(hw, r, (hw.tar - (hw.tar % 4)) + (r.a \div 4), FALSE)
    [] ~hw.sticky /\ hw.bank = 0 /\ r.a = 12 -> Access(hw, r, hw.tar, hw.inc)
    [] ~hw.sticky /\ hw.bank = 0 /\ r.a = 4 /\ ~r.rnw -> [hw EXCEPT !.tar = r.v]
    [] ~hw.sticky /\ hw.bank = 0 /\ r.a = 0 /\ ~r.rnw -> [hw EXCEPT !.inc = TRUE]
    [] OTHER                             -> [hw EXCEPT !.data = 0]

Start(hw, ir, r) == IF ir = "DPACC" THEN StartDP(hw, r) ELSE StartAP(hw, r)
=============================================================================
