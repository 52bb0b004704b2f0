------------------------------ MODULE JtagTap ------------------------------
(***************************************************************************)
(* The TAP controllers of the target's scan chain and how jtag_scan walks  *)
(* them (interface/jtag/jtag_scan.c).  All TAPs of the chain move in step. *)
(* jtag_scan does not see the state: it keeps cur_jtag_state, a belief,    *)
(* and picks its TMS sequences by it.                                      *)
(***************************************************************************)

\* Where TMS low, and TMS high, leads (IEEE 1149.1).
OnLow ==
  [TLR |-> "RTI", RTI |-> "RTI",
   DRScan |-> "CaptDR", CaptDR |-> "ShiftDR", ShiftDR |-> "ShiftDR", Exit1DR |-> "PauseDR",
   PauseDR |-> "PauseDR", Exit2DR |-> "ShiftDR", UpdateDR |-> "RTI",
   IRScan |-> "CaptIR", CaptIR |-> "ShiftIR", ShiftIR |-> "ShiftIR", Exit1IR |-> "PauseIR",
   PauseIR |-> "PauseIR", Exit2IR |-> "ShiftIR", UpdateIR |-> "RTI"]
OnHigh ==
  [TLR |-> "TLR", RTI |-> "DRScan",
   DRScan |-> "IRScan", CaptDR |-> "Exit1DR", ShiftDR |-> "Exit1DR", Exit1DR |-> "UpdateDR",
   PauseDR |-> "Exit2DR", Exit2DR |-> "UpdateDR", UpdateDR |-> "DRScan",
   IRScan |-> "TLR", CaptIR |-> "Exit1IR", ShiftIR |-> "Exit1IR", Exit1IR |-> "UpdateIR",
   PauseIR |-> "Exit2IR", Exit2IR |-> "UpdateIR", UpdateIR |-> "DRScan"]
TapStates == DOMAIN OnLow
Beliefs == {"TLR", "RTI", "PauseDR", "PauseIR"}

Lo(s) == OnLow[s]
Hi(s) == OnHigh[s]

\* rstStateMachine: five clocks with TMS high.
AfterReset(s) == Hi(Hi(Hi(Hi(Hi(s)))))
\* The walk to Shift-DR or Shift-IR: 0x02/4, 0x07/5, 0x06/5, 0x0F/6, low bit first.
ToShift(reg, belief, s) ==
  IF reg = "DR" THEN IF belief \in {"RTI", "TLR"} THEN Lo(Lo(Hi(Lo(s)))) ELSE Lo(Lo(Hi(Hi(Hi(s)))))
                ELSE IF belief \in {"RTI", "TLR"} THEN Lo(Lo(Hi(Hi(Lo(s))))) ELSE Lo(Lo(Hi(Hi(Hi(Hi(s))))))
\* After the last bit, shifted with TMS high: 0x01/2 or 0x00/1.
AfterScan(to, s) == IF to = "RTI" THEN Lo(Hi(Hi(s))) ELSE Lo(Hi(s))
\* One scan from s to where it ends; an IR scan that pauses and a DR scan.
Scanned(reg, belief, to, s) == AfterScan(to, ToShift(reg, belief, s))
IrDr(belief, to, s) == Scanned("DR", "PauseIR", to, Scanned("IR", belief, "Pause", s))
\* Slip: a scan that ends in a pause is taken for one that ends in Run-Test/Idle.
BelievedIdle(reg, to) == "RTI"
\* What cur_jtag_state becomes.
Believed(reg, to) == IF to = "RTI" THEN "RTI" ELSE IF reg = "DR" THEN "PauseDR" ELSE "PauseIR"
=============================================================================
