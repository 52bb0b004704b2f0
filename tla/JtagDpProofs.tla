---------------------------- MODULE JtagDpProofs ----------------------------
(***************************************************************************)
(* For every size of the memory, number of tries, set of accesses, and     *)
(* number of waits, plugs and resets: jtag_scan's belief about the TAPs is *)
(* true, the instruction that jtagdp_shiftIR remembers is in the port, and *)
(* every request goes on through its own transfers, in groups of four,     *)
(* with what it has collected so far: the state keeps its type.            *)
(***************************************************************************)
EXTENDS JtagDp, SequenceTheorems, WellFoundedInduction, TLAPS

-----------------------------------------------------------------------------
(* The walks through the TAP controller.                                   *)

Ends == {"RTI", "Pause"}

\* The table, entry by entry.
LEMMA TapTable ==
  /\ Lo("TLR") = "RTI" /\ Lo("RTI") = "RTI" /\ Lo("DRScan") = "CaptDR" /\ Lo("CaptDR") = "ShiftDR"
  /\ Lo("Exit1DR") = "PauseDR" /\ Lo("UpdateDR") = "RTI" /\ Lo("IRScan") = "CaptIR"
  /\ Lo("CaptIR") = "ShiftIR" /\ Lo("Exit1IR") = "PauseIR" /\ Lo("UpdateIR") = "RTI"
  /\ Hi("TLR") = "TLR" /\ Hi("RTI") = "DRScan" /\ Hi("DRScan") = "IRScan" /\ Hi("IRScan") = "TLR"
  /\ Hi("CaptDR") = "Exit1DR" /\ Hi("ShiftDR") = "Exit1DR" /\ Hi("Exit1DR") = "UpdateDR"
  /\ Hi("PauseDR") = "Exit2DR" /\ Hi("Exit2DR") = "UpdateDR" /\ Hi("UpdateDR") = "DRScan"
  /\ Hi("CaptIR") = "Exit1IR" /\ Hi("ShiftIR") = "Exit1IR" /\ Hi("Exit1IR") = "UpdateIR"
  /\ Hi("PauseIR") = "Exit2IR" /\ Hi("Exit2IR") = "UpdateIR" /\ Hi("UpdateIR") = "DRScan"
  BY DEF Lo, Hi, OnLow, OnHigh

\* A scan that starts where jtag_scan believes the TAPs to be reaches the shift
\* state, and ends where jtag_scan then believes them to be.
LEMMA WalkLemma ==
  ASSUME NEW b \in Beliefs, NEW reg \in {"DR", "IR"}, NEW to \in Ends
  PROVE  /\ ToShift(reg, b, b) = (IF reg = "DR" THEN "ShiftDR" ELSE "ShiftIR")
         /\ AfterScan(to, ToShift(reg, b, b)) = Believed(reg, to)
         /\ Believed(reg, to) \in Beliefs
<1>1. ToShift(reg, b, b) = (IF reg = "DR" THEN "ShiftDR" ELSE "ShiftIR")
  <2>1. CASE b \in {"TLR", "RTI"}
    BY <2>1, TapTable DEF ToShift
  <2>2. CASE b \in {"PauseDR", "PauseIR"}
    BY <2>2, TapTable DEF ToShift
  <2>. QED BY <2>1, <2>2 DEF Beliefs
<1>2. AfterScan(to, ToShift(reg, b, b)) = Believed(reg, to)
  BY <1>1, TapTable DEF AfterScan, Believed, Ends
<1>3. Believed(reg, to) \in Beliefs
  BY DEF Believed, Beliefs
<1>. QED BY <1>1, <1>2, <1>3

\* Every walk ends in some state.
LEMMA StaysLemma ==
  ASSUME NEW s \in TapStates
  PROVE  Lo(s) \in TapStates /\ Hi(s) \in TapStates
  BY DEF TapStates, Lo, Hi, OnLow, OnHigh

LEMMA ScanStaysLemma ==
  ASSUME NEW s \in TapStates, NEW reg, NEW b, NEW to
  PROVE  ToShift(reg, b, s) \in TapStates /\ AfterScan(to, s) \in TapStates
  BY StaysLemma DEF ToShift, AfterScan

\* Five clocks with TMS high lead to Test-Logic-Reset from anywhere.
LEMMA ResetLemma ==
  ASSUME NEW s \in TapStates
  PROVE  AfterReset(s) = "TLR"
<1>1. CASE s \in {"TLR", "RTI", "DRScan", "IRScan", "UpdateDR", "UpdateIR"}
  BY <1>1, TapTable DEF AfterReset
<1>2. CASE s \in {"CaptDR", "ShiftDR", "Exit1DR", "PauseDR", "Exit2DR"}
  BY <1>2, TapTable DEF AfterReset
<1>3. CASE s \in {"CaptIR", "ShiftIR", "Exit1IR", "PauseIR", "Exit2IR"}
  BY <1>3, TapTable DEF AfterReset
<1>4. s \in {"TLR", "RTI", "DRScan", "IRScan", "UpdateDR", "UpdateIR"}
         \cup {"CaptDR", "ShiftDR", "Exit1DR", "PauseDR", "Exit2DR"}
         \cup {"CaptIR", "ShiftIR", "Exit1IR", "PauseIR", "Exit2IR"}
  BY DEF TapStates, OnLow
<1>. QED BY <1>1, <1>2, <1>3, <1>4

-----------------------------------------------------------------------------
(* The inductive invariant.                                                *)

IsChain(ch) ==
  ch = [tap |-> ch.tap, linked |-> ch.linked, pick |-> ch.pick, dp |-> ch.dp, held |-> ch.held]

Shape ==
  /\ belief \in Beliefs /\ IsChain(chain) /\ chain.tap \in TapStates
  /\ cache = [ir |-> cache.ir, ready |-> cache.ready] /\ kills \in Nat

\* Where the port is used, and who is at work in the router.
Places ==
  /\ pc # "idle" => conn # "off"
  /\ pc \in RouterPcs => op.t = "init" \/ kills # 0

IInv == Shape /\ Places /\ BeliefIsTrue /\ CacheIsTrue

\* What leaving a pause latches, and what it leaves as it is.
LEMMA LatchedLemma ==
  ASSUME NEW ch, IsChain(ch)
  PROVE  IsChain(Latched(ch)) /\ Latched(ch).tap = ch.tap
  BY DEF IsChain, Latched

\* With a data register, or nothing, before Update no instruction waits.
LEMMA NothingLatched ==
  ASSUME NEW ch, NEW t, NEW held, held = <<>> \/ \E req : held = <<[reg |-> "DR", req |-> req]>>
  PROVE  LET ch2 == Moved(ch, t, held)
         IN IsChain(ch2) /\ ch2.tap = t /\ Latched(ch2).dp = ch.dp /\ Latched(ch2).pick = ch.pick
<1>. DEFINE ch2 == Moved(ch, t, held)
<1>1. ~(held # <<>> /\ held[1].reg = "IR")
  OBVIOUS
<1>2. Latched(ch2) = ch2
  BY <1>1 DEF Latched, Moved
<1>. QED BY <1>2 DEF IsChain, Moved

\* A scan of a data register keeps belief and state together, and the instruction.
LEMMA DataLemma ==
  ASSUME Shape, BeliefIsTrue, NEW to \in Ends, NEW held,
         held = <<>> \/ \E r : held = <<[reg |-> "DR", req |-> r]>>,
         belief' = Believed("DR", to),
         chain' = Moved(Latched(chain), AfterScan(to, ToShift("DR", belief, chain.tap)), held),
         UNCHANGED <<synced, cache, kills>>
  PROVE  /\ Shape' /\ BeliefIsTrue'
         /\ Latched(chain').dp = Latched(chain).dp /\ Latched(chain').pick = Latched(chain).pick
<1>. DEFINE s == ToShift("DR", belief, chain.tap)
            ch == Latched(chain)
<1>1. /\ IsChain(chain') /\ chain'.tap = AfterScan(to, s)
      /\ Latched(chain').dp = ch.dp /\ Latched(chain').pick = ch.pick
  <2>. HIDE DEF ch, s
  <2>1. chain' = Moved(ch, AfterScan(to, s), held)
    BY DEF ch, s
  <2>. QED BY <2>1, NothingLatched
<1>2. s \in TapStates /\ AfterScan(to, s) \in TapStates /\ belief' \in Beliefs
  BY ScanStaysLemma DEF Shape, Believed, Beliefs
<1>3. chain.tap = belief => AfterScan(to, s) = Believed("DR", to)
  BY WalkLemma DEF Shape
<1>. QED BY <1>1, <1>2, <1>3 DEF Shape, BeliefIsTrue

LEMMA ScanDRLemma ==
  ASSUME Shape, BeliefIsTrue, NEW req, NEW to \in Ends, NEW ack, NEW d,
         ScanDR(req, to, ack, d), UNCHANGED <<synced, cache, kills>>
  PROVE  /\ Shape' /\ BeliefIsTrue'
         /\ Latched(chain').dp = Latched(chain).dp /\ Latched(chain').pick = Latched(chain).pick
<1>1. PICK held :
        /\ held = <<>> \/ \E r : held = <<[reg |-> "DR", req |-> r]>>
        /\ chain' = Moved(Latched(chain), AfterScan(to, ToShift("DR", belief, chain.tap)), held)
  BY DEF ScanDR
<1>2. belief' = Believed("DR", to)
  BY DEF ScanDR
<1>. QED BY <1>1, <1>2, DataLemma

\* A scan of an instruction keeps belief and state together, and, from the state
\* that is believed, the instruction waits to be latched with the router bypassed.
LEMMA ScanIRLemma ==
  ASSUME Shape, BeliefIsTrue, NEW ir, ScanIR(ir), UNCHANGED <<synced, kills>>,
         cache' = [ir |-> ir, ready |-> TRUE]
  PROVE  /\ Shape' /\ BeliefIsTrue'
         /\ synced => Latched(chain').dp = ir /\ Latched(chain').pick = "BYPASS"
<1>. DEFINE s == ToShift("IR", belief, chain.tap)
            ch == Latched(chain)
            p == IF s = "ShiftIR" THEN "BYPASS" ELSE "lost"
<1>1. IsChain(ch) /\ ch.tap = chain.tap
  BY LatchedLemma DEF Shape
<1>2. /\ belief' = Believed("IR", "Pause")
      /\ chain' = Moved(ch, AfterScan("Pause", s), <<[reg |-> "IR", pick |-> p, dp |-> ir]>>)
  BY DEF ScanIR
<1>3. chain' = [tap |-> AfterScan("Pause", s), linked |-> ch.linked, pick |-> ch.pick, dp |-> ch.dp,
                held |-> <<[reg |-> "IR", pick |-> p, dp |-> ir]>>]
  BY <1>2 DEF Moved
<1>4. Latched(chain').dp = ir /\ Latched(chain').pick = p
  BY <1>3 DEF Latched
<1>5. s \in TapStates /\ AfterScan("Pause", s) \in TapStates /\ belief' \in Beliefs
  BY <1>2, ScanStaysLemma DEF Shape, Believed, Beliefs
<1>6. "Pause" \in Ends /\ "IR" \in {"DR", "IR"}
  BY DEF Ends
<1>7. chain.tap = belief => s = "ShiftIR" /\ AfterScan("Pause", s) = Believed("IR", "Pause")
  BY <1>6, WalkLemma DEF Shape
<1>. QED BY <1>2, <1>3, <1>4, <1>5, <1>7 DEF Shape, BeliefIsTrue, IsChain

-----------------------------------------------------------------------------
(* One lemma per kind of step.                                             *)

\* A transfer goes on, or its request ends.
Onward == pc' \notin RouterPcs /\ (conn' = conn \/ pc' = "idle")

LEMMA OnwardLemma ==
  /\ \A r : Return(r) => Onward
  /\ \A p : p \notin RouterPcs /\ Goto(p) => Onward
  /\ NextTransfer => Onward
  /\ \A csr : Checked(csr) => Onward
  /\ \A q, p : q \notin RouterPcs /\ p \notin RouterPcs /\ NextWord(q, p) => Onward
<1>1. \A r : Return(r) => Onward
  BY DEF Return, Onward, RouterPcs
<1>2. \A p : p \notin RouterPcs /\ Goto(p) => Onward
  BY DEF Goto, Onward
<1>3. NextTransfer => Onward
  BY <1>1 DEF NextTransfer, Onward, RouterPcs
<1>4. \A csr : Checked(csr) => Onward
  BY <1>1, <1>3 DEF Checked, Onward, RouterPcs
<1>5. \A q, p : q \notin RouterPcs /\ p \notin RouterPcs /\ NextWord(q, p) => Onward
  BY <1>2 DEF NextWord, Onward
<1>. QED BY <1>1, <1>2, <1>3, <1>4, <1>5

\* A scan of a data register, whatever its caller makes of the answer.
LEMMA DataStep ==
  ASSUME IInv, NEW req, NEW to \in Ends, NEW ack, NEW d, ScanDR(req, to, ack, d),
         UNCHANGED scanRest, pc \notin RouterPcs, pc # "idle", Onward
  PROVE  IInv'
<1>1. UNCHANGED <<synced, cache, kills, op>>
  BY DEF scanRest, envVars
<1>2. /\ Shape' /\ BeliefIsTrue'
      /\ Latched(chain').dp = Latched(chain).dp /\ Latched(chain').pick = Latched(chain).pick
  BY <1>1, ScanDRLemma DEF IInv
<1>3. conn # "off"
  BY DEF IInv, Places
<1>4. Places'
  BY <1>3 DEF Places, Onward
<1>5. CacheIsTrue'
  BY <1>1, <1>2, <1>3 DEF CacheIsTrue, IInv
<1>. QED BY <1>2, <1>4, <1>5 DEF IInv

\* An instruction is shifted, or is there already.
LEMMA InstructionStep ==
  ASSUME IInv, NEW from, NEW ir, NEW to, ShiftIR(from, ir, to),
         from \notin RouterPcs, from # "idle", to \notin RouterPcs
  PROVE  IInv'
<1>1. UNCHANGED <<synced, kills, op, conn>> /\ pc = from /\ pc' = to
  BY DEF ShiftIR, envVars, userVars
<1>2. Places'
  BY <1>1 DEF IInv, Places
<1>3. CASE UNCHANGED <<pinVars, cache>>
  BY <1>1, <1>2, <1>3 DEF IInv, Shape, BeliefIsTrue, CacheIsTrue, pinVars
<1>4. CASE ScanIR(ir) /\ cache' = [ir |-> ir, ready |-> TRUE]
  <2>1. /\ Shape' /\ BeliefIsTrue'
        /\ synced => Latched(chain').dp = ir /\ Latched(chain').pick = "BYPASS"
    BY <1>1, <1>4, ScanIRLemma DEF IInv
  <2>2. CacheIsTrue'
    BY <1>1, <1>4, <2>1 DEF CacheIsTrue
  <2>. QED BY <1>2, <2>1, <2>2 DEF IInv
<1>. QED BY <1>3, <1>4 DEF ShiftIR

-----------------------------------------------------------------------------
(* The router.                                                             *)

LEMMA IrDrLemma ==
  ASSUME NEW b \in Beliefs, NEW to \in Ends
  PROVE  IrDr(b, to, b) = Believed("DR", to)
<1>1. "Pause" \in Ends /\ "PauseIR" \in Beliefs
  BY DEF Ends, Beliefs
<1>2. Scanned("IR", b, "Pause", b) = "PauseIR"
  BY <1>1, WalkLemma DEF Scanned, Believed
<1>. QED BY <1>1, <1>2, WalkLemma DEF IrDr, Scanned

LEMMA IrDrStays ==
  ASSUME NEW s \in TapStates, NEW b, NEW to
  PROVE  IrDr(b, to, s) \in TapStates
  BY ScanStaysLemma DEF IrDr, Scanned

\* A step of the router, given that it walks from where the TAPs are to Run-Test/Idle.
LEMMA IcepickStep ==
  ASSUME IInv, NEW from, NEW pick, NEW tap \in TapStates, NEW to, Icepick(from, pick, tap, to),
         from \in RouterPcs, UNCHANGED <<op, kills>>, synced' => tap = "RTI",
         \/ to \in RouterPcs /\ conn' = conn
         \/ to = "idle" /\ (op.t = "init" => conn' = "off")
  PROVE  IInv'
<1>1. /\ pc = from /\ pc' = to /\ belief' = "RTI" /\ UNCHANGED cache
      /\ IsChain(chain') /\ chain'.tap = tap
  BY DEF Icepick, IsChain
<1>2. conn # "off" /\ (op.t = "init" \/ kills # 0)
  BY <1>1 DEF IInv, Places, RouterPcs
<1>3. Shape' /\ BeliefIsTrue'
  BY <1>1 DEF IInv, Shape, BeliefIsTrue, Beliefs
<1>4. Places'
  BY <1>1, <1>2 DEF Places
<1>5. CacheIsTrue'
  BY <1>1, <1>2 DEF CacheIsTrue
<1>. QED BY <1>3, <1>4, <1>5 DEF IInv

\* Whatever the belief was, after the reset it is true.
LEMMA DetectTap ==
  ASSUME IInv
  PROVE  IrDr("RTI", "RTI", IrDr("TLR", "RTI", AfterReset(chain.tap))) = "RTI" /\ "RTI" \in TapStates
<1>1. AfterReset(chain.tap) = "TLR"
  BY ResetLemma DEF IInv, Shape
<1>2. "RTI" \in Ends /\ "RTI" \in Beliefs /\ "TLR" \in Beliefs
  BY DEF Ends, Beliefs
<1>3. IrDr("TLR", "RTI", "TLR") = "RTI" /\ IrDr("RTI", "RTI", "RTI") = "RTI"
  BY <1>2, IrDrLemma DEF Believed
<1>4. "RTI" \in TapStates
  BY DEF TapStates, OnLow
<1>. QED BY <1>1, <1>3, <1>4

LEMMA DetectStep == IInv /\ Detect => IInv'
<1>. SUFFICES ASSUME IInv, Detect PROVE IInv'
  OBVIOUS
<1>. DEFINE tap == IrDr("RTI", "RTI", IrDr("TLR", "RTI", AfterReset(chain.tap)))
            to == IF plugged THEN "connect" ELSE "idle"
<1>1. Icepick("detect", "ICEPICKCODE", tap, to) /\ UNCHANGED <<op, kills>>
  BY DEF Detect
<1>2. tap = "RTI" /\ tap \in TapStates
  BY DetectTap
<1>3. \/ to \in RouterPcs /\ conn' = conn
      \/ to = "idle" /\ (op.t = "init" => conn' = "off")
  BY DEF Detect, RouterPcs
<1>4. "detect" \in RouterPcs
  BY DEF RouterPcs
<1>. HIDE DEF tap, to
<1>. QED BY <1>1, <1>2, <1>3, <1>4, IcepickStep

LEMMA ConnectedStep == IInv /\ Connected /\ synced' = synced /\ UNCHANGED userVars => IInv'
<1>. SUFFICES ASSUME IInv, Connected, synced' = synced, UNCHANGED userVars PROVE IInv'
  OBVIOUS
<1>. DEFINE tap == IrDr(belief, "RTI", chain.tap)
<1>1. Icepick("connect", "CONNECT", tap, "configure") /\ UNCHANGED <<op, kills, conn>>
  BY DEF Connected, userVars
<1>2. "RTI" \in Ends /\ {"connect", "configure"} \subseteq RouterPcs
  BY DEF Ends, RouterPcs
<1>3. tap \in TapStates
  BY IrDrStays DEF IInv, Shape
<1>4. synced' => tap = "RTI"
  BY <1>2, IrDrLemma DEF IInv, Shape, BeliefIsTrue, Believed
<1>. HIDE DEF tap
<1>. QED BY <1>1, <1>2, <1>3, <1>4, IcepickStep

LEMMA ConfigureStep == IInv /\ Configure /\ synced' = synced /\ UNCHANGED userVars => IInv'
<1>. SUFFICES ASSUME IInv, Configure, synced' = synced, UNCHANGED userVars PROVE IInv'
  OBVIOUS
<1>. DEFINE s1 == IrDr(belief, "Pause", chain.tap)
            s4 == IrDr("PauseDR", "RTI", IrDr("PauseDR", "Pause", IrDr("PauseDR", "Pause", s1)))
            tap == Scanned("IR", "RTI", "RTI", Lo(Lo(Lo(Lo(Lo(s4))))))
<1>1. Icepick("configure", "BYPASS", tap, "warm") /\ UNCHANGED <<op, kills, conn>>
  BY DEF Configure, userVars
<1>2. /\ "RTI" \in Ends /\ "Pause" \in Ends /\ {"configure", "warm"} \subseteq RouterPcs
      /\ "PauseDR" \in Beliefs /\ "RTI" \in Beliefs
  BY DEF Ends, RouterPcs, Beliefs
<1>3. tap \in TapStates
  <2>1. s1 \in TapStates
    BY IrDrStays DEF IInv, Shape
  <2>. HIDE DEF s1
  <2>2. s4 \in TapStates
    BY <2>1, IrDrStays
  <2>. HIDE DEF s4
  <2>3. Lo(Lo(Lo(Lo(Lo(s4))))) \in TapStates
    BY <2>2, StaysLemma
  <2>. QED BY <2>3, ScanStaysLemma DEF Scanned
<1>4. ASSUME synced' PROVE tap = "RTI"
  <2>1. chain.tap = belief /\ belief \in Beliefs
    BY <1>4 DEF IInv, Shape, BeliefIsTrue
  <2>2. s1 = "PauseDR"
    BY <1>2, <2>1, IrDrLemma DEF Believed
  <2>. HIDE DEF s1
  <2>3. IrDr("PauseDR", "Pause", "PauseDR") = "PauseDR" /\ IrDr("PauseDR", "RTI", "PauseDR") = "RTI"
    BY <1>2, IrDrLemma DEF Believed
  <2>4. s4 = "RTI"
    BY <2>2, <2>3
  <2>. HIDE DEF s4
  <2>5. Lo(Lo(Lo(Lo(Lo(s4))))) = "RTI"
    BY <2>4, TapTable
  <2>6. Scanned("IR", "RTI", "RTI", "RTI") = "RTI"
    BY <1>2, WalkLemma DEF Scanned, Believed
  <2>. QED BY <2>5, <2>6
<1>. HIDE DEF tap
<1>. QED BY <1>1, <1>2, <1>3, <1>4, IcepickStep

LEMMA WarmResetStep == IInv /\ WarmReset /\ synced' = synced /\ UNCHANGED userVars => IInv'
<1>. SUFFICES ASSUME IInv, WarmReset, synced' = synced, UNCHANGED userVars PROVE IInv'
  OBVIOUS
<1>. DEFINE tap == IrDr(belief, "RTI", chain.tap)
            to == IF op.t = "init" THEN "dpInit" ELSE "idle"
<1>1. Icepick("warm", "ROUTER", tap, to) /\ UNCHANGED <<op, kills, conn>>
  BY DEF WarmReset, userVars
<1>2. "RTI" \in Ends /\ {"warm", "dpInit"} \subseteq RouterPcs
  BY DEF Ends, RouterPcs
<1>3. tap \in TapStates
  BY IrDrStays DEF IInv, Shape
<1>4. synced' => tap = "RTI"
  BY <1>2, IrDrLemma DEF IInv, Shape, BeliefIsTrue, Believed
<1>5. \/ to \in RouterPcs /\ conn' = conn
      \/ to = "idle" /\ (op.t = "init" => conn' = "off")
  BY <1>1, <1>2
<1>. HIDE DEF tap, to
<1>. QED BY <1>1, <1>2, <1>3, <1>4, <1>5, IcepickStep

-----------------------------------------------------------------------------
(* The theorems.                                                           *)

LEMMA InitIInv == Init => IInv
<1>. SUFFICES ASSUME Init PROVE IInv
  OBVIOUS
<1>1. /\ belief = "TLR" /\ cache = [ir |-> "none", ready |-> FALSE] /\ kills = 0 /\ pc = "idle"
      /\ conn = "off" /\ synced = FALSE
      /\ chain \in [tap : TapStates, linked : {FALSE}, pick : {"IDCODE"}, dp : {"unknown"}, held : {<<>>}]
  BY DEF Init
<1>2. Shape
  BY <1>1 DEF Shape, IsChain, Beliefs
<1>3. Places
  BY <1>1 DEF Places, RouterPcs
<1>. QED BY <1>1, <1>2, <1>3 DEF IInv, BeliefIsTrue, CacheIsTrue

\* The steps of a session: every scan is one of the two kinds.
LEMMA SessionStep == IInv /\ Session => IInv'
<1>. SUFFICES ASSUME IInv, Session PROVE IInv'
  OBVIOUS
<1>0. "RTI" \in Ends /\ "Pause" \in Ends
  BY DEF Ends
<1>1. CASE TransferIR
  BY <1>1, InstructionStep DEF TransferIR, AfterIR, RouterPcs
<1>2. CASE Cmd
  <2>1. PICK ack \in Acks, d \in Word : ScanDR(Request, "RTI", ack, d)
            /\ IF call.check THEN pc' = "resp" /\ UNCHANGED <<i, n, calls, clearing, result, conn>>
               ELSE Again("cmd", Goto("csrIR"))
    BY <1>2 DEF Cmd
  <2>2. UNCHANGED scanRest /\ pc = "cmd"
    BY <1>2 DEF Cmd
  <2>3. Onward
    BY <2>1, OnwardLemma DEF Again, Onward, RouterPcs
  <2>. QED BY <1>0, <2>1, <2>2, <2>3, DataStep DEF RouterPcs
<1>3. CASE Resp
  <2>1. PICK ack \in Acks, d \in Word : ScanDR(Dummy, "RTI", ack, d)
            /\ CASE ack = "BAD"  -> Return("failure")
                 [] ack = "WAIT" -> Again("cmd", Goto("csrIR"))
                 [] ack = "OK"   -> Goto("csrIR")
    BY <1>3 DEF Resp
  <2>2. UNCHANGED scanRest /\ pc = "resp"
    BY <1>3 DEF Resp
  <2>3. Onward
    BY <2>1, OnwardLemma DEF Again, Onward, RouterPcs, Acks
  <2>. QED BY <1>0, <2>1, <2>2, <2>3, DataStep DEF RouterPcs
<1>4. CASE First
  <2>1. PICK ack \in Acks, d \in Word : ScanDR(Request, "RTI", ack, d)
            /\ CASE ack = "BAD"  -> Return("failure")
                 [] ack = "WAIT" -> Again("first", Return("failure"))
                 [] ack = "OK"   -> Goto("get")
    BY <1>4 DEF First
  <2>2. UNCHANGED scanRest /\ pc = "first"
    BY <1>4 DEF First
  <2>3. Onward
    BY <2>1, OnwardLemma DEF Again, Onward, RouterPcs, Acks
  <2>. QED BY <1>0, <2>1, <2>2, <2>3, DataStep DEF RouterPcs
<1>5. CASE Get
  <2>1. PICK ack \in Acks, d \in Word : ScanDR(Dummy, "Pause", ack, d)
            /\ CASE ack = "BAD"  -> Return("failure")
                 [] ack = "WAIT" -> Again("get", Return("failure"))
                 [] ack = "OK"   -> NextWord("get", "csrIR")
    BY <1>5 DEF Get
  <2>2. UNCHANGED scanRest /\ pc = "get"
    BY <1>5 DEF Get
  <2>3. Onward
    BY <2>1, OnwardLemma DEF Again, Onward, RouterPcs, Acks
  <2>. QED BY <1>0, <2>1, <2>2, <2>3, DataStep DEF RouterPcs
<1>6. CASE Put
  <2>1. PICK ack \in Acks, d \in Word : ScanDR([Request EXCEPT !.v = call.vals[n]], "RTI", ack, d)
            /\ CASE ack = "BAD"  -> Return("failure")
                 [] ack = "WAIT" -> Again("put", Return("failure"))
                 [] ack = "OK"   -> NextWord("put", "final")
    BY <1>6 DEF Put
  <2>2. UNCHANGED scanRest /\ pc = "put"
    BY <1>6 DEF Put
  <2>3. Onward
    BY <2>1, OnwardLemma DEF Again, Onward, RouterPcs, Acks
  <2>. QED BY <1>0, <2>1, <2>2, <2>3, DataStep DEF RouterPcs
<1>7. CASE Final
  <2>1. PICK ack \in Acks, d \in Word : ScanDR(Dummy, "RTI", ack, d)
            /\ IF ack = "BAD" THEN Return("failure") ELSE Goto("csrIR")
    BY <1>7 DEF Final
  <2>2. UNCHANGED scanRest /\ pc = "final"
    BY <1>7 DEF Final
  <2>3. Onward
    BY <2>1, OnwardLemma DEF RouterPcs
  <2>. QED BY <1>0, <2>1, <2>2, <2>3, DataStep DEF RouterPcs
<1>8. CASE CsrIR
  BY <1>8, InstructionStep DEF CsrIR, RouterPcs
<1>9. CASE Csr
  <2>1. PICK ack \in Acks, d \in Word : ScanDR([rnw |-> TRUE, a |-> 4, v |-> 0], "RTI", ack, d)
            /\ pc' = "csrResp" /\ UNCHANGED conn
    BY <1>9 DEF Csr
  <2>2. UNCHANGED scanRest /\ pc = "csr"
    BY <1>9 DEF Csr
  <2>3. Onward
    BY <2>1, OnwardLemma DEF Onward, RouterPcs
  <2>. QED BY <1>0, <2>1, <2>2, <2>3, DataStep DEF RouterPcs
<1>10. CASE CsrResp
  <2>1. PICK ack \in Acks, d \in Word : ScanDR(Dummy, "RTI", ack, d)
            /\ IF ack = "BAD" /\ call.t = "csr" THEN Return("failure")
               ELSE IF ack = "WAIT" THEN Again("csr", Checked(d))
               ELSE Checked(d)
    BY <1>10 DEF CsrResp
  <2>2. UNCHANGED scanRest /\ pc = "csrResp"
    BY <1>10 DEF CsrResp
  <2>3. Onward
    BY <2>1, OnwardLemma DEF Again, Onward, RouterPcs
  <2>. QED BY <1>0, <2>1, <2>2, <2>3, DataStep DEF RouterPcs
<1>. QED
  BY <1>1, <1>2, <1>3, <1>4, <1>5, <1>6, <1>7, <1>8, <1>9, <1>10 DEF Session

\* The steps of connecting.
LEMMA ConnectingStep == IInv /\ Connecting => IInv'
<1>. SUFFICES ASSUME IInv, Connecting PROVE IInv'
  OBVIOUS
<1>1. CASE Router
  BY <1>1, DetectStep, ConnectedStep, ConfigureStep, WarmResetStep DEF Router
<1>2. CASE DpInit
  <2>1. /\ pc = "dpInit" /\ pc' = "idIR" /\ cache' = [cache EXCEPT !.ready = FALSE]
        /\ UNCHANGED <<belief, chain, synced, op, conn, kills>>
    BY <1>2 DEF DpInit, pinVars, envVars, userVars
  <2>2. cache' = [ir |-> cache.ir, ready |-> FALSE]
    BY <2>1 DEF IInv, Shape
  <2>. QED
    BY <2>1, <2>2 DEF IInv, Shape, Places, BeliefIsTrue, CacheIsTrue, RouterPcs
<1>3. CASE DpDetectIR
  BY <1>3, InstructionStep DEF DpDetectIR, RouterPcs
<1>4. CASE DpDetect
  <2>1. /\ pc = "idDR" /\ belief' = "RTI" /\ UNCHANGED <<synced, cache, kills, op>>
        /\ chain' = Moved(Latched(chain), AfterScan("RTI", ToShift("DR", belief, chain.tap)), <<>>)
    BY <1>4 DEF DpDetect, scanRest, envVars
  <2>2. "RTI" \in Ends /\ belief' = Believed("DR", "RTI")
    BY <2>1 DEF Ends, Believed
  <2>3. /\ Shape' /\ BeliefIsTrue'
        /\ Latched(chain').dp = Latched(chain).dp /\ Latched(chain').pick = Latched(chain).pick
    BY <2>1, <2>2, DataLemma DEF IInv
  <2>4. Onward
    BY <1>4, OnwardLemma DEF DpDetect, Onward, RouterPcs
  <2>5. conn # "off" /\ pc \notin RouterPcs
    BY <2>1 DEF IInv, Places, RouterPcs
  <2>6. Places' /\ CacheIsTrue'
    BY <2>1, <2>3, <2>4, <2>5 DEF IInv, Places, CacheIsTrue, Onward
  <2>. QED BY <2>3, <2>6 DEF IInv
<1>. QED BY <1>1, <1>2, <1>3, <1>4 DEF Connecting

\* What the GDB server and the user do.
LEMMA UserStep ==
  IInv /\ (Connect \/ Kill \/ Plug \/ \E o \in Requests : Access_(o)) => IInv'
<1>1. ASSUME IInv, Connect PROVE IInv'
  <2>1. /\ pc' = "detect" /\ conn' = "connecting" /\ op' = [t |-> "init"]
        /\ UNCHANGED <<belief, chain, cache, synced, kills>>
    BY <1>1 DEF Connect, Ask, pinVars, envVars
  <2>. QED
    BY <1>1, <2>1 DEF IInv, Shape, Places, BeliefIsTrue, CacheIsTrue, RouterPcs
<1>2. ASSUME IInv, Kill PROVE IInv'
  <2>1. /\ pc' = "detect" /\ conn = "on" /\ kills' = kills + 1
        /\ UNCHANGED <<belief, chain, cache, synced, conn>>
    BY <1>2 DEF Kill, Ask, pinVars, envVars
  <2>2. kills' \in Nat /\ kills' # 0
    BY <1>2, <2>1 DEF IInv, Shape
  <2>. QED
    BY <1>2, <2>1, <2>2 DEF IInv, Shape, Places, BeliefIsTrue, CacheIsTrue, RouterPcs
<1>3. ASSUME IInv, Plug PROVE IInv'
  <2>1. PICK s \in TapStates :
          chain' = [tap |-> s, linked |-> FALSE, pick |-> "lost", dp |-> "unknown", held |-> <<>>]
    BY <1>3 DEF Plug
  <2>2. synced' = FALSE /\ UNCHANGED <<belief, cache, conn, op, kills, pc>>
    BY <1>3 DEF Plug
  <2>. QED
    BY <1>3, <2>1, <2>2 DEF IInv, Shape, IsChain, Places, BeliefIsTrue, CacheIsTrue
<1>4. ASSUME IInv, NEW o \in Requests, Access_(o) PROVE IInv'
  <2>1. /\ pc = "idle" /\ pc' = "ir" /\ conn = "on"
        /\ UNCHANGED <<belief, chain, cache, synced, conn, kills>>
    BY <1>4 DEF Access_, Ask, pinVars, envVars
  <2>. QED
    BY <1>4, <2>1 DEF IInv, Shape, Places, BeliefIsTrue, CacheIsTrue, RouterPcs
<1>. QED BY <1>1, <1>2, <1>3, <1>4

LEMMA StepIInv == IInv /\ [Next]_vars => IInv'
<1>1. ASSUME IInv, UNCHANGED vars PROVE IInv'
  BY <1>1 DEF IInv, Shape, Places, BeliefIsTrue, CacheIsTrue, vars, pinVars, envVars, userVars
<1>. QED BY <1>1, SessionStep, ConnectingStep, UserStep DEF Next

LEMMA Invariant == Spec => []IInv
  BY InitIInv, StepIInv, PTL DEF Spec

\* What jtag_scan believes of the TAPs is true after any sequence of scans,
\* failures, resets and connections since the target was last found.
THEOREM BeliefCorrect == Spec => []BeliefIsTrue
<1>1. IInv => BeliefIsTrue
  BY DEF IInv
<1>. QED BY <1>1, Invariant, PTL

\* The instruction jtagdp_shiftIR does not shift again is in the port.
THEOREM CacheCorrect == Spec => []CacheIsTrue
<1>1. IInv => CacheIsTrue
  BY DEF IInv
<1>. QED BY <1>1, Invariant, PTL

-----------------------------------------------------------------------------
(* The words of a block, in the chunks of the pipelined transfers.         *)

LEMMA Difference ==
  ASSUME NEW p \in Int, NEW q \in Int, NEW a \in Int, q = p + 1
  PROVE  p - a \in Int /\ q - a = (p - a) + 1
  OBVIOUS

LEMMA DivMod ==
  ASSUME NEW x \in Nat, NEW d \in Nat \ {0}
  PROVE  x \div d \in Nat /\ x % d \in Nat /\ x % d < d /\ x = d * (x \div d) + (x % d)
  OBVIOUS

LEMMA MulNat == ASSUME NEW p \in Nat, NEW q \in Nat PROVE p * q \in Nat
  OBVIOUS

LEMMA MulMono ==
  ASSUME NEW p \in Nat, NEW q \in Nat, NEW d \in Nat, p < q
  PROVE  (p + 1) * d <= q * d
<1>. DEFINE r == q - (p + 1)
<1>1. r \in Nat /\ q = (p + 1) + r
  OBVIOUS
<1>2. r * d \in Nat /\ (p + 1) * d \in Nat
  BY <1>1, MulNat
<1>3. q * d = (p + 1) * d + r * d
  BY <1>1
<1>. QED BY <1>2, <1>3

LEMMA ModUnique ==
  ASSUME NEW x \in Nat, NEW d \in Nat \ {0}, NEW p \in Nat, p * d <= x, x < (p + 1) * d
  PROVE  x % d = x - p * d
<1>. DEFINE q == x \div d
<1>1. q \in Nat /\ x % d \in Nat /\ x % d < d /\ x = q * d + (x % d)
  BY DivMod
<1>. HIDE DEF q
<1>2. p * d \in Nat /\ q * d \in Nat /\ (p + 1) * d = p * d + d /\ (q + 1) * d = q * d + d
  BY <1>1, MulNat
<1>3. ~(p < q)
  <2>. SUFFICES ASSUME p < q PROVE FALSE
    OBVIOUS
  <2>1. (p + 1) * d <= q * d
    BY <1>1, MulMono
  <2>. QED BY <1>1, <1>2, <2>1
<1>4. ~(q < p)
  <2>. SUFFICES ASSUME q < p PROVE FALSE
    OBVIOUS
  <2>1. (q + 1) * d <= p * d
    BY <1>1, MulMono
  <2>. QED BY <1>1, <1>2, <2>1
<1>5. p = q
  BY <1>1, <1>3, <1>4
<1>. QED BY <1>1, <1>2, <1>5

\* Where page p's part of a block starts, and ends.
From(a, p) == IF p = a \div Page THEN a ELSE p * Page
Upto(a, len, p) == IF (p + 1) * Page < a + len THEN (p + 1) * Page ELSE a + len
PagesOf(a, len) == ((a + len - 1) \div Page) - (a \div Page) + 1

LEMMA ChunksAre ==
  ASSUME NEW a \in Nat, NEW len \in Nat \ {0}
  PROVE  /\ PagesOf(a, len) \in Nat \ {0}
         /\ Chunks(a, len) = [k \in 1..PagesOf(a, len) |->
              <<From(a, (a \div Page) + k - 1),
                Upto(a, len, (a \div Page) + k - 1) - From(a, (a \div Page) + k - 1)>>]
<1>1. PagesOf(a, len) \in Nat \ {0}
  <2>. DEFINE p == a \div Page  q == (a + len - 1) \div Page
  <2>0. Page \in Nat \ {0} /\ a + len - 1 \in Nat
    BY DebugPortAssumption
  <2>1. /\ p \in Nat /\ a % Page \in Nat /\ a % Page < Page /\ a = Page * p + (a % Page)
        /\ q \in Nat /\ (a + len - 1) % Page \in Nat /\ (a + len - 1) % Page < Page
        /\ a + len - 1 = Page * q + ((a + len - 1) % Page)
    BY <2>0, DivMod
  <2>. HIDE DEF p, q
  <2>2. ~(q < p)
    <3>. SUFFICES ASSUME q < p PROVE FALSE
      OBVIOUS
    <3>1. (q + 1) * Page <= p * Page /\ q * Page \in Nat /\ p * Page \in Nat /\ (q + 1) * Page = q * Page + Page
      BY <2>0, <2>1, MulMono, MulNat
    <3>2. p * Page = Page * p /\ q * Page = Page * q
      BY <2>0, <2>1
    <3>. QED BY <2>0, <2>1, <3>1, <3>2
  <2>3. PagesOf(a, len) = q - p + 1
    BY DEF PagesOf, p, q
  <2>. QED BY <2>1, <2>2, <2>3
<1>2. Chunks(a, len) = [k \in 1..PagesOf(a, len) |->
              <<From(a, (a \div Page) + k - 1),
                Upto(a, len, (a \div Page) + k - 1) - From(a, (a \div Page) + k - 1)>>]
  BY Zenon DEF Chunks, PagesOf, From, Upto
<1>. QED BY <1>1, <1>2

\* The parts follow one another, and each stays in its page.
LEMMA PartsLemma ==
  ASSUME NEW a \in Nat, NEW len \in Nat \ {0}, NEW p \in Nat,
         a \div Page <= p, p <= (a + len - 1) \div Page
  PROVE  /\ From(a, p) \in Nat /\ Upto(a, len, p) \in Nat
         /\ From(a, a \div Page) = a /\ a <= From(a, p)
         /\ From(a, p) < Upto(a, len, p) /\ Upto(a, len, p) <= a + len
         /\ (From(a, p) % Page) + (Upto(a, len, p) - From(a, p)) <= Page
         /\ p < (a + len - 1) \div Page => Upto(a, len, p) = From(a, p + 1)
         /\ p = (a + len - 1) \div Page => Upto(a, len, p) = a + len
<1>. DEFINE first == a \div Page  end == a + len - 1  last == end \div Page
<1>0. Page \in Nat \ {0} /\ end \in Nat /\ a + len = end + 1 /\ a <= end
  BY DebugPortAssumption
<1>1. /\ first \in Nat /\ a % Page \in Nat /\ a % Page < Page /\ a = Page * first + (a % Page)
      /\ last \in Nat /\ end % Page \in Nat /\ end % Page < Page /\ end = Page * last + (end % Page)
  BY <1>0, DivMod
<1>2. first <= p /\ p <= last
  OBVIOUS
<1>3. From(a, p) = (IF p = first THEN a ELSE p * Page) /\ From(a, first) = a
  BY DEF From
<1>4. p # last => p + 1 # first /\ From(a, p + 1) = (p + 1) * Page
  BY <1>1, <1>2 DEF From
<1>5. Upto(a, len, p) = IF (p + 1) * Page < end + 1 THEN (p + 1) * Page ELSE end + 1
  BY <1>0 DEF Upto
<1>. HIDE DEF first, last, end
<1>6. /\ p * Page \in Nat /\ (p + 1) * Page = p * Page + Page
      /\ first * Page \in Nat /\ Page * first = first * Page /\ (first + 1) * Page = first * Page + Page
      /\ last * Page \in Nat /\ Page * last = last * Page /\ (last + 1) * Page = last * Page + Page
  BY <1>0, <1>1, MulNat
<1>7. first # p => (first + 1) * Page <= p * Page
  BY <1>0, <1>1, <1>2, MulMono
<1>8. p # last => (p + 1) * Page <= last * Page
  BY <1>0, <1>1, <1>2, MulMono
<1>. DEFINE F == From(a, p)  U == Upto(a, len, p)
<1>9. F \in Nat /\ p * Page <= F /\ F < (p + 1) * Page /\ a <= F /\ F <= end
  <2>1. CASE p = first
    BY <2>1, <1>0, <1>1, <1>3, <1>6
  <2>2. CASE p # first
    <3>1. F = p * Page
      BY <2>2, <1>3
    <3>2. p * Page <= last * Page
      BY <1>0, <1>6, <1>8
    <3>. QED BY <2>2, <3>1, <3>2, <1>0, <1>1, <1>6, <1>7
  <2>. QED BY <2>1, <2>2
<1>10. U \in Nat /\ F < U /\ U <= end + 1 /\ U <= (p + 1) * Page
  BY <1>0, <1>5, <1>6, <1>9
<1>11. F % Page = F - p * Page
  BY <1>0, <1>9, ModUnique
<1>12. (F % Page) + (U - F) <= Page
  BY <1>0, <1>6, <1>9, <1>10, <1>11
<1>13. p < last => U = From(a, p + 1)
  BY <1>0, <1>1, <1>4, <1>5, <1>6, <1>8
<1>14. p = last => U = end + 1
  BY <1>0, <1>1, <1>5, <1>6
<1>. QED BY <1>0, <1>3, <1>9, <1>10, <1>12, <1>13, <1>14 DEF first, last, end

-----------------------------------------------------------------------------
(* Induction over a list: lists of groups of four, joined.                 *)

LEMMA SetInduction ==
  ASSUME NEW S, 0 \in S, \A k \in Nat : k \in S => k + 1 \in S
  PROVE  Nat \subseteq S
<1>. DEFINE T == Nat \ S
<1>. SUFFICES ASSUME T # {} PROVE FALSE
  OBVIOUS
<1>1. PICK x \in T : \A y \in T : ~(<<y, x>> \in OpToRel(<, Nat))
  BY NatLessThanWellFounded, WFMin
<1>2. x # 0 /\ x - 1 \in Nat
  OBVIOUS
<1>3. <<x - 1, x>> \in OpToRel(<, Nat)
  BY <1>2 DEF OpToRel
<1>4. x - 1 \in S
  BY <1>1, <1>2, <1>3
<1>5. (x - 1) + 1 = x
  BY <1>2
<1>6. x \in S
  BY <1>2, <1>4, <1>5
<1>. QED BY <1>6

LEMMA FlattenLemma ==
  ASSUME NEW P, NEW K \in Nat \ {0}, Len(P) = K
  PROVE  \E g : /\ g[1] = P[1] /\ \A k \in 2..K : g[k] = g[k - 1] \o P[k]
                /\ FlattenSeq(P) = g[K]
<1>. DEFINE At(g, k) == IF k = 1 THEN P[k] ELSE g[k - 1] \o P[k]
            IsFold(g, m) == g = [k \in 1..K |-> g[k]] /\ \A k \in 1..K : k <= m => g[k] = At(g, k)
            S == {m \in Nat : \E g : IsFold(g, m)}
<1>1. 0 \in S
  <2>1. IsFold([k \in 1..K |-> P[1]], 0)
    OBVIOUS
  <2>. HIDE DEF IsFold
  <2>. QED BY <2>1
<1>2. ASSUME NEW m \in Nat, m \in S PROVE m + 1 \in S
  <2>1. PICK g : IsFold(g, m)
    BY <1>2
  <2>. DEFINE h == [k \in 1..K |-> IF k = m + 1 THEN At(g, k) ELSE g[k]]
  <2>2. \A k \in 1..K : h[k] = (IF k = m + 1 THEN At(g, k) ELSE g[k])
    OBVIOUS
  <2>3. h = [k \in 1..K |-> h[k]]
    OBVIOUS
  <2>4. ASSUME NEW k \in 1..K, k <= m + 1 PROVE h[k] = At(h, k)
    <3>. HIDE DEF h
    <3>1. k # 1 => k - 1 \in 1..K /\ k - 1 # m + 1
      BY <2>4
    <3>2. At(h, k) = At(g, k)
      BY <3>1, <2>2
    <3>. HIDE DEF At
    <3>3. \A l \in 1..K : l <= m => g[l] = At(g, l)
      BY <2>1, Zenon
    <3>4. k # m + 1 => k <= m
      BY <2>4
    <3>5. k # m + 1 => g[k] = At(g, k)
      BY <3>3, <3>4
    <3>. QED BY <2>2, <3>2, <3>5
  <2>5. IsFold(h, m + 1)
    <3>. HIDE DEF h, At
    <3>. QED BY <2>3, <2>4
  <2>. HIDE DEF IsFold
  <2>. QED BY <2>5
<1>3. K \in S
  <2>. HIDE DEF S
  <2>. QED BY <1>1, <1>2, SetInduction
<1>4. PICK g : IsFold(g, K)
  BY <1>3
<1>5. g = [k \in 1..K |-> At(g, k)]
  <2>. HIDE DEF At
  <2>0. \A k \in 1..K : k <= K => g[k] = At(g, k)
    BY <1>4, Zenon
  <2>1. \A k \in 1..K : g[k] = At(g, k)
    BY <2>0
  <2>2. g = [k \in 1..K |-> g[k]]
    BY <1>4, Zenon
  <2>. QED BY <2>1, <2>2
<1>. DEFINE G == CHOOSE flatten : flatten = [k \in 1..Len(P) |-> IF k = 1 THEN P[k] ELSE flatten[k-1] \o P[k]]
<1>6. G = [k \in 1..K |-> IF k = 1 THEN P[k] ELSE G[k-1] \o P[k]]
  BY <1>5
<1>7. FlattenSeq(P) = G[K]
  BY DEF FlattenSeq
<1>. HIDE DEF G
<1>8. \A k \in 1..K : G[k] = IF k = 1 THEN P[k] ELSE G[k-1] \o P[k]
  BY <1>6
<1>9. G[1] = P[1]
  BY <1>8
<1>10. ASSUME NEW k \in 2..K PROVE G[k] = G[k - 1] \o P[k]
  <2>1. k \in 1..K /\ k # 1
    OBVIOUS
  <2>. QED BY <2>1, <1>8
<1>. QED BY <1>7, <1>9, <1>10

-----------------------------------------------------------------------------
(* Transfers, and the groups of four that every request is made of.        *)

AnyTransfer ==
  [t : {"acc", "piper", "pipew", "csr"}, ap : BOOLEAN, rnw : BOOLEAN, a : Int,
   v : Int \cup {"clear", "power"}, check : BOOLEAN, vals : Seq(Int)]

Loads == {"read", "bread", "uread"}
Stores == {"write", "bwrite", "uwrite"}
LastWord(o) == o.a + o.n - 1
\* The last word that a request's transfers are for.
Top(o) == LastWord(o) + (IF o.t = "uwrite" /\ o.tail THEN 1 ELSE 0)

\* The first three transfers of the m-th group.
Window(T, m, w) ==
  T[4 * m - 3] = SelectBank(0) /\ T[4 * m - 2] = WriteTar(w - (w % 4), TRUE) /\ T[4 * m - 1] = SelectBank(1)
Pointed(T, m, w) ==
  T[4 * m - 3] = SelectBank(0) /\ T[4 * m - 2] = WriteTar(w, FALSE) /\ T[4 * m - 1] = SelectBank(0)
WordRead(w, k) == Transfer("acc", TRUE, TRUE, 4 * (w % 4), k, TRUE, <<>>)

LoadsWord(o, T, f, m) ==
  /\ o.t \in Loads /\ Window(T, m, f[m - 1]) /\ T[4 * m] = WordRead(f[m - 1], f[m - 1] - o.a)
  /\ f[m] = f[m - 1] + 1 /\ f[m - 1] <= LastWord(o)
Peeks(o, T, f, m) ==
  /\ o.t \in Stores /\ Window(T, m, f[m - 1]) /\ T[4 * m] = WordRead(f[m - 1], 0)
  /\ f[m] = f[m - 1]
StoresWord(o, T, f, m) ==
  /\ o.t \in Stores /\ Window(T, m, f[m - 1]) /\ f[m] = f[m - 1] + 1
  /\ \E v \in Word \cup {Keep} :
       /\ T[4 * m] = WriteAP(4 * (f[m - 1] % 4), v)
       /\ v = IF f[m - 1] <= LastWord(o) THEN o.vals[f[m - 1] - o.a + 1] ELSE Keep
       /\ v = Keep => m > 1 /\ f[m - 2] = f[m - 1]
LoadsBlock(o, T, f, m) ==
  /\ o.t \in Loads /\ Pointed(T, m, f[m - 1]) /\ T[4 * m] = PipeRead(f[m] - f[m - 1])
  /\ f[m] > f[m - 1] /\ f[m] <= LastWord(o) + 1 /\ (f[m - 1] % Page) + (f[m] - f[m - 1]) <= Page
StoresBlock(o, T, f, m) ==
  /\ o.t \in Stores /\ Pointed(T, m, f[m - 1])
  /\ f[m] > f[m - 1] /\ f[m] <= LastWord(o) + 1 /\ (f[m - 1] % Page) + (f[m] - f[m - 1]) <= Page
  /\ \E vs \in Seq(Word) :
       /\ Len(vs) = f[m] - f[m - 1] /\ T[4 * m] = PipeWrite(vs)
       /\ \A k \in 1..Len(vs) : vs[k] = o.vals[f[m - 1] - o.a + k]
Group(o, T, f, m) ==
  /\ f[m - 1] \in Address /\ f[m - 1] >= o.a /\ f[m - 1] <= Top(o) /\ f[m] \in Nat
  /\ \/ LoadsWord(o, T, f, m) \/ Peeks(o, T, f, m) \/ StoresWord(o, T, f, m)
     \/ LoadsBlock(o, T, f, m) \/ StoresBlock(o, T, f, m)

\* The transfers T are M groups, which take the frontier f from x to y.
Stretch(o, T, M, f, x, y) ==
  /\ M \in Nat \ {0} /\ T \in Seq(AnyTransfer) /\ Len(T) = 4 * M
  /\ f[0] = x /\ f[M] = y
  /\ \A m \in 1..M : Group(o, T, f, m)
Part(o, T, x, y) == \E M, f : Stretch(o, T, M, f, x, y)

LEMMA GroupShift ==
  ASSUME NEW o, NEW T, NEW U, NEW f, NEW g, NEW m \in Nat, NEW k \in Nat, k > 1 => m > 1 /\ f[m - 2] = g[k - 2],
         T[4 * m - 3] = U[4 * k - 3], T[4 * m - 2] = U[4 * k - 2], T[4 * m - 1] = U[4 * k - 1], T[4 * m] = U[4 * k],
         f[m - 1] = g[k - 1], f[m] = g[k], Group(o, U, g, k)
  PROVE  Group(o, T, f, m)
<1>1. \A w : Window(U, k, w) => Window(T, m, w)
  BY DEF Window
<1>2. \A w : Pointed(U, k, w) => Pointed(T, m, w)
  BY DEF Pointed
<1>3. LoadsWord(o, U, g, k) => LoadsWord(o, T, f, m)
  BY <1>1 DEF LoadsWord
<1>4. Peeks(o, U, g, k) => Peeks(o, T, f, m)
  BY <1>1 DEF Peeks
<1>5. StoresWord(o, U, g, k) => StoresWord(o, T, f, m)
  BY <1>1 DEF StoresWord
<1>6. LoadsBlock(o, U, g, k) => LoadsBlock(o, T, f, m)
  BY <1>2 DEF LoadsBlock
<1>7. StoresBlock(o, U, g, k) => StoresBlock(o, T, f, m)
  BY <1>2 DEF StoresBlock
<1>. QED BY <1>3, <1>4, <1>5, <1>6, <1>7 DEF Group

LEMMA JoinParts ==
  ASSUME NEW o, NEW T1, NEW T2, NEW x, NEW y, NEW z, Part(o, T1, x, y), Part(o, T2, y, z)
  PROVE  Part(o, T1 \o T2, x, z)
<1>1. PICK M1, f1 : Stretch(o, T1, M1, f1, x, y)
  BY DEF Part
<1>2. PICK M2, f2 : Stretch(o, T2, M2, f2, y, z)
  BY DEF Part
<1>. DEFINE M == M1 + M2
            f == [m \in 0..M |-> IF m <= M1 THEN f1[m] ELSE f2[m - M1]]
            T == T1 \o T2
<1>3. M1 \in Nat \ {0} /\ M2 \in Nat \ {0} /\ M \in Nat \ {0}
  BY <1>1, <1>2 DEF Stretch
<1>4. /\ T \in Seq(AnyTransfer) /\ Len(T) = 4 * M
      /\ \A l \in 1..(4 * M1) : T[l] = T1[l]
      /\ \A l \in 1..(4 * M2) : T[4 * M1 + l] = T2[l]
  BY <1>1, <1>2, <1>3 DEF Stretch
<1>5. /\ \A m \in 0..M1 : f[m] = f1[m]
      /\ \A m \in 0..M2 : f[M1 + m] = f2[m]
  <2>1. \A m \in 0..M1 : f[m] = f1[m]
    BY <1>3
  <2>2. ASSUME NEW m \in 0..M2 PROVE f[M1 + m] = f2[m]
    <3>1. M1 + m \in 0..M /\ (M1 + m) - M1 = m
      BY <1>3
    <3>2. CASE m = 0
      BY <3>2, <2>1, <1>1, <1>2, <1>3 DEF Stretch
    <3>3. CASE m # 0
      <4>1. ~(M1 + m <= M1)
        BY <3>3, <1>3
      <4>. QED BY <3>1, <4>1
    <3>. QED BY <3>2, <3>3
  <2>. QED BY <2>1, <2>2
<1>. HIDE DEF T, f
<1>6. ASSUME NEW m \in 1..M PROVE Group(o, T, f, m)
  <2>1. CASE m <= M1
    <3>1. Group(o, T1, f1, m) /\ m \in 1..M1
      BY <2>1, <1>1, <1>3 DEF Stretch
    <3>2. /\ 4 * m - 3 \in 1..(4 * M1) /\ 4 * m - 2 \in 1..(4 * M1) /\ 4 * m - 1 \in 1..(4 * M1)
          /\ 4 * m \in 1..(4 * M1) /\ m - 1 \in 0..M1 /\ m \in 0..M1 /\ (m > 1 => m - 2 \in 0..M1) /\ m \in Nat
      BY <3>1, <1>3
    <3>. QED BY <3>1, <3>2, <1>4, <1>5, GroupShift
  <2>2. CASE ~(m <= M1)
    <3>. DEFINE k == m - M1
    <3>1. k \in 1..M2 /\ m = M1 + k
      BY <2>2, <1>3
    <3>2. Group(o, T2, f2, k)
      BY <3>1, <1>2 DEF Stretch
    <3>. HIDE DEF k
    <3>3. /\ 4 * m - 3 = 4 * M1 + (4 * k - 3) /\ 4 * m - 2 = 4 * M1 + (4 * k - 2) /\ 4 * m - 1 = 4 * M1 + (4 * k - 1)
          /\ 4 * m = 4 * M1 + 4 * k /\ m - 1 = M1 + (k - 1) /\ m - 2 = M1 + (k - 2) /\ (k > 1 => m > 1)
      BY <3>1, <1>3
    <3>4. /\ 4 * k - 3 \in 1..(4 * M2) /\ 4 * k - 2 \in 1..(4 * M2) /\ 4 * k - 1 \in 1..(4 * M2)
          /\ 4 * k \in 1..(4 * M2) /\ k - 1 \in 0..M2 /\ k \in 0..M2 /\ (k > 1 => k - 2 \in 0..M2)
          /\ k \in Nat /\ m \in Nat
      BY <3>1, <1>3
    <3>5. /\ T[4 * m - 3] = T2[4 * k - 3] /\ T[4 * m - 2] = T2[4 * k - 2]
          /\ T[4 * m - 1] = T2[4 * k - 1] /\ T[4 * m] = T2[4 * k]
      BY <3>3, <3>4, <1>4
    <3>6. f[m - 1] = f2[k - 1] /\ f[m] = f2[k] /\ (k > 1 => m > 1 /\ f[m - 2] = f2[k - 2])
      BY <3>1, <3>3, <3>4, <1>5
    <3>. QED BY <3>2, <3>4, <3>5, <3>6, GroupShift
  <2>. QED BY <2>1, <2>2
<1>7. f[0] = x /\ f[M] = z
  BY <1>1, <1>2, <1>3, <1>5 DEF Stretch
<1>8. Stretch(o, T, M, f, x, z)
  BY <1>3, <1>4, <1>6, <1>7 DEF Stretch
<1>. QED BY <1>8 DEF Part, T

LEMMA FlattenParts ==
  ASSUME NEW o, NEW P, NEW K \in Nat \ {0}, Len(P) = K, NEW z,
         \A k \in 1..K : Part(o, P[k], z[k], z[k + 1])
  PROVE  Part(o, FlattenSeq(P), z[1], z[K + 1])
<1>1. PICK g : g[1] = P[1] /\ (\A k \in 2..K : g[k] = g[k - 1] \o P[k]) /\ FlattenSeq(P) = g[K]
  BY FlattenLemma
<1>. DEFINE S == {k \in Nat : k \in 1..K => Part(o, g[k], z[1], z[k + 1])}
<1>2. 0 \in S
  OBVIOUS
<1>3. ASSUME NEW k \in Nat, k \in S PROVE k + 1 \in S
  <2>. SUFFICES ASSUME k + 1 \in 1..K PROVE Part(o, g[k + 1], z[1], z[(k + 1) + 1])
    OBVIOUS
  <2>1. Part(o, P[k + 1], z[k + 1], z[(k + 1) + 1])
    OBVIOUS
  <2>2. CASE k = 0
    <3>1. k + 1 = 1
      BY <2>2
    <3>. QED BY <2>1, <3>1, <1>1
  <2>3. CASE k # 0
    <3>1. k \in 1..K /\ k + 1 \in 2..K /\ (k + 1) - 1 = k
      BY <2>3
    <3>2. Part(o, g[k], z[1], z[k + 1])
      BY <1>3, <3>1
    <3>3. g[k + 1] = g[k] \o P[k + 1]
      BY <1>1, <3>1
    <3>. QED BY <2>1, <3>2, <3>3, JoinParts
  <2>. QED BY <2>2, <2>3
<1>4. K \in S
  <2>. HIDE DEF S
  <2>. QED BY <1>2, <1>3, SetInduction
<1>. QED BY <1>1, <1>4

-----------------------------------------------------------------------------
(* The groups of a block, of single words and of what an unaligned write does. *)

\* The registers' transfers are transfers.
LEMMA TransferTypes ==
  /\ \A b \in Int : SelectBank(b) \in AnyTransfer
  /\ \A w \in Int, chk \in BOOLEAN : WriteTar(w, chk) \in AnyTransfer
  /\ \A w \in Int, k \in Int : WordRead(w, k) \in AnyTransfer
  /\ \A w \in Int, v \in Int : WriteAP(4 * (w % 4), v) \in AnyTransfer
  /\ \A len \in Int : PipeRead(len) \in AnyTransfer
  /\ \A vs \in Seq(Int) : PipeWrite(vs) \in AnyTransfer
<1>1. \A w \in Int : 4 * (w % 4) \in Int
  OBVIOUS
<1>2. \A len \in Int : [j \in 1..len |-> 0] \in Seq(Int)
  <2>. TAKE len \in Int
  <2>1. CASE len >= 0
    BY <2>1
  <2>2. CASE ~(len >= 0)
    <3>1. 1..len = 1..0
      BY <2>2
    <3>. QED BY <3>1
  <2>. QED BY <2>1, <2>2
<1>3. <<>> \in Seq(Int)
  OBVIOUS
<1>. QED BY <1>1, <1>2, <1>3 DEF SelectBank, WriteTar, WordRead, WriteAP, PipeRead, PipeWrite, Transfer, AnyTransfer

LEMMA OneGroup ==
  ASSUME NEW o, NEW x, NEW y, NEW c \in AnyTransfer, NEW w \in Int, NEW chk \in BOOLEAN, NEW b \in Int,
         NEW T, T = <<SelectBank(0), WriteTar(w, chk), SelectBank(b), c>>,
         \A f : f[0] = x /\ f[1] = y => Group(o, T, f, 1)
  PROVE  Part(o, T, x, y)
<1>. DEFINE f == [k \in 0..1 |-> IF k = 0 THEN x ELSE y]
<1>1. f[0] = x /\ f[1] = y
  OBVIOUS
<1>2. T \in Seq(AnyTransfer) /\ Len(T) = 4 * 1
  <2>1. SelectBank(0) \in AnyTransfer /\ WriteTar(w, chk) \in AnyTransfer /\ SelectBank(b) \in AnyTransfer
    BY TransferTypes
  <2>. QED BY <2>1
<1>. HIDE DEF f
<1>3. Group(o, T, f, 1)
  BY <1>1
<1>4. Stretch(o, T, 1, f, x, y)
  BY <1>1, <1>2, <1>3 DEF Stretch
<1>. QED BY <1>4 DEF Part

LEMMA WindowOf ==
  ASSUME NEW T, NEW w, NEW c, T = <<SelectBank(0), WriteTar(w - (w % 4), TRUE), SelectBank(1), c>>
  PROVE  Window(T, 1, w) /\ T[4 * 1] = c
<1>1. 4 * 1 - 3 = 1 /\ 4 * 1 - 2 = 2 /\ 4 * 1 - 1 = 3 /\ 4 * 1 = 4
  OBVIOUS
<1>2. T[1] = SelectBank(0) /\ T[2] = WriteTar(w - (w % 4), TRUE) /\ T[3] = SelectBank(1) /\ T[4] = c
  OBVIOUS
<1>. QED BY <1>1, <1>2 DEF Window

LEMMA PointedOf ==
  ASSUME NEW T, NEW w, NEW c, T = <<SelectBank(0), WriteTar(w, FALSE), SelectBank(0), c>>
  PROVE  Pointed(T, 1, w) /\ T[4 * 1] = c
<1>1. 4 * 1 - 3 = 1 /\ 4 * 1 - 2 = 2 /\ 4 * 1 - 1 = 3 /\ 4 * 1 = 4
  OBVIOUS
<1>2. T[1] = SelectBank(0) /\ T[2] = WriteTar(w, FALSE) /\ T[3] = SelectBank(0) /\ T[4] = c
  OBVIOUS
<1>. QED BY <1>1, <1>2 DEF Pointed

LEMMA TopLemma ==
  ASSUME NEW o, LastWord(o) \in Nat
  PROVE  Top(o) \in Nat /\ LastWord(o) <= Top(o)
  BY DEF Top

\* A word that is read for its value.
LEMMA LoadPart ==
  ASSUME NEW o, o.t \in Loads, o.a \in Nat, LastWord(o) \in Nat, NEW x \in Address, o.a <= x, x <= LastWord(o)
  PROVE  Part(o, ReadNext(x, x - o.a), x, x + 1)
<1>. DEFINE T == ReadNext(x, x - o.a)
<1>0. x <= Top(o)
  BY TopLemma DEF Address
<1>1. x \in Int /\ x \in Nat /\ x + 1 \in Nat /\ x - o.a \in Int /\ x - (x % 4) \in Int /\ 1 - 1 = 0
  BY DEF Address
<1>2. T = <<SelectBank(0), WriteTar(x - (x % 4), TRUE), SelectBank(1), WordRead(x, x - o.a)>>
  BY DEF ReadNext, WordRead
<1>. HIDE DEF T
<1>3. Window(T, 1, x) /\ T[4 * 1] = WordRead(x, x - o.a)
  BY <1>2, WindowOf
<1>4. WordRead(x, x - o.a) \in AnyTransfer
  BY <1>1, TransferTypes
<1>5. ASSUME NEW f, f[0] = x, f[1] = x + 1 PROVE Group(o, T, f, 1)
  BY <1>0, <1>1, <1>3, <1>5 DEF Group, LoadsWord
<1>6. TRUE \in BOOLEAN /\ FALSE \in BOOLEAN /\ 0 \in Int /\ 1 \in Int
  OBVIOUS
<1>7. Part(o, T, x, x + 1)
  BY <1>1, <1>2, <1>4, <1>5, <1>6, OneGroup
<1>. QED BY <1>7 DEF T

\* A word that is written with a value of the block.
LEMMA StorePart ==
  ASSUME NEW o, o.t \in Stores, o.a \in Nat, LastWord(o) \in Nat, NEW x \in Address, o.a <= x, x <= LastWord(o),
         NEW v \in Word, v = o.vals[x - o.a + 1]
  PROVE  Part(o, WriteWord(x, v), x, x + 1)
<1>. DEFINE T == WriteWord(x, v)
<1>0. x <= Top(o)
  BY TopLemma DEF Address
<1>1. /\ x \in Int /\ x \in Nat /\ x + 1 \in Nat /\ x - (x % 4) \in Int /\ 1 - 1 = 0 /\ v \in Int
      /\ v # Keep /\ v \in Word \cup {Keep}
  BY DEF Address, Word, Keep
<1>2. T = <<SelectBank(0), WriteTar(x - (x % 4), TRUE), SelectBank(1), WriteAP(4 * (x % 4), v)>>
  BY DEF WriteWord
<1>. HIDE DEF T
<1>3. Window(T, 1, x) /\ T[4 * 1] = WriteAP(4 * (x % 4), v)
  BY <1>2, WindowOf
<1>4. WriteAP(4 * (x % 4), v) \in AnyTransfer
  BY <1>1, TransferTypes
<1>5. ASSUME NEW f, f[0] = x, f[1] = x + 1 PROVE Group(o, T, f, 1)
  <2>1. f[1 - 1] = x /\ f[1] = f[1 - 1] + 1 /\ f[1] \in Nat
    BY <1>1, <1>5
  <2>2. StoresWord(o, T, f, 1)
    BY <1>1, <1>3, <2>1 DEF StoresWord
  <2>. QED BY <1>0, <2>1, <2>2 DEF Group
<1>6. TRUE \in BOOLEAN /\ FALSE \in BOOLEAN /\ 0 \in Int /\ 1 \in Int
  OBVIOUS
<1>7. Part(o, T, x, x + 1)
  BY <1>1, <1>2, <1>4, <1>5, <1>6, OneGroup
<1>. QED BY <1>7 DEF T

LEMMA TwoGroups ==
  ASSUME NEW a1 \in AnyTransfer, NEW a2 \in AnyTransfer, NEW a3 \in AnyTransfer, NEW a4 \in AnyTransfer,
         NEW b1 \in AnyTransfer, NEW b2 \in AnyTransfer, NEW b3 \in AnyTransfer, NEW b4 \in AnyTransfer
  PROVE  LET T == <<a1, a2, a3, a4>> \o <<b1, b2, b3, b4>>
         IN /\ T \in Seq(AnyTransfer) /\ Len(T) = 4 * 2
            /\ T[1] = a1 /\ T[2] = a2 /\ T[3] = a3 /\ T[4] = a4
            /\ T[5] = b1 /\ T[6] = b2 /\ T[7] = b3 /\ T[8] = b4
  OBVIOUS

\* A word that is read, changed or not, and written back.
LEMMA ChangePart ==
  ASSUME NEW o, o.t \in Stores, o.a \in Nat, o.n \in Nat, NEW x \in Address, o.a <= x, x <= Top(o), NEW v \in Word \cup {Keep},
         v = IF x <= LastWord(o) THEN o.vals[x - o.a + 1] ELSE Keep
  PROVE  Part(o, ReadWord(x) \o WriteWord(x, v), x, x + 1)
<1>. DEFINE T1 == ReadWord(x)  T2 == WriteWord(x, v)  T == T1 \o T2
            f == [k \in 0..2 |-> IF k = 2 THEN x + 1 ELSE x]
<1>1. /\ x \in Int /\ x \in Nat /\ x + 1 \in Nat /\ x - (x % 4) \in Int /\ v \in Int /\ 0 \in Int
  BY DEF Address, Word, Keep
<1>2. T1 = <<SelectBank(0), WriteTar(x - (x % 4), TRUE), SelectBank(1), WordRead(x, 0)>>
  BY DEF ReadWord, ReadNext, WordRead
<1>3. T2 = <<SelectBank(0), WriteTar(x - (x % 4), TRUE), SelectBank(1), WriteAP(4 * (x % 4), v)>>
  BY DEF WriteWord
<1>4. /\ WordRead(x, 0) \in AnyTransfer /\ WriteAP(4 * (x % 4), v) \in AnyTransfer
      /\ SelectBank(0) \in AnyTransfer /\ SelectBank(1) \in AnyTransfer /\ WriteTar(x - (x % 4), TRUE) \in AnyTransfer
  <2>1. TRUE \in BOOLEAN /\ 1 \in Int
    OBVIOUS
  <2>. QED BY <1>1, <2>1, TransferTypes
<1>7. /\ T \in Seq(AnyTransfer) /\ Len(T) = 4 * 2
      /\ T[1] = SelectBank(0) /\ T[2] = WriteTar(x - (x % 4), TRUE) /\ T[3] = SelectBank(1) /\ T[4] = WordRead(x, 0)
      /\ T[5] = SelectBank(0) /\ T[6] = WriteTar(x - (x % 4), TRUE) /\ T[7] = SelectBank(1)
      /\ T[8] = WriteAP(4 * (x % 4), v)
  <2>. DEFINE a1 == SelectBank(0)  a2 == WriteTar(x - (x % 4), TRUE)  a3 == SelectBank(1)
              a4 == WordRead(x, 0)  b4 == WriteAP(4 * (x % 4), v)
  <2>1. a1 \in AnyTransfer /\ a2 \in AnyTransfer /\ a3 \in AnyTransfer /\ a4 \in AnyTransfer /\ b4 \in AnyTransfer
    BY <1>4
  <2>2. T = <<a1, a2, a3, a4>> \o <<a1, a2, a3, b4>>
    BY <1>2, <1>3
  <2>. HIDE DEF T, a1, a2, a3, a4, b4
  <2>3. /\ T \in Seq(AnyTransfer) /\ Len(T) = 4 * 2
        /\ T[1] = a1 /\ T[2] = a2 /\ T[3] = a3 /\ T[4] = a4
        /\ T[5] = a1 /\ T[6] = a2 /\ T[7] = a3 /\ T[8] = b4
    BY <2>1, <2>2, TwoGroups
  <2>. QED BY <2>3 DEF a1, a2, a3, a4, b4
<1>8. f[0] = x /\ f[1] = x /\ f[2] = x + 1
  OBVIOUS
<1>. HIDE DEF T, f
<1>9. Group(o, T, f, 1)
  <2>1. 4 * 1 - 3 = 1 /\ 4 * 1 - 2 = 2 /\ 4 * 1 - 1 = 3 /\ 4 * 1 = 4 /\ 1 - 1 = 0
    OBVIOUS
  <2>2. Window(T, 1, x)
    BY <1>7, <2>1 DEF Window
  <2>3. Peeks(o, T, f, 1)
    BY <1>7, <1>8, <2>1, <2>2 DEF Peeks
  <2>. QED BY <1>1, <1>8, <2>1, <2>3 DEF Group
<1>10. Group(o, T, f, 2)
  <2>1. 4 * 2 - 3 = 5 /\ 4 * 2 - 2 = 6 /\ 4 * 2 - 1 = 7 /\ 4 * 2 = 8 /\ 2 - 1 = 1 /\ 2 - 2 = 0 /\ 2 > 1
    OBVIOUS
  <2>2. Window(T, 2, x)
    BY <1>7, <2>1 DEF Window
  <2>3. T[4 * 2] = WriteAP(4 * (x % 4), v) /\ f[2 - 1] = x /\ f[2 - 2] = x /\ f[2] = x + 1
    BY <1>7, <1>8, <2>1
  <2>4. StoresWord(o, T, f, 2)
    BY <2>1, <2>2, <2>3 DEF StoresWord
  <2>. QED BY <1>1, <2>3, <2>4 DEF Group
<1>11. Stretch(o, T, 2, f, x, x + 1)
  <2>1. \A m \in 1..2 : m = 1 \/ m = 2
    OBVIOUS
  <2>. QED BY <1>7, <1>8, <1>9, <1>10, <2>1 DEF Stretch
<1>12. Part(o, T, x, x + 1)
  BY <1>11 DEF Part
<1>. QED BY <1>12 DEF T, T1, T2

\* A part of a block in one page.
LEMMA LoadBlockPart ==
  ASSUME NEW o, o.t \in Loads, o.a \in Nat, LastWord(o) \in Nat, NEW x \in Address, NEW y \in Nat, o.a <= x, x < y,
         y <= LastWord(o) + 1, (x % Page) + (y - x) <= Page
  PROVE  Part(o, <<SelectBank(0), WriteTar(x, FALSE), SelectBank(0), PipeRead(y - x)>>, x, y)
<1>. DEFINE T == <<SelectBank(0), WriteTar(x, FALSE), SelectBank(0), PipeRead(y - x)>>
<1>0. x <= Top(o)
  BY TopLemma DEF Address
<1>1. x \in Int /\ x \in Nat /\ y - x \in Int /\ 1 - 1 = 0 /\ y > x
  BY DEF Address
<1>2. T = <<SelectBank(0), WriteTar(x, FALSE), SelectBank(0), PipeRead(y - x)>>
  OBVIOUS
<1>. HIDE DEF T
<1>3. Pointed(T, 1, x) /\ T[4 * 1] = PipeRead(y - x)
  BY <1>2, PointedOf
<1>4. PipeRead(y - x) \in AnyTransfer
  BY <1>1, TransferTypes
<1>5. ASSUME NEW f, f[0] = x, f[1] = y PROVE Group(o, T, f, 1)
  <2>1. f[1 - 1] = x
    BY <1>1, <1>5
  <2>2. LoadsBlock(o, T, f, 1)
    BY <1>1, <1>3, <1>5, <2>1 DEF LoadsBlock
  <2>. QED BY <1>0, <1>5, <2>1, <2>2 DEF Group
<1>6. TRUE \in BOOLEAN /\ FALSE \in BOOLEAN /\ 0 \in Int /\ 1 \in Int
  OBVIOUS
<1>7. Part(o, T, x, y)
  BY <1>1, <1>2, <1>4, <1>5, <1>6, OneGroup
<1>. QED BY <1>7 DEF T

LEMMA StoreBlockPart ==
  ASSUME NEW o, o.t \in Stores, o.a \in Nat, LastWord(o) \in Nat, NEW x \in Address, NEW y \in Nat, o.a <= x, x < y,
         y <= LastWord(o) + 1, (x % Page) + (y - x) <= Page,
         NEW vs \in Seq(Word), Len(vs) = y - x, \A k \in 1..Len(vs) : vs[k] = o.vals[x - o.a + k]
  PROVE  Part(o, <<SelectBank(0), WriteTar(x, FALSE), SelectBank(0), PipeWrite(vs)>>, x, y)
<1>. DEFINE T == <<SelectBank(0), WriteTar(x, FALSE), SelectBank(0), PipeWrite(vs)>>
<1>0. x <= Top(o)
  BY TopLemma DEF Address
<1>1. x \in Int /\ x \in Nat /\ y - x \in Int /\ 1 - 1 = 0 /\ y > x /\ vs \in Seq(Int)
  <2>1. Word \subseteq Int
    BY DEF Word
  <2>2. vs \in [1..Len(vs) -> Int] /\ Len(vs) \in Nat
    BY <2>1, ElementOfSeq, LenProperties
  <2>3. vs \in Seq(Int)
    BY <2>2
  <2>. QED BY <2>3 DEF Address
<1>2. T = <<SelectBank(0), WriteTar(x, FALSE), SelectBank(0), PipeWrite(vs)>>
  OBVIOUS
<1>. HIDE DEF T
<1>3. Pointed(T, 1, x) /\ T[4 * 1] = PipeWrite(vs)
  BY <1>2, PointedOf
<1>4. PipeWrite(vs) \in AnyTransfer
  BY <1>1, TransferTypes
<1>5. ASSUME NEW f, f[0] = x, f[1] = y PROVE Group(o, T, f, 1)
  <2>1. f[1 - 1] = x
    BY <1>1, <1>5
  <2>2. StoresBlock(o, T, f, 1)
    BY <1>1, <1>3, <1>5, <2>1 DEF StoresBlock
  <2>. QED BY <1>0, <1>5, <2>1, <2>2 DEF Group
<1>6. TRUE \in BOOLEAN /\ FALSE \in BOOLEAN /\ 0 \in Int /\ 1 \in Int
  OBVIOUS
<1>7. Part(o, T, x, y)
  BY <1>1, <1>2, <1>4, <1>5, <1>6, OneGroup
<1>. QED BY <1>7 DEF T

-----------------------------------------------------------------------------
(* The plan of a request: its groups, and how far each one gets.           *)

RequestFacts(o) ==
  /\ o.t \in Loads \cup Stores /\ o.a \in Nat /\ o.n \in Nat \ {0}
  /\ o.a + o.n - 1 \in Address /\ LastWord(o) = o.a + o.n - 1 /\ LastWord(o) \in Nat

LEMMA RequestIs ==
  ASSUME NEW o, IsRequest(o)
  PROVE  /\ RequestFacts(o)
         /\ \A x \in Nat : o.a <= x /\ x <= LastWord(o) => x \in Address
         /\ \A x \in Nat : o.a <= x /\ x <= LastWord(o) =>
              x - o.a + 1 \in 1..o.n /\ x - o.a \in 0..(o.n - 1)
<1>1. RequestFacts(o)
  BY DebugPortAssumption DEF IsRequest, RequestFacts, Loads, Stores, LastWord, Address
<1>2. \A x \in Nat : o.a <= x /\ x <= LastWord(o) => x \in Address
  BY <1>1, DebugPortAssumption DEF RequestFacts, Address
<1>3. \A x \in Nat : o.a <= x /\ x <= LastWord(o) =>
              x - o.a + 1 \in 1..o.n /\ x - o.a \in 0..(o.n - 1)
  BY <1>1 DEF RequestFacts
<1>. QED BY <1>1, <1>2, <1>3

\* The pages' parts of a block.
LEMMA BlockParts ==
  ASSUME NEW o, IsRequest(o)
  PROVE  LET K == PagesOf(o.a, o.n)
             z == [k \in 1..(K + 1) |-> IF k = K + 1 THEN o.a + o.n ELSE From(o.a, (o.a \div Page) + k - 1)]
         IN /\ K \in Nat \ {0} /\ DOMAIN Chunks(o.a, o.n) = 1..K
            /\ z[1] = o.a /\ z[K + 1] = LastWord(o) + 1
            /\ \A k \in 1..K :
                 /\ Chunks(o.a, o.n)[k][1] = z[k] /\ Chunks(o.a, o.n)[k][2] = z[k + 1] - z[k]
                 /\ z[k] \in Address /\ z[k + 1] \in Nat /\ o.a <= z[k] /\ z[k] < z[k + 1]
                 /\ z[k + 1] <= LastWord(o) + 1 /\ (z[k] % Page) + (z[k + 1] - z[k]) <= Page
<1>. DEFINE K == PagesOf(o.a, o.n)
            first == o.a \div Page
            last == (o.a + o.n - 1) \div Page
            z == [k \in 1..(K + 1) |-> IF k = K + 1 THEN o.a + o.n ELSE From(o.a, first + k - 1)]
<1>1. RequestFacts(o) /\ \A x \in Nat : o.a <= x /\ x <= LastWord(o) => x \in Address
  BY RequestIs
<1>2. /\ K \in Nat \ {0}
      /\ Chunks(o.a, o.n) = [k \in 1..K |-> <<From(o.a, first + k - 1),
                                              Upto(o.a, o.n, first + k - 1) - From(o.a, first + k - 1)>>]
  BY <1>1, ChunksAre DEF RequestFacts
<1>3. first \in Nat /\ last \in Nat /\ K = last - first + 1
  <2>1. Page \in Nat \ {0} /\ o.a \in Nat /\ o.a + o.n - 1 \in Nat
    BY <1>1, DebugPortAssumption DEF RequestFacts
  <2>. QED BY <2>1, DivMod DEF PagesOf
<1>4. DOMAIN Chunks(o.a, o.n) = 1..K
  BY <1>2
<1>. HIDE DEF K
<1>5. \A k \in 1..(K + 1) : z[k] = IF k = K + 1 THEN o.a + o.n ELSE From(o.a, first + k - 1)
  OBVIOUS
<1>6. \A k \in 1..K : /\ Chunks(o.a, o.n)[k][1] = From(o.a, first + k - 1)
                      /\ Chunks(o.a, o.n)[k][2] = Upto(o.a, o.n, first + k - 1) - From(o.a, first + k - 1)
  BY <1>2
<1>. HIDE DEF z
<1>7. z[1] = o.a /\ z[K + 1] = LastWord(o) + 1
  <2>1. 1 # K + 1 /\ 1 \in 1..(K + 1) /\ K + 1 \in 1..(K + 1) /\ first + 1 - 1 = first
    BY <1>2, <1>3
  <2>2. From(o.a, first) = o.a
    BY DEF From
  <2>3. LastWord(o) + 1 = o.a + o.n
    BY <1>1 DEF RequestFacts
  <2>. QED BY <1>5, <2>1, <2>2, <2>3
<1>8. ASSUME NEW k \in 1..K
      PROVE  /\ Chunks(o.a, o.n)[k][1] = z[k] /\ Chunks(o.a, o.n)[k][2] = z[k + 1] - z[k]
             /\ z[k] \in Address /\ z[k + 1] \in Nat /\ o.a <= z[k] /\ z[k] < z[k + 1]
             /\ z[k + 1] <= LastWord(o) + 1 /\ (z[k] % Page) + (z[k + 1] - z[k]) <= Page
  <2>. DEFINE p == first + k - 1
  <2>1. /\ p \in Nat /\ first <= p /\ p <= last /\ (k = K <=> p = last) /\ (k < K <=> p < last)
        /\ k \in 1..(K + 1) /\ k # K + 1 /\ k + 1 \in 1..(K + 1) /\ (k + 1 = K + 1 <=> k = K)
        /\ first + (k + 1) - 1 = p + 1
    BY <1>2, <1>3
  <2>2. o.a \in Nat /\ o.n \in Nat \ {0} /\ LastWord(o) + 1 = o.a + o.n
    BY <1>1 DEF RequestFacts
  <2>3. /\ From(o.a, p) \in Nat /\ Upto(o.a, o.n, p) \in Nat /\ o.a <= From(o.a, p)
        /\ From(o.a, p) < Upto(o.a, o.n, p) /\ Upto(o.a, o.n, p) <= o.a + o.n
        /\ (From(o.a, p) % Page) + (Upto(o.a, o.n, p) - From(o.a, p)) <= Page
        /\ p < last => Upto(o.a, o.n, p) = From(o.a, p + 1)
        /\ p = last => Upto(o.a, o.n, p) = o.a + o.n
    <3>. HIDE DEF p
    <3>. QED BY ZenonT(30), <2>1, <2>2, PartsLemma
  <2>4. z[k] = From(o.a, p)
    BY <2>1, <1>5
  <2>5. z[k + 1] = IF k = K THEN o.a + o.n ELSE From(o.a, p + 1)
    BY <2>1, <1>5
  <2>. HIDE DEF p, first, last
  <2>6. z[k + 1] = Upto(o.a, o.n, p)
    BY <2>1, <2>3, <2>5, <1>2
  <2>7. z[k] \in Address
    <3>1. z[k] \in Nat /\ o.a <= z[k] /\ z[k] <= LastWord(o)
      BY <2>2, <2>3, <2>4, <1>1 DEF RequestFacts
    <3>. QED BY <3>1, <1>1
  <2>8. Chunks(o.a, o.n)[k][1] = From(o.a, p) /\ Chunks(o.a, o.n)[k][2] = Upto(o.a, o.n, p) - From(o.a, p)
    BY <1>6 DEF p
  <2>. QED BY <2>2, <2>3, <2>4, <2>6, <2>7, <2>8
<1>. QED BY <1>2, <1>4, <1>7, <1>8 DEF z, K

Planned(o) ==
  \E y : /\ Part(o, TransfersOf(o), o.a, y)
         /\ y \in Nat /\ y > LastWord(o) /\ (o.t \in Loads => y = LastWord(o) + 1)

LEMMA PlannedByParts ==
  ASSUME NEW o, NEW P, NEW K \in Nat \ {0}, Len(P) = K, NEW z,
         \A k \in 1..K : Part(o, P[k], z[k], z[k + 1]),
         TransfersOf(o) = FlattenSeq(P), z[1] = o.a, z[K + 1] \in Nat,
         z[K + 1] > LastWord(o), o.t \in Loads => z[K + 1] = LastWord(o) + 1
  PROVE  Planned(o)
<1>1. Part(o, FlattenSeq(P), z[1], z[K + 1])
  BY FlattenParts
<1>. QED BY <1>1 DEF Planned

LEMMA ReadPlan == ASSUME NEW o, IsRequest(o), o.t = "read" PROVE Planned(o)
<1>1. /\ o.a \in Address /\ o.a \in Nat /\ o.a <= LastWord(o) /\ LastWord(o) + 1 = o.a + 1
      /\ o.t \in Loads /\ LastWord(o) \in Nat
  BY RequestIs DEF RequestFacts, IsRequest, Loads
<1>2. o.a - o.a = 0
  BY <1>1
<1>3. Part(o, ReadNext(o.a, 0), o.a, o.a + 1)
  BY <1>1, <1>2, LoadPart
<1>4. TransfersOf(o) = ReadNext(o.a, 0)
  BY DEF TransfersOf, ReadWord
<1>. QED BY <1>1, <1>3, <1>4 DEF Planned

LEMMA WritePlan == ASSUME NEW o, IsRequest(o), o.t = "write" PROVE Planned(o)
<1>1. /\ o.a \in Address /\ o.a \in Nat /\ o.a <= LastWord(o) /\ LastWord(o) + 1 = o.a + 1
      /\ o.t \in Stores /\ o.t \notin Loads /\ LastWord(o) \in Nat
  BY RequestIs DEF RequestFacts, IsRequest, Loads, Stores
<1>2. o.a - o.a + 1 = 1
  BY <1>1
<1>3. o.vals[1] \in Word
  BY DEF IsRequest
<1>4. Part(o, WriteWord(o.a, o.vals[1]), o.a, o.a + 1)
  BY <1>1, <1>2, <1>3, StorePart
<1>5. TransfersOf(o) = WriteWord(o.a, o.vals[1])
  BY DEF TransfersOf
<1>. QED BY <1>1, <1>4, <1>5 DEF Planned

LEMMA ReadBlockPlan == ASSUME NEW o, IsRequest(o), o.t = "bread" PROVE Planned(o)
<1>1. RequestFacts(o) /\ o.t \in Loads
  BY RequestIs DEF Loads
<1>. DEFINE K == PagesOf(o.a, o.n)
            z == [k \in 1..(K + 1) |-> IF k = K + 1 THEN o.a + o.n ELSE From(o.a, (o.a \div Page) + k - 1)]
            P == [k \in DOMAIN Chunks(o.a, o.n) |->
                    <<SelectBank(0), WriteTar(Chunks(o.a, o.n)[k][1], FALSE),
                      SelectBank(0), PipeRead(Chunks(o.a, o.n)[k][2])>>]
<1>2. /\ K \in Nat \ {0} /\ DOMAIN Chunks(o.a, o.n) = 1..K
      /\ z[1] = o.a /\ z[K + 1] = LastWord(o) + 1
      /\ \A k \in 1..K :
                 /\ Chunks(o.a, o.n)[k][1] = z[k] /\ Chunks(o.a, o.n)[k][2] = z[k + 1] - z[k]
                 /\ z[k] \in Address /\ z[k + 1] \in Nat /\ o.a <= z[k] /\ z[k] < z[k + 1]
                 /\ z[k + 1] <= LastWord(o) + 1 /\ (z[k] % Page) + (z[k + 1] - z[k]) <= Page
  BY BlockParts
<1>3. TransfersOf(o) = FlattenSeq(P)
  BY DEF TransfersOf, ReadBlock
<1>. HIDE DEF K, z
<1>4. Len(P) = K
  BY <1>2
<1>5. ASSUME NEW k \in 1..K PROVE Part(o, P[k], z[k], z[k + 1])
  <2>1. P[k] = <<SelectBank(0), WriteTar(z[k], FALSE), SelectBank(0), PipeRead(z[k + 1] - z[k])>>
    BY <1>2
  <2>. HIDE DEF P
  <2>2. Part(o, <<SelectBank(0), WriteTar(z[k], FALSE), SelectBank(0), PipeRead(z[k + 1] - z[k])>>, z[k], z[k + 1])
    BY <1>1, <1>2, LoadBlockPart DEF RequestFacts
  <2>. QED BY <2>1, <2>2
<1>. HIDE DEF P
<1>6. z[K + 1] \in Nat /\ z[K + 1] > LastWord(o)
  BY <1>1, <1>2 DEF RequestFacts
<1>. QED BY <1>1, <1>2, <1>3, <1>4, <1>5, <1>6, PlannedByParts

LEMMA WriteBlockPlan == ASSUME NEW o, IsRequest(o), o.t = "bwrite" PROVE Planned(o)
<1>1. RequestFacts(o) /\ o.t \in Stores /\ o.t \notin Loads /\ Len(o.vals) = o.n /\ o.vals \in Seq(Word)
  BY RequestIs DEF Stores, Loads, IsRequest
<1>. DEFINE K == PagesOf(o.a, o.n)
            z == [k \in 1..(K + 1) |-> IF k = K + 1 THEN o.a + o.n ELSE From(o.a, (o.a \div Page) + k - 1)]
            cs == Chunks(o.a, o.n)
            PartOf(c) == SubSeq(o.vals, c[1] - o.a + 1, c[1] - o.a + c[2])
            P == [k \in DOMAIN cs |->
                    <<SelectBank(0), WriteTar(cs[k][1], FALSE), SelectBank(0), PipeWrite(PartOf(cs[k]))>>]
<1>2. /\ K \in Nat \ {0} /\ DOMAIN Chunks(o.a, o.n) = 1..K
      /\ z[1] = o.a /\ z[K + 1] = LastWord(o) + 1
      /\ \A k \in 1..K :
                 /\ Chunks(o.a, o.n)[k][1] = z[k] /\ Chunks(o.a, o.n)[k][2] = z[k + 1] - z[k]
                 /\ z[k] \in Address /\ z[k + 1] \in Nat /\ o.a <= z[k] /\ z[k] < z[k + 1]
                 /\ z[k + 1] <= LastWord(o) + 1 /\ (z[k] % Page) + (z[k + 1] - z[k]) <= Page
  BY BlockParts
<1>3. TransfersOf(o) = FlattenSeq(P)
  BY <1>1 DEF TransfersOf, WriteBlock
<1>. HIDE DEF K, z
<1>4. Len(P) = K
  BY <1>2
<1>5. ASSUME NEW k \in 1..K PROVE Part(o, P[k], z[k], z[k + 1])
  <2>. DEFINE vs == PartOf(cs[k])
  <2>1. P[k] = <<SelectBank(0), WriteTar(z[k], FALSE), SelectBank(0), PipeWrite(vs)>>
    BY <1>2
  <2>2. vs = SubSeq(o.vals, z[k] - o.a + 1, z[k] - o.a + (z[k + 1] - z[k]))
    BY <1>2
  <2>. DEFINE x == z[k]  y == z[k + 1]
  <2>. HIDE DEF vs, P, cs, PartOf
  <2>3. /\ x \in Nat /\ y \in Nat /\ o.a \in Nat /\ o.n \in Nat /\ o.a <= x /\ x < y
        /\ y <= o.a + o.n
    <3>1. x \in Address /\ y \in Nat /\ o.a <= x /\ x < y /\ y <= LastWord(o) + 1
      BY <1>2
    <3>. HIDE DEF x, y
    <3>. QED BY <3>1, <1>1, DebugPortAssumption DEF RequestFacts, Address
  <2>. DEFINE lo == x - o.a + 1  hi == x - o.a + (y - x)
  <2>. HIDE DEF x, y
  <2>4. lo \in 1..(o.n + 1) /\ hi \in 0..o.n /\ lo <= hi /\ hi - lo + 1 = y - x /\ lo \in Int /\ hi \in Int
    BY <2>3
  <2>5. /\ vs \in Seq(Word) /\ Len(vs) = hi - lo + 1
        /\ \A l \in 1..(hi - lo + 1) : vs[l] = o.vals[lo + l - 1]
    <3>1. vs = SubSeq(o.vals, lo, hi)
      BY <2>2 DEF x, y
    <3>. HIDE DEF lo, hi
    <3>. QED BY <3>1, <2>4, <1>1, SubSeqProperties
  <2>6. Len(vs) = y - x
    BY <2>4, <2>5
  <2>7. ASSUME NEW l \in 1..Len(vs) PROVE vs[l] = o.vals[x - o.a + l]
    <3>0. l \in 1..(y - x) /\ l \in Int
      BY <2>6
    <3>1. lo + l - 1 = x - o.a + l
      BY <2>3, <3>0
    <3>2. l \in 1..(hi - lo + 1)
      <4>. HIDE DEF lo, hi
      <4>. QED BY <2>4, <3>0
    <3>. HIDE DEF lo, hi
    <3>. QED BY <3>1, <3>2, <2>5
  <2>8. Part(o, <<SelectBank(0), WriteTar(z[k], FALSE), SelectBank(0), PipeWrite(vs)>>, z[k], z[k + 1])
    BY <1>1, <1>2, <2>5, <2>6, <2>7, StoreBlockPart DEF RequestFacts, x, y
  <2>. QED BY <2>1, <2>8
<1>. HIDE DEF P
<1>6. z[K + 1] \in Nat /\ z[K + 1] > LastWord(o)
  BY <1>1, <1>2 DEF RequestFacts
<1>. QED BY <1>1, <1>2, <1>3, <1>4, <1>5, <1>6, PlannedByParts

LEMMA ReadBytesPlan == ASSUME NEW o, IsRequest(o), o.t = "uread" PROVE Planned(o)
<1>1. /\ RequestFacts(o) /\ o.t \in Loads
      /\ \A x \in Nat : o.a <= x /\ x <= LastWord(o) => x \in Address
  BY RequestIs DEF Loads
<1>. DEFINE P == [k \in 1..o.n |-> ReadNext(o.a + k - 1, k - 1)]
            z == [k \in 1..(o.n + 1) |-> o.a + k - 1]
<1>2. TransfersOf(o) = FlattenSeq(P)
  BY DEF TransfersOf, ReadBytes
<1>3. Len(P) = o.n /\ o.n \in Nat \ {0} /\ o.a \in Nat /\ LastWord(o) = o.a + o.n - 1 /\ LastWord(o) \in Nat
  BY <1>1 DEF RequestFacts
<1>4. ASSUME NEW k \in 1..o.n PROVE Part(o, P[k], z[k], z[k + 1])
  <2>. DEFINE x == o.a + k - 1
  <2>1. /\ x \in Nat /\ o.a <= x /\ x <= LastWord(o) /\ x - o.a = k - 1 /\ x + 1 = o.a + (k + 1) - 1
        /\ k \in 1..(o.n + 1) /\ k + 1 \in 1..(o.n + 1)
    BY <1>3
  <2>2. P[k] = ReadNext(x, k - 1) /\ z[k] = x /\ z[k + 1] = x + 1
    BY <2>1
  <2>. HIDE DEF x, P, z
  <2>3. x \in Address
    BY <2>1, <1>1
  <2>4. Part(o, ReadNext(x, x - o.a), x, x + 1)
    BY <1>1, <1>3, <2>1, <2>3, LoadPart
  <2>. QED BY <2>1, <2>2, <2>4
<1>5. z[1] = o.a /\ z[o.n + 1] = LastWord(o) + 1
  BY <1>3
<1>. HIDE DEF P, z
<1>6. z[o.n + 1] \in Nat /\ z[o.n + 1] > LastWord(o)
  BY <1>3, <1>5
<1>. QED BY <1>2, <1>3, <1>4, <1>5, <1>6, PlannedByParts

LEMMA WriteBytesPlan == ASSUME NEW o, IsRequest(o), o.t = "uwrite" PROVE Planned(o)
<1>1. /\ RequestFacts(o) /\ o.t \in Stores /\ o.t \notin Loads
      /\ \A x \in Nat : o.a <= x /\ x <= LastWord(o) => x \in Address
  BY RequestIs DEF Loads, Stores
<1>2. /\ o.vals \in Seq(Word \cup {Keep}) /\ Len(o.vals) = o.n /\ o.head \in BOOLEAN /\ o.tail \in BOOLEAN
      /\ \A k \in 1..o.n : o.vals[k] = Keep => (k = 1 /\ ~o.head) \/ (k = o.n /\ ~o.tail)
      /\ o.tail => o.a + o.n \in Address
  BY DEF IsRequest
<1>. DEFINE Whole(k) == k <= o.n /\ (k > 1 \/ o.head) /\ (k < o.n \/ o.tail)
            Value(k) == IF k <= o.n THEN o.vals[k] ELSE Keep
            Change(w, v) == ReadWord(w) \o WriteWord(w, v)
            K == o.n + (IF o.tail THEN 1 ELSE 0)
            P == [k \in 1..K |->
                    IF Whole(k) THEN WriteWord(o.a + k - 1, Value(k)) ELSE Change(o.a + k - 1, Value(k))]
            z == [k \in 1..(K + 1) |-> o.a + k - 1]
<1>3. TransfersOf(o) = FlattenSeq(P)
  BY Zenon DEF TransfersOf, WriteBytes
<1>4. o.n \in Nat \ {0} /\ o.a \in Nat /\ LastWord(o) = o.a + o.n - 1 /\ LastWord(o) \in Nat
  BY <1>1 DEF RequestFacts
<1>5. K \in Nat \ {0} /\ K >= o.n /\ (K > o.n => o.tail /\ K = o.n + 1)
  BY <1>4
<1>6. Len(P) = K
  BY <1>5
<1>7. ASSUME NEW k \in 1..K PROVE Part(o, P[k], z[k], z[k + 1])
  <2>. DEFINE x == o.a + k - 1
  <2>1. /\ x \in Nat /\ o.a <= x /\ (x <= LastWord(o) <=> k <= o.n) /\ x - o.a + 1 = k /\ x + 1 = o.a + (k + 1) - 1
        /\ k \in 1..(K + 1) /\ k + 1 \in 1..(K + 1)
    BY <1>4, <1>5
  <2>2. P[k] = (IF Whole(k) THEN WriteWord(x, Value(k)) ELSE Change(x, Value(k))) /\ z[k] = x /\ z[k + 1] = x + 1
    BY <2>1
  <2>3. x \in Address
    <3>1. CASE k <= o.n
      BY <3>1, <1>1, <2>1
    <3>2. CASE ~(k <= o.n)
      <4>1. o.tail /\ x = o.a + o.n
        BY <3>2, <1>4, <1>5
      <4>. QED BY <4>1, <1>2
    <3>. QED BY <3>1, <3>2
  <2>8. x <= Top(o)
    BY <1>1, <1>4, <1>5, <2>1 DEF Top
  <2>4. Value(k) \in Word \cup {Keep}
    BY <1>2
  <2>5. Value(k) = IF x <= LastWord(o) THEN o.vals[x - o.a + 1] ELSE Keep
    BY <2>1
  <2>. HIDE DEF x, P, z
  <2>6. CASE Whole(k)
    <3>1. k <= o.n /\ k \in 1..o.n
      BY <2>6
    <3>2. Value(k) = o.vals[k]
      BY <3>1
    <3>3. o.vals[k] # Keep
      BY <2>6, <3>1, <1>2, <1>4
    <3>4. Value(k) \in Word
      BY <2>4, <3>2, <3>3
    <3>. HIDE DEF Value, Whole
    <3>5. Part(o, WriteWord(x, Value(k)), x, x + 1)
      BY <1>1, <1>4, <2>1, <2>3, <3>1, <3>2, <3>4, StorePart
    <3>. QED BY <2>2, <2>6, <3>5
  <2>7. CASE ~Whole(k)
    <3>. HIDE DEF Value, Whole
    <3>1. Part(o, ReadWord(x) \o WriteWord(x, Value(k)), x, x + 1)
      BY <1>1, <1>4, <2>1, <2>3, <2>4, <2>5, <2>8, ChangePart
    <3>. QED BY <2>2, <2>7, <3>1
  <2>. QED BY <2>6, <2>7
<1>8. z[1] = o.a /\ z[K + 1] = o.a + K /\ o.a + K \in Nat /\ o.a + K > LastWord(o)
  BY <1>4, <1>5
<1>. HIDE DEF P, z, K
<1>. QED BY <1>1, <1>3, <1>5, <1>6, <1>7, <1>8, PlannedByParts

\* Every request's transfers are groups that lead from its first word past its last.
LEMMA PlanLemma == ASSUME NEW o \in Requests PROVE Planned(o)
<1>1. IsRequest(o)
  BY RequestsAssumption
<1>2. o.t \in {"read", "write", "bread", "bwrite", "uread", "uwrite"}
  BY <1>1 DEF IsRequest
<1>. QED BY <1>1, <1>2, ReadPlan, WritePlan, ReadBlockPlan, WriteBlockPlan, ReadBytesPlan, WriteBytesPlan

-----------------------------------------------------------------------------
(* What a transaction leaves of the port.                                  *)

IsHw(h) ==
  h = [mem |-> h.mem, mapped |-> h.mapped, bank |-> h.bank, tar |-> h.tar, inc |-> h.inc,
       power |-> h.power, sticky |-> h.sticky, pending |-> h.pending, data |-> h.data]

LEMMA NextTarLemma ==
  ASSUME NEW t \in Address
  PROVE  /\ NextTar(t) \in Address
         /\ (t % Page) + 1 < Page => NextTar(t) = t + 1
<1>. DEFINE q == t \div Page  r == t % Page
<1>1. /\ Page \in Nat \ {0} /\ Words \in Nat \ {0} /\ t \in Nat /\ t < Words
  BY DebugPortAssumption DEF Address
<1>2. q \in Nat /\ r \in Nat /\ r < Page /\ t = Page * q + r
  BY <1>1, DivMod
<1>3. NextTar(t) = (t - r) + ((t + 1) % Page)
  BY DEF NextTar
<1>. HIDE DEF q, r
<1>4. q * Page \in Nat /\ Page * q = q * Page /\ (q + 1) * Page = q * Page + Page
  BY <1>1, <1>2, MulNat
<1>5. CASE r + 1 < Page
  <2>1. (t + 1) % Page = (t + 1) - q * Page
    <3>1. t + 1 \in Nat /\ q * Page <= t + 1 /\ t + 1 < (q + 1) * Page
      BY <1>1, <1>2, <1>4, <1>5
    <3>. QED BY <3>1, <1>1, <1>2, ModUnique
  <2>2. NextTar(t) = t + 1
    BY <1>1, <1>2, <1>3, <1>4, <2>1
  <2>3. t + 1 < Words
    <3>. DEFINE w == Words \div Page
    <3>1. w \in Nat /\ Words = Page * w + (Words % Page) /\ Words % Page = 0
      BY <1>1, DivMod, DebugPortAssumption
    <3>. HIDE DEF w
    <3>2. w * Page \in Nat /\ Words = w * Page
      BY <1>1, <3>1, MulNat
    <3>3. q < w
      <4>. SUFFICES ASSUME w < q \/ w = q PROVE FALSE
        BY <1>2, <3>1
      <4>1. CASE w < q
        <5>1. (w + 1) * Page <= q * Page /\ (w + 1) * Page = w * Page + Page
          BY <4>1, <1>1, <1>2, <3>1, MulMono
        <5>. QED BY <5>1, <1>1, <1>2, <1>4, <3>2
      <4>2. CASE w = q
        BY <4>2, <1>1, <1>2, <1>4, <3>2
      <4>. QED BY <4>1, <4>2
    <3>4. (q + 1) * Page <= w * Page
      BY <1>1, <1>2, <3>1, <3>3, MulMono
    <3>. QED BY <1>1, <1>2, <1>4, <1>5, <3>2, <3>4
  <2>. QED BY <1>1, <2>2, <2>3 DEF Address
<1>6. CASE ~(r + 1 < Page)
  <2>1. r + 1 = Page /\ t + 1 = q * Page + Page
    BY <1>1, <1>2, <1>4, <1>6
  <2>2. (t + 1) % Page = 0
    <3>1. /\ (q + 1) * Page <= t + 1 /\ t + 1 < ((q + 1) + 1) * Page /\ q + 1 \in Nat /\ t + 1 \in Nat
          /\ (q + 1) * Page = t + 1
      BY <1>1, <1>2, <1>4, <2>1
    <3>. QED BY <3>1, <1>1, ModUnique
  <2>3. NextTar(t) = t - r
    BY <1>1, <1>2, <1>3, <2>2
  <2>4. t - r \in Nat /\ t - r < Words
    BY <1>1, <1>2, <1>4
  <2>. QED BY <1>1, <1>6, <2>3, <2>4 DEF Address, r
<1>. QED BY <1>5, <1>6 DEF r

\* What becomes of a pending access, if there is one.
LEMMA CompleteLemma ==
  ASSUME NEW h, IsHw(h), NEW works \in BOOLEAN
  PROVE  LET c == Complete(h, works)  p == h.pending[1]  ok == works /\ p.addr \in h.mapped
         IN /\ IsHw(c) /\ c.pending = <<>>
            /\ c.bank = h.bank /\ c.inc = h.inc /\ c.power = h.power /\ c.mapped = h.mapped
            /\ h.pending = <<>> => c = h
            /\ h.pending # <<>> /\ ok =>
                 /\ c.sticky <=> h.sticky
                 /\ c.mem = IF p.rnw THEN h.mem ELSE [h.mem EXCEPT ![p.addr] = p.v]
                 /\ c.data = IF p.rnw THEN h.mem[p.addr] ELSE h.data
                 /\ c.tar = IF p.inc THEN NextTar(h.tar) ELSE h.tar
            /\ h.pending # <<>> /\ ~ok => c.sticky /\ c.mem = h.mem /\ c.data = h.data /\ c.tar = h.tar
<1>. DEFINE c == Complete(h, works)  p == h.pending[1]  ok == works /\ p.addr \in h.mapped
<1>1. CASE h.pending = <<>>
  BY <1>1 DEF Complete
<1>2. CASE h.pending # <<>>
  <2>1. c = [h EXCEPT
            !.pending = <<>>,
            !.sticky = @ \/ ~ok,
            !.mem = IF ok /\ ~p.rnw THEN [@ EXCEPT ![p.addr] = p.v] ELSE @,
            !.data = IF ok /\ p.rnw THEN h.mem[p.addr] ELSE @,
            !.tar = IF ok /\ p.inc THEN NextTar(@) ELSE @]
    BY <1>2 DEF Complete
  <2>2. c = [mem |-> IF ok /\ ~p.rnw THEN [h.mem EXCEPT ![p.addr] = p.v] ELSE h.mem, mapped |-> h.mapped,
             bank |-> h.bank, tar |-> IF ok /\ p.inc THEN NextTar(h.tar) ELSE h.tar, inc |-> h.inc,
             power |-> h.power, sticky |-> h.sticky \/ ~ok, pending |-> <<>>,
             data |-> IF ok /\ p.rnw THEN h.mem[p.addr] ELSE h.data]
    <3>. HIDE DEF c, p, ok
    <3>. QED BY <2>1 DEF IsHw
  <2>. HIDE DEF c, p
  <2>3. IsHw(c) /\ c.pending = <<>> /\ c.bank = h.bank /\ c.inc = h.inc /\ c.power = h.power /\ c.mapped = h.mapped
    <3>. HIDE DEF ok
    <3>. QED BY <2>2 DEF IsHw
  <2>4. CASE ok
    <3>. HIDE DEF ok
    <3>1. c.sticky = (h.sticky \/ ~ok)
      BY <2>2
    <3>2. /\ c.mem = IF p.rnw THEN h.mem ELSE [h.mem EXCEPT ![p.addr] = p.v]
          /\ c.data = IF p.rnw THEN h.mem[p.addr] ELSE h.data
          /\ c.tar = IF p.inc THEN NextTar(h.tar) ELSE h.tar
      BY <2>2, <2>4
    <3>. QED BY <1>2, <2>3, <2>4, <3>1, <3>2 DEF c, p, ok
  <2>5. CASE ~ok
    <3>. HIDE DEF ok
    <3>1. c.sticky = (h.sticky \/ ~ok)
      BY <2>2
    <3>2. c.mem = h.mem /\ c.data = h.data /\ c.tar = h.tar
      BY <2>2, <2>5
    <3>. QED BY <1>2, <2>3, <2>5, <3>1, <3>2 DEF c, p, ok
  <2>. QED BY <2>4, <2>5
<1>. QED BY <1>1, <1>2

-----------------------------------------------------------------------------
(* What the start of a transaction changes.                                *)

\* What stays when a transaction starts, and what each one does.
SameBut(h, g, fields) ==
  /\ IsHw(g) /\ g.mem = h.mem /\ g.mapped = h.mapped
  /\ "bank" \notin fields => g.bank = h.bank
  /\ "tar" \notin fields => g.tar = h.tar
  /\ "inc" \notin fields => g.inc = h.inc
  /\ "power" \notin fields => g.power = h.power
  /\ "sticky" \notin fields => g.sticky = h.sticky
  /\ "pending" \notin fields => g.pending = h.pending
  /\ "data" \notin fields => g.data = h.data

LEMMA SameLemma == ASSUME NEW h, IsHw(h) PROVE SameBut(h, h, {})
  BY DEF SameBut

LEMMA SetBank ==
  ASSUME NEW h, IsHw(h), NEW v, NEW g, g = [h EXCEPT !.bank = v]
  PROVE  SameBut(h, g, {"bank"}) /\ g.bank = v
<1>1. g = [mem |-> h.mem, mapped |-> h.mapped, bank |-> v, tar |-> h.tar, inc |-> h.inc,
            power |-> h.power, sticky |-> h.sticky, pending |-> h.pending, data |-> h.data]
  BY DEF IsHw
<1>. QED BY <1>1 DEF SameBut, IsHw

LEMMA SetTar ==
  ASSUME NEW h, IsHw(h), NEW v, NEW g, g = [h EXCEPT !.tar = v]
  PROVE  SameBut(h, g, {"tar"}) /\ g.tar = v
<1>1. g = [mem |-> h.mem, mapped |-> h.mapped, bank |-> h.bank, tar |-> v, inc |-> h.inc,
            power |-> h.power, sticky |-> h.sticky, pending |-> h.pending, data |-> h.data]
  BY DEF IsHw
<1>. QED BY <1>1 DEF SameBut, IsHw

LEMMA SetInc ==
  ASSUME NEW h, IsHw(h), NEW v, NEW g, g = [h EXCEPT !.inc = v]
  PROVE  SameBut(h, g, {"inc"}) /\ g.inc = v
<1>1. g = [mem |-> h.mem, mapped |-> h.mapped, bank |-> h.bank, tar |-> h.tar, inc |-> v,
            power |-> h.power, sticky |-> h.sticky, pending |-> h.pending, data |-> h.data]
  BY DEF IsHw
<1>. QED BY <1>1 DEF SameBut, IsHw

LEMMA SetData ==
  ASSUME NEW h, IsHw(h), NEW v, NEW g, g = [h EXCEPT !.data = v]
  PROVE  SameBut(h, g, {"data"}) /\ g.data = v
<1>1. g = [mem |-> h.mem, mapped |-> h.mapped, bank |-> h.bank, tar |-> h.tar, inc |-> h.inc,
            power |-> h.power, sticky |-> h.sticky, pending |-> h.pending, data |-> v]
  BY DEF IsHw
<1>. QED BY <1>1 DEF SameBut, IsHw

LEMMA SetPending ==
  ASSUME NEW h, IsHw(h), NEW v, NEW g, g = [h EXCEPT !.pending = v]
  PROVE  SameBut(h, g, {"pending"}) /\ g.pending = v
<1>1. g = [mem |-> h.mem, mapped |-> h.mapped, bank |-> h.bank, tar |-> h.tar, inc |-> h.inc,
            power |-> h.power, sticky |-> h.sticky, pending |-> v, data |-> h.data]
  BY DEF IsHw
<1>. QED BY <1>1 DEF SameBut, IsHw

LEMMA SetPower ==
  ASSUME NEW h, IsHw(h), NEW u, NEW v, NEW g,
         g = [mem |-> h.mem, mapped |-> h.mapped, bank |-> h.bank, tar |-> h.tar, inc |-> h.inc,
              power |-> v, sticky |-> u, pending |-> h.pending, data |-> h.data]
  PROVE  SameBut(h, g, {"sticky", "power"}) /\ g.sticky = u /\ g.power = v
  BY DEF SameBut, IsHw

LEMMA StartDPLemma ==
  ASSUME NEW h, IsHw(h), NEW r
  PROVE  LET g == StartDP(h, r)
         IN /\ r.a = 4 /\ r.rnw => SameBut(h, g, {"data"}) /\ g.data = (IF h.sticky THEN 1 ELSE 0)
            /\ r.a = 4 /\ ~r.rnw =>
                 SameBut(h, g, {"sticky", "power"}) /\ (g.sticky => h.sticky /\ r.v # "clear")
            /\ r.a = 8 /\ ~r.rnw => SameBut(h, g, {"bank"}) /\ g.bank = r.v
            /\ r.a \notin {4, 8} \/ (r.a = 8 /\ r.rnw) => SameBut(h, g, {"data"})
<1>. DEFINE g == StartDP(h, r)
<1>1. ASSUME r.a = 4, r.rnw PROVE SameBut(h, g, {"data"}) /\ g.data = (IF h.sticky THEN 1 ELSE 0)
  <2>. DEFINE v == IF h.sticky THEN 1 ELSE 0
  <2>1. g = [h EXCEPT !.data = v]
    BY <1>1 DEF StartDP
  <2>. HIDE DEF g, v
  <2>2. SameBut(h, g, {"data"}) /\ g.data = v
    BY <2>1, SetData
  <2>. QED BY <2>2 DEF v
<1>2. ASSUME r.a = 4, ~r.rnw
      PROVE SameBut(h, g, {"sticky", "power"}) /\ (g.sticky => h.sticky /\ r.v # "clear")
  <2>. DEFINE u == h.sticky /\ r.v # "clear"  v == (r.v = "power")
  <2>1. g = [h EXCEPT !.sticky = u, !.power = v]
    BY <1>2 DEF StartDP
  <2>. HIDE DEF u, v, g
  <2>3. g = [mem |-> h.mem, mapped |-> h.mapped, bank |-> h.bank, tar |-> h.tar, inc |-> h.inc,
             power |-> v, sticky |-> u, pending |-> h.pending, data |-> h.data]
    BY <2>1 DEF IsHw
  <2>2. SameBut(h, g, {"sticky", "power"}) /\ g.sticky = u
    BY <2>3, SetPower
  <2>. QED BY <2>2 DEF u
<1>3. ASSUME r.a = 8, ~r.rnw PROVE SameBut(h, g, {"bank"}) /\ g.bank = r.v
  <2>1. g = [h EXCEPT !.bank = r.v]
    BY <1>3 DEF StartDP
  <2>. HIDE DEF g
  <2>. QED BY <2>1, SetBank
<1>4. ASSUME r.a \notin {4, 8} \/ (r.a = 8 /\ r.rnw) PROVE SameBut(h, g, {"data"})
  <2>1. g = [h EXCEPT !.data = 0]
    BY <1>4 DEF StartDP
  <2>. HIDE DEF g
  <2>. QED BY <2>1, SetData
<1>. QED BY <1>1, <1>2, <1>3, <1>4

LEMMA StartAPLemma ==
  ASSUME NEW h, IsHw(h), NEW r
  PROVE  LET g == StartAP(h, r)
             Pend(addr, inc) == <<[addr |-> addr, rnw |-> r.rnw, v |-> AsWord(r.v), inc |-> inc]>>
         IN /\ h.sticky => g = h
            /\ ~h.sticky /\ h.bank = 1 =>
                 SameBut(h, g, {"pending"}) /\ g.pending = Pend((h.tar - (h.tar % 4)) + (r.a \div 4), FALSE)
            /\ ~h.sticky /\ h.bank = 0 /\ r.a = 12 => SameBut(h, g, {"pending"}) /\ g.pending = Pend(h.tar, h.inc)
            /\ ~h.sticky /\ h.bank = 0 /\ r.a = 4 /\ ~r.rnw => SameBut(h, g, {"tar"}) /\ g.tar = r.v
            /\ ~h.sticky /\ h.bank = 0 /\ r.a = 0 /\ ~r.rnw => SameBut(h, g, {"inc"}) /\ g.inc = TRUE
            /\ ~h.sticky /\ h.bank \notin {0, 1} => SameBut(h, g, {"data"})
            /\ ~h.sticky /\ h.bank = 0 /\ r.a # 12 /\ r.rnw => SameBut(h, g, {"data"})
            /\ ~h.sticky /\ h.bank = 0 /\ r.a \notin {0, 4, 12} => SameBut(h, g, {"data"})
<1>. DEFINE Pend(addr, inc) == <<[addr |-> addr, rnw |-> r.rnw, v |-> AsWord(r.v), inc |-> inc]>>
            g == StartAP(h, r)
<1>1. CASE h.sticky
  BY <1>1 DEF StartAP
<1>2. CASE ~h.sticky /\ h.bank = 1
  <2>1. g = [h EXCEPT !.pending = Pend((h.tar - (h.tar % 4)) + (r.a \div 4), FALSE)]
    BY <1>2 DEF StartAP, Access
  <2>. HIDE DEF Pend, g
  <2>2. SameBut(h, g, {"pending"}) /\ g.pending = Pend((h.tar - (h.tar % 4)) + (r.a \div 4), FALSE)
    BY ZenonT(30), <2>1, SetPending
  <2>. QED BY <1>2, <2>2 DEF Pend, g
<1>3. CASE ~h.sticky /\ h.bank = 0
  <2>1. r.a = 12 => g = [h EXCEPT !.pending = Pend(h.tar, h.inc)]
    BY <1>3 DEF StartAP, Access
  <2>2. r.a = 4 /\ ~r.rnw => g = [h EXCEPT !.tar = r.v]
    BY <1>3 DEF StartAP
  <2>3. r.a = 0 /\ ~r.rnw => g = [h EXCEPT !.inc = TRUE]
    BY <1>3 DEF StartAP
  <2>4. (r.a # 12 /\ r.rnw) \/ r.a \notin {0, 4, 12} => g = [h EXCEPT !.data = 0]
    BY <1>3 DEF StartAP
  <2>. HIDE DEF Pend, g
  <2>5. /\ r.a = 12 => SameBut(h, g, {"pending"}) /\ g.pending = Pend(h.tar, h.inc)
        /\ r.a = 4 /\ ~r.rnw => SameBut(h, g, {"tar"}) /\ g.tar = r.v
        /\ (r.a # 12 /\ r.rnw) \/ r.a \notin {0, 4, 12} => SameBut(h, g, {"data"})
    BY SMTT(30), <2>1, <2>2, <2>4, SetPending, SetTar, SetData
  <2>6. r.a = 0 /\ ~r.rnw => SameBut(h, g, {"inc"}) /\ g.inc = TRUE
    <3>. DEFINE v == TRUE
    <3>1. r.a = 0 /\ ~r.rnw => g = [h EXCEPT !.inc = v]
      BY <2>3
    <3>. HIDE DEF v
    <3>2. r.a = 0 /\ ~r.rnw => SameBut(h, g, {"inc"}) /\ g.inc = v
      BY <3>1, SetInc
    <3>. QED BY <3>2 DEF v
  <2>. QED BY <1>3, <2>5, <2>6 DEF Pend, g
<1>4. CASE ~h.sticky /\ h.bank \notin {0, 1}
  <2>1. g = [h EXCEPT !.data = 0]
    BY <1>4 DEF StartAP
  <2>. HIDE DEF g
  <2>2. SameBut(h, g, {"data"})
    BY <2>1, SetData
  <2>. QED BY <1>4, <2>2 DEF g
<1>. QED BY <1>1, <1>2, <1>3, <1>4

-----------------------------------------------------------------------------
\* The registers of the port stay in their ranges.
HwOK(h) ==
  /\ IsHw(h) /\ h.mem \in [Address -> Word] /\ h.mapped \subseteq Address /\ h.tar \in Address
  /\ h.bank \in {0, 1, 15} /\ (h.pending # <<>> => h.pending[1].v \in Word)

\* What is written to SELECT and to TAR.
Sane(ir, r) ==
  /\ ir = "DPACC" /\ r.a = 8 /\ ~r.rnw => r.v \in {0, 1, 15}
  /\ ir # "DPACC" /\ r.a = 4 /\ ~r.rnw => r.v \in Address

LEMMA CompleteOK ==
  ASSUME NEW h, HwOK(h), NEW works \in BOOLEAN
  PROVE  HwOK(Complete(h, works))
<1>. DEFINE c == Complete(h, works)  p == h.pending[1]  ok == works /\ p.addr \in h.mapped
<1>0. IsHw(h)
  BY DEF HwOK
<1>1. /\ IsHw(c) /\ c.pending = <<>> /\ c.bank = h.bank /\ c.mapped = h.mapped
      /\ h.pending = <<>> => c = h
      /\ h.pending # <<>> /\ ok =>
           /\ c.mem = IF p.rnw THEN h.mem ELSE [h.mem EXCEPT ![p.addr] = p.v]
           /\ c.tar = IF p.inc THEN NextTar(h.tar) ELSE h.tar
      /\ h.pending # <<>> /\ ~ok => c.mem = h.mem /\ c.tar = h.tar
  BY SMTT(30), <1>0, CompleteLemma
<1>2. NextTar(h.tar) \in Address
  BY NextTarLemma DEF HwOK
<1>. HIDE DEF c, ok
<1>3. CASE h.pending = <<>>
  BY <1>1, <1>3 DEF c
<1>4. CASE h.pending # <<>>
  <2>1. c.mem \in [Address -> Word]
    BY <1>1, <1>4 DEF HwOK
  <2>2. c.tar \in Address
    BY <1>1, <1>2, <1>4 DEF HwOK
  <2>. QED BY <1>1, <2>1, <2>2 DEF HwOK, c
<1>. QED BY <1>3, <1>4

LEMMA AsWordLemma == \A v : AsWord(v) \in Word
  BY DEF AsWord, Word

LEMMA StartOK ==
  ASSUME NEW h, HwOK(h), NEW ir, NEW r, Sane(ir, r)
  PROVE  HwOK(Start(h, ir, r))
<1>0. IsHw(h)
  BY DEF HwOK
<1>1. CASE ir = "DPACC"
  <2>. DEFINE g == StartDP(h, r)
  <2>1. Start(h, ir, r) = g
    BY <1>1 DEF Start
  <2>2. /\ SameBut(h, g, {"data"}) \/ SameBut(h, g, {"sticky", "power"}) \/ SameBut(h, g, {"bank"})
        /\ ~SameBut(h, g, {"data"}) /\ ~SameBut(h, g, {"sticky", "power"}) => r.a = 8 /\ ~r.rnw /\ g.bank = r.v
    BY <1>0, StartDPLemma
  <2>. HIDE DEF g
  <2>3. g.bank \in {0, 1, 15}
    BY <1>1, <2>2 DEF SameBut, Sane, HwOK
  <2>. QED BY <2>1, <2>2, <2>3 DEF SameBut, HwOK
<1>2. CASE ir # "DPACC"
  <2>. DEFINE g == StartAP(h, r)
  <2>1. Start(h, ir, r) = g
    BY <1>2 DEF Start
  <2>2. \/ g = h \/ SameBut(h, g, {"data"}) \/ SameBut(h, g, {"inc"})
        \/ SameBut(h, g, {"tar"}) /\ r.a = 4 /\ ~r.rnw /\ g.tar = r.v
        \/ SameBut(h, g, {"pending"}) /\ g.pending[1].v = AsWord(r.v)
    <3>1. CASE h.sticky
      BY <3>1, <1>0, StartAPLemma
    <3>2. CASE ~h.sticky /\ h.bank = 1
      <4>1. SameBut(h, g, {"pending"}) /\ g.pending = <<[addr |-> (h.tar - (h.tar % 4)) + (r.a \div 4), rnw |-> r.rnw, v |-> AsWord(r.v), inc |-> FALSE]>>
        BY <3>2, <1>0, StartAPLemma
      <4>. HIDE DEF g
      <4>. QED BY <4>1
    <3>3. CASE ~h.sticky /\ h.bank = 0 /\ r.a = 12
      <4>1. SameBut(h, g, {"pending"}) /\ g.pending = <<[addr |-> h.tar, rnw |-> r.rnw, v |-> AsWord(r.v), inc |-> h.inc]>>
        BY <3>3, <1>0, StartAPLemma
      <4>. HIDE DEF g
      <4>. QED BY <4>1
    <3>4. CASE ~h.sticky /\ h.bank = 0 /\ r.a # 12
      BY <3>4, <1>0, StartAPLemma
    <3>5. CASE ~h.sticky /\ h.bank \notin {0, 1}
      BY <3>5, <1>0, StartAPLemma
    <3>. QED BY <3>1, <3>2, <3>3, <3>4, <3>5
  <2>. HIDE DEF g
  <2>3. g.tar \in Address
    BY <1>2, <2>2 DEF SameBut, Sane, HwOK
  <2>4. g.pending # <<>> => g.pending[1].v \in Word
    BY <2>2, AsWordLemma DEF SameBut, HwOK
  <2>5. IsHw(g) /\ g.mem = h.mem /\ g.mapped = h.mapped /\ g.bank = h.bank
    BY <1>0, <2>2 DEF SameBut
  <2>. QED BY <2>1, <2>3, <2>4, <2>5 DEF HwOK
<1>. QED BY <1>1, <1>2

-----------------------------------------------------------------------------
(* Where a request is: the transfers it began with, and the next of them.  *)

Groups(o) == Len(TransfersOf(o)) \div 4
Frontier(o) ==
  CHOOSE f : LET y == f[Groups(o)]
             IN /\ Stretch(o, TransfersOf(o), Groups(o), f, o.a, y)
                /\ y > LastWord(o) /\ (o.t \in Loads => y = LastWord(o) + 1)

SessionPcs == {"ir", "cmd", "resp", "first", "get", "put", "final", "csrIR", "csr", "csrResp"}
CsrPcs == {"csrIR", "csr", "csrResp"}
HoldsDR == chain.held # <<>> /\ chain.held[1].reg = "DR"
Trs == IF clearing THEN <<ClearCSR>> ELSE IF op.t = "init" THEN InitTransfers ELSE TransfersOf(op)
Pos == Len(Trs) - Len(calls) + 1

LEMMA PlanFacts ==
  ASSUME NEW o \in Requests
  PROVE  LET f == Frontier(o)  M == Groups(o)  T == TransfersOf(o)
         IN /\ M \in Nat \ {0} /\ T \in Seq(AnyTransfer) /\ Len(T) = 4 * M
            /\ f[0] = o.a /\ f[M] > LastWord(o) /\ (o.t \in Loads => f[M] = LastWord(o) + 1)
            /\ \A m \in 1..M : Group(o, T, f, m)
<1>. DEFINE T == TransfersOf(o)  M == Groups(o)
            IsFrontier(f) ==
              LET y == f[M]
              IN /\ Stretch(o, T, M, f, o.a, y)
                 /\ y > LastWord(o) /\ (o.t \in Loads => y = LastWord(o) + 1)
<1>1. PICK y, N, f : /\ Stretch(o, T, N, f, o.a, y)
                     /\ y \in Nat /\ y > LastWord(o) /\ (o.t \in Loads => y = LastWord(o) + 1)
  BY PlanLemma DEF Planned, Part
<1>2. N \in Nat \ {0} /\ Len(T) = 4 * N /\ f[N] = y
  BY <1>1 DEF Stretch
<1>3. M = N
  <2>. HIDE DEF T
  <2>1. Len(T) \div 4 = N
    BY <1>2
  <2>. QED BY <2>1 DEF Groups, T
<1>. HIDE DEF T, M
<1>4. IsFrontier(f)
  BY <1>1, <1>2, <1>3
<1>5. Frontier(o) = CHOOSE g : IsFrontier(g)
  BY DEF Frontier, T, M
<1>6. IsFrontier(Frontier(o))
  <2>. HIDE DEF IsFrontier
  <2>. QED BY <1>4, <1>5
<1>. QED BY <1>6 DEF Stretch, T, M

-----------------------------------------------------------------------------
(* A request goes on: what is left of its list, and the groups in it.      *)

\* The suffix of a list, and what Tail makes of it.
LEMMA SuffixLemma ==
  ASSUME NEW S, NEW T \in Seq(S), NEW p \in 1..Len(T)
  PROVE  LET U == SubSeq(T, p, Len(T))
         IN /\ U \in Seq(S) /\ Len(U) = Len(T) - p + 1 /\ U[1] = T[p]
            /\ p < Len(T) => Tail(U) = SubSeq(T, p + 1, Len(T)) /\ Tail(U)[1] = T[p + 1]
<1>. DEFINE U == SubSeq(T, p, Len(T))
<1>1. U \in Seq(S) /\ Len(U) = Len(T) - p + 1 /\ \A k \in 1..Len(U) : U[k] = T[p + k - 1]
  BY SubSeqProperties
<1>. HIDE DEF U
<1>2. U[1] = T[p]
  BY <1>1
<1>3. ASSUME p < Len(T) PROVE Tail(U) = SubSeq(T, p + 1, Len(T)) /\ Tail(U)[1] = T[p + 1]
  <2>. DEFINE V == SubSeq(T, p + 1, Len(T))
  <2>1. V \in Seq(S) /\ Len(V) = Len(T) - p /\ \A k \in 1..Len(V) : V[k] = T[p + k]
    <3>1. p + 1 \in 1..(Len(T) + 1) /\ Len(T) \in Nat
      BY <1>3
    <3>2. V \in Seq(S) /\ Len(V) = Len(T) - (p + 1) + 1 /\ \A k \in 1..Len(V) : V[k] = T[(p + 1) + k - 1]
      BY <3>1, SubSeqProperties
    <3>. HIDE DEF V
    <3>. QED BY <3>1, <3>2
  <2>. HIDE DEF V
  <2>2. /\ Tail(U) \in Seq(S) /\ Len(Tail(U)) = Len(U) - 1
        /\ \A k \in 1..Len(Tail(U)) : Tail(U)[k] = U[k + 1]
    BY <1>1, <1>3
  <2>3. Len(Tail(U)) = Len(V) /\ \A k \in 1..Len(V) : Tail(U)[k] = V[k]
    BY <1>1, <1>3, <2>1, <2>2
  <2>4. Tail(U) = V
    BY <2>1, <2>2, <2>3
  <2>5. V[1] = T[p + 1]
    BY <1>3, <2>1
  <2>. QED BY <2>4, <2>5 DEF V
<1>. QED BY <1>1, <1>2, <1>3 DEF U

\* Every place in a list of groups of four is in one of them.
LEMMA PlaceLemma ==
  ASSUME NEW M \in Nat, NEW p \in 1..(4 * M)
  PROVE  \E m \in 1..M, j \in 1..4 : p = 4 * (m - 1) + j
<1>. DEFINE q == (p - 1) \div 4  r == (p - 1) % 4
<1>1. q \in Nat /\ r \in 0..3 /\ p - 1 = 4 * q + r
  OBVIOUS
<1>. HIDE DEF q, r
<1>2. q + 1 \in 1..M /\ r + 1 \in 1..4 /\ p = 4 * ((q + 1) - 1) + (r + 1)
  BY <1>1
<1>. QED BY <1>2

\* The transfers of a group: three that point, and the one they are for.
IsMain(o, m, c) ==
  LET x == Frontier(o)[m - 1]  y == Frontier(o)[m]
  IN /\ c.ap /\ c.check /\ c.a \in Nat
     /\ \/ /\ c.t = "acc" /\ c.rnw /\ c.vals = <<>>
           /\ \/ o.t \in Loads /\ c.v = x - o.a /\ y = x + 1
              \/ o.t \in Stores /\ c.v = 0 /\ y = x
        \/ c.t = "acc" /\ ~c.rnw /\ c.vals = <<>> /\ c.v \in Word \cup {Keep} /\ o.t \in Stores /\ y = x + 1
        \/ c.t = "piper" /\ c.rnw /\ c.a = 12 /\ c.v = 0 /\ o.t \in Loads /\ Len(c.vals) = y - x /\ y > x
        \/ /\ c.t = "pipew" /\ ~c.rnw /\ c.a = 12 /\ c.v = 0 /\ o.t \in Stores /\ Len(c.vals) = y - x /\ y > x
           /\ c.vals \in Seq(Word)

LEMMA GroupFacts ==
  ASSUME NEW o \in Requests, NEW m \in 1..Groups(o)
  PROVE  LET T == TransfersOf(o)  x == Frontier(o)[m - 1]  y == Frontier(o)[m]
         IN /\ x \in Address /\ x \in Nat /\ x >= o.a /\ y \in Nat /\ y >= x /\ o.a \in Nat
            /\ T[4 * m - 3] = SelectBank(0)
            /\ \E w \in Address, chk \in BOOLEAN : T[4 * m - 2] = WriteTar(w, chk)
            /\ T[4 * m - 1] \in {SelectBank(0), SelectBank(1)}
            /\ IsMain(o, m, T[4 * m])
            /\ T[4 * m].v = Keep => m > 1 /\ o.t \in Stores /\ T[4 * (m - 1)].t = "acc" /\ T[4 * (m - 1)].rnw
<1>. DEFINE T == TransfersOf(o)  f == Frontier(o)  x == f[m - 1]  y == f[m]
<1>1. Group(o, T, f, m) /\ m \in Nat /\ m >= 1 /\ (m > 1 => Group(o, T, f, m - 1))
  BY PlanFacts
<1>2. o.a \in Nat /\ Words \in Nat
  BY DebugPortAssumption, RequestsAssumption DEF IsRequest, Address
<1>. HIDE DEF T, f
<1>3. x \in Address /\ x \in Nat /\ x >= o.a /\ y \in Nat
  BY <1>1, <1>2 DEF Group, Address
<1>4. x - (x % 4) \in Address
  <2>1. x % 4 \in 0..3 /\ x - (x % 4) \in Nat
    BY <1>3
  <2>. QED BY <1>2, <1>3, <2>1 DEF Address
<1>5. Window(T, m, x) \/ Pointed(T, m, x)
  BY <1>1 DEF Group, LoadsWord, Peeks, StoresWord, LoadsBlock, StoresBlock
<1>6. /\ T[4 * m - 3] = SelectBank(0) /\ T[4 * m - 1] \in {SelectBank(0), SelectBank(1)}
      /\ \E w \in Address, chk \in BOOLEAN : T[4 * m - 2] = WriteTar(w, chk)
  <2>1. CASE Window(T, m, x)
    <3>. DEFINE w == x - (x % 4)
    <3>1. w \in Address
      BY <1>4
    <3>. HIDE DEF w
    <3>. QED BY <2>1, <3>1 DEF Window, w
  <2>2. CASE Pointed(T, m, x)
    BY <1>3, <2>2 DEF Pointed
  <2>. QED BY <1>5, <2>1, <2>2
<1>7. Loads \cap Stores = {}
  BY DEF Loads, Stores
<1>8. ASSUME LoadsWord(o, T, f, m) PROVE IsMain(o, m, T[4 * m]) /\ T[4 * m].v # Keep /\ y >= x
  <2>1. T[4 * m] = WordRead(x, x - o.a) /\ o.t \in Loads /\ y = x + 1
    BY <1>8 DEF LoadsWord
  <2>. DEFINE a == 4 * (x % 4)  v == x - o.a
  <2>2. a \in Nat /\ v \in Nat
    BY <1>2, <1>3
  <2>. HIDE DEF a, v, x, y
  <2>3. T[4 * m] = Transfer("acc", TRUE, TRUE, a, v, TRUE, <<>>)
    BY <2>1 DEF WordRead, a, v
  <2>4. T[4 * m].v # Keep /\ y >= x
    BY <1>3, <2>1, <2>2, <2>3 DEF Transfer, Keep
  <2>5. IsMain(o, m, T[4 * m])
    <3>. DEFINE c == T[4 * m]
    <3>1. c.ap /\ c.check /\ c.a \in Nat /\ c.t = "acc" /\ c.rnw /\ c.vals = <<>> /\ c.v = v
      BY <2>2, <2>3 DEF Transfer
    <3>. HIDE DEF c
    <3>2. c.v = x - o.a /\ y = x + 1 /\ o.t \in Loads
      BY <2>1, <3>1 DEF v
    <3>3. IsMain(o, m, c)
      BY <3>1, <3>2 DEF IsMain, f, x, y
    <3>. QED BY <3>3 DEF c
  <2>. QED BY <2>4, <2>5
<1>9. ASSUME Peeks(o, T, f, m) PROVE IsMain(o, m, T[4 * m]) /\ T[4 * m].v # Keep /\ y >= x
  <2>1. T[4 * m] = WordRead(x, 0) /\ o.t \in Stores /\ y = x
    BY <1>9 DEF Peeks
  <2>. DEFINE a == 4 * (x % 4)
  <2>2. a \in Nat
    BY <1>3
  <2>. HIDE DEF a, x, y
  <2>3. T[4 * m] = Transfer("acc", TRUE, TRUE, a, 0, TRUE, <<>>)
    BY <2>1 DEF WordRead, a
  <2>. QED BY <1>3, <2>1, <2>2, <2>3 DEF Transfer, IsMain, Keep, f, x, y
<1>10. ASSUME StoresWord(o, T, f, m)
       PROVE IsMain(o, m, T[4 * m]) /\ y >= x /\ (T[4 * m].v = Keep => m > 1 /\ f[m - 2] = f[m - 1]) /\ o.t \in Stores
  <2>1. PICK v \in Word \cup {Keep} :
            T[4 * m] = WriteAP(4 * (x % 4), v) /\ (v = Keep => m > 1 /\ f[m - 2] = f[m - 1])
    BY <1>10 DEF StoresWord
  <2>2. o.t \in Stores /\ y = x + 1
    BY <1>10 DEF StoresWord
  <2>. DEFINE a == 4 * (x % 4)
  <2>3. a \in Nat
    BY <1>3
  <2>. HIDE DEF a, x, y
  <2>4. T[4 * m] = Transfer("acc", TRUE, FALSE, a, v, TRUE, <<>>)
    BY <2>1 DEF WriteAP, a
  <2>. QED BY <1>3, <2>1, <2>2, <2>3, <2>4 DEF Transfer, IsMain, f, x, y
<1>11. ASSUME LoadsBlock(o, T, f, m) PROVE IsMain(o, m, T[4 * m]) /\ T[4 * m].v # Keep /\ y >= x
  <2>1. T[4 * m] = PipeRead(y - x) /\ o.t \in Loads /\ y > x
    BY <1>11 DEF LoadsBlock
  <2>. DEFINE k == y - x  vs == [j \in 1..k |-> 0]
  <2>2. k \in Nat /\ Len(vs) = k
    <3>1. k \in Nat
      BY <1>3, <2>1
    <3>. HIDE DEF k
    <3>. QED BY <3>1
  <2>. HIDE DEF k, x, y, vs
  <2>3. T[4 * m] = Transfer("piper", TRUE, TRUE, 12, 0, TRUE, vs)
    BY <2>1 DEF PipeRead, k, vs
  <2>. QED BY <1>3, <2>1, <2>2, <2>3 DEF Transfer, IsMain, Keep, f, x, y, k
<1>12. ASSUME StoresBlock(o, T, f, m) PROVE IsMain(o, m, T[4 * m]) /\ T[4 * m].v # Keep /\ y >= x
  <2>1. PICK vs \in Seq(Word) : Len(vs) = y - x /\ T[4 * m] = PipeWrite(vs)
    BY <1>12 DEF StoresBlock
  <2>2. o.t \in Stores /\ y > x
    BY <1>12 DEF StoresBlock
  <2>. HIDE DEF x, y
  <2>3. T[4 * m] = Transfer("pipew", TRUE, FALSE, 12, 0, TRUE, vs)
    BY <2>1 DEF PipeWrite
  <2>. QED BY <1>3, <2>1, <2>2, <2>3 DEF Transfer, IsMain, Keep, f, x, y
<1>13. IsMain(o, m, T[4 * m]) /\ y >= x
  BY <1>1, <1>8, <1>9, <1>10, <1>11, <1>12 DEF Group
<1>14. ASSUME T[4 * m].v = Keep
       PROVE  m > 1 /\ o.t \in Stores /\ T[4 * (m - 1)].t = "acc" /\ T[4 * (m - 1)].rnw
  <2>1. m > 1 /\ f[m - 2] = f[m - 1] /\ o.t \in Stores
    BY <1>1, <1>8, <1>9, <1>10, <1>11, <1>12, <1>14 DEF Group
  <2>. DEFINE k == m - 1
  <2>2. Group(o, T, f, k) /\ k - 1 = m - 2 /\ f[k - 1] = f[k] /\ f[k] = x /\ k \in Nat
    BY <1>1, <2>1
  <2>. HIDE DEF k, x
  <2>3. Peeks(o, T, f, k)
    BY <1>3, <2>2 DEF Group, LoadsWord, StoresWord, LoadsBlock, StoresBlock
  <2>4. T[4 * k] = WordRead(f[k - 1], 0)
    BY <2>3 DEF Peeks
  <2>5. T[4 * k].t = "acc" /\ T[4 * k].rnw
    BY <2>4 DEF WordRead, Transfer
  <2>. QED BY <2>1, <2>5 DEF k
<1>. QED BY <1>2, <1>3, <1>6, <1>13, <1>14 DEF T, f

-----------------------------------------------------------------------------
(* The inductive invariant of a request at work.                           *)

Ranges ==
  /\ pc \in Pcs /\ cache.ir \in {"none", "IDCODE", "DPACC", "APACC"} /\ cache.ready \in BOOLEAN
  /\ conn \in {"off", "connecting", "on"} /\ i \in 0..(Retries - 1) /\ HwOK(hw) /\ data \in Seq(Word)

\* The instruction in the port is the one that was last asked for, if any; and
\* a read of a block is the only transaction that waits at a pause.
Instructions ==
  /\ Latched(chain).dp \in {"unknown", cache.ir}
  /\ HoldsDR => chain.held = <<[reg |-> "DR", req |-> Dummy]>> /\ pc \in {"get", "csrIR"} /\ cache.ir = "APACC"
  /\ pc \in {"cmd", "resp", "first", "get", "put", "final"} => cache.ir = Instruction
  /\ pc \in {"csr", "csrResp"} => cache.ir = "DPACC"
  /\ pc \in {"dpInit", "idIR", "idDR"} => op.t = "init"

\* What is left to do is the rest of the list, and fits where the program is.
Placed ==
  /\ Len(calls) \in 1..Len(Trs) /\ calls = SubSeq(Trs, Pos, Len(Trs))
  /\ ~clearing /\ op.t # "init" => op \in Requests
Fits ==
  /\ pc \in {"first", "get"} => call.t = "piper"
  /\ pc \in {"put", "final"} => call.t = "pipew"
  /\ pc \in {"cmd", "resp"} => call.t = "acc"
  /\ call.t = "csr" => pc \in CsrPcs
  /\ pc \in {"ir", "first"} => n = 1
  /\ pc \in {"get", "put"} => n \in 1..Len(call.vals)

\* How many words have been read; a word that is written back has been read.
Collected(m, j) ==
  LET x == Frontier(op)[m - 1] - op.a  y == Frontier(op)[m] - op.a  T == TransfersOf(op)
      KeptBy(k) == k <= Groups(op) /\ T[4 * k].v = Keep
  IN /\ op.t \in Loads =>
          /\ j = 4 /\ pc \in CsrPcs => Len(data) = y
          /\ j = 4 /\ pc \in {"cmd", "resp"} => Len(data) >= x
          /\ pc = "get" => Len(data) = x + n - 1
          /\ j < 4 \/ pc \in {"ir", "first"} => Len(data) = x
     /\ KeptBy(m) \/ (j = 4 /\ pc \in CsrPcs /\ KeptBy(m + 1)) => Len(data) = 1
Sessions ==
  pc \in SessionPcs =>
    /\ Placed /\ Fits
    /\ ~clearing /\ op.t # "init" =>
         \A m \in 1..Groups(op), j \in 1..4 : Pos = 4 * (m - 1) + j => Collected(m, j)
Work == Ranges /\ Instructions /\ Sessions

-----------------------------------------------------------------------------
LEMMA InitTransfersType == InitTransfers \in Seq(AnyTransfer) /\ Len(InitTransfers) = 10
<1>. DEFINE A == AnyTransfer
<1>1. /\ ClearCSR \in A /\ \A b \in Int : SelectBank(b) \in A /\ \A a \in Int : ReadAP(a) \in A
      /\ WriteAP(0, 0) \in A
      /\ Transfer("csr", FALSE, TRUE, 4, 0, TRUE, <<>>) \in A
      /\ Transfer("acc", FALSE, FALSE, 4, "power", TRUE, <<>>) \in A
      /\ Transfer("acc", FALSE, TRUE, 4, 0, TRUE, <<>>) \in A
  <2>1. <<>> \in Seq(Int)
    OBVIOUS
  <2>. QED BY <2>1 DEF AnyTransfer, Transfer, ClearCSR, SelectBank, ReadAP, WriteAP
<1>. HIDE DEF A
<1>2. 15 \in Int /\ 0 \in Int /\ 12 \in Int
  OBVIOUS
<1>. DEFINE c1 == ClearCSR  c2 == Transfer("csr", FALSE, TRUE, 4, 0, TRUE, <<>>)
            c3 == Transfer("acc", FALSE, FALSE, 4, "power", TRUE, <<>>)
            c4 == Transfer("acc", FALSE, TRUE, 4, 0, TRUE, <<>>)
            c5 == SelectBank(15)  c6 == ReadAP(12)  c7 == SelectBank(0)  c8 == ReadAP(0)  c9 == WriteAP(0, 0)
<1>3. c1 \in A /\ c2 \in A /\ c3 \in A /\ c4 \in A /\ c5 \in A /\ c6 \in A /\ c7 \in A /\ c8 \in A /\ c9 \in A
  BY <1>1, <1>2
<1>4. InitTransfers = <<c1, c2, c3, c4, c5, c6, c7, c8, c7, c9>>
  BY DEF InitTransfers
<1>. HIDE DEF c1, c2, c3, c4, c5, c6, c7, c8, c9
<1>5. <<c1, c2, c3, c4, c5, c6, c7, c8, c7, c9>> \in Seq(A) /\ Len(<<c1, c2, c3, c4, c5, c6, c7, c8, c7, c9>>) = 10
  BY <1>3
<1>. QED BY <1>4, <1>5 DEF A

\* The transfers of connecting, one by one.
LEMMA InitTransferFacts ==
  ASSUME NEW p \in 1..10
  PROVE  LET c == InitTransfers[p]
         IN /\ p = 1 => c = ClearCSR
            /\ p = 2 => c = Transfer("csr", FALSE, TRUE, 4, 0, TRUE, <<>>)
            /\ p = 3 => c = Transfer("acc", FALSE, FALSE, 4, "power", TRUE, <<>>)
            /\ p = 4 => c = Transfer("acc", FALSE, TRUE, 4, 0, TRUE, <<>>)
            /\ p = 5 => c = SelectBank(15)
            /\ p = 6 => c = ReadAP(12)
            /\ p \in {7, 9} => c = SelectBank(0)
            /\ p = 8 => c = ReadAP(0)
            /\ p = 10 => c = WriteAP(0, 0)
<1>. DEFINE c1 == ClearCSR  c2 == Transfer("csr", FALSE, TRUE, 4, 0, TRUE, <<>>)
            c3 == Transfer("acc", FALSE, FALSE, 4, "power", TRUE, <<>>)
            c4 == Transfer("acc", FALSE, TRUE, 4, 0, TRUE, <<>>)
            c5 == SelectBank(15)  c6 == ReadAP(12)  c7 == SelectBank(0)  c8 == ReadAP(0)  c9 == WriteAP(0, 0)
<1>1. InitTransfers = <<c1, c2, c3, c4, c5, c6, c7, c8, c7, c9>>
  BY DEF InitTransfers
<1>. HIDE DEF c1, c2, c3, c4, c5, c6, c7, c8, c9
<1>2. /\ InitTransfers[1] = c1 /\ InitTransfers[2] = c2 /\ InitTransfers[3] = c3 /\ InitTransfers[4] = c4
      /\ InitTransfers[5] = c5 /\ InitTransfers[6] = c6 /\ InitTransfers[7] = c7 /\ InitTransfers[8] = c8
      /\ InitTransfers[9] = c7 /\ InitTransfers[10] = c9
  BY <1>1
<1>. QED BY <1>2 DEF c1, c2, c3, c4, c5, c6, c7, c8, c9

LEMMA ListFacts ==
  ASSUME Placed
  PROVE  /\ Trs \in Seq(AnyTransfer) /\ Len(Trs) \in Nat \ {0}
         /\ clearing => Trs = <<ClearCSR>> /\ Len(Trs) = 1
         /\ ~clearing /\ op.t = "init" => Trs = InitTransfers /\ Len(Trs) = 10
         /\ ~clearing /\ op.t # "init" =>
              op \in Requests /\ Trs = TransfersOf(op) /\ Len(Trs) = 4 * Groups(op) /\ Groups(op) \in Nat \ {0}
<1>1. CASE clearing
  <2>1. ClearCSR \in AnyTransfer
    <3>1. <<>> \in Seq(Int)
      OBVIOUS
    <3>. QED BY <3>1 DEF AnyTransfer, ClearCSR, Transfer
  <2>2. Trs = <<ClearCSR>>
    BY <1>1 DEF Trs
  <2>. QED BY <1>1, <2>1, <2>2
<1>2. CASE ~clearing /\ op.t = "init"
  BY SMTT(30), <1>2, InitTransfersType DEF Trs
<1>3. CASE ~clearing /\ op.t # "init"
  <2>1. op \in Requests /\ Trs = TransfersOf(op)
    BY <1>3 DEF Placed, Trs
  <2>2. /\ Groups(op) \in Nat \ {0} /\ TransfersOf(op) \in Seq(AnyTransfer)
        /\ Len(TransfersOf(op)) = 4 * Groups(op)
    BY <2>1, PlanFacts
  <2>. QED BY <1>3, <2>1, <2>2
<1>. QED BY <1>1, <1>2, <1>3

LEMMA CallFacts ==
  ASSUME Placed
  PROVE  /\ Pos \in 1..Len(Trs) /\ call = Trs[Pos] /\ call \in AnyTransfer
         /\ Len(calls) = Len(Trs) - Pos + 1
         /\ Pos < Len(Trs) => Tail(calls) = SubSeq(Trs, Pos + 1, Len(Trs)) /\ Tail(calls)[1] = Trs[Pos + 1]
<1>1. Trs \in Seq(AnyTransfer) /\ Len(Trs) \in Nat \ {0}
  BY ListFacts
<1>2. Len(calls) \in 1..Len(Trs) /\ calls = SubSeq(Trs, Pos, Len(Trs)) /\ Pos = Len(Trs) - Len(calls) + 1
  BY DEF Placed, Pos
<1>. DEFINE p == Pos  T == Trs
<1>3. p \in 1..Len(T) /\ Len(calls) = Len(T) - p + 1
  BY <1>1, <1>2
<1>. HIDE DEF p, T
<1>4. /\ calls = SubSeq(T, p, Len(T)) /\ T \in Seq(AnyTransfer)
  BY <1>1, <1>2 DEF p, T
<1>5. /\ calls[1] = T[p]
      /\ p < Len(T) => Tail(calls) = SubSeq(T, p + 1, Len(T)) /\ Tail(calls)[1] = T[p + 1]
  BY <1>3, <1>4, SuffixLemma
<1>6. T[p] \in AnyTransfer
  BY <1>3, <1>4
<1>. QED BY <1>3, <1>5, <1>6 DEF p, T, call

\* A position in a request's list: the group, and the place in it.
LEMMA CallInGroup ==
  ASSUME Placed, ~clearing, op.t # "init"
  PROVE  /\ op \in Requests
         /\ \E m \in 1..Groups(op), j \in 1..4 : Pos = 4 * (m - 1) + j /\ call = TransfersOf(op)[4 * (m - 1) + j]
<1>1. /\ op \in Requests /\ Trs = TransfersOf(op) /\ Len(Trs) = 4 * Groups(op) /\ Groups(op) \in Nat \ {0}
      /\ Pos \in 1..Len(Trs) /\ call = Trs[Pos]
  BY ListFacts, CallFacts
<1>2. PICK m \in 1..Groups(op), j \in 1..4 : Pos = 4 * (m - 1) + j
  <2>. DEFINE M == Groups(op)  p == Pos
  <2>1. M \in Nat /\ p \in 1..(4 * M)
    BY <1>1
  <2>. HIDE DEF M, p
  <2>2. \E m \in 1..M, j \in 1..4 : p = 4 * (m - 1) + j
    BY <2>1, PlaceLemma
  <2>. QED BY <2>2 DEF M, p
<1>. QED BY <1>1, <1>2

-----------------------------------------------------------------------------
(* The setup transfers, and the requests that are sane.                    *)

\* A setup transfer, by its place in its group.
LEMMA SetupFacts ==
  ASSUME NEW o \in Requests, NEW m \in 1..Groups(o), NEW j \in 1..4, j < 4
  PROVE  LET c == TransfersOf(o)[4 * (m - 1) + j]
         IN /\ c.t = "acc" /\ ~c.rnw /\ c.vals = <<>> /\ c.v # Keep
            /\ c.ap => c.a = 4 /\ c.v \in Address
            /\ ~c.ap => c.a = 8 /\ c.v \in {0, 1}
            /\ (j = 2) <=> c.ap
            /\ j # 2 => c.check
<1>. DEFINE T == TransfersOf(o)  p == 4 * (m - 1) + j  c == T[p]
<1>1. m \in Nat /\ p = (4 * m - 4) + j
  OBVIOUS
<1>2. /\ T[4 * m - 3] = SelectBank(0)
      /\ \E w \in Address, chk \in BOOLEAN : T[4 * m - 2] = WriteTar(w, chk)
      /\ T[4 * m - 1] \in {SelectBank(0), SelectBank(1)}
  BY GroupFacts
<1>. HIDE DEF T
<1>3. CASE j \in {1, 3}
  <2>1. c = SelectBank(0) \/ c = SelectBank(1)
    BY <1>1, <1>2, <1>3
  <2>. HIDE DEF c
  <2>2. PICK b \in {0, 1} : c = Transfer("acc", FALSE, FALSE, 8, b, TRUE, <<>>)
    BY <2>1 DEF SelectBank
  <2>3. /\ c.t = "acc" /\ ~c.rnw /\ c.vals = <<>> /\ c.v = b
        /\ ~c.ap /\ c.a = 8 /\ c.check
    BY <2>2 DEF Transfer
  <2>4. c.v # Keep /\ c.v \in {0, 1}
    BY <2>3 DEF Keep
  <2>. QED BY <1>3, <2>3, <2>4 DEF c, T
<1>4. CASE j = 2
  <2>1. PICK w \in Address, chk \in BOOLEAN : c = WriteTar(w, chk)
    BY <1>1, <1>2, <1>4
  <2>. HIDE DEF c
  <2>2. /\ c.t = "acc" /\ ~c.rnw /\ c.vals = <<>> /\ c.v = w
        /\ c.ap /\ c.a = 4
    BY <2>1 DEF Transfer, WriteTar
  <2>3. c.v # Keep
    BY <2>2 DEF Keep, Address
  <2>. QED BY <1>4, <2>2, <2>3 DEF c, T
<1>. QED BY <1>3, <1>4

\* What is written to SELECT and TAR is a bank and an address.
LEMMA RequestSane ==
  ASSUME Placed, pc \in {"cmd", "first", "put"}, Fits, data \in Seq(Word),
         ~clearing /\ op.t # "init" =>
           \A m \in 1..Groups(op), j \in 1..4 : Pos = 4 * (m - 1) + j => Collected(m, j)
  PROVE  Sane(Instruction, Request)
<1>. DEFINE r == Request
<1>1. /\ r.rnw = call.rnw /\ r.a = call.a
      /\ ~call.rnw /\ ~call.ap => r.v = call.v
      /\ ~call.rnw /\ call.ap => r.v = IF call.v = Keep THEN data[1] ELSE call.v
  BY DEF Request
<1>. HIDE DEF r
<1>2. Instruction = IF call.ap THEN "APACC" ELSE "DPACC"
  BY DEF Instruction
<1>3. CASE clearing
  <2>1. call = ClearCSR
    <3>1. Trs = <<ClearCSR>> /\ Pos \in 1..1 /\ call = Trs[Pos]
      BY <1>3, ListFacts, CallFacts
    <3>2. Pos = 1
      BY <3>1
    <3>. QED BY <3>1, <3>2
  <2>2. ~call.ap /\ call.a = 4
    BY <2>1 DEF ClearCSR, Transfer
  <2>. QED BY <1>1, <1>2, <2>2 DEF Sane, r
<1>4. CASE ~clearing /\ op.t = "init"
  <2>1. Pos \in 1..10 /\ call = InitTransfers[Pos]
    BY <1>4, ListFacts, CallFacts
  <2>. DEFINE p == Pos  c == call
  <2>2. p \in 1..10 /\ c = InitTransfers[p]
    BY <2>1
  <2>. HIDE DEF p, c
  <2>3. /\ ~c.ap /\ c.a = 8 => c.v \in {0, 15}
        /\ c.ap => c.a # 4
    BY <2>2, InitTransferFacts DEF Transfer, ClearCSR, SelectBank, ReadAP, WriteAP
  <2>4. /\ ~call.ap /\ call.a = 8 => call.v \in {0, 15}
        /\ call.ap => call.a # 4
    BY <2>3 DEF c
  <2>. QED BY <1>1, <1>2, <2>4 DEF Sane, r
<1>5. CASE ~clearing /\ op.t # "init"
  <2>1. PICK m \in 1..Groups(op), j \in 1..4 : Pos = 4 * (m - 1) + j /\ call = TransfersOf(op)[4 * (m - 1) + j]
    BY <1>5, CallInGroup
  <2>2. op \in Requests
    BY <1>5, CallInGroup
  <2>3. CASE j < 4
    <3>1. /\ ~call.rnw /\ call.v # Keep
          /\ call.ap => call.v \in Address
          /\ ~call.ap => call.v \in {0, 1}
      <4>. DEFINE c == TransfersOf(op)[4 * (m - 1) + j]
      <4>1. ~c.rnw /\ c.v # Keep /\ (c.ap => c.v \in Address) /\ (~c.ap => c.v \in {0, 1})
        BY <2>2, <2>3, SetupFacts
      <4>2. call = c
        BY <2>1
      <4>. HIDE DEF c
      <4>. QED BY <4>1, <4>2
    <3>. QED BY <1>1, <1>2, <3>1 DEF Sane, r
  <2>4. CASE j = 4
    <3>1. call = TransfersOf(op)[4 * m]
      <4>1. 4 * (m - 1) + 4 = 4 * m
        OBVIOUS
      <4>. QED BY <2>1, <2>4, <4>1
    <3>2. IsMain(op, m, call)
      BY <2>2, <3>1, GroupFacts
    <3>3. call.ap /\ (~call.rnw /\ call.a = 4 => call.v \in Word \cup {Keep})
      BY <3>2 DEF IsMain
    <3>4. call.v = Keep => data[1] \in Word
      <4>1. call.v = Keep => Len(data) = 1
        BY <1>5, <2>1, <2>4, <3>1 DEF Collected
      <4>. QED BY <4>1
    <3>5. Word \subseteq Address
      <4>1. /\ Page \in Nat \ {0} /\ Words \in Nat \ {0} /\ Page % 4 = 0 /\ Words % Page = 0
        BY DebugPortAssumption
      <4>2. Page >= 2
        BY <4>1
      <4>3. Words = Page * (Words \div Page) + (Words % Page) /\ Words \div Page \in Nat
        BY <4>1, DivMod
      <4>. DEFINE w == Words \div Page
      <4>4. w \in Nat /\ Words = w * Page
        BY <4>1, <4>3
      <4>. HIDE DEF w
      <4>5. w > 0
        <5>1. w = 0 => Words = 0
          BY <4>1, <4>4
        <5>. QED BY <4>1, <4>4, <5>1
      <4>6. (0 + 1) * Page <= w * Page
        BY <4>1, <4>4, <4>5, MulMono
      <4>7. 2 <= Words
        BY <4>1, <4>2, <4>4, <4>6
      <4>. QED BY <4>1, <4>7 DEF Word, Address
    <3>. QED BY <1>1, <1>2, <3>3, <3>4, <3>5 DEF Sane, r
  <2>. QED BY <2>3, <2>4
<1>. QED BY <1>3, <1>4, <1>5

-----------------------------------------------------------------------------
(* What a scan of the data register leaves.                                *)

DRPcs == {"cmd", "resp", "first", "get", "put", "final", "csr", "csrResp"}

-----------------------------------------------------------------------------
(* What a scan of a data register does, as long as Work holds.             *)

\* The port answers: what was pending is over, and the transaction starts or waits.
Answered(req, to, d) ==
  /\ plugged /\ chain.linked /\ Latched(chain).dp = cache.ir
  /\ \E works \in BOOLEAN :
       /\ Left(hw, chain).power => works
       /\ LET h == Complete(Left(hw, chain), works)
          IN /\ d = h.data
             /\ to = "RTI" => hw' = Start(h, cache.ir, req) /\ chain'.held = <<>>
             /\ to # "RTI" => hw' = h /\ chain'.held = <<[reg |-> "DR", req |-> req]>>
  /\ UNCHANGED waitVars

\* The port is busy.
Waited(d) ==
  /\ Left(hw, chain).pending # <<>> /\ hw' = Left(hw, chain) /\ chain'.held = <<>> /\ chain.linked
  /\ d = hw'.data /\ excused' = TRUE /\ unnoticed' = (unnoticed \/ Overlooked)

\* Nobody answers, or not the port.
Missed(ack) ==
  /\ hw' = Left(hw, chain) /\ chain'.held = <<>> /\ UNCHANGED waitVars
  /\ \/ ack = "BAD" \/ (plugged /\ Latched(chain).pick = "ROUTER")
  /\ ~Reaches(Latched(chain), ToShift("DR", belief, chain.tap), {"DPACC", "APACC"})

LEMMA ScanKinds ==
  ASSUME Instructions, pc \in DRPcs, NEW req, NEW to, NEW ack, NEW d, ScanDR(req, to, ack, d)
  PROVE  /\ chain'.linked = chain.linked /\ chain'.pick = Latched(chain).pick
         /\ \/ ack = "OK" /\ Answered(req, to, d)
            \/ ack = "WAIT" /\ Waited(d)
            \/ Missed(ack)
<1>. DEFINE s == ToShift("DR", belief, chain.tap)
            ch == Latched(chain)
            h == Left(hw, chain)
            there == Reaches(ch, s, {"DPACC", "APACC"})
            t2 == AfterScan(to, s)
<1>1. /\ \/ /\ there /\ ack = "OK"
            /\ \E works \in IF h.power THEN {TRUE} ELSE BOOLEAN :
                 LET h2 == Complete(h, works)
                 IN /\ d = h2.data
                    /\ IF to = "RTI" THEN hw' = Start(h2, ch.dp, req) /\ chain' = Moved(ch, t2, <<>>)
                       ELSE hw' = h2 /\ chain' = Moved(ch, t2, <<[reg |-> "DR", req |-> req]>>)
            /\ UNCHANGED waitVars
         \/ /\ there /\ ack = "WAIT" /\ h.pending # <<>> /\ waits > 0 /\ d = h.data
            /\ waits' = waits - 1 /\ excused' = TRUE /\ unnoticed' = (unnoticed \/ Overlooked)
            /\ hw' = h /\ chain' = Moved(ch, t2, <<>>)
         \/ /\ ~there /\ (ack = "BAD" \/ (plugged /\ ch.pick = "ROUTER"))
            /\ hw' = h /\ chain' = Moved(ch, t2, <<>>) /\ UNCHANGED waitVars
  BY DEF ScanDR
<1>2. ch.linked = chain.linked
  BY DEF Latched
<1>3. ASSUME NEW held, chain' = Moved(ch, t2, held)
      PROVE  chain'.linked = chain.linked /\ chain'.pick = ch.pick /\ chain'.held = held
  BY <1>2, <1>3 DEF Moved
<1>4. there => plugged /\ chain.linked /\ ch.dp = cache.ir
  BY <1>2 DEF Reaches, Instructions, DRPcs
<1>. HIDE DEF s, ch, h, there, t2
<1>5. CASE there /\ ack = "OK"
  <2>1. PICK works \in IF h.power THEN {TRUE} ELSE BOOLEAN :
                 LET h2 == Complete(h, works)
                 IN /\ d = h2.data
                    /\ IF to = "RTI" THEN hw' = Start(h2, ch.dp, req) /\ chain' = Moved(ch, t2, <<>>)
                       ELSE hw' = h2 /\ chain' = Moved(ch, t2, <<[reg |-> "DR", req |-> req]>>)
    BY <1>1, <1>5
  <2>2. works \in BOOLEAN /\ (h.power => works)
    BY <2>1
  <2>3. UNCHANGED waitVars
    BY <1>1, <1>5
  <2>. DEFINE h2 == Complete(h, works)
  <2>4. /\ d = h2.data
        /\ to = "RTI" => hw' = Start(h2, cache.ir, req) /\ chain' = Moved(ch, t2, <<>>)
        /\ to # "RTI" => hw' = h2 /\ chain' = Moved(ch, t2, <<[reg |-> "DR", req |-> req]>>)
    BY <1>4, <1>5, <2>1
  <2>. HIDE DEF h2
  <2>5. /\ to = "RTI" => chain'.held = <<>>
        /\ to # "RTI" => chain'.held = <<[reg |-> "DR", req |-> req]>>
        /\ chain'.linked = chain.linked /\ chain'.pick = ch.pick
    BY <1>3, <2>4
  <2>6. Answered(req, to, d)
    BY <1>4, <1>5, <2>2, <2>3, <2>4, <2>5 DEF Answered, h, h2, ch
  <2>. QED BY <1>5, <2>5, <2>6 DEF ch
<1>6. CASE there /\ ack = "WAIT"
  <2>1. /\ h.pending # <<>> /\ d = h.data /\ excused' = TRUE /\ unnoticed' = (unnoticed \/ Overlooked)
        /\ hw' = h /\ chain' = Moved(ch, t2, <<>>)
    BY <1>1, <1>6
  <2>2. chain'.linked = chain.linked /\ chain'.pick = ch.pick /\ chain'.held = <<>>
    BY <1>3, <2>1
  <2>. QED BY <1>4, <1>6, <2>1, <2>2 DEF Waited, h, ch
<1>7. CASE ~there
  <2>1. /\ ack = "BAD" \/ (plugged /\ ch.pick = "ROUTER")
        /\ hw' = h /\ chain' = Moved(ch, t2, <<>>) /\ UNCHANGED waitVars
    BY <1>1, <1>7
  <2>2. chain'.linked = chain.linked /\ chain'.pick = ch.pick /\ chain'.held = <<>>
    BY <1>3, <2>1
  <2>3. Missed(ack)
    BY <1>7, <2>1, <2>2 DEF Missed, h, ch, there, s
  <2>. QED BY <2>2, <2>3 DEF ch
<1>. QED BY <1>1, <1>5, <1>6, <1>7

LEMMA DummySane == \A ir : Sane(ir, Dummy)
  BY DEF Sane, Dummy

\* What leaves a pause is a read of a block.
LEMMA LeftOK ==
  ASSUME Ranges, Instructions
  PROVE  /\ HwOK(Left(hw, chain))
         /\ ~HoldsDR => Left(hw, chain) = hw
         /\ HoldsDR => Left(hw, chain) = Start(hw, chain.dp, Dummy) /\ Latched(chain) = chain
<1>1. ~HoldsDR => Left(hw, chain) = hw
  BY DEF Left, HoldsDR
<1>2. ASSUME HoldsDR PROVE Left(hw, chain) = Start(hw, chain.dp, Dummy) /\ Latched(chain) = chain
  <2>1. chain.held = <<[reg |-> "DR", req |-> Dummy]>>
    BY <1>2 DEF Instructions
  <2>2. chain.held # <<>> /\ chain.held[1].reg = "DR" /\ chain.held[1].req = Dummy
    BY <2>1
  <2>. QED BY <2>2 DEF Left, Latched
<1>3. HwOK(Start(hw, chain.dp, Dummy))
  BY StartOK, DummySane DEF Ranges
<1>. QED BY <1>1, <1>2, <1>3 DEF Ranges

LEMMA ScanOK ==
  ASSUME Ranges, Instructions, pc \in DRPcs, NEW req, Sane(cache.ir, req), NEW to, NEW ack, NEW d,
         ScanDR(req, to, ack, d)
  PROVE  /\ HwOK(hw')
         /\ chain'.held = <<>> \/ (to # "RTI" /\ ack = "OK" /\ chain'.held = <<[reg |-> "DR", req |-> req]>>)
<1>. DEFINE h == Left(hw, chain)
<1>0. HwOK(h)
  BY LeftOK
<1>1. CASE ack = "OK" /\ Answered(req, to, d)
  <2>1. PICK works \in BOOLEAN : LET h2 == Complete(h, works)
          IN /\ to = "RTI" => hw' = Start(h2, cache.ir, req) /\ chain'.held = <<>>
             /\ to # "RTI" => hw' = h2 /\ chain'.held = <<[reg |-> "DR", req |-> req]>>
    BY <1>1 DEF Answered
  <2>. DEFINE h2 == Complete(h, works)
  <2>. HIDE DEF h
  <2>2. HwOK(h2)
    BY <1>0, CompleteOK
  <2>3. /\ to = "RTI" => hw' = Start(h2, cache.ir, req) /\ chain'.held = <<>>
        /\ to # "RTI" => hw' = h2 /\ chain'.held = <<[reg |-> "DR", req |-> req]>>
    BY <2>1
  <2>. HIDE DEF h2
  <2>4. HwOK(Start(h2, cache.ir, req))
    BY <2>2, StartOK
  <2>. QED BY <1>1, <2>2, <2>3, <2>4
<1>2. CASE Waited(d)
  BY <1>0, <1>2 DEF Waited
<1>3. CASE Missed(ack)
  BY <1>0, <1>3 DEF Missed
<1>. QED BY <1>1, <1>2, <1>3, ScanKinds

-----------------------------------------------------------------------------
(* How a request goes on.                                                  *)

LEMMA StayPlaced ==
  ASSUME Placed, UNCHANGED <<calls, clearing, op>>
  PROVE  Placed' /\ Pos' = Pos /\ call' = call /\ Trs' = Trs
<1>1. Trs' = Trs
  BY DEF Trs
<1>2. Pos' = Pos /\ call' = call
  BY <1>1 DEF Pos, call
<1>. QED BY <1>1, <1>2 DEF Placed

LEMMA NextPlaced ==
  ASSUME Placed, UNCHANGED <<clearing, op>>, Len(calls) # 1, calls' = Tail(calls)
  PROVE  Placed' /\ Pos' = Pos + 1 /\ Pos < Len(Trs) /\ call' = Trs[Pos + 1] /\ Trs' = Trs
<1>1. Trs' = Trs
  BY DEF Trs
<1>2. /\ Pos \in 1..Len(Trs) /\ Len(Trs) \in Nat /\ Trs \in Seq(AnyTransfer)
      /\ Len(calls) = Len(Trs) - Pos + 1
      /\ Pos < Len(Trs) => Tail(calls) = SubSeq(Trs, Pos + 1, Len(Trs)) /\ Tail(calls)[1] = Trs[Pos + 1]
  BY ListFacts, CallFacts
<1>. DEFINE p == Pos  T == Trs
<1>3. p \in Nat /\ p < Len(T) /\ calls' = SubSeq(T, p + 1, Len(T)) /\ calls'[1] = T[p + 1]
  BY <1>2
<1>. HIDE DEF p, T
<1>4. Len(calls') = Len(T) - p
  <2>1. p + 1 \in 1..Len(T) /\ Len(T) \in Nat /\ T \in Seq(AnyTransfer)
    BY <1>2, <1>3 DEF T
  <2>. DEFINE q == p + 1
  <2>2. q \in 1..Len(T) /\ calls' = SubSeq(T, q, Len(T))
    BY <1>3, <2>1
  <2>. HIDE DEF q
  <2>3. Len(calls') = Len(T) - q + 1
    BY <2>1, <2>2, SuffixLemma
  <2>. QED BY <1>3, <2>1, <2>3 DEF q
<1>5. Len(T') - Len(calls') + 1 = p + 1 /\ Len(T) \in Nat /\ T' = T
  <2>1. T' = T /\ Len(T) \in Nat
    BY <1>1, <1>2 DEF T
  <2>2. ASSUME NEW L \in Nat, NEW k \in Int, k = L - p, p \in Nat PROVE L - k + 1 = p + 1
    BY <2>2
  <2>3. Len(T) - p \in Int
    BY <1>3, <2>1
  <2>. QED BY <1>3, <1>4, <2>1, <2>2, <2>3
<1>6. Pos' = p + 1
  BY <1>5 DEF Pos, T
<1>7. Len(calls') \in 1..Len(T) /\ calls' = SubSeq(T, Pos', Len(T))
  BY SMTT(30), <1>3, <1>4, <1>5, <1>6
<1>8. Placed'
  BY <1>1, <1>7 DEF Placed, T
<1>. QED BY <1>1, <1>3, <1>6, <1>8 DEF call, p, T

LEMMA ClearPlaced ==
  ASSUME clearing' = TRUE, calls' = <<ClearCSR>>
  PROVE  Placed' /\ call' = ClearCSR
<1>1. Trs' = <<ClearCSR>>
  BY DEF Trs
<1>2. Len(calls') = 1 /\ Len(Trs') = 1 /\ Pos' = 1
  BY <1>1 DEF Pos
<1>3. calls' = SubSeq(Trs', 1, 1)
  <2>. DEFINE c == ClearCSR
  <2>. HIDE DEF c
  <2>1. <<c>> = SubSeq(<<c>>, 1, 1)
    OBVIOUS
  <2>. QED BY <1>1, <2>1 DEF c
<1>. QED BY <1>2, <1>3 DEF Placed, call

LEMMA InitPlaced ==
  ASSUME clearing' = FALSE, op'.t = "init", calls' = InitTransfers
  PROVE  Placed' /\ Pos' = 1 /\ call' = ClearCSR
<1>1. Trs' = InitTransfers
  BY DEF Trs
<1>2. Len(calls') = 10 /\ Len(Trs') = 10 /\ Pos' = 1
  BY <1>1, InitTransfersType DEF Pos
<1>3. calls' = SubSeq(Trs', 1, 10)
  <2>. DEFINE c == InitTransfers
  <2>1. c \in Seq(AnyTransfer) /\ Len(c) = 10
    BY InitTransfersType
  <2>. HIDE DEF c
  <2>2. c = SubSeq(c, 1, 10)
    BY <2>1, SubSeqProperties
  <2>. QED BY <1>1, <2>2 DEF c
<1>4. call' = ClearCSR
  <2>1. InitTransfers[1] = ClearCSR
    BY InitTransferFacts
  <2>. QED BY <2>1 DEF call
<1>. QED BY <1>2, <1>3, <1>4 DEF Placed

LEMMA AccessPlaced ==
  ASSUME clearing' = FALSE, op' \in Requests, calls' = TransfersOf(op')
  PROVE  Placed' /\ Pos' = 1 /\ call' = TransfersOf(op')[1] /\ op'.t \notin {"none", "init", "reset"}
<1>1. op'.t \notin {"none", "init", "reset"}
  BY RequestsAssumption DEF IsRequest
<1>2. Trs' = TransfersOf(op')
  BY <1>1 DEF Trs
<1>. DEFINE T == TransfersOf(op')
<1>3. T \in Seq(AnyTransfer) /\ Len(T) \in Nat \ {0}
  <2>1. T \in Seq(AnyTransfer) /\ Len(T) = 4 * Groups(op') /\ Groups(op') \in Nat \ {0}
    BY PlanFacts
  <2>. HIDE DEF T
  <2>. QED BY <2>1
<1>. HIDE DEF T
<1>4. T = SubSeq(T, 1, Len(T))
  BY <1>3, SubSeqProperties
<1>5. calls' = T /\ Trs' = T
  BY <1>2 DEF T
<1>6. Pos' = 1
  BY <1>3, <1>5 DEF Pos
<1>. QED BY <1>1, <1>3, <1>4, <1>5, <1>6 DEF Placed, call, T

-----------------------------------------------------------------------------
(* The group a request is at, and what it has collected.                   *)

\* Where in a request's groups the next transfer is.
AtGroup(m, j) ==
  /\ ~clearing /\ op.t # "init" /\ m \in 1..Groups(op) /\ j \in 1..4 /\ Pos = 4 * (m - 1) + j

Kept(m) == m <= Groups(op) /\ TransfersOf(op)[4 * m].v = Keep

LEMMA GroupCall ==
  ASSUME Placed, NEW m, NEW j, AtGroup(m, j)
  PROVE  /\ op \in Requests /\ op.a \in Nat /\ m \in Nat /\ j \in Nat
         /\ Frontier(op)[m - 1] \in Nat /\ Frontier(op)[m - 1] >= op.a
         /\ Frontier(op)[m] \in Nat /\ Frontier(op)[m] >= Frontier(op)[m - 1]
         /\ j < 4 => /\ call.t = "acc" /\ ~call.rnw /\ call.vals = <<>> /\ call.v # Keep
                     /\ (j = 2 <=> call.ap) /\ (j # 2 => call.check)
         /\ j = 4 => call = TransfersOf(op)[4 * m] /\ IsMain(op, m, call) /\ call.ap /\ call.check
         /\ Kept(m) => op.t \in Stores /\ (j = 4 => call.t = "acc" /\ ~call.rnw)
         /\ Kept(m + 1) => op.t \in Stores /\ (j = 4 => call.t = "acc" /\ call.rnw)
         /\ op.t \in Loads => op.t \notin Stores
<1>1. /\ op \in Requests /\ Trs = TransfersOf(op) /\ call = Trs[Pos] /\ m \in 1..Groups(op) /\ j \in 1..4
      /\ Pos = 4 * (m - 1) + j /\ Groups(op) \in Nat \ {0}
  BY ListFacts, CallFacts DEF AtGroup
<1>2. call = TransfersOf(op)[4 * (m - 1) + j]
  BY <1>1
<1>. DEFINE T == TransfersOf(op)  x == Frontier(op)[m - 1]  y == Frontier(op)[m]  c == call
<1>3. /\ x \in Nat /\ x >= op.a /\ y \in Nat /\ y >= x /\ op.a \in Nat
      /\ IsMain(op, m, T[4 * m])
      /\ T[4 * m].v = Keep => m > 1 /\ op.t \in Stores /\ T[4 * (m - 1)].t = "acc" /\ T[4 * (m - 1)].rnw
  BY <1>1, GroupFacts
<1>4. ASSUME j < 4
      PROVE  /\ c.t = "acc" /\ ~c.rnw /\ c.vals = <<>> /\ c.v # Keep
             /\ (j = 2 <=> c.ap) /\ (j # 2 => c.check)
  <2>. DEFINE e == T[4 * (m - 1) + j]
  <2>1. /\ e.t = "acc" /\ ~e.rnw /\ e.vals = <<>> /\ e.v # Keep
        /\ (j = 2 <=> e.ap) /\ (j # 2 => e.check)
    BY ZenonT(30), <1>1, <1>4, SetupFacts
  <2>2. c = e
    BY <1>2
  <2>. HIDE DEF e, c
  <2>. QED BY <2>1, <2>2
<1>5. ASSUME j = 4 PROVE c = T[4 * m] /\ IsMain(op, m, c) /\ c.ap /\ c.check
  <2>1. 4 * (m - 1) + 4 = 4 * m
    BY <1>1
  <2>2. c = T[4 * m]
    BY <1>2, <1>5, <2>1
  <2>3. c.ap /\ c.check
    BY <1>3, <2>2 DEF IsMain
  <2>. QED BY <1>3, <2>2, <2>3
<1>6. ASSUME Kept(m) PROVE op.t \in Stores /\ (j = 4 => c.t = "acc" /\ ~c.rnw)
  <2>1. T[4 * m].v = Keep
    BY <1>6 DEF Kept
  <2>2. op.t \in Stores
    BY <1>3, <2>1
  <2>3. ASSUME j = 4 PROVE c.t = "acc" /\ ~c.rnw
    <3>1. c.v = -1 /\ IsMain(op, m, c)
      BY <1>5, <2>1, <2>3 DEF Keep
    <3>2. op.t \notin Loads
      BY <2>2 DEF Loads, Stores
    <3>. HIDE DEF c
    <3>. QED BY <3>1, <3>2 DEF IsMain
  <2>. QED BY <2>2, <2>3
<1>7. ASSUME Kept(m + 1) PROVE op.t \in Stores /\ (j = 4 => c.t = "acc" /\ c.rnw)
  <2>. DEFINE k == m + 1
  <2>1. k \in 1..Groups(op) /\ T[4 * k].v = Keep /\ k - 1 = m
    BY <1>1, <1>7 DEF Kept
  <2>. HIDE DEF k
  <2>2. op.t \in Stores /\ T[4 * (k - 1)].t = "acc" /\ T[4 * (k - 1)].rnw
    BY <1>1, <2>1, GroupFacts
  <2>. QED BY <1>5, <2>1, <2>2
<1>8. op.t \in Loads => op.t \notin Stores
  BY DEF Loads, Stores
<1>. QED BY <1>1, <1>3, <1>4, <1>5, <1>6, <1>7, <1>8

\* The same, with the numbers given names.
LEMMA CollectedIs ==
  ASSUME NEW m, NEW j, NEW x, NEW y, x = Frontier(op)[m - 1] - op.a, y = Frontier(op)[m] - op.a
  PROVE  /\ Collected(m, j) <=>
              /\ op.t \in Loads =>
                   /\ j = 4 /\ pc \in CsrPcs => Len(data) = y
                   /\ j = 4 /\ pc \in {"cmd", "resp"} => Len(data) >= x
                   /\ pc = "get" => Len(data) = x + n - 1
                   /\ j < 4 \/ pc \in {"ir", "first"} => Len(data) = x
              /\ Kept(m) \/ (j = 4 /\ pc \in CsrPcs /\ Kept(m + 1)) => Len(data) = 1
         /\ op' = op => (Collected(m, j)' <=>
              /\ op.t \in Loads =>
                   /\ j = 4 /\ pc' \in CsrPcs => Len(data') = y
                   /\ j = 4 /\ pc' \in {"cmd", "resp"} => Len(data') >= x
                   /\ pc' = "get" => Len(data') = x + n' - 1
                   /\ j < 4 \/ pc' \in {"ir", "first"} => Len(data') = x
              /\ Kept(m) \/ (j = 4 /\ pc' \in CsrPcs /\ Kept(m + 1)) => Len(data') = 1)
  BY DEF Collected, Kept

-----------------------------------------------------------------------------
(* A transfer goes on, is done or fails.                                   *)

TransferPcs == {"cmd", "resp", "first", "get", "put", "final"}

\* What a step leaves for the rest of the request.
Goes ==
  /\ pc' \in SessionPcs \cup {"idle"} /\ i' \in 0..(Retries - 1) /\ conn' \in {"off", "connecting", "on"}
  /\ pc' \in TransferPcs => cache.ir = Instruction'
  /\ pc' \in {"csr", "csrResp"} => cache.ir = "DPACC"
  /\ data' \in Seq(Word) /\ Sessions'

LEMMA ScanWork ==
  ASSUME IInv, Work, pc \in DRPcs, NEW req, Sane(cache.ir, req), NEW to \in Ends, NEW ack, NEW d,
         ScanDR(req, to, ack, d), UNCHANGED scanRest, Goes,
         to # "RTI" /\ ack = "OK" => req = Dummy /\ pc' \in {"get", "csrIR"} /\ cache.ir = "APACC"
  PROVE  Work'
<1>1. cache' = cache /\ UNCHANGED <<synced, kills, op>>
  BY DEF scanRest, envVars
<1>2. Latched(chain').dp = Latched(chain).dp
  BY <1>1, ScanDRLemma DEF IInv
<1>3. /\ HwOK(hw')
      /\ chain'.held = <<>> \/ (to # "RTI" /\ ack = "OK" /\ chain'.held = <<[reg |-> "DR", req |-> req]>>)
  BY ScanOK DEF Work
<1>4. Ranges'
  <2>1. pc' \in Pcs
    BY DEF Goes, SessionPcs, Pcs
  <2>. QED BY <1>1, <1>3, <2>1 DEF Work, Ranges, Goes
<1>5. HoldsDR' => chain'.held = <<[reg |-> "DR", req |-> Dummy]>> /\ pc' \in {"get", "csrIR"} /\ cache'.ir = "APACC"
  BY <1>1, <1>3 DEF HoldsDR
<1>6. Latched(chain').dp \in {"unknown", cache'.ir}
  BY <1>1, <1>2 DEF Work, Instructions
<1>7. Instructions'
  <2>1. pc' \notin {"dpInit", "idIR", "idDR"}
    BY DEF Goes, SessionPcs
  <2>2. pc' \in TransferPcs => cache'.ir = Instruction'
    BY <1>1 DEF Goes
  <2>3. pc' \in {"csr", "csrResp"} => cache'.ir = "DPACC"
    BY <1>1 DEF Goes
  <2>. QED BY <1>5, <1>6, <2>1, <2>2, <2>3 DEF Instructions, TransferPcs
<1>. QED BY <1>4, <1>7 DEF Work, Goes

\* A request ends.
LEMMA ReturnGoes ==
  ASSUME Work, NEW r, Return(r), data' \in Seq(Word)
  PROVE  Goes
<1>1. pc' = "idle" /\ i' = i /\ conn' \in {conn, "on", "off"}
  BY DEF Return
<1>. QED BY <1>1 DEF Goes, Work, Ranges, Sessions, SessionPcs, TransferPcs

\* It goes on with the same transfer.
LEMMA StayGoes ==
  ASSUME Work, pc \in SessionPcs, UNCHANGED <<calls, clearing, op, conn>>, pc' \in SessionPcs,
         i' \in 0..(Retries - 1), data' \in Seq(Word), Fits',
         pc' \in TransferPcs => cache.ir = Instruction,
         pc' \in {"csr", "csrResp"} => cache.ir = "DPACC",
         \A m, j : AtGroup(m, j) => Collected(m, j)'
  PROVE  Goes
<1>1. Placed
  BY DEF Work, Sessions
<1>2. Placed' /\ Pos' = Pos /\ call' = call /\ Trs' = Trs
  BY <1>1, StayPlaced
<1>3. Instruction' = Instruction
  BY <1>2 DEF Instruction
<1>4. Sessions'
  <2>. SUFFICES ASSUME ~clearing', op'.t # "init", NEW m \in 1..Groups(op'), NEW j \in 1..4, Pos' = 4 * (m - 1) + j
                PROVE Collected(m, j)'
    BY <1>2 DEF Sessions
  <2>1. AtGroup(m, j)
    BY <1>2 DEF AtGroup
  <2>. QED BY <2>1
<1>. QED BY <1>3, <1>4 DEF Goes, Work, Ranges

\* It goes on with the next.
LEMMA NextGoes ==
  ASSUME Work, pc \in CsrPcs, UNCHANGED op, data' = data, NextTransfer
  PROVE  Goes
<1>1. Placed /\ data \in Seq(Word)
  BY DEF Work, Sessions, Ranges, SessionPcs, CsrPcs
<1>2. CASE Len(calls) = 1
  BY <1>1, <1>2, ReturnGoes DEF NextTransfer
<1>3. CASE Len(calls) # 1
  <2>1. /\ calls' = Tail(calls) /\ i' = 0 /\ n' = 1 /\ UNCHANGED <<clearing, result, conn>>
        /\ pc' = IF calls'[1].t = "csr" THEN "csrIR" ELSE "ir"
    BY <1>3 DEF NextTransfer
  <2>2. Placed' /\ Pos' = Pos + 1 /\ Pos < Len(Trs) /\ call' = Trs[Pos + 1] /\ Trs' = Trs
    BY <1>1, <1>3, <2>1, NextPlaced
  <2>3. Fits'
    BY <2>1 DEF Fits, call, CsrPcs
  <2>4. ASSUME ~clearing', op'.t # "init", NEW m \in 1..Groups(op'), NEW j \in 1..4, Pos' = 4 * (m - 1) + j
        PROVE Collected(m, j)'
    <3>1. op' = op /\ ~clearing /\ op.t # "init"
      BY <2>1, <2>4
    <3>2. PICK k \in 1..Groups(op), l \in 1..4 : Pos = 4 * (k - 1) + l
      BY <1>1, <3>1, CallInGroup
    <3>3. AtGroup(k, l) /\ Collected(k, l)
      BY <3>1, <3>2 DEF AtGroup, Work, Sessions, SessionPcs, CsrPcs
    <3>4. /\ l < 4 => m = k /\ j = l + 1
          /\ l = 4 => m = k + 1 /\ j = 1
      <4>1. 4 * (m - 1) + j = 4 * (k - 1) + l + 1 /\ m \in Int /\ k \in Int
        BY <2>2, <2>4, <3>2
      <4>. QED BY <4>1
    <3>5. op.a \in Nat /\ Frontier(op)[k - 1] \in Nat /\ Frontier(op)[k] \in Nat /\ k \in Nat
      BY <1>1, <3>3, GroupCall
    <3>6. PICK x, y : x = Frontier(op)[k - 1] - op.a /\ y = Frontier(op)[k] - op.a
      OBVIOUS
    <3>7. /\ op.t \in Loads => (l = 4 => Len(data) = y) /\ (l < 4 => Len(data) = x)
          /\ Kept(k) \/ (l = 4 /\ Kept(k + 1)) => Len(data) = 1
      BY <3>3, <3>6, CollectedIs
    <3>8. pc' = "ir"
      <4>1. call' = TransfersOf(op)[4 * (m - 1) + j]
        BY <2>2, <2>4, <3>1 DEF Trs
      <4>2. call'.t # "csr"
        <5>1. Placed' /\ AtGroup(m, j)'
          BY <2>2, <2>4 DEF AtGroup
        <5>2. call'.t # "csr"
          <6>1. CASE j < 4
            <7>. DEFINE c == TransfersOf(op)[4 * (m - 1) + j]
            <7>1. c.t = "acc"
              BY <3>1, <2>4, <6>1, <1>1, CallInGroup, SetupFacts
            <7>. QED BY <4>1, <7>1
          <6>2. CASE j = 4
            <7>1. op \in Requests /\ m \in 1..Groups(op)
              BY <1>1, <3>1, <2>4, CallInGroup
            <7>. DEFINE c == TransfersOf(op)[4 * m]
            <7>2. IsMain(op, m, c)
              BY <7>1, GroupFacts
            <7>3. 4 * (m - 1) + j = 4 * m
              BY <6>2, <7>1
            <7>4. call' = c
              BY <4>1, <7>3
            <7>. HIDE DEF c
            <7>5. c.t # "csr"
              BY <7>2 DEF IsMain
            <7>. QED BY <7>4, <7>5
          <6>. QED BY <6>1, <6>2
        <5>. QED BY <5>2
      <4>. QED BY <2>1, <4>2 DEF call
    <3>9. CASE l < 4
      <4>1. m = k /\ j = l + 1
        BY <3>4, <3>9
      <4>2. /\ op.t \in Loads => Len(data') = x
            /\ Kept(k) => Len(data') = 1
        BY <3>7, <3>9
      <4>3. Collected(k, j)'
        BY <3>1, <3>6, <3>8, <4>2, CollectedIs DEF CsrPcs
      <4>. QED BY <4>1, <4>3
    <3>10. CASE l = 4
      <4>1. m = k + 1 /\ j = 1 /\ m - 1 = k
        BY <3>4, <3>5, <3>10
      <4>2. /\ op.t \in Loads => Len(data') = y
            /\ Kept(m) => Len(data') = 1
        BY <3>7, <3>10, <4>1
      <4>3. PICK z : z = Frontier(op)[m] - op.a
        OBVIOUS
      <4>4. y = Frontier(op)[m - 1] - op.a
        BY <3>6, <4>1
      <4>5. Collected(m, j)'
        BY <3>1, <3>8, <4>1, <4>2, <4>3, <4>4, CollectedIs DEF CsrPcs
      <4>. QED BY <4>5
    <3>. QED BY <3>9, <3>10
  <2>5. Sessions'
    BY <2>2, <2>3, <2>4 DEF Sessions
  <2>6. pc' \in {"ir", "csrIR"}
    BY <2>1
  <2>7. 0 \in 0..(Retries - 1)
    BY JtagDpAssumption
  <2>. QED BY <1>1, <2>1, <2>5, <2>6, <2>7 DEF Goes, Work, Ranges, SessionPcs, TransferPcs
<1>. QED BY <1>2, <1>3

-----------------------------------------------------------------------------
(* The single accesses.                                                    *)

\* What Work says where a transfer is at work.
LEMMA SessionFacts ==
  ASSUME Work, pc \in SessionPcs
  PROVE  /\ Placed /\ Fits /\ data \in Seq(Word) /\ i \in 0..(Retries - 1) /\ 0 \in 0..(Retries - 1)
         /\ \A m, j : AtGroup(m, j) => Collected(m, j)
         /\ ~clearing /\ op.t # "init" =>
              \A m \in 1..Groups(op), j \in 1..4 : Pos = 4 * (m - 1) + j => Collected(m, j)
<1>1. 0 \in 0..(Retries - 1)
  BY JtagDpAssumption
<1>. QED BY <1>1 DEF Work, Sessions, Ranges, AtGroup

LEMMA CmdGoes == ASSUME Work, NEW ack \in Acks, NEW d \in Word, pc = "cmd", UNCHANGED <<op, data, cache>>,
                   IF call.check THEN pc' = "resp" /\ UNCHANGED <<i, n, calls, clearing, result, conn>>
                   ELSE Again("cmd", Goto("csrIR"))
                 PROVE Goes
<1>1. /\ Placed /\ Fits /\ data \in Seq(Word) /\ i \in 0..(Retries - 1) /\ 0 \in 0..(Retries - 1)
      /\ \A m, j : AtGroup(m, j) => Collected(m, j)
  BY SessionFacts DEF SessionPcs
<1>2. /\ UNCHANGED <<calls, clearing, conn, n>> /\ i' \in 0..(Retries - 1)
      /\ pc' \in {"resp", "cmd", "csrIR"} /\ (call.check => pc' = "resp")
  <2>1. CASE call.check
    BY <1>1, <2>1
  <2>2. CASE ~call.check
    BY <1>1, <2>2, JtagDpAssumption DEF Again, Goto
  <2>. QED BY <2>1, <2>2
<1>3. Placed' /\ call' = call
  BY <1>1, <1>2, StayPlaced
<1>4. call.t = "acc" /\ cache.ir = Instruction
  BY <1>1 DEF Fits, Work, Instructions
<1>5. Fits'
  BY <1>2, <1>3, <1>4 DEF Fits, CsrPcs
<1>6. ASSUME NEW m, NEW j, AtGroup(m, j) PROVE Collected(m, j)'
  <2>1. Collected(m, j) /\ (j = 4 => call.check) /\ op' = op
    BY <1>1, <1>6, GroupCall
  <2>2. PICK x, y : x = Frontier(op)[m - 1] - op.a /\ y = Frontier(op)[m] - op.a
    OBVIOUS
  <2>3. /\ op.t \in Loads =>
             /\ j = 4 => Len(data) >= x
             /\ j < 4 => Len(data) = x
        /\ Kept(m) => Len(data) = 1
    BY <2>1, <2>2, CollectedIs
  <2>. QED BY <1>2, <2>1, <2>2, <2>3, CollectedIs DEF CsrPcs
<1>. QED BY <1>1, <1>2, <1>4, <1>5, <1>6, StayGoes DEF SessionPcs

LEMMA RespGoes == ASSUME Work, NEW ack \in Acks, NEW d \in Word, pc = "resp", UNCHANGED <<op, cache>>,
                    data' = IF call.rnw THEN SubSeq(data, 1, call.v) \o <<d>> ELSE data,
                    CASE ack = "BAD"  -> Return("failure")
                      [] ack = "WAIT" -> Again("cmd", Goto("csrIR"))
                      [] ack = "OK"   -> Goto("csrIR")
                  PROVE Goes
<1>1. /\ Placed /\ Fits /\ data \in Seq(Word) /\ i \in 0..(Retries - 1) /\ 0 \in 0..(Retries - 1)
      /\ \A m, j : AtGroup(m, j) => Collected(m, j)
  BY SessionFacts DEF SessionPcs
<1>2. \/ Return("failure")
      \/ UNCHANGED <<calls, clearing, conn, n>> /\ i' \in 0..(Retries - 1) /\ pc' \in {"cmd", "csrIR"}
  <2>1. ack = "BAD" => Return("failure")
    BY DEF Acks
  <2>2. ack = "WAIT" => Again("cmd", Goto("csrIR"))
    BY DEF Acks
  <2>3. ack = "OK" => Goto("csrIR")
    BY DEF Acks
  <2>4. Goto("csrIR") => UNCHANGED <<calls, clearing, conn, n>> /\ i' \in 0..(Retries - 1) /\ pc' = "csrIR"
    BY <1>1 DEF Goto
  <2>5. Again("cmd", Goto("csrIR")) =>
          UNCHANGED <<calls, clearing, conn, n>> /\ i' \in 0..(Retries - 1) /\ pc' \in {"cmd", "csrIR"}
    BY <1>1, <2>4, JtagDpAssumption DEF Again
  <2>. QED BY <2>1, <2>2, <2>3, <2>4, <2>5 DEF Acks
<1>4. call.t = "acc" /\ cache.ir = Instruction
  BY <1>1 DEF Fits, Work, Instructions
\* How much of what was read before stays.
<1>5. ASSUME call.rnw
      PROVE  /\ call.v \in 0..Len(data)
             /\ \A m, j : AtGroup(m, j) =>
                  /\ j = 4 /\ (op.t \in Loads => call.v = Frontier(op)[m - 1] - op.a /\ Frontier(op)[m] = Frontier(op)[m - 1] + 1)
                  /\ op.t \in Stores => call.v = 0
  <2>1. CASE clearing
    <3>1. Trs = <<ClearCSR>> /\ Pos \in 1..1 /\ call = Trs[Pos]
      BY <1>1, <2>1, ListFacts, CallFacts
    <3>2. Pos = 1
      BY <3>1
    <3>3. call = ClearCSR
      BY <3>1, <3>2
    <3>. QED BY <1>5, <3>3 DEF ClearCSR, Transfer
  <2>2. CASE ~clearing /\ op.t = "init"
    <3>1. Pos \in 1..10 /\ call = InitTransfers[Pos]
      BY <1>1, <2>2, ListFacts, CallFacts
    <3>. DEFINE p == Pos  c == call
    <3>2. p \in 1..10 /\ c = InitTransfers[p] /\ c.rnw
      BY <1>5, <3>1
    <3>. HIDE DEF p, c
    <3>3. c.v = 0
      BY <3>2, InitTransferFacts DEF Transfer, ClearCSR, SelectBank, ReadAP, WriteAP
    <3>4. call.v = 0
      BY <3>3 DEF c
    <3>. QED BY <1>1, <2>2, <3>4 DEF AtGroup
  <2>3. CASE ~clearing /\ op.t # "init"
    <3>1. ASSUME NEW m, NEW j, AtGroup(m, j)
          PROVE  /\ j = 4 /\ (op.t \in Loads => call.v = Frontier(op)[m - 1] - op.a /\ Frontier(op)[m] = Frontier(op)[m - 1] + 1)
                 /\ op.t \in Stores => call.v = 0
                 /\ call.v \in 0..Len(data)
      <4>1. j = 4
        <5>1. j < 4 => ~call.rnw
          BY <1>1, <3>1, GroupCall
        <5>. QED BY <1>5, <3>1, <5>1 DEF AtGroup
      <4>2. IsMain(op, m, call) /\ (op.t \in Loads => op.t \notin Stores)
        BY <1>1, <3>1, <4>1, GroupCall
      <4>3. \/ op.t \in Loads /\ call.v = Frontier(op)[m - 1] - op.a /\ Frontier(op)[m] = Frontier(op)[m - 1] + 1
            \/ op.t \in Stores /\ call.v = 0
        BY <1>4, <1>5, <4>2 DEF IsMain
      <4>4. op.a \in Nat /\ Frontier(op)[m - 1] \in Nat /\ Frontier(op)[m - 1] >= op.a
        BY <1>1, <3>1, GroupCall
      <4>5. op.t \in Loads => Len(data) >= Frontier(op)[m - 1] - op.a
        BY <1>1, <3>1, <4>1 DEF Collected
      <4>6. call.v \in 0..Len(data)
        <5>1. Len(data) \in Nat
          BY <1>1
        <5>2. PICK x \in Nat : x = Frontier(op)[m - 1] - op.a
          BY <4>4
        <5>. QED BY <4>3, <4>5, <5>1, <5>2
      <4>. QED BY <4>1, <4>2, <4>3, <4>6
    <3>2. \E m, j : AtGroup(m, j)
      BY <1>1, <2>3, CallInGroup DEF AtGroup
    <3>. QED BY <3>1, <3>2
  <2>. QED BY <2>1, <2>2, <2>3
<1>6. /\ data' \in Seq(Word)
      /\ call.rnw => Len(data') = call.v + 1
      /\ ~call.rnw => data' = data
  <2>1. CASE call.rnw
    <3>. DEFINE s == SubSeq(data, 1, call.v)
    <3>1. s \in Seq(Word) /\ Len(s) = call.v
      <4>1. PICK v \in 0..Len(data) : v = call.v
        BY <1>5, <2>1
      <4>2. SubSeq(data, 1, v) \in Seq(Word) /\ Len(SubSeq(data, 1, v)) = v - 1 + 1
        BY <1>1, <4>1, SubSeqProperties
      <4>. QED BY <4>1, <4>2
    <3>2. data' = s \o <<d>>
      BY <2>1
    <3>. HIDE DEF s
    <3>. QED BY <2>1, <3>1, <3>2
  <2>. QED BY <1>1, <2>1
<1>7. CASE Return("failure")
  BY <1>6, <1>7, ReturnGoes
<1>8. CASE UNCHANGED <<calls, clearing, conn, n>> /\ i' \in 0..(Retries - 1) /\ pc' \in {"cmd", "csrIR"}
  <2>1. Placed' /\ call' = call
    BY <1>1, <1>8, StayPlaced
  <2>2. Fits'
    BY <1>4, <1>8, <2>1 DEF Fits, CsrPcs
  <2>3. ASSUME NEW m, NEW j, AtGroup(m, j) PROVE Collected(m, j)'
    <3>1. /\ Collected(m, j) /\ op' = op /\ m \in Nat /\ j \in Nat /\ op.a \in Nat
          /\ Frontier(op)[m - 1] \in Nat /\ Frontier(op)[m] \in Nat
          /\ j < 4 => ~call.rnw
          /\ Kept(m) => op.t \in Stores /\ (j = 4 => ~call.rnw)
          /\ Kept(m + 1) => op.t \in Stores /\ (j = 4 => call.rnw)
          /\ op.t \in Loads /\ j = 4 => call.rnw
          /\ op.t \in Loads => op.t \notin Stores
          /\ j <= 4
      <4>1. op.t \in Loads /\ j = 4 => call.rnw
        <5>1. j = 4 => IsMain(op, m, call)
          BY <1>1, <2>3, GroupCall
        <5>. QED BY <5>1 DEF IsMain, Loads, Stores
      <4>2. /\ Collected(m, j) /\ op' = op /\ j <= 4
        BY <1>1, <1>8, <2>3, <2>1 DEF AtGroup
      <4>. QED BY <1>1, <2>3, <4>1, <4>2, GroupCall
    <3>2. PICK x, y : x = Frontier(op)[m - 1] - op.a /\ y = Frontier(op)[m] - op.a
      OBVIOUS
    <3>3. /\ op.t \in Loads =>
               /\ j = 4 => Len(data) >= x
               /\ j < 4 => Len(data) = x
          /\ Kept(m) => Len(data) = 1
      BY <3>1, <3>2, CollectedIs
    <3>4. /\ op.t \in Loads =>
               /\ j = 4 => Len(data') = y /\ Len(data') >= x
               /\ j < 4 => Len(data') = x
      <4>1. ASSUME op.t \in Loads, j = 4 PROVE Len(data') = y /\ Len(data') >= x
        <5>1. call.rnw /\ call.v = x /\ Frontier(op)[m] = Frontier(op)[m - 1] + 1
          BY <1>5, <2>3, <3>1, <3>2, <4>1
        <5>2. Len(data') = x + 1 /\ x \in Int /\ y = x + 1
          <6>1. Len(data') = x + 1 /\ op.a \in Int /\ Frontier(op)[m - 1] \in Int /\ Frontier(op)[m] \in Int
            BY <1>6, <3>1, <5>1
          <6>2. x \in Int /\ y = x + 1
            BY <3>2, <5>1, <6>1, Difference
          <6>. QED BY <6>1, <6>2
        <5>3. x + 1 >= x
          BY <5>2
        <5>. QED BY <5>2, <5>3
      <4>. QED BY <1>6, <3>1, <3>3, <4>1
    <3>5. /\ Kept(m) => Len(data') = 1
          /\ j = 4 /\ Kept(m + 1) => Len(data') = 1
      <4>1. ASSUME j = 4, Kept(m + 1) PROVE Len(data') = 1
        <5>1. call.rnw /\ call.v = 0
          BY <1>5, <2>3, <3>1, <4>1
        <5>. QED BY <1>6, <5>1
      <4>2. ASSUME Kept(m) PROVE Len(data') = 1
        <5>1. ~call.rnw
          BY <3>1, <4>2
        <5>. QED BY <1>6, <3>3, <4>2, <5>1
      <4>. QED BY <4>1, <4>2
    <3>. QED BY <1>8, <3>1, <3>2, <3>4, <3>5, CollectedIs DEF CsrPcs
  <2>. QED BY <1>1, <1>4, <1>6, <1>8, <2>2, <2>3, StayGoes DEF SessionPcs
<1>. QED BY <1>2, <1>7, <1>8

-----------------------------------------------------------------------------
(* The pipelined blocks.                                                   *)

\* A pipelined transfer is the last of its group.
LEMMA BlockCall ==
  ASSUME Work, pc \in SessionPcs, call.t \in {"piper", "pipew"}
  PROVE  /\ \E m, j : AtGroup(m, j)
         /\ \A m, j : AtGroup(m, j) =>
              /\ j = 4 /\ IsMain(op, m, call) /\ ~Kept(m) /\ ~Kept(m + 1) /\ m \in Nat /\ op.a \in Nat
              /\ Frontier(op)[m - 1] \in Nat /\ Frontier(op)[m] \in Nat
              /\ Len(call.vals) = Frontier(op)[m] - Frontier(op)[m - 1] /\ Len(call.vals) \in Nat \ {0}
              /\ call.t = "piper" => op.t \in Loads
              /\ call.t = "pipew" => op.t \in Stores /\ op.t \notin Loads /\ call.vals \in Seq(Word)
         /\ call.ap /\ call.a = 12 /\ call.v = 0 /\ (call.rnw <=> call.t = "piper")
<1>1. Placed
  BY SessionFacts
<1>2. ~clearing /\ op.t # "init"
  <2>1. CASE clearing
    <3>1. Trs = <<ClearCSR>> /\ Pos \in 1..1 /\ call = Trs[Pos]
      BY <1>1, <2>1, ListFacts, CallFacts
    <3>2. Pos = 1
      BY <3>1
    <3>. QED BY <3>1, <3>2 DEF ClearCSR, Transfer
  <2>2. CASE ~clearing /\ op.t = "init"
    <3>1. Pos \in 1..10 /\ call = InitTransfers[Pos]
      BY <1>1, <2>2, ListFacts, CallFacts
    <3>. DEFINE p == Pos  c == call
    <3>2. p \in 1..10 /\ c = InitTransfers[p]
      BY <3>1
    <3>. HIDE DEF p, c
    <3>3. c.t \in {"acc", "csr"}
      BY <3>2, InitTransferFacts DEF Transfer, ClearCSR, SelectBank, ReadAP, WriteAP
    <3>. QED BY <3>3 DEF c
  <2>. QED BY <2>1, <2>2
<1>3. \E m, j : AtGroup(m, j)
  BY <1>1, <1>2, CallInGroup DEF AtGroup
<1>4. ASSUME NEW m, NEW j, AtGroup(m, j)
      PROVE   /\ j = 4 /\ IsMain(op, m, call) /\ ~Kept(m) /\ ~Kept(m + 1) /\ m \in Nat /\ op.a \in Nat
              /\ Frontier(op)[m - 1] \in Nat /\ Frontier(op)[m] \in Nat
              /\ Len(call.vals) = Frontier(op)[m] - Frontier(op)[m - 1] /\ Len(call.vals) \in Nat \ {0}
              /\ call.t = "piper" => op.t \in Loads
              /\ call.t = "pipew" => op.t \in Stores /\ op.t \notin Loads /\ call.vals \in Seq(Word)
              /\ call.ap /\ call.a = 12 /\ call.v = 0 /\ (call.rnw <=> call.t = "piper")
  <2>1. /\ j < 4 => call.t = "acc"
        /\ j = 4 => IsMain(op, m, call)
        /\ Kept(m) => (j = 4 => call.t = "acc")
        /\ Kept(m + 1) => (j = 4 => call.t = "acc")
        /\ m \in Nat /\ op.a \in Nat /\ j \in 1..4 /\ Frontier(op)[m - 1] \in Nat /\ Frontier(op)[m] \in Nat
        /\ op.t \in Loads => op.t \notin Stores
    BY <1>1, <1>4, GroupCall DEF AtGroup
  <2>2. j = 4 /\ IsMain(op, m, call) /\ ~Kept(m) /\ ~Kept(m + 1)
    BY <2>1
  <2>. DEFINE x == Frontier(op)[m - 1]  y == Frontier(op)[m]
  <2>3. /\ Len(call.vals) = y - x /\ y > x
        /\ call.t = "piper" => op.t \in Loads /\ call.rnw
        /\ call.t = "pipew" => op.t \in Stores /\ call.vals \in Seq(Word) /\ ~call.rnw
        /\ call.ap /\ call.a = 12 /\ call.v = 0
    BY <2>2 DEF IsMain
  <2>4. y - x \in Nat \ {0}
    BY <2>1, <2>3
  <2>. QED BY <2>1, <2>2, <2>3, <2>4
<1>. QED BY <1>3, <1>4

LEMMA FirstGoes ==
  ASSUME Work, NEW ack \in Acks, pc = "first", UNCHANGED <<op, data, cache>>,
         CASE ack = "BAD"  -> Return("failure")
           [] ack = "WAIT" -> Again("first", Return("failure"))
           [] ack = "OK"   -> Goto("get")
  PROVE  Goes
<1>1. /\ Placed /\ Fits /\ data \in Seq(Word) /\ i \in 0..(Retries - 1) /\ 0 \in 0..(Retries - 1)
      /\ \A m, j : AtGroup(m, j) => Collected(m, j)
  BY SessionFacts DEF SessionPcs
<1>2. Return("failure") \/ (UNCHANGED <<calls, clearing, conn, n>> /\ i' \in 0..(Retries - 1) /\ pc' \in {"first", "get"})
  <2>1. ack = "BAD" => Return("failure")
    BY DEF Acks
  <2>2. ack = "WAIT" => Again("first", Return("failure"))
    BY DEF Acks
  <2>3. ack = "OK" => Goto("get")
    BY DEF Acks
  <2>. QED BY <1>1, <2>1, <2>2, <2>3, JtagDpAssumption DEF Acks, Again, Goto
<1>3. CASE Return("failure")
  BY <1>1, <1>3, ReturnGoes
<1>4. CASE UNCHANGED <<calls, clearing, conn, n>> /\ i' \in 0..(Retries - 1) /\ pc' \in {"first", "get"}
  <2>1. Placed' /\ call' = call
    BY <1>1, <1>4, StayPlaced
  <2>2. call.t = "piper" /\ n = 1 /\ cache.ir = Instruction
    BY <1>1 DEF Fits, Work, Instructions
  <2>3. Len(call.vals) \in Nat \ {0}
    BY <2>2, BlockCall DEF SessionPcs
  <2>4. Fits'
    BY <1>4, <2>1, <2>2, <2>3 DEF Fits, CsrPcs
  <2>5. ASSUME NEW m, NEW j, AtGroup(m, j) PROVE Collected(m, j)'
    <3>1. j = 4 /\ ~Kept(m) /\ ~Kept(m + 1) /\ op.a \in Nat /\ Frontier(op)[m - 1] \in Nat /\ op' = op /\ Collected(m, j)
      BY <1>1, <2>2, <2>5, BlockCall DEF SessionPcs
    <3>2. PICK x, y : x = Frontier(op)[m - 1] - op.a /\ y = Frontier(op)[m] - op.a
      OBVIOUS
    <3>3. op.t \in Loads => Len(data) = x
      BY <3>1, <3>2, CollectedIs
    <3>4. x + 1 - 1 = x
      BY <3>1, <3>2
    <3>. QED BY <1>4, <2>2, <3>1, <3>2, <3>3, <3>4, CollectedIs DEF CsrPcs
  <2>. QED BY <1>1, <1>4, <2>2, <2>4, <2>5, StayGoes DEF SessionPcs
<1>. QED BY <1>2, <1>3, <1>4

LEMMA GetGoes ==
  ASSUME Work, NEW ack \in Acks, NEW d \in Word, pc = "get", UNCHANGED <<op, cache>>,
         data' = IF ack = "OK" THEN Append(data, d) ELSE data,
         CASE ack = "BAD"  -> Return("failure")
           [] ack = "WAIT" -> Again("get", Return("failure"))
           [] ack = "OK"   -> NextWord("get", "csrIR")
  PROVE  Goes /\ cache.ir = "APACC" /\ (ack = "OK" => pc' \in {"get", "csrIR"})
<1>1. /\ Placed /\ Fits /\ data \in Seq(Word) /\ i \in 0..(Retries - 1) /\ 0 \in 0..(Retries - 1)
      /\ \A m, j : AtGroup(m, j) => Collected(m, j)
  BY SessionFacts DEF SessionPcs
<1>2. data' \in Seq(Word) /\ (ack = "OK" => Len(data') = Len(data) + 1) /\ Len(data) \in Nat
  BY <1>1
<1>3. call.t = "piper" /\ n \in 1..Len(call.vals) /\ cache.ir = Instruction
  BY <1>1 DEF Fits, Work, Instructions
<1>4. call.ap /\ Len(call.vals) \in Nat \ {0}
  BY <1>3, BlockCall DEF SessionPcs
<1>5. cache.ir = "APACC"
  BY <1>3, <1>4 DEF Instruction
<1>6. \/ Return("failure") /\ ack # "OK"
      \/ /\ ack = "WAIT" /\ pc' = "get" /\ n' = n /\ i' \in 0..(Retries - 1)
         /\ UNCHANGED <<calls, clearing, conn>>
      \/ /\ ack = "OK" /\ n = Len(call.vals) /\ pc' = "csrIR" /\ n' = n /\ i' \in 0..(Retries - 1)
         /\ UNCHANGED <<calls, clearing, conn>>
      \/ /\ ack = "OK" /\ n # Len(call.vals) /\ pc' = "get" /\ n' = n + 1 /\ i' \in 0..(Retries - 1)
         /\ UNCHANGED <<calls, clearing, conn>>
  <2>1. ack = "BAD" => Return("failure")
    BY DEF Acks
  <2>2. ack = "WAIT" => Again("get", Return("failure"))
    BY DEF Acks
  <2>3. ack = "OK" => NextWord("get", "csrIR")
    BY DEF Acks
  <2>. QED BY <1>1, <2>1, <2>2, <2>3, JtagDpAssumption DEF Acks, Again, NextWord, Goto
<1>7. CASE Return("failure") /\ ack # "OK"
  BY <1>2, <1>5, <1>7, ReturnGoes
<1>8. CASE UNCHANGED <<calls, clearing, conn>> /\ i' \in 0..(Retries - 1) /\ pc' \in {"get", "csrIR"}
           /\ \/ ack = "WAIT" /\ pc' = "get" /\ n' = n
              \/ ack = "OK" /\ n = Len(call.vals) /\ pc' = "csrIR"
              \/ ack = "OK" /\ n # Len(call.vals) /\ pc' = "get" /\ n' = n + 1
  <2>1. Placed' /\ call' = call
    BY <1>1, <1>8, StayPlaced
  <2>2. pc' = "get" => n' \in 1..Len(call.vals)
    <3>. DEFINE L == Len(call.vals)
    <3>1. L \in Nat /\ n \in 1..L
      BY <1>3, <1>4
    <3>. HIDE DEF L
    <3>2. n # L => n + 1 \in 1..L
      BY <3>1
    <3>. QED BY <1>8, <3>1, <3>2 DEF L
  <2>4. Fits'
    BY <1>3, <1>8, <2>1, <2>2 DEF Fits, CsrPcs
  <2>5. ASSUME NEW m, NEW j, AtGroup(m, j) PROVE Collected(m, j)'
    <3>1. /\ j = 4 /\ ~Kept(m) /\ ~Kept(m + 1) /\ op.a \in Nat /\ op' = op /\ Collected(m, j)
          /\ Frontier(op)[m - 1] \in Nat /\ Frontier(op)[m] \in Nat
          /\ Len(call.vals) = Frontier(op)[m] - Frontier(op)[m - 1] /\ op.t \in Loads
      BY <1>1, <1>3, <2>5, BlockCall DEF SessionPcs
    <3>2. PICK x, y : x = Frontier(op)[m - 1] - op.a /\ y = Frontier(op)[m] - op.a
      OBVIOUS
    <3>3. Len(data) = x + n - 1
      BY <3>1, <3>2, CollectedIs
    <3>4. /\ x \in Int /\ y \in Int /\ n \in Int /\ (n = Len(call.vals) => y = x + n)
      BY <1>3, <1>4, <3>1, <3>2
    <3>5. /\ pc' = "get" => Len(data') = x + n' - 1
          /\ pc' = "csrIR" => Len(data') = y
      <4>1. CASE ack = "WAIT" /\ pc' = "get" /\ n' = n
        BY <3>3, <4>1
      <4>2. CASE ack = "OK" /\ n = Len(call.vals) /\ pc' = "csrIR"
        <5>1. Len(data') = x + n - 1 + 1 /\ y = x + n
          BY <1>2, <3>3, <3>4, <4>2
        <5>2. x + n - 1 + 1 = x + n
          BY <3>4
        <5>. QED BY <4>2, <5>1, <5>2
      <4>3. CASE ack = "OK" /\ n # Len(call.vals) /\ pc' = "get" /\ n' = n + 1
        <5>1. Len(data') = x + n - 1 + 1
          BY <1>2, <3>3, <4>3
        <5>2. x + n - 1 + 1 = x + (n + 1) - 1
          BY <3>4
        <5>. QED BY <4>3, <5>1, <5>2
      <4>. QED BY <1>8, <4>1, <4>2, <4>3
    <3>6. /\ pc' \in {"get", "csrIR"} /\ op.t \in Loads => op.t \notin Stores
      BY <1>8 DEF Loads, Stores
    <3>7. pc' \notin {"cmd", "resp", "ir", "first"} /\ (pc' \in CsrPcs => pc' = "csrIR")
      BY <1>8 DEF CsrPcs
    <3>. QED BY <3>1, <3>2, <3>5, <3>7, CollectedIs
  <2>. QED BY <1>2, <1>3, <1>5, <1>8, <2>4, <2>5, StayGoes DEF SessionPcs
<1>. QED BY <1>6, <1>7, <1>8

-----------------------------------------------------------------------------
(* The end of a transfer, and its check of the sticky bit.                 *)

\* A block has no count of words to lose: what is written back is a word's affair.
LEMMA StoreCollected ==
  ASSUME Work, pc \in SessionPcs, call.t = "pipew", op' = op, NEW m, NEW j, AtGroup(m, j)
  PROVE  Collected(m, j)'
<1>1. j = 4 /\ ~Kept(m) /\ ~Kept(m + 1) /\ op.t \notin Loads
  BY BlockCall
<1>2. PICK x, y : x = Frontier(op)[m - 1] - op.a /\ y = Frontier(op)[m] - op.a
  OBVIOUS
<1>. QED BY <1>1, <1>2, CollectedIs

LEMMA PutGoes ==
  ASSUME Work, NEW ack \in Acks, pc = "put", UNCHANGED <<op, data, cache>>,
         CASE ack = "BAD"  -> Return("failure")
           [] ack = "WAIT" -> Again("put", Return("failure"))
           [] ack = "OK"   -> NextWord("put", "final")
  PROVE  Goes
<1>1. /\ Placed /\ Fits /\ data \in Seq(Word) /\ i \in 0..(Retries - 1) /\ 0 \in 0..(Retries - 1)
  BY SessionFacts DEF SessionPcs
<1>3. call.t = "pipew" /\ n \in 1..Len(call.vals) /\ cache.ir = Instruction
  BY <1>1 DEF Fits, Work, Instructions
<1>4. Len(call.vals) \in Nat \ {0}
  BY <1>3, BlockCall DEF SessionPcs
<1>6. \/ Return("failure")
      \/ /\ UNCHANGED <<calls, clearing, conn>> /\ i' \in 0..(Retries - 1) /\ pc' \in {"put", "final"}
         /\ pc' = "put" => n' = n \/ (n # Len(call.vals) /\ n' = n + 1)
  <2>1. ack = "BAD" => Return("failure")
    BY DEF Acks
  <2>2. ack = "WAIT" => Again("put", Return("failure"))
    BY DEF Acks
  <2>3. ack = "OK" => NextWord("put", "final")
    BY DEF Acks
  <2>. QED BY <1>1, <2>1, <2>2, <2>3, JtagDpAssumption DEF Acks, Again, NextWord, Goto
<1>7. CASE Return("failure")
  BY <1>1, <1>7, ReturnGoes
<1>8. CASE /\ UNCHANGED <<calls, clearing, conn>> /\ i' \in 0..(Retries - 1) /\ pc' \in {"put", "final"}
           /\ pc' = "put" => n' = n \/ (n # Len(call.vals) /\ n' = n + 1)
  <2>1. Placed' /\ call' = call
    BY <1>1, <1>8, StayPlaced
  <2>2. pc' = "put" => n' \in 1..Len(call.vals)
    <3>. DEFINE L == Len(call.vals)
    <3>1. L \in Nat /\ n \in 1..L
      BY <1>3, <1>4
    <3>. HIDE DEF L
    <3>2. n # L => n + 1 \in 1..L
      BY <3>1
    <3>. QED BY <1>8, <3>1, <3>2 DEF L
  <2>4. Fits'
    BY <1>3, <1>8, <2>1, <2>2 DEF Fits, CsrPcs
  <2>5. \A m, j : AtGroup(m, j) => Collected(m, j)'
    BY <1>3, StoreCollected DEF SessionPcs
  <2>. QED BY <1>1, <1>3, <1>8, <2>4, <2>5, StayGoes DEF SessionPcs
<1>. QED BY <1>6, <1>7, <1>8

LEMMA FinalGoes ==
  ASSUME Work, NEW ack \in Acks, pc = "final", UNCHANGED <<op, data, cache>>,
         IF ack = "BAD" THEN Return("failure") ELSE Goto("csrIR")
  PROVE  Goes
<1>1. /\ Placed /\ Fits /\ data \in Seq(Word) /\ i \in 0..(Retries - 1) /\ 0 \in 0..(Retries - 1)
  BY SessionFacts DEF SessionPcs
<1>3. call.t = "pipew" /\ cache.ir = Instruction
  BY <1>1 DEF Fits, Work, Instructions
<1>7. CASE Return("failure")
  BY <1>1, <1>7, ReturnGoes
<1>8. CASE Goto("csrIR")
  <2>0. UNCHANGED <<calls, clearing, conn>> /\ i' = 0 /\ pc' = "csrIR"
    BY <1>8 DEF Goto
  <2>1. Placed' /\ call' = call
    BY <1>1, <2>0, StayPlaced
  <2>4. Fits'
    BY <1>3, <2>0, <2>1 DEF Fits, CsrPcs
  <2>5. \A m, j : AtGroup(m, j) => Collected(m, j)'
    BY <1>3, StoreCollected DEF SessionPcs
  <2>. QED BY <1>1, <1>3, <2>0, <2>4, <2>5, StayGoes DEF SessionPcs
<1>. QED BY <1>7, <1>8

\* Within checkCSR nothing is collected.
LEMMA CsrStays ==
  ASSUME Work, pc \in CsrPcs, UNCHANGED <<op, data, cache, calls, clearing, conn>>,
         pc' \in CsrPcs, i' \in 0..(Retries - 1), pc' \in {"csr", "csrResp"} => cache.ir = "DPACC"
  PROVE  Goes
<1>1. /\ Placed /\ Fits /\ data \in Seq(Word)
      /\ \A m, j : AtGroup(m, j) => Collected(m, j)
  BY SessionFacts DEF SessionPcs, CsrPcs
<1>2. Placed' /\ call' = call
  BY <1>1, StayPlaced
<1>3. Fits'
  BY <1>1, <1>2 DEF Fits, CsrPcs
<1>4. ASSUME NEW m, NEW j, AtGroup(m, j) PROVE Collected(m, j)'
  <2>1. Collected(m, j) /\ op' = op
    BY <1>1, <1>4
  <2>2. PICK x, y : x = Frontier(op)[m - 1] - op.a /\ y = Frontier(op)[m] - op.a
    OBVIOUS
  <2>3. /\ op.t \in Loads =>
               /\ j = 4 => Len(data) = y
               /\ j < 4 => Len(data) = x
        /\ Kept(m) \/ (j = 4 /\ Kept(m + 1)) => Len(data) = 1
    BY <2>1, <2>2, CollectedIs
  <2>. QED BY <2>1, <2>2, <2>3, CollectedIs DEF CsrPcs
<1>. QED BY <1>1, <1>3, <1>4, StayGoes DEF SessionPcs, TransferPcs, CsrPcs

LEMMA CheckedGoes ==
  ASSUME Work, pc \in CsrPcs, UNCHANGED <<op, data, cache>>, NEW csr, Checked(csr)
  PROVE  Goes
<1>1. data \in Seq(Word) /\ 0 \in 0..(Retries - 1) /\ conn \in {"off", "connecting", "on"}
  BY SessionFacts DEF SessionPcs, CsrPcs, Work, Ranges
<1>2. \/ Return("failure") \/ NextTransfer
      \/ calls' = <<ClearCSR>> /\ clearing' = TRUE /\ pc' = "ir" /\ i' = 0 /\ n' = 1 /\ UNCHANGED <<result, conn>>
  BY DEF Checked
<1>3. CASE calls' = <<ClearCSR>> /\ clearing' = TRUE /\ pc' = "ir" /\ i' = 0 /\ n' = 1 /\ UNCHANGED <<result, conn>>
  <2>1. Placed' /\ call' = ClearCSR
    BY <1>3, ClearPlaced
  <2>2. Fits'
    BY <1>3, <2>1 DEF Fits, CsrPcs, ClearCSR, Transfer
  <2>3. Sessions'
    BY <1>3, <2>1, <2>2 DEF Sessions
  <2>. QED BY <1>1, <1>3, <2>3 DEF Goes, SessionPcs, TransferPcs
<1>. QED BY <1>1, <1>2, <1>3, ReturnGoes, NextGoes

LEMMA CsrRespGoes ==
  ASSUME Work, NEW ack \in Acks, NEW d \in Word, pc = "csrResp", UNCHANGED <<op, data, cache>>,
         IF ack = "BAD" /\ call.t = "csr" THEN Return("failure")
         ELSE IF ack = "WAIT" THEN Again("csr", Checked(d))
         ELSE Checked(d)
  PROVE  Goes
<1>1. /\ data \in Seq(Word) /\ i \in 0..(Retries - 1) /\ cache.ir = "DPACC"
  BY SessionFacts DEF SessionPcs, Work, Instructions
<1>2. \/ Return("failure") \/ Checked(d)
      \/ i' \in 0..(Retries - 1) /\ pc' = "csr" /\ UNCHANGED <<calls, clearing, conn>>
  <2>1. Again("csr", Checked(d)) => Checked(d) \/ (i' \in 0..(Retries - 1) /\ pc' = "csr" /\ UNCHANGED <<calls, clearing, conn>>)
    BY <1>1, JtagDpAssumption DEF Again
  <2>. QED BY <2>1
<1>3. CASE i' \in 0..(Retries - 1) /\ pc' = "csr" /\ UNCHANGED <<calls, clearing, conn>>
  BY <1>1, <1>3, CsrStays DEF CsrPcs
<1>. QED BY <1>1, <1>2, <1>3, ReturnGoes, CheckedGoes DEF CsrPcs

-----------------------------------------------------------------------------
(* The data scans, together.                                               *)

LEMMA ScansWork ==
  ASSUME IInv, Work, Cmd \/ Resp \/ First \/ Get \/ Put \/ Final \/ Csr \/ CsrResp
  PROVE  Work'
<1>0. "RTI" \in Ends /\ "Pause" \in Ends /\ "Pause" # "RTI"
  BY DEF Ends
<1>1. CASE Cmd
  <2>1. PICK ack \in Acks, d \in Word : ScanDR(Request, "RTI", ack, d)
            /\ IF call.check THEN pc' = "resp" /\ UNCHANGED <<i, n, calls, clearing, result, conn>>
               ELSE Again("cmd", Goto("csrIR"))
    BY <1>1 DEF Cmd
  <2>2. pc = "cmd" /\ UNCHANGED scanRest /\ UNCHANGED <<op, data, cache>>
    BY <1>1 DEF Cmd, scanRest
  <2>3. Goes
    BY <2>1, <2>2, CmdGoes
  <2>4. Sane(cache.ir, Request)
    BY <2>2, RequestSane, SessionFacts DEF SessionPcs, Work, Instructions
  <2>. QED BY <1>0, <2>1, <2>2, <2>3, <2>4, ScanWork DEF DRPcs
<1>2. CASE Resp
  <2>1. PICK ack \in Acks, d \in Word : ScanDR(Dummy, "RTI", ack, d)
            /\ data' = (IF call.rnw THEN SubSeq(data, 1, call.v) \o <<d>> ELSE data)
            /\ CASE ack = "BAD"  -> Return("failure")
                 [] ack = "WAIT" -> Again("cmd", Goto("csrIR"))
                 [] ack = "OK"   -> Goto("csrIR")
    BY <1>2 DEF Resp
  <2>2. pc = "resp" /\ UNCHANGED scanRest /\ UNCHANGED <<op, cache>>
    BY <1>2 DEF Resp, scanRest
  <2>3. Goes
    BY <2>1, <2>2, RespGoes
  <2>. QED BY <1>0, <2>1, <2>2, <2>3, DummySane, ScanWork DEF DRPcs
<1>3. CASE First
  <2>1. PICK ack \in Acks, d \in Word : ScanDR(Request, "RTI", ack, d)
            /\ CASE ack = "BAD"  -> Return("failure")
                 [] ack = "WAIT" -> Again("first", Return("failure"))
                 [] ack = "OK"   -> Goto("get")
    BY <1>3 DEF First
  <2>2. pc = "first" /\ UNCHANGED scanRest /\ UNCHANGED <<op, data, cache>>
    BY <1>3 DEF First, scanRest
  <2>3. Goes
    BY <2>1, <2>2, FirstGoes
  <2>4. Sane(cache.ir, Request)
    BY <2>2, RequestSane, SessionFacts DEF SessionPcs, Work, Instructions
  <2>. QED BY <1>0, <2>1, <2>2, <2>3, <2>4, ScanWork DEF DRPcs
<1>4. CASE Get
  <2>1. PICK ack \in Acks, d \in Word : ScanDR(Dummy, "Pause", ack, d)
            /\ data' = (IF ack = "OK" THEN Append(data, d) ELSE data)
            /\ CASE ack = "BAD"  -> Return("failure")
                 [] ack = "WAIT" -> Again("get", Return("failure"))
                 [] ack = "OK"   -> NextWord("get", "csrIR")
    BY <1>4 DEF Get
  <2>2. pc = "get" /\ UNCHANGED scanRest /\ UNCHANGED <<op, cache>>
    BY <1>4 DEF Get, scanRest
  <2>3. Goes /\ cache.ir = "APACC" /\ (ack = "OK" => pc' \in {"get", "csrIR"})
    BY <2>1, <2>2, GetGoes
  <2>. QED BY <1>0, <2>1, <2>2, <2>3, DummySane, ScanWork DEF DRPcs
<1>5. CASE Put
  <2>. DEFINE r == [Request EXCEPT !.v = call.vals[n]]
  <2>1. PICK ack \in Acks, d \in Word : ScanDR(r, "RTI", ack, d)
            /\ CASE ack = "BAD"  -> Return("failure")
                 [] ack = "WAIT" -> Again("put", Return("failure"))
                 [] ack = "OK"   -> NextWord("put", "final")
    BY <1>5 DEF Put
  <2>2. pc = "put" /\ UNCHANGED scanRest /\ UNCHANGED <<op, data, cache>>
    BY <1>5 DEF Put, scanRest
  <2>3. Goes
    BY <2>1, <2>2, PutGoes
  <2>4. Sane(cache.ir, r)
    <3>1. Fits
      BY <2>2, SessionFacts DEF SessionPcs
    <3>2. call.t = "pipew"
      BY <2>2, <3>1 DEF Fits
    <3>3. call.a = 12
      BY <2>2, <3>2, BlockCall DEF SessionPcs
    <3>4. r.a = 12
      BY <3>3 DEF Request
    <3>. HIDE DEF r
    <3>. QED BY <3>4 DEF Sane
  <2>. HIDE DEF r
  <2>. QED BY <1>0, <2>1, <2>2, <2>3, <2>4, ScanWork DEF DRPcs
<1>6. CASE Final
  <2>1. PICK ack \in Acks, d \in Word : ScanDR(Dummy, "RTI", ack, d)
            /\ IF ack = "BAD" THEN Return("failure") ELSE Goto("csrIR")
    BY <1>6 DEF Final
  <2>2. pc = "final" /\ UNCHANGED scanRest /\ UNCHANGED <<op, data, cache>>
    BY <1>6 DEF Final, scanRest
  <2>3. Goes
    BY <2>1, <2>2, FinalGoes
  <2>. QED BY <1>0, <2>1, <2>2, <2>3, DummySane, ScanWork DEF DRPcs
<1>7. CASE Csr
  <2>. DEFINE r == [rnw |-> TRUE, a |-> 4, v |-> 0]
  <2>1. PICK ack \in Acks, d \in Word : ScanDR(r, "RTI", ack, d)
    BY <1>7 DEF Csr
  <2>2. /\ pc = "csr" /\ UNCHANGED scanRest /\ pc' = "csrResp" /\ i' = i
        /\ UNCHANGED <<op, data, cache, calls, clearing, conn>>
    BY <1>7 DEF Csr, scanRest, callVars
  <2>3. Goes
    BY <2>2, CsrStays DEF CsrPcs, Work, Instructions, Ranges
  <2>4. Sane(cache.ir, r)
    BY DEF Sane
  <2>. HIDE DEF r
  <2>. QED BY <1>0, <2>1, <2>2, <2>3, <2>4, ScanWork DEF DRPcs
<1>8. CASE CsrResp
  <2>1. PICK ack \in Acks, d \in Word : ScanDR(Dummy, "RTI", ack, d)
            /\ IF ack = "BAD" /\ call.t = "csr" THEN Return("failure")
               ELSE IF ack = "WAIT" THEN Again("csr", Checked(d))
               ELSE Checked(d)
    BY <1>8 DEF CsrResp
  <2>2. pc = "csrResp" /\ UNCHANGED scanRest /\ UNCHANGED <<op, data, cache>>
    BY <1>8 DEF CsrResp, scanRest
  <2>3. Goes
    BY <2>1, <2>2, CsrRespGoes
  <2>. QED BY <1>0, <2>1, <2>2, <2>3, DummySane, ScanWork DEF DRPcs
<1>. QED BY <1>1, <1>2, <1>3, <1>4, <1>5, <1>6, <1>7, <1>8

\* A scan of an instruction, or none because it is there.
LEMMA ShiftWork ==
  ASSUME IInv, Work, NEW from, NEW ir \in {"IDCODE", "DPACC", "APACC"}, NEW to \in Pcs, ShiftIR(from, ir, to),
         to \in TransferPcs => ir = Instruction, to \in {"csr", "csrResp"} => ir = "DPACC",
         to \notin {"get", "csrIR", "dpInit"}, to \in {"idIR", "idDR"} => op.t = "init",
         (pc = "get" \/ pc = "csrIR") /\ cache.ir = "APACC" => ir # cache.ir,
         Sessions'
  PROVE  Work'
<1>1. /\ pc = from /\ pc' = to /\ UNCHANGED <<op, calls, clearing, data, i, n, conn>>
      /\ UNCHANGED <<synced, kills>>
  BY DEF ShiftIR, envVars, userVars, callVars
<1>2. Instruction' = Instruction
  BY <1>1 DEF Instruction, call
<1>3. CASE UNCHANGED <<pinVars, cache>> /\ cache.ir = ir
  <2>1. ~HoldsDR
    BY <1>1, <1>3 DEF Work, Instructions
  <2>2. Ranges'
    BY <1>1, <1>3 DEF Work, Ranges, pinVars
  <2>3. Latched(chain)' = Latched(chain) /\ HoldsDR' = HoldsDR /\ cache' = cache
    BY <1>3 DEF pinVars, Latched, HoldsDR
  <2>4. Instructions'
    BY <1>1, <1>2, <1>3, <2>1, <2>3 DEF Work, Instructions, TransferPcs
  <2>. QED BY <2>2, <2>4 DEF Work
<1>4. CASE ScanIR(ir) /\ cache' = [ir |-> ir, ready |-> TRUE]
  <2>. DEFINE s == ToShift("IR", belief, chain.tap)
              p == IF s = "ShiftIR" THEN "BYPASS" ELSE "lost"
  <2>1. /\ hw' = Left(hw, chain)
        /\ chain' = Moved(Latched(chain), AfterScan("Pause", s), <<[reg |-> "IR", pick |-> p, dp |-> ir]>>)
    BY <1>4 DEF ScanIR
  <2>. HIDE DEF s, p
  <2>2. chain'.held = <<[reg |-> "IR", pick |-> p, dp |-> ir]>>
    BY <2>1 DEF Moved
  <2>3. chain'.held # <<>> /\ chain'.held[1].reg = "IR" /\ chain'.held[1].dp = ir
    BY <2>2
  <2>4. ~HoldsDR'
    BY <2>3 DEF HoldsDR
  <2>5. Latched(chain').dp = ir
    <3>1. chain' = [tap |-> chain'.tap, linked |-> chain'.linked, pick |-> chain'.pick, dp |-> chain'.dp, held |-> chain'.held]
      BY <2>1 DEF Moved
    <3>2. Latched(chain') = [tap |-> chain'.tap, linked |-> chain'.linked, pick |-> chain'.held[1].pick, dp |-> chain'.held[1].dp, held |-> chain'.held]
      BY <2>3, <3>1 DEF Latched
    <3>. QED BY <2>3, <3>2
  <2>6. HwOK(hw')
    BY <2>1, LeftOK DEF Work
  <2>7. Ranges'
    BY <1>1, <1>4, <2>6 DEF Work, Ranges
  <2>8. cache'.ir = ir
    BY <1>4
  <2>9. Instructions'
    BY <1>1, <1>2, <2>4, <2>5, <2>8 DEF Instructions, TransferPcs
  <2>. QED BY <2>7, <2>9 DEF Work
<1>. QED BY <1>3, <1>4 DEF ShiftIR

-----------------------------------------------------------------------------
(* The instruction scans, the router and the call of the connection.       *)

\* From one instruction's scan to the data.
LEMMA TransferIRWork == IInv /\ Work /\ TransferIR => Work'
<1>. SUFFICES ASSUME IInv, Work, TransferIR PROVE Work'
  OBVIOUS
<1>1. /\ ShiftIR("ir", Instruction, AfterIR) /\ pc = "ir" /\ pc' = AfterIR
      /\ UNCHANGED <<op, calls, clearing, data, i, n, conn>>
  BY DEF TransferIR, ShiftIR, userVars, callVars
<1>2. /\ Placed /\ Fits /\ data \in Seq(Word)
      /\ \A m, j : AtGroup(m, j) => Collected(m, j)
  BY <1>1, SessionFacts DEF SessionPcs
<1>3. Placed' /\ call' = call /\ Pos' = Pos
  BY <1>1, <1>2, StayPlaced
<1>4. call.t \in {"acc", "piper", "pipew"} /\ n = 1
  BY <1>1, <1>2, CallFacts DEF Fits, CsrPcs, AnyTransfer
<1>5. /\ call.t = "piper" => AfterIR = "first"
      /\ call.t = "pipew" => AfterIR = "put"
      /\ call.t = "acc" => AfterIR = "cmd"
  BY DEF AfterIR
<1>6. call.t \in {"piper", "pipew"} => Len(call.vals) \in Nat \ {0}
  BY <1>1, BlockCall DEF SessionPcs
<1>7. Fits'
  BY <1>1, <1>3, <1>4, <1>5, <1>6 DEF Fits, CsrPcs
<1>8. ASSUME NEW m, NEW j, AtGroup(m, j) PROVE Collected(m, j)'
  <2>1. /\ Collected(m, j) /\ op' = op /\ op.a \in Nat /\ Frontier(op)[m - 1] \in Nat
    BY <1>1, <1>2, <1>8, GroupCall
  <2>2. PICK x, y : x = Frontier(op)[m - 1] - op.a /\ y = Frontier(op)[m] - op.a
    OBVIOUS
  <2>3. /\ op.t \in Loads => Len(data) = x
        /\ Kept(m) => Len(data) = 1
    BY <1>1, <2>1, <2>2, CollectedIs
  <2>4. x \in Int /\ x >= x
    BY <2>1, <2>2
  <2>. QED BY <1>1, <1>4, <1>5, <2>1, <2>2, <2>3, <2>4, CollectedIs DEF CsrPcs
<1>9. Sessions'
  <2>. SUFFICES ASSUME ~clearing', op'.t # "init", NEW m \in 1..Groups(op'), NEW j \in 1..4, Pos' = 4 * (m - 1) + j
                PROVE Collected(m, j)'
    BY <1>3, <1>7 DEF Sessions
  <2>1. AtGroup(m, j)
    BY <1>1, <1>3 DEF AtGroup
  <2>. QED BY <1>8, <2>1
<1>10. Instruction \in {"IDCODE", "DPACC", "APACC"}
  BY DEF Instruction
<1>11. AfterIR \in {"first", "put", "cmd"}
  BY <1>4, <1>5
<1>. QED BY <1>1, <1>9, <1>10, <1>11, ShiftWork DEF Pcs

LEMMA CsrIRWork == IInv /\ Work /\ CsrIR => Work'
<1>. SUFFICES ASSUME IInv, Work, CsrIR PROVE Work'
  OBVIOUS
<1>1. /\ ShiftIR("csrIR", "DPACC", "csr") /\ pc = "csrIR" /\ pc' = "csr"
      /\ UNCHANGED <<op, calls, clearing, data, i, n, conn>>
  BY DEF CsrIR, ShiftIR, userVars, callVars
<1>2. /\ Placed /\ Fits /\ data \in Seq(Word)
      /\ \A m, j : AtGroup(m, j) => Collected(m, j)
  BY <1>1, SessionFacts DEF SessionPcs
<1>3. Placed' /\ call' = call /\ Pos' = Pos
  BY <1>1, <1>2, StayPlaced
<1>7. Fits'
  BY <1>1, <1>2, <1>3 DEF Fits, CsrPcs
<1>8. ASSUME NEW m, NEW j, AtGroup(m, j) PROVE Collected(m, j)'
  <2>1. Collected(m, j) /\ op' = op
    BY <1>1, <1>2, <1>8
  <2>2. PICK x, y : x = Frontier(op)[m - 1] - op.a /\ y = Frontier(op)[m] - op.a
    OBVIOUS
  <2>3. /\ op.t \in Loads =>
               /\ j = 4 => Len(data) = y
               /\ j < 4 => Len(data) = x
        /\ Kept(m) \/ (j = 4 /\ Kept(m + 1)) => Len(data) = 1
    BY <1>1, <2>1, <2>2, CollectedIs DEF CsrPcs
  <2>. QED BY <1>1, <2>1, <2>2, <2>3, CollectedIs DEF CsrPcs
<1>9. Sessions'
  <2>. SUFFICES ASSUME ~clearing', op'.t # "init", NEW m \in 1..Groups(op'), NEW j \in 1..4, Pos' = 4 * (m - 1) + j
                PROVE Collected(m, j)'
    BY <1>3, <1>7 DEF Sessions
  <2>1. AtGroup(m, j)
    BY <1>1, <1>3 DEF AtGroup
  <2>. QED BY <1>8, <2>1
<1>. QED BY <1>1, <1>9, ShiftWork DEF Pcs, TransferPcs

\* A step of the router leaves the port alone, its instruction unknown.
LEMMA IcepickWork ==
  ASSUME Work, NEW from \in RouterPcs, NEW pick, NEW tap, NEW to \in Pcs, Icepick(from, pick, tap, to),
         conn' \in {"off", "connecting", "on"}, to \notin SessionPcs,
         to \in {"dpInit", "idIR", "idDR"} => op'.t = "init"
  PROVE  Work'
<1>1. /\ pc = from /\ pc' = to /\ UNCHANGED <<cache, data, i>>
      /\ hw' = Left(hw, chain) /\ chain'.dp = "unknown" /\ chain'.held = <<>>
  BY DEF Icepick
<1>2. ~HoldsDR
  BY <1>1 DEF Work, Instructions, RouterPcs
<1>3. hw' = hw
  BY <1>1, <1>2, LeftOK DEF Work
<1>4. ~HoldsDR' /\ Latched(chain').dp = "unknown"
  BY <1>1 DEF HoldsDR, Latched
<1>5. Ranges'
  BY <1>1, <1>3 DEF Work, Ranges
<1>6. Instructions'
  BY <1>1, <1>4 DEF Instructions, SessionPcs
<1>7. Sessions'
  BY <1>1 DEF Sessions
<1>. QED BY <1>5, <1>6, <1>7 DEF Work

LEMMA RouterWork == Work /\ Router => Work'
<1>0. /\ {"detect", "connect", "configure", "warm"} \subseteq RouterPcs
      /\ {"idle", "connect", "configure", "warm", "dpInit"} \subseteq Pcs \ SessionPcs
  BY DEF RouterPcs, Pcs, SessionPcs
<1>1. ASSUME Work, Detect PROVE Work'
  <2>. DEFINE tap == IrDr("RTI", "RTI", IrDr("TLR", "RTI", AfterReset(chain.tap)))
              to == IF plugged THEN "connect" ELSE "idle"
  <2>1. Icepick("detect", "ICEPICKCODE", tap, to) /\ conn' \in {"off", "connecting", "on"}
    BY <1>1 DEF Detect, Work, Ranges
  <2>2. to \in {"connect", "idle"}
    OBVIOUS
  <2>. HIDE DEF tap, to
  <2>. QED BY <1>0, <1>1, <2>1, <2>2, IcepickWork
<1>2. ASSUME Work, Connected, UNCHANGED <<op, conn>> PROVE Work'
  <2>. DEFINE tap == IrDr(belief, "RTI", chain.tap)
  <2>1. Icepick("connect", "CONNECT", tap, "configure") /\ conn' \in {"off", "connecting", "on"}
    BY <1>2 DEF Connected, Work, Ranges
  <2>. HIDE DEF tap
  <2>. QED BY <1>0, <1>2, <2>1, IcepickWork
<1>3. ASSUME Work, Configure, UNCHANGED <<op, conn>> PROVE Work'
  <2>1. PICK tap : Icepick("configure", "BYPASS", tap, "warm")
    BY <1>3 DEF Configure
  <2>2. conn' \in {"off", "connecting", "on"}
    BY <1>3 DEF Work, Ranges
  <2>. QED BY <1>0, <1>3, <2>1, <2>2, IcepickWork
<1>4. ASSUME Work, WarmReset, UNCHANGED <<op, conn>> PROVE Work'
  <2>. DEFINE tap == IrDr(belief, "RTI", chain.tap)
              to == IF op.t = "init" THEN "dpInit" ELSE "idle"
  <2>1. Icepick("warm", "ROUTER", tap, to) /\ conn' \in {"off", "connecting", "on"}
    BY <1>4 DEF WarmReset, Work, Ranges
  <2>2. to \in {"dpInit", "idle"} /\ (to = "dpInit" => op'.t = "init")
    BY <1>4
  <2>. HIDE DEF tap, to
  <2>. QED BY <1>0, <1>4, <2>1, <2>2, IcepickWork
<1>. QED BY <1>1, <1>2, <1>3, <1>4 DEF Router, userVars

LEMMA ConnectingWork == IInv /\ Work /\ Connecting => Work'
<1>. SUFFICES ASSUME IInv, Work, Connecting PROVE Work'
  OBVIOUS
<1>1. CASE Router
  BY <1>1, RouterWork
<1>2. CASE DpInit
  <2>1. /\ pc = "dpInit" /\ pc' = "idIR" /\ cache' = [cache EXCEPT !.ready = FALSE]
        /\ UNCHANGED <<hw, chain, data, i, conn, op>>
    BY <1>2 DEF DpInit, pinVars, userVars, callVars
  <2>2. cache'.ir = cache.ir /\ cache'.ready \in BOOLEAN
    BY <2>1 DEF IInv, Shape
  <2>3. Ranges'
    BY <2>1, <2>2 DEF Work, Ranges, Pcs
  <2>4. Instructions'
    BY <2>1, <2>2 DEF Work, Instructions, HoldsDR, Latched
  <2>5. Sessions'
    BY <2>1 DEF Sessions, SessionPcs
  <2>. QED BY <2>3, <2>4, <2>5 DEF Work
<1>3. CASE DpDetectIR
  <2>1. ShiftIR("idIR", "IDCODE", "idDR") /\ pc = "idIR" /\ pc' = "idDR" /\ op.t = "init"
    BY <1>3 DEF DpDetectIR, ShiftIR, Work, Instructions
  <2>2. Sessions'
    BY <2>1 DEF Sessions, SessionPcs
  <2>. QED BY <2>1, <2>2, ShiftWork DEF Pcs, TransferPcs
<1>4. CASE DpDetect
  <2>1. /\ pc = "idDR" /\ UNCHANGED <<cache, op, data>> /\ hw' = Left(hw, chain) /\ UNCHANGED <<synced, kills>>
        /\ chain' = Moved(Latched(chain), AfterScan("RTI", ToShift("DR", belief, chain.tap)), <<>>)
        /\ \/ pc' = "ir" /\ calls' = InitTransfers /\ clearing' = FALSE /\ i' = 0 /\ n' = 1 /\ UNCHANGED <<result, conn>>
           \/ Return("failure")
    BY <1>4 DEF DpDetect, scanRest, envVars
  <2>2. ~HoldsDR /\ op.t = "init" /\ data \in Seq(Word)
    BY <2>1 DEF Work, Instructions, Ranges
  <2>3. hw' = hw
    BY <2>1, <2>2, LeftOK DEF Work
  <2>4. chain'.held = <<>> /\ Latched(chain').dp = Latched(chain).dp
    <3>. DEFINE ch == Latched(chain)  t == AfterScan("RTI", ToShift("DR", belief, chain.tap))
    <3>1. chain' = Moved(ch, t, <<>>)
      BY <2>1
    <3>. HIDE DEF ch, t
    <3>2. Latched(chain').dp = ch.dp
      BY <3>1, NothingLatched
    <3>. QED BY <3>1, <3>2 DEF Moved, ch
  <2>5. ~HoldsDR'
    BY <2>4 DEF HoldsDR
  <2>6. CASE Return("failure")
    <3>1. pc' = "idle" /\ i' = i /\ conn' \in {conn, "on", "off"}
      BY <2>6 DEF Return
    <3>2. Ranges' /\ Sessions'
      BY <2>1, <2>3, <3>1 DEF Work, Ranges, Pcs, Sessions, SessionPcs
    <3>3. Instructions'
      BY <2>1, <2>4, <2>5, <3>1 DEF Work, Instructions
    <3>. QED BY <3>2, <3>3 DEF Work
  <2>7. CASE pc' = "ir" /\ calls' = InitTransfers /\ clearing' = FALSE /\ i' = 0 /\ n' = 1 /\ UNCHANGED <<result, conn>>
    <3>1. Placed' /\ call' = ClearCSR
      BY <2>1, <2>2, <2>7, InitPlaced
    <3>2. Fits'
      BY <2>7, <3>1 DEF Fits, CsrPcs, ClearCSR, Transfer
    <3>3. Sessions'
      BY <2>1, <2>2, <3>1, <3>2 DEF Sessions
    <3>4. Ranges'
      BY <2>1, <2>3, <2>7, JtagDpAssumption DEF Work, Ranges, Pcs
    <3>5. Instructions'
      BY <2>1, <2>4, <2>5, <2>7 DEF Work, Instructions
    <3>. QED BY <3>3, <3>4, <3>5 DEF Work
  <2>. QED BY <2>1, <2>6, <2>7
<1>. QED BY <1>1, <1>2, <1>3, <1>4 DEF Connecting

-----------------------------------------------------------------------------
(* Every step, and the theorem.                                            *)

LEMMA InitWork == Init => Work
<1>. SUFFICES ASSUME Init PROVE Work
  OBVIOUS
<1>1. /\ cache = [ir |-> "none", ready |-> FALSE] /\ pc = "idle" /\ conn = "off" /\ i = 0 /\ data = <<>>
      /\ op = [t |-> "none"]
      /\ chain \in [tap : TapStates, linked : {FALSE}, pick : {"IDCODE"}, dp : {"unknown"}, held : {<<>>}]
  BY DEF Init
<1>2. PICK mapped \in Mappings :
        hw = [mem |-> [w \in Address |-> 0], mapped |-> mapped, bank |-> 0, tar |-> 0, inc |-> FALSE,
             power |-> FALSE, sticky |-> FALSE, pending |-> <<>>, data |-> 0]
  BY DEF Init
<1>3. HwOK(hw)
  <2>. DEFINE m == [w \in Address |-> 0]
  <2>1. m \in [Address -> Word] /\ 0 \in Address /\ mapped \subseteq Address
    BY DebugPortAssumption, JtagDpAssumption DEF Word, Address
  <2>. HIDE DEF m
  <2>2. /\ hw.mem = m /\ hw.mapped = mapped /\ hw.tar = 0 /\ hw.bank = 0 /\ hw.pending = <<>>
        /\ IsHw(hw)
    BY <1>2 DEF IsHw, m
  <2>. QED BY <2>1, <2>2 DEF HwOK
<1>4. Ranges
  BY <1>1, <1>3, JtagDpAssumption DEF Ranges, Pcs
<1>5. chain.held = <<>> /\ chain.dp = "unknown"
  BY <1>1
<1>6. Latched(chain).dp = "unknown" /\ ~HoldsDR
  BY <1>5 DEF Latched, HoldsDR
<1>7. Instructions /\ Sessions
  BY <1>1, <1>6 DEF Instructions, Sessions, SessionPcs
<1>. QED BY <1>4, <1>7 DEF Work

LEMMA UserWork ==
  IInv /\ Work /\ (Connect \/ Kill \/ Plug \/ \E o \in Requests : Access_(o)) => Work'
<1>0. 0 \in 0..(Retries - 1) /\ <<>> \in Seq(Word)
  BY JtagDpAssumption
<1>1. ASSUME Work, NEW o, Ask(o), pc' = "detect", conn' \in {"off", "connecting", "on"} PROVE Work'
  <2>1. /\ pc = "idle" /\ i' = 0 /\ data' = <<>> /\ UNCHANGED <<hw, cache, chain>>
    BY <1>1 DEF Ask, pinVars
  <2>2. Ranges' /\ Sessions'
    BY <1>0, <1>1, <2>1 DEF Work, Ranges, Pcs, Sessions, SessionPcs
  <2>3. Instructions'
    BY <1>1, <2>1 DEF Work, Instructions, HoldsDR, Latched
  <2>. QED BY <2>2, <2>3 DEF Work
<1>2. ASSUME Work, Connect PROVE Work'
  BY <1>1, <1>2 DEF Connect
<1>3. ASSUME Work, Kill PROVE Work'
  BY <1>1, <1>3 DEF Kill, Work, Ranges
<1>4. ASSUME IInv, Work, Plug PROVE Work'
  <2>1. PICK s \in TapStates :
          chain' = [tap |-> s, linked |-> FALSE, pick |-> "lost", dp |-> "unknown", held |-> <<>>]
    BY <1>4 DEF Plug
  <2>2. /\ UNCHANGED <<pc, i, n, op, calls, clearing, data, conn, cache>>
        /\ hw' = [hw EXCEPT !.power = FALSE, !.sticky = FALSE, !.pending = <<>>, !.inc = FALSE]
    BY <1>4 DEF Plug, callVars
  <2>3. HwOK(hw')
    <3>1. HwOK(hw)
      BY <1>4 DEF Work, Ranges
    <3>2. hw' = [mem |-> hw.mem, mapped |-> hw.mapped, bank |-> hw.bank, tar |-> hw.tar, inc |-> FALSE,
                 power |-> FALSE, sticky |-> FALSE, pending |-> <<>>, data |-> hw.data]
      BY <2>2, <3>1 DEF HwOK, IsHw
    <3>. QED BY <3>1, <3>2 DEF HwOK, IsHw
  <2>4. Ranges'
    BY <1>4, <2>2, <2>3 DEF Work, Ranges
  <2>5. chain'.held = <<>> /\ Latched(chain').dp = "unknown"
    BY <2>1 DEF Latched
  <2>6. Instructions'
    BY <1>4, <2>2, <2>5 DEF Work, Instructions, HoldsDR, Instruction, call
  <2>7. Sessions'
    <3>1. CASE pc \in SessionPcs
      <4>1. /\ Placed /\ Fits /\ \A m, j : AtGroup(m, j) => Collected(m, j)
        BY <1>4, <3>1, SessionFacts
      <4>2. Placed' /\ call' = call /\ Pos' = Pos
        BY <2>2, <4>1, StayPlaced
      <4>3. Fits'
        BY <2>2, <4>1, <4>2 DEF Fits
      <4>4. ASSUME ~clearing', op'.t # "init", NEW m \in 1..Groups(op'), NEW j \in 1..4, Pos' = 4 * (m - 1) + j
            PROVE Collected(m, j)'
        <5>1. Collected(m, j)
          BY <2>2, <4>1, <4>2, <4>4 DEF AtGroup
        <5>. QED BY <2>2, <5>1 DEF Collected
      <4>. QED BY <4>2, <4>3, <4>4 DEF Sessions
    <3>2. CASE pc \notin SessionPcs
      BY <2>2, <3>2 DEF Sessions
    <3>. QED BY <3>1, <3>2
  <2>. QED BY <2>4, <2>6, <2>7 DEF Work
<1>5. ASSUME Work, NEW o \in Requests, Access_(o) PROVE Work'
  <2>1. /\ pc = "idle" /\ pc' = "ir" /\ i' = 0 /\ n' = 1 /\ data' = <<>> /\ UNCHANGED <<hw, cache, chain, conn>>
        /\ op' = o /\ clearing' = FALSE /\ calls' = TransfersOf(o)
    BY <1>5 DEF Access_, Ask, pinVars
  <2>2. Ranges'
    BY <1>0, <1>5, <2>1 DEF Work, Ranges, Pcs
  <2>3. Instructions'
    BY <1>5, <2>1 DEF Work, Instructions, HoldsDR, Latched
  <2>4. Placed' /\ Pos' = 1 /\ call' = TransfersOf(o)[1]
    BY <2>1, AccessPlaced
  <2>5. Groups(o) \in Nat \ {0} /\ Frontier(o)[0] = o.a
    BY PlanFacts
  <2>6. call'.t = "acc"
    <3>1. 1 \in 1..Groups(o) /\ 1 \in 1..4
      BY <2>5
    <3>2. TransfersOf(o)[4 * (1 - 1) + 1].t = "acc"
      BY <3>1, SetupFacts
    <3>3. 4 * (1 - 1) + 1 = 1
      OBVIOUS
    <3>. QED BY <2>4, <3>2, <3>3
  <2>7. Fits'
    BY <2>1, <2>6 DEF Fits, CsrPcs
  <2>8. ASSUME ~clearing', op'.t # "init", NEW m \in 1..Groups(op'), NEW j \in 1..4, Pos' = 4 * (m - 1) + j
        PROVE Collected(m, j)'
    <3>1. m = 1 /\ j = 1
      <4>1. 4 * (m - 1) + j = 1 /\ m >= 1 /\ m \in Int
        BY <2>1, <2>4, <2>5, <2>8
      <4>. QED BY <4>1
    <3>2. Frontier(o)[0] - o.a = 0
      <4>1. o.a \in Nat
        BY DebugPortAssumption, RequestsAssumption DEF IsRequest, Address
      <4>. QED BY <2>5, <4>1
    <3>3. TransfersOf(o)[4 * 1].v # Keep
      <4>1. 1 \in 1..Groups(o)
        BY <2>5
      <4>2. TransfersOf(o)[4 * 1].v = Keep => 1 > 1
        BY <4>1, GroupFacts
      <4>. QED BY <4>2
    <3>4. Collected(1, 1)'
      <4>1. Frontier(op')[1 - 1] - op'.a = 0 /\ ~(TransfersOf(op')[4 * 1].v = Keep)
        BY <2>1, <3>2, <3>3
      <4>2. Len(data') = 0 /\ pc' = "ir"
        BY <2>1
      <4>. QED BY <4>1, <4>2 DEF Collected, CsrPcs
    <3>. QED BY <3>1, <3>4
  <2>9. Sessions'
    BY <2>4, <2>7, <2>8 DEF Sessions
  <2>. QED BY <2>2, <2>3, <2>9 DEF Work
<1>. QED BY <1>2, <1>3, <1>4, <1>5

LEMMA StepWork == IInv /\ Work /\ [Next]_vars => Work'
<1>1. ASSUME Work, UNCHANGED vars PROVE Work'
  <2>1. UNCHANGED <<pc, i, n, op, calls, clearing, data, conn, cache, chain, hw>>
    BY <1>1 DEF vars, pinVars, userVars, callVars
  <2>2. Ranges' /\ Instructions'
    BY <1>1, <2>1 DEF Work, Ranges, Instructions, HoldsDR, Latched, Instruction, call
  <2>3. Sessions'
    <3>1. Trs' = Trs /\ Pos' = Pos /\ call' = call
      BY <2>1 DEF Trs, Pos, call
    <3>2. \A m, j : Collected(m, j)' <=> Collected(m, j)
      BY <2>1 DEF Collected
    <3>. QED BY <1>1, <2>1, <3>1, <3>2 DEF Work, Sessions, Placed, Fits
  <2>. QED BY <2>2, <2>3 DEF Work
<1>2. ASSUME IInv, Work, Session PROVE Work'
  BY <1>2, TransferIRWork, CsrIRWork, ScansWork DEF Session
<1>. QED BY <1>1, <1>2, ConnectingWork, UserWork DEF Next

LEMMA WorkInvariant == Spec => [](IInv /\ Work)
  BY InitIInv, StepIInv, InitWork, StepWork, PTL DEF Spec

\* The transfer address is always an address, the bank one of those the code
\* selects, and the tries never pass the limit, whatever is answered to the scans.
THEOREM TypeCorrect == Spec => []TypeOK
<1>1. IInv /\ Work => TypeOK
  <2>. SUFFICES ASSUME IInv, Work PROVE TypeOK
    OBVIOUS
  <2>1. cache \in [ir : {"none", "IDCODE", "DPACC", "APACC"}, ready : BOOLEAN]
    BY DEF IInv, Shape, Work, Ranges
  <2>. QED BY <2>1 DEF IInv, Shape, Work, Ranges, HwOK, TypeOK
<1>. QED BY <1>1, WorkInvariant, PTL
=============================================================================
