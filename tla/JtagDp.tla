------------------------------ MODULE JtagDp ------------------------------
(***************************************************************************)
(* Access to the target's memory over JTAG: the word and block accesses of *)
(* cc3200_core.c, the register transfers of cc3200_jtagdp.c with their     *)
(* retries and status checks, the ICEPICK router, and the scans of         *)
(* jtag_scan.c; connecting to a target that may be plugged in at any time, *)
(* and the reset GDB asks for.  One task does all this; each scan is an    *)
(* action.  Enabling debug and halting, at the end of cc3200_init, are     *)
(* memory accesses like any other and are left out there.                  *)
(***************************************************************************)
EXTENDS DebugPort, JtagTap, SequencesExt

CONSTANTS
  Retries,                \* CC3200_JTAGDP_ACC_RETRIES
  Requests,               \* the memory accesses that the GDB server may ask for
  Mappings,               \* where the target may have memory
  MaxRequests, MaxWaits, MaxPlugs, MaxKills   \* bounds on what happens

ASSUME JtagDpAssumption ==
  /\ Retries \in Nat \ {0} /\ Mappings \subseteq SUBSET Address
  /\ MaxRequests \in Nat /\ MaxWaits \in Nat /\ MaxPlugs \in Nat /\ MaxKills \in Nat

VARIABLES
  belief,                 \* jtag_scan_state.cur_jtag_state
  cache,                  \* cc3200_jtagdp_state.cache
  chain,                  \* the TAPs: their state, whether the router links the port in,
                          \* the latched instructions, what awaits Update
  hw,                     \* the debug port and the memory behind it
  plugged,                \* the target is there
  synced,                 \* history: it was there since the TAPs were last reset
  conn,                   \* the GDB server's view: "off", "connecting", "on"
  pc, i, n,               \* the next scan; which try it is; how far in a block
  op, calls,              \* the request, and its register transfers still to do
  clearing,               \* a transfer found STICKYERR and clears it
  data, result,           \* what was read; how the last request ended
  excused,                \* history: the request met WAIT, or a port without power
  unnoticed,              \* history: a WAIT went unnoticed
  before,                 \* history: the access before, if it failed
  requests, waits, plugs, kills

pinVars  == <<belief, chain, hw>>
envVars  == <<plugged, synced>>
userVars == <<conn, op, before, requests, plugs, kills>>
callVars == <<calls, clearing, data, result>>
waitVars == <<waits, excused, unnoticed>>
vars == <<pinVars, envVars, userVars, callVars, cache, pc, i, n, waitVars>>

-----------------------------------------------------------------------------
(* Register transfers, and what each request makes of them.                *)

Transfer(type, ap, rnw, a, v, check, vals) ==
  [t |-> type, ap |-> ap, rnw |-> rnw, a |-> a, v |-> v, check |-> check, vals |-> vals]
SelectBank(b)   == Transfer("acc", FALSE, FALSE, 8, b, TRUE, <<>>)
WriteTar(w, chk) == Transfer("acc", TRUE, FALSE, 4, w, chk, <<>>)
ReadAP(a)       == Transfer("acc", TRUE, TRUE, a, 0, TRUE, <<>>)
WriteAP(a, v)   == Transfer("acc", TRUE, FALSE, a, v, TRUE, <<>>)
ClearCSR        == Transfer("acc", FALSE, FALSE, 4, "clear", TRUE, <<>>)

\* What is written back to a word whose low byte is not the block's: what was read.
Keep == -1

\* A word is reached through the window of four words at the transfer address.  The
\* word read follows the k before it.
ReadNext(w, k)  == <<SelectBank(0), WriteTar(w - (w % 4), TRUE), SelectBank(1),
                     Transfer("acc", TRUE, TRUE, 4 * (w % 4), k, TRUE, <<>>)>>
ReadWord(w)     == ReadNext(w, 0)
WriteWord(w, v) == <<SelectBank(0), WriteTar(w - (w % 4), TRUE), SelectBank(1), WriteAP(4 * (w % 4), v)>>

\* Slip: a block is not cut where the transfer address wraps.
ChunksWhole(a, len) == <<<<a, len>>>>
\* A block is transferred page by page: <<first word, number of words>>.
Chunks(a, len) ==
  LET first == a \div Page
      From(p) == IF p = first THEN a ELSE p * Page
      To(p)   == IF (p + 1) * Page < a + len THEN (p + 1) * Page ELSE a + len
  IN [k \in 1 .. ((a + len - 1) \div Page) - first + 1 |->
        LET p == first + k - 1 IN <<From(p), To(p) - From(p)>>]

PipeRead(len)   == Transfer("piper", TRUE, TRUE, 12, 0, TRUE, [j \in 1..len |-> 0])
PipeWrite(vals) == Transfer("pipew", TRUE, FALSE, 12, 0, TRUE, vals)
ReadBlock(a, len) ==
  FlattenSeq([k \in DOMAIN Chunks(a, len) |->
    <<SelectBank(0), WriteTar(Chunks(a, len)[k][1], FALSE),
      SelectBank(0), PipeRead(Chunks(a, len)[k][2])>>])
WriteBlock(a, vals) ==
  LET cs == Chunks(a, Len(vals))
      Part(c) == SubSeq(vals, c[1] - a + 1, c[1] - a + c[2])
  IN FlattenSeq([k \in DOMAIN cs |->
       <<SelectBank(0), WriteTar(cs[k][1], FALSE), SelectBank(0), PipeWrite(Part(cs[k]))>>])

\* Blocks that are not of whole words, and single words, word by word: o.head and
\* o.tail tell whether the block starts and ends with a whole word.
ReadBytes(o) == FlattenSeq([k \in 1..o.n |-> ReadNext(o.a + k - 1, k - 1)])

\* A word that is not all the block's is read, changed and written back; so is the
\* word after a block that ends with a whole word.
WriteBytes(o) ==
  LET Whole(k) == k <= o.n /\ (k > 1 \/ o.head) /\ (k < o.n \/ o.tail)
      Value(k) == IF k <= o.n THEN o.vals[k] ELSE Keep
      Change(w, v) == ReadWord(w) \o WriteWord(w, v)
  IN FlattenSeq([k \in 1 .. o.n + (IF o.tail THEN 1 ELSE 0) |->
       IF Whole(k) THEN WriteWord(o.a + k - 1, Value(k)) ELSE Change(o.a + k - 1, Value(k))])

TransfersOf(o) ==
  CASE o.t = "read"   -> ReadWord(o.a)
    [] o.t = "write"  -> WriteWord(o.a, o.vals[1])
    [] o.t = "bread"  -> ReadBlock(o.a, o.n)
    [] o.t = "bwrite" -> WriteBlock(o.a, o.vals)
    [] o.t = "uread"  -> ReadBytes(o)
    [] o.t = "uwrite" -> WriteBytes(o)

\* After detection: clear and check the status, power up, identify the ports
\* (one stands for the sixteen), set up single increments of whole words.  The
\* acknowledgement of the power-up is read once: the port is taken to give it at
\* once, and the fifty tries and the error after them (cc3200_jtagdp.c:486-490) are
\* left out.
InitTransfers ==
  <<ClearCSR, Transfer("csr", FALSE, TRUE, 4, 0, TRUE, <<>>),
    Transfer("acc", FALSE, FALSE, 4, "power", TRUE, <<>>), Transfer("acc", FALSE, TRUE, 4, 0, TRUE, <<>>),
    SelectBank(15), ReadAP(12), SelectBank(0), ReadAP(0), SelectBank(0), WriteAP(0, 0)>>

\* A request is for words that exist, a block's at least one.  Only a word that
\* is not all the block's may be left as it is, and the word after a block is
\* written only where there may be one.
IsRequest(o) ==
  /\ o.t \in {"read", "write", "bread", "bwrite", "uread", "uwrite"}
  /\ o.n \in Nat \ {0} /\ (o.t \in {"read", "write"} => o.n = 1)
  /\ o.a \in Address /\ o.a + o.n - 1 \in Address
  /\ o.t \in {"write", "bwrite"} => o.vals \in Seq(Word) /\ Len(o.vals) = o.n
  /\ o.t = "uwrite" =>
       /\ o.vals \in Seq(Word \cup {Keep}) /\ Len(o.vals) = o.n /\ o.head \in BOOLEAN /\ o.tail \in BOOLEAN
       /\ \A k \in 1..o.n : o.vals[k] = Keep => (k = 1 /\ ~o.head) \/ (k = o.n /\ ~o.tail)
       /\ o.tail => o.a + o.n \in Address

ASSUME RequestsAssumption == \A o \in Requests : IsRequest(o)

-----------------------------------------------------------------------------
Init ==
  /\ belief = "TLR" /\ cache = [ir |-> "none", ready |-> FALSE]
  /\ chain \in [tap : TapStates, linked : {FALSE}, pick : {"IDCODE"}, dp : {"unknown"}, held : {<<>>}]
  /\ \E mapped \in Mappings :
       hw = [mem |-> [w \in Address |-> 0], mapped |-> mapped, bank |-> 0, tar |-> 0, inc |-> FALSE,
             power |-> FALSE, sticky |-> FALSE, pending |-> <<>>, data |-> 0]
  /\ plugged = TRUE /\ synced = FALSE /\ conn = "off"
  /\ pc = "idle" /\ i = 0 /\ n = 1 /\ op = [t |-> "none"] /\ calls = <<>> /\ clearing = FALSE
  /\ data = <<>> /\ result = "none" /\ excused = FALSE /\ before = {} /\ unnoticed = FALSE
  /\ requests = 0 /\ waits = MaxWaits /\ plugs = 0 /\ kills = 0

-----------------------------------------------------------------------------
(* Scans.                                                                  *)

\* The TAPs moved to t, with held waiting for Update.
Moved(ch, t, held) ==
  [tap |-> t, linked |-> ch.linked, pick |-> ch.pick, dp |-> ch.dp, held |-> held]

\* Leaving a pause passes Update: an instruction is latched, a transaction starts.
Latched(ch) ==
  IF ch.held # <<>> /\ ch.held[1].reg = "IR"
  THEN [ch EXCEPT !.pick = ch.held[1].pick, !.dp = ch.held[1].dp] ELSE ch
Left(h, ch) ==
  IF ch.held # <<>> /\ ch.held[1].reg = "DR" THEN Start(h, ch.dp, ch.held[1].req) ELSE h

\* An instruction for the port, the router bypassed; shiftIR always ends in a pause.
ScanIR(dp) ==
  LET s == ToShift("IR", belief, chain.tap)
      ch == Latched(chain)
      p == IF s = "ShiftIR" THEN "BYPASS" ELSE "lost"
  IN /\ hw' = Left(hw, chain)
     /\ belief' = Believed("IR", "Pause")
     /\ chain' = Moved(ch, AfterScan("Pause", s), <<[reg |-> "IR", pick |-> p, dp |-> dp]>>)

\* The scan reaches a data register of the debug port.
Reaches(ch, s, irs) == plugged /\ s = "ShiftDR" /\ ch.linked /\ ch.pick = "BYPASS" /\ ch.dp \in irs

\* The code does not look at the answer to this scan, or goes on after the last try.
Overlooked == pc \in {"cmd", "csr"} \/ (pc \in {"resp", "csrResp"} /\ i + 1 = Retries)

\* A scan of req, answered by ack and by d.  A target that is not addressed
\* answers nothing, or, behind the router's register, anything.
ScanDR(req, to, ack, d) ==
  LET s == ToShift("DR", belief, chain.tap)
      ch == Latched(chain)
      h == Left(hw, chain)
      there == Reaches(ch, s, {"DPACC", "APACC"})
      After(held) == Moved(ch, AfterScan(to, s), held)
  IN /\ belief' = Believed("DR", to)
     /\ \/ /\ there /\ ack = "OK"
           /\ \E works \in IF h.power THEN {TRUE} ELSE BOOLEAN :
                LET h2 == Complete(h, works)
                IN /\ d = h2.data
                   /\ IF to = "RTI" THEN hw' = Start(h2, ch.dp, req) /\ chain' = After(<<>>)
                      ELSE hw' = h2 /\ chain' = After(<<[reg |-> "DR", req |-> req]>>)
           /\ UNCHANGED waitVars
        \/ /\ there /\ ack = "WAIT" /\ h.pending # <<>> /\ waits > 0 /\ d = h.data
           /\ waits' = waits - 1 /\ excused' = TRUE /\ unnoticed' = (unnoticed \/ Overlooked)
           /\ hw' = h /\ chain' = After(<<>>)
        \/ /\ ~there /\ (ack = "BAD" \/ (plugged /\ ch.pick = "ROUTER"))
           /\ hw' = h /\ chain' = After(<<>>) /\ UNCHANGED waitVars

Acks == {"OK", "WAIT", "BAD"}
\* accResponseWrite and accResponseRead: the next transaction is a read of 0x0C.
Dummy == [rnw |-> TRUE, a |-> 12, v |-> 0]

\* cc3200_jtagdp_shiftIR: not shifted again when the cache says it is there.
ShiftIR(from, ir, to) ==
  /\ pc = from /\ pc' = to
  /\ IF cache.ready /\ cache.ir = ir THEN UNCHANGED <<pinVars, cache>>
     ELSE ScanIR(ir) /\ cache' = [ir |-> ir, ready |-> TRUE]
  /\ UNCHANGED <<envVars, userVars, callVars, i, n, waitVars>>

-----------------------------------------------------------------------------
(* How a request ends, and how it goes on.                                 *)

Return(r) ==
  /\ pc' = "idle" /\ result' = r
  /\ conn' = IF op.t # "init" THEN conn ELSE IF r = "success" THEN "on" ELSE "off"
  /\ UNCHANGED <<calls, clearing, i, n>>

Goto(p) == pc' = p /\ i' = 0 /\ n' = n /\ UNCHANGED <<calls, clearing, result, conn>>
\* Slip: one try too many.
AgainTooOften(p, otherwise) ==
  IF i < Retries THEN pc' = p /\ i' = i + 1 /\ n' = n /\ UNCHANGED <<calls, clearing, result, conn>>
  ELSE otherwise
\* Once more, while tries are left.
Again(p, otherwise) ==
  IF i + 1 < Retries THEN pc' = p /\ i' = i + 1 /\ n' = n /\ UNCHANGED <<calls, clearing, result, conn>>
  ELSE otherwise

NextTransfer ==
  IF Len(calls) = 1 THEN Return("success")
  ELSE /\ calls' = Tail(calls) /\ i' = 0 /\ n' = 1
       /\ pc' = IF calls'[1].t = "csr" THEN "csrIR" ELSE "ir"
       /\ UNCHANGED <<clearing, result, conn>>

call == calls[1]
Request ==
  [rnw |-> call.rnw, a |-> call.a,
   v |-> IF call.rnw THEN 0 ELSE IF call.ap /\ call.v = Keep THEN data[1] ELSE call.v]
scanRest == <<envVars, op, before, requests, plugs, kills, cache>>

-----------------------------------------------------------------------------
(* DPACC and APACC reads and writes.                                       *)

Instruction == IF call.ap THEN "APACC" ELSE "DPACC"
AfterIR == CASE call.t = "piper" -> "first" [] call.t = "pipew" -> "put" [] OTHER -> "cmd"

TransferIR == calls # <<>> /\ ShiftIR("ir", Instruction, AfterIR)

\* The transaction itself: what its own scan is answered is not looked at.
\* Without check_response it is repeated until the tries are used up.
Cmd ==
  /\ pc = "cmd"
  /\ \E ack \in Acks, d \in Word :
       /\ ScanDR(Request, "RTI", ack, d)
       /\ IF call.check THEN pc' = "resp" /\ UNCHANGED <<i, n, calls, clearing, result, conn>>
          ELSE Again("cmd", Goto("csrIR"))
  /\ UNCHANGED <<scanRest, data>>

\* After the last WAIT the transfer goes on as if it had been answered OK.
Resp ==
  /\ pc = "resp"
  /\ \E ack \in Acks, d \in Word :
       /\ ScanDR(Dummy, "RTI", ack, d)
       /\ data' = IF call.rnw THEN SubSeq(data, 1, call.v) \o <<d>> ELSE data
       /\ CASE ack = "BAD"  -> Return("failure")
            [] ack = "WAIT" -> Again("cmd", Goto("csrIR"))
            [] ack = "OK"   -> Goto("csrIR")
  /\ UNCHANGED scanRest

-----------------------------------------------------------------------------
(* Pipelined accesses.                                                     *)

First ==
  /\ pc = "first"
  /\ \E ack \in Acks, d \in Word :
       /\ ScanDR(Request, "RTI", ack, d)
       /\ CASE ack = "BAD"  -> Return("failure")
            [] ack = "WAIT" -> Again("first", Return("failure"))
            [] ack = "OK"   -> Goto("get")
  /\ UNCHANGED <<scanRest, data>>

\* The k-th word of a block has been transferred; go on with the next, or to p.
NextWord(again, p) ==
  IF n = Len(call.vals) THEN Goto(p)
  ELSE pc' = again /\ i' = 0 /\ n' = n + 1 /\ UNCHANGED <<calls, clearing, result, conn>>

Get ==
  /\ pc = "get"
  /\ \E ack \in Acks, d \in Word :
       /\ ScanDR(Dummy, "Pause", ack, d)
       /\ data' = IF ack = "OK" THEN Append(data, d) ELSE data
       /\ CASE ack = "BAD"  -> Return("failure")
            [] ack = "WAIT" -> Again("get", Return("failure"))
            [] ack = "OK"   -> NextWord("get", "csrIR")
  /\ UNCHANGED scanRest

Put ==
  /\ pc = "put"
  /\ \E ack \in Acks, d \in Word :
       /\ ScanDR([Request EXCEPT !.v = call.vals[n]], "RTI", ack, d)
       /\ CASE ack = "BAD"  -> Return("failure")
            [] ack = "WAIT" -> Again("put", Return("failure"))
            [] ack = "OK"   -> NextWord("put", "final")
  /\ UNCHANGED <<scanRest, data>>

Final ==
  /\ pc = "final"
  /\ \E ack \in Acks, d \in Word :
       /\ ScanDR(Dummy, "RTI", ack, d)
       /\ IF ack = "BAD" THEN Return("failure") ELSE Goto("csrIR")
  /\ UNCHANGED <<scanRest, data>>

-----------------------------------------------------------------------------
(* checkCSR, and what its caller makes of it.                              *)

CsrIR == ShiftIR("csrIR", "DPACC", "csr")

Csr ==
  /\ pc = "csr"
  /\ \E ack \in Acks, d \in Word :
       ScanDR([rnw |-> TRUE, a |-> 4, v |-> 0], "RTI", ack, d)
  /\ pc' = "csrResp"
  /\ UNCHANGED <<scanRest, callVars, conn, i, n>>

\* Slip: the error is reported and not cleared.
CheckedKept(csr) == IF call.t # "csr" /\ csr = 1 THEN Return("failure") ELSE NextTransfer
\* checkCSR's own result is looked at only by cc3200_init; csr is what it stored.
Checked(csr) ==
  IF call.t # "csr" /\ csr = 1
  THEN /\ calls' = <<ClearCSR>> /\ clearing' = TRUE /\ pc' = "ir" /\ i' = 0 /\ n' = 1
       /\ UNCHANGED <<result, conn>>
  ELSE IF clearing THEN Return("failure") ELSE NextTransfer

CsrResp ==
  /\ pc = "csrResp"
  /\ \E ack \in Acks, d \in Word :
       /\ ScanDR(Dummy, "RTI", ack, d)
       /\ IF ack = "BAD" /\ call.t = "csr" THEN Return("failure")
          ELSE IF ack = "WAIT" THEN Again("csr", Checked(d))
          ELSE Checked(d)
  /\ UNCHANGED <<scanRest, data>>

-----------------------------------------------------------------------------
(* The ICEPICK router, its scans leaving the port's instruction unknown.   *)

\* An instruction of the router alone and its data: pc goes on, tap as walked.
Icepick(from, pick, tap, to) ==
  /\ pc = from /\ pc' = to
  /\ belief' = "RTI" /\ hw' = Left(hw, chain)
  /\ chain' = [tap |-> tap, pick |-> IF synced' /\ plugged THEN pick ELSE "lost",
               linked |-> chain.linked \/ (pick = "BYPASS" /\ chain.pick = "CONNECT"),
               dp |-> "unknown", held |-> <<>>]
  /\ UNCHANGED <<plugged, cache, calls, clearing, data, i, n, waitVars>>

\* jtag_scan_init and icepick_detect: five clocks with TMS high, two codes read.
Detect ==
  /\ synced' = plugged
  /\ Icepick("detect", "ICEPICKCODE",
             IrDr("RTI", "RTI", IrDr("TLR", "RTI", AfterReset(chain.tap))),
             IF plugged THEN "connect" ELSE "idle")
  /\ IF plugged THEN UNCHANGED <<conn, result>>
     ELSE result' = "failure" /\ conn' = IF op.t = "init" THEN "off" ELSE conn
  /\ UNCHANGED <<op, before, requests, plugs, kills>>

\* Slip: the router is not told to be connected.
ConnectedNot == Icepick("connect", "BYPASS", IrDr(belief, "RTI", chain.tap), "configure")
Connected == Icepick("connect", "CONNECT", IrDr(belief, "RTI", chain.tap), "configure")

Configure ==
  Icepick("configure", "BYPASS",
    LET s1 == IrDr(belief, "Pause", chain.tap)
        s4 == IrDr("PauseDR", "RTI", IrDr("PauseDR", "Pause", IrDr("PauseDR", "Pause", s1)))
    IN Scanned("IR", "RTI", "RTI", Lo(Lo(Lo(Lo(Lo(s4)))))),
    "warm")

WarmReset ==
  Icepick("warm", "ROUTER", IrDr(belief, "RTI", chain.tap), IF op.t = "init" THEN "dpInit" ELSE "idle")

Router ==
  \/ Detect
  \/ /\ synced' = synced
     /\ \/ (Connected \/ Configure) /\ UNCHANGED <<userVars, result>>
        \/ /\ WarmReset /\ UNCHANGED userVars
           /\ result' = IF op.t = "init" THEN result ELSE "success"

\* Slip: the cache survives.
DpInitKeep ==
  /\ pc = "dpInit" /\ pc' = "idIR" /\ cache' = cache
  /\ UNCHANGED <<pinVars, envVars, userVars, callVars, i, n, waitVars>>
\* cc3200_jtagdp_init
DpInit ==
  /\ pc = "dpInit" /\ pc' = "idIR" /\ cache' = [cache EXCEPT !.ready = FALSE]
  /\ UNCHANGED <<pinVars, envVars, userVars, callVars, i, n, waitVars>>

\* cc3200_jtagdp_detect
DpDetectIR == ShiftIR("idIR", "IDCODE", "idDR")
DpDetect ==
  LET s == ToShift("DR", belief, chain.tap)
      ch == Latched(chain)
      found == Reaches(ch, s, {"IDCODE"})
  IN /\ pc = "idDR"
     /\ hw' = Left(hw, chain) /\ belief' = "RTI"
     /\ chain' = Moved(ch, AfterScan("RTI", s), <<>>)
     /\ IF found THEN /\ pc' = "ir" /\ calls' = InitTransfers /\ clearing' = FALSE /\ i' = 0 /\ n' = 1
                      /\ UNCHANGED <<result, conn>>
        ELSE Return("failure")
     /\ UNCHANGED <<scanRest, data, waitVars>>

-----------------------------------------------------------------------------
(* The GDB server asks; the user plugs the target.                         *)

IsAccess(o) == o.t \notin {"none", "init", "reset"}
Ask(o) ==
  /\ pc = "idle" /\ op' = o /\ i' = 0 /\ n' = 1 /\ clearing' = FALSE /\ data' = <<>>
  /\ excused' = ~hw.power
  /\ before' = IF IsAccess(op) /\ result = "failure" THEN {op} ELSE {}
  /\ UNCHANGED <<pinVars, envVars, cache, waits, unnoticed, plugs>>

\* gdbserver_connectTarget: tried again until it worked.
Connect ==
  /\ conn = "off" /\ Ask([t |-> "init"]) /\ pc' = "detect" /\ conn' = "connecting"
  /\ UNCHANGED <<calls, result, requests, kills>>
\* A 'k' packet.
Kill ==
  /\ conn = "on" /\ kills < MaxKills /\ kills' = kills + 1
  /\ Ask([t |-> "reset"]) /\ pc' = "detect" /\ UNCHANGED <<calls, result, conn, requests>>
Access_(o) ==
  /\ conn = "on" /\ requests < MaxRequests /\ requests' = requests + 1
  /\ Ask(o) /\ calls' = TransfersOf(o) /\ pc' = "ir" /\ result' = "none"
  /\ UNCHANGED <<conn, kills>>

\* The target is taken away, or comes back with its TAPs anywhere; not in a session.
Plug ==
  /\ conn # "on" /\ plugs < MaxPlugs /\ plugs' = plugs + 1
  /\ plugged' = ~plugged /\ synced' = FALSE
  /\ \E s \in TapStates : chain' = [tap |-> s, linked |-> FALSE, pick |-> "lost", dp |-> "unknown", held |-> <<>>]
  /\ hw' = [hw EXCEPT !.power = FALSE, !.sticky = FALSE, !.pending = <<>>, !.inc = FALSE]
  /\ UNCHANGED <<belief, cache, conn, op, before, requests, kills, callVars, pc, i, n, waitVars>>

Session == TransferIR \/ Cmd \/ Resp \/ First \/ Get \/ Put \/ Final \/ CsrIR \/ Csr \/ CsrResp
Connecting == Router \/ DpInit \/ DpDetectIR \/ DpDetect
Next ==
  \/ Session \/ Connecting \/ Connect \/ Kill \/ Plug
  \/ \E o \in Requests : Access_(o)

Spec == Init /\ [][Next]_vars
\* The task runs; nobody has to ask, and the target need not be there.
FairSpec == Spec /\ WF_vars(Session \/ Connecting \/ Connect)

-----------------------------------------------------------------------------
(* Properties.                                                             *)

Pcs == {"idle", "ir", "cmd", "resp", "first", "get", "put", "final", "csrIR", "csr", "csrResp",
        "detect", "connect", "configure", "warm", "dpInit", "idIR", "idDR"}

\* The debugger's variables and the port's registers stay in their ranges.
TypeOK ==
  /\ belief \in Beliefs /\ chain.tap \in TapStates /\ pc \in Pcs
  /\ cache \in [ir : {"none", "IDCODE", "DPACC", "APACC"}, ready : BOOLEAN]
  /\ hw.mem \in [Address -> Word] /\ hw.tar \in Address /\ hw.bank \in {0, 1, 15}
  /\ conn \in {"off", "connecting", "on"} /\ i \in 0..(Retries - 1)

\* jtag_scan knows where the TAPs are, although it never sees them, in every
\* sequence of scans and pauses, failures, resets and new attempts to connect.
BeliefIsTrue == synced => chain.tap = belief

\* The instruction that is not shifted again because it was shifted before
\* (cc3200_jtagdp.c:195) is the one in the port, and the router is bypassed,
\* whenever the port is used, as long as GDB has not asked for a reset.
RouterPcs == {"detect", "connect", "configure", "warm", "dpInit"}
CacheIsTrue ==
  synced /\ cache.ready /\ conn # "off" /\ pc \notin RouterPcs /\ kills = 0
    => Latched(chain).dp = cache.ir /\ Latched(chain).pick = "BYPASS"

\* An access fails only if a word it is about is not there, or one of the access
\* before, whose failure left it pending, or the port answered WAIT, or an earlier
\* error has left it without power: the words that are accessed along with it
\* (dummy reads, the rest of a pipeline) do no harm; but for the word after a block
\* that ends with a whole word and is written by way of WriteBytes.
AboutMapped(o) ==
  o.a .. (o.a + o.n - (IF o.t = "uwrite" /\ o.tail THEN 0 ELSE 1)) \subseteq hw.mapped
Reason == excused \/ unnoticed \/ \E o \in {op} \cup before : ~AboutMapped(o)
Failed == pc = "idle" /\ IsAccess(op) /\ result = "failure"
FailureHasReason == Failed /\ kills = 0 => Reason

\* What that takes: memory comes in whole pages of the transfer address.
WholePages == \A m \in Mappings : \A w \in m : \A v \in Address : v \div Page = w \div Page => v \in m

\* The same after a reset that GDB asked for, which leaves the target
\* initialized (target_al.h:78-128); the code's cached instruction is stale then.
FailureHasReasonAfterReset == Failed => Reason

\* A target that stays plugged in is connected to, in whatever state its TAPs
\* were found and whatever was left over from attempts before; as far as the port
\* acknowledges its power-up (InitTransfers).
Connects == <>[]plugged => <>(conn = "on")

\* Each access does what it says: success means done, and nothing else changes
\* in the target's memory, as long as no WAIT goes unnoticed and GDB has not
\* asked for a reset.
Accessing == IsAccess(op) /\ pc # "idle"
Memory == INSTANCE TargetMemory
  WITH mem <- hw.mem, mapped <- hw.mapped, busy <- Accessing, request <- op, failed <- before,
       reliable <- ~unnoticed /\ kills = 0
ImplementsMemory == Memory!Spec
=============================================================================
