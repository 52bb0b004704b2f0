-------------------------- MODULE JtagMemoryProofs --------------------------
(***************************************************************************)
(* The register transfers of cc3200_jtagdp.c, made as cc3200_core.c lists  *)
(* them, implement TargetMemory: each access does what it says, and none   *)
(* fails without a reason.                                                 *)
(***************************************************************************)
EXTENDS JtagDpProofs

-----------------------------------------------------------------------------
(* What the port holds while requests go on.                               *)

\* The port once it has left a pause.
Now == Left(hw, chain)

\* The transfer a group is for, and what its three others set up.
Main(o, m) == TransfersOf(o)[4 * m]
Single(o, m) == Main(o, m).t = "acc"
KeptBy(o, m) == m <= Groups(o) /\ Main(o, m).v = Keep
Base(o, m) == LET x == Frontier(o)[m - 1] IN IF Single(o, m) THEN x - (x % 4) ELSE x
Bank(o, m) == IF Single(o, m) THEN 1 ELSE 0

\* No access is pending, no write is, or this one.
Quiet(h) == h.pending = <<>>
OnlyReads(h) == h.pending # <<>> => h.pending[1].rnw
Reads(h, w) == h.pending # <<>> /\ h.pending[1].addr = w /\ h.pending[1].rnw
Writes(h, w, v) ==
  h.pending # <<>> /\ h.pending[1].addr = w /\ ~h.pending[1].rnw /\ h.pending[1].v = v

\* v is what the write r is to store in the word w; what is pending is such a word's.
Stored(r, w, v) ==
  r.t \in Stores /\ w \in r.a .. LastWord(r) /\ v \in Word /\ v = r.vals[w - r.a + 1]
LeftOver(rs, h) == OnlyReads(h) \/ \E r \in rs : Stored(r, h.pending[1].addr, h.pending[1].v)

\* The words of a request below z have been transferred.
Done(o, z, h, d) ==
  \A w \in o.a .. (z - 1) : w <= LastWord(o) =>
    /\ w \in h.mapped
    /\ o.t \in Loads => d[w - o.a + 1] = h.mem[w]
    /\ o.t \in Stores /\ o.vals[w - o.a + 1] \in Word => h.mem[w] = o.vals[w - o.a + 1]
\* What is to be written back to a word is what it holds.
Peeked(o, m, h, d) == KeptBy(o, m) => d[1] = h.mem[Frontier(o)[m - 1]]
\* The registers are as the j-th transfer of a group needs them.
Ready(o, m, j, h) ==
  /\ j \in {2, 3} => h.bank = 0
  /\ j = 4 => h.bank = Bank(o, m)
  /\ j \in {3, 4} => (IF Single(o, m) THEN h.tar - (h.tar % 4) ELSE h.tar) = Base(o, m)
So(o, m, j, h, d) == Done(o, Frontier(o)[m - 1], h, d) /\ Peeked(o, m, h, d) /\ Ready(o, m, j, h)
After(o, m, j, h, d) ==
  IF j < 4 THEN So(o, m, j + 1, h, d) ELSE Done(o, Frontier(o)[m], h, d) /\ Peeked(o, m + 1, h, d)

\* The access of a group for a single word is pending; so is the last of a block's.
Value(o, m, d) == IF Main(o, m).v = Keep THEN d[1] ELSE Main(o, m).v
AtWord(o, m, h, d) ==
  /\ Main(o, m).rnw => Reads(h, Frontier(o)[m - 1])
  /\ ~Main(o, m).rnw => Writes(h, Frontier(o)[m - 1], Value(o, m, d))
  /\ ~h.pending[1].inc
PutsLast(o, m, h, d) ==
  LET x == Frontier(o)[m - 1]  y == Frontier(o)[m]
  IN Done(o, y - 1, h, d) /\ Writes(h, y - 1, Main(o, m).vals[y - x])

\* Before a transfer, and after each of its scans.
Entering(o, m, j, h, d, rs) ==
  So(o, m, j, h, d) /\ IF m = 1 /\ j = 1 THEN LeftOver(rs, h) ELSE Quiet(h) /\ ~h.sticky
Repeating(o, m, h, d) == ~h.sticky /\ (Quiet(h) \/ AtWord(o, m, h, d)) /\ So(o, m, 4, h, d)
Heard(o, m, j, h, d) ==
  /\ Quiet(h) /\ (j = 2 => Single(o, m))
  /\ h.sticky \/ (After(o, m, j, h, d) /\ (j = 2 => h.tar = Base(o, m)))
Reaching(o, m, h, d) ==
  (h.sticky /\ Quiet(h)) \/ (~h.sticky /\ AtWord(o, m, h, d) /\ So(o, m, 4, h, d))
Getting(o, m, k, h, d) ==
  LET w == Frontier(o)[m - 1] + k - 1
  IN OnlyReads(h) /\ (h.sticky \/ (Done(o, w, h, d) /\ h.bank = 0 /\ h.tar = w /\ Reads(h, w) /\ h.pending[1].inc))
Putting(o, m, k, h, d) ==
  LET x == Frontier(o)[m - 1]
  IN \/ h.sticky /\ Quiet(h)
     \/ /\ ~h.sticky /\ h.bank = 0
        /\ \/ k = 1 /\ Quiet(h) /\ h.tar = x /\ Done(o, x, h, d)
           \/ /\ k > 1 /\ h.tar = x + k - 2 /\ Done(o, x + k - 2, h, d)
              /\ Writes(h, x + k - 2, Main(o, m).vals[k - 1]) /\ h.pending[1].inc
Ending(o, m, h, d) == (h.sticky /\ Quiet(h)) \/ PutsLast(o, m, h, d)
Checking(o, m, j, h, d) ==
  \/ /\ OnlyReads(h) /\ (j \in {1, 3} => Quiet(h)) /\ (h.sticky \/ After(o, m, j, h, d))
     /\ j = 2 => Quiet(h) \/ (Single(o, m) /\ (h.sticky \/ h.tar = Base(o, m)))
  \/ Main(o, m).t = "pipew" /\ j = 4 /\ PutsLast(o, m, h, d)
Judged(o, m, j, h, d) == Quiet(h) /\ (h.data = 0 => ~h.sticky) /\ (h.sticky \/ After(o, m, j, h, d))

Stage(o, m, j, p, k, h, d, rs) ==
  /\ p \in {"ir", "first"} \/ (p = "cmd" /\ j < 4) => Entering(o, m, j, h, d, rs)
  /\ p = "cmd" /\ j = 4 => Repeating(o, m, h, d)
  /\ p = "resp" /\ j < 4 => Heard(o, m, j, h, d)
  /\ p = "resp" /\ j = 4 => Reaching(o, m, h, d)
  /\ p = "get" => Getting(o, m, k, h, d)
  /\ p = "put" => Putting(o, m, k, h, d)
  /\ p = "final" => Ending(o, m, h, d)
  /\ p \in {"csrIR", "csr"} => Checking(o, m, j, h, d)
  /\ p = "csrResp" => Judged(o, m, j, h, d)

\* While the port is set up: q is the place among InitTransfers.
Rising(h, p, q) ==
  /\ p \in {"resp", "csrResp"} => Quiet(h)
  /\ p = "csrResp" /\ h.data = 0 => ~h.sticky
  /\ q > 1 /\ p \in {"ir", "cmd"} => Quiet(h) /\ ~h.sticky
  /\ q = 2 => Quiet(h) /\ ~h.sticky
  /\ (q = 5 /\ p \notin {"ir", "cmd"}) \/ q = 6 => h.bank = 15
  /\ (q = 9 /\ p \notin {"ir", "cmd"}) \/ q = 10 => h.bank = 0
  /\ q = 10 /\ p \notin {"ir", "cmd"} => h.inc

\* What the router and the cache say of the chain, and the server of the session.
Links ==
  /\ chain.linked \/ chain.pick = "CONNECT" \/ Latched(chain).pick = "CONNECT" => synced /\ plugged
  /\ pc = "idIR" => ~cache.ready
  /\ (pc \in SessionPcs /\ pc # "ir") \/ pc = "idDR" => cache.ready
  /\ kills = 0 /\ pc \notin RouterPcs \cup {"idIR"} => Latched(chain).pick # "ROUTER"
  /\ kills = 0 /\ pc # "idle" => conn = IF op.t = "init" THEN "connecting" ELSE "on"

Reliable == kills = 0 /\ ~unnoticed
NotYet ==
  /\ OnlyReads(Now) /\ Now.bank # 1 /\ (~chain.linked => Quiet(Now))
  /\ chain.linked /\ pc \in SessionPcs /\ ~clearing => Rising(Now, pc, Pos)
Serving ==
  /\ chain.linked => Now.inc
  /\ chain.linked /\ pc = "idle" => LeftOver(IF IsAccess(op) /\ result = "failure" THEN {op} ELSE {}, Now)
  /\ chain.linked /\ pc \in SessionPcs /\ clearing => Quiet(Now)
  /\ chain.linked /\ pc \in SessionPcs /\ ~clearing =>
       \A m \in 1..Groups(op), j \in 1..4 : AtGroup(m, j) => Stage(op, m, j, pc, n, Now, data, before)
  /\ ~chain.linked => Quiet(Now) /\ (pc \in SessionPcs => ~clearing /\ Pos = 1 /\ pc \in {"ir", "cmd", "resp"})
Held ==
  /\ Links
  /\ Reliable /\ conn # "on" => NotYet
  /\ Reliable /\ conn = "on" => Serving /\ (pc \in SessionPcs => op \in Requests)

-----------------------------------------------------------------------------
(* The kinds of groups.                                                    *)

LoadKind(o, m) ==
  LET c == Main(o, m)  x == Frontier(o)[m - 1]
  IN /\ c.t = "acc" /\ c.rnw /\ c.a = 4 * (x % 4) /\ o.t \in Loads /\ c.v = x - o.a
     /\ Frontier(o)[m] = x + 1 /\ x <= LastWord(o)
PeekKind(o, m) ==
  LET c == Main(o, m)  x == Frontier(o)[m - 1]
  IN c.t = "acc" /\ c.rnw /\ c.a = 4 * (x % 4) /\ o.t \in Stores /\ c.v = 0 /\ Frontier(o)[m] = x
StoreKind(o, m) ==
  LET c == Main(o, m)  x == Frontier(o)[m - 1]
  IN /\ c.t = "acc" /\ ~c.rnw /\ c.a = 4 * (x % 4) /\ o.t \in Stores /\ Frontier(o)[m] = x + 1
     /\ c.v \in Word \cup {Keep} /\ c.v = IF x <= LastWord(o) THEN o.vals[x - o.a + 1] ELSE Keep
InPage(o, m) ==
  LET c == Main(o, m)  x == Frontier(o)[m - 1]  y == Frontier(o)[m]
  IN c.a = 12 /\ c.v = 0 /\ Len(c.vals) = y - x /\ y > x /\ y <= LastWord(o) + 1 /\ (x % Page) + (y - x) <= Page
GetKind(o, m) ==
  Main(o, m).t = "piper" /\ Main(o, m).rnw /\ o.t \in Loads /\ InPage(o, m)
PutKind(o, m) ==
  LET c == Main(o, m)
  IN /\ c.t = "pipew" /\ ~c.rnw /\ o.t \in Stores /\ InPage(o, m) /\ c.vals \in Seq(Word)
     /\ \A k \in 1..Len(c.vals) : c.vals[k] = o.vals[Frontier(o)[m - 1] - o.a + k]

LEMMA Kinds ==
  ASSUME NEW o \in Requests, NEW m \in 1..Groups(o)
  PROVE  LET x == Frontier(o)[m - 1]  T == TransfersOf(o)
         IN /\ T[4 * m - 3] = SelectBank(0) /\ T[4 * m - 2] = WriteTar(Base(o, m), Single(o, m))
            /\ T[4 * m - 1] = SelectBank(Bank(o, m))
            /\ LoadKind(o, m) \/ PeekKind(o, m) \/ StoreKind(o, m) \/ GetKind(o, m) \/ PutKind(o, m)
<1>. DEFINE T == TransfersOf(o)  f == Frontier(o)  x == f[m - 1]  y == f[m]  c == T[4 * m]
<1>1. Group(o, T, f, m)
  BY PlanFacts
<1>. HIDE DEF T, f
<1>2. ASSUME Window(T, m, x), c.t = "acc"
      PROVE  /\ T[4 * m - 3] = SelectBank(0) /\ T[4 * m - 2] = WriteTar(Base(o, m), Single(o, m))
             /\ T[4 * m - 1] = SelectBank(Bank(o, m))
  <2>1. Main(o, m).t = "acc"
    BY <1>2 DEF Main, T
  <2>2. Base(o, m) = x - (x % 4) /\ Bank(o, m) = 1 /\ Single(o, m) = TRUE
    BY <2>1 DEF Base, Bank, Single, f
  <2>. QED BY <1>2, <2>2 DEF Window
<1>3. ASSUME Pointed(T, m, x), c.t # "acc"
      PROVE  /\ T[4 * m - 3] = SelectBank(0) /\ T[4 * m - 2] = WriteTar(Base(o, m), Single(o, m))
             /\ T[4 * m - 1] = SelectBank(Bank(o, m))
  <2>1. Main(o, m).t # "acc"
    BY <1>3 DEF Main, T
  <2>2. Base(o, m) = x /\ Bank(o, m) = 0 /\ Single(o, m) = FALSE
    BY <2>1 DEF Base, Bank, Single, f
  <2>. QED BY <1>3, <2>2 DEF Pointed
<1>4. Main(o, m) = c
  BY DEF Main, T
<1>5. CASE LoadsWord(o, T, f, m)
  <2>1. Window(T, m, x) /\ c = WordRead(x, x - o.a) /\ o.t \in Loads /\ y = x + 1 /\ x <= LastWord(o)
    BY <1>5 DEF LoadsWord
  <2>. HIDE DEF x, y, c
  <2>2. c.t = "acc" /\ c.rnw /\ c.a = 4 * (x % 4) /\ c.v = x - o.a
    BY <2>1 DEF WordRead, Transfer
  <2>3. LoadKind(o, m)
    BY <1>4, <2>1, <2>2 DEF LoadKind, f, x, y
  <2>. QED BY <1>2, <2>1, <2>2, <2>3 DEF T
<1>6. CASE Peeks(o, T, f, m)
  <2>1. Window(T, m, x) /\ c = WordRead(x, 0) /\ o.t \in Stores /\ y = x
    BY <1>6 DEF Peeks
  <2>. HIDE DEF x, y, c
  <2>2. c.t = "acc" /\ c.rnw /\ c.a = 4 * (x % 4) /\ c.v = 0
    BY <2>1 DEF WordRead, Transfer
  <2>3. PeekKind(o, m)
    BY <1>4, <2>1, <2>2 DEF PeekKind, f, x, y
  <2>. QED BY <1>2, <2>1, <2>2, <2>3 DEF T
<1>7. CASE StoresWord(o, T, f, m)
  <2>1. PICK v \in Word \cup {Keep} :
          c = WriteAP(4 * (x % 4), v) /\ v = IF x <= LastWord(o) THEN o.vals[x - o.a + 1] ELSE Keep
    BY <1>7 DEF StoresWord
  <2>0. Window(T, m, x) /\ o.t \in Stores /\ y = x + 1
    BY <1>7 DEF StoresWord
  <2>. HIDE DEF x, y, c
  <2>2. c.t = "acc" /\ ~c.rnw /\ c.a = 4 * (x % 4) /\ c.v = v
    BY <2>1 DEF WriteAP, Transfer
  <2>3. StoreKind(o, m)
    BY <1>4, <2>0, <2>1, <2>2 DEF StoreKind, f, x, y
  <2>. QED BY <1>2, <2>0, <2>2, <2>3 DEF T
<1>8. CASE LoadsBlock(o, T, f, m)
  <2>1. /\ Pointed(T, m, x) /\ c = PipeRead(y - x) /\ o.t \in Loads /\ y > x /\ y <= LastWord(o) + 1
        /\ (x % Page) + (y - x) <= Page
    BY <1>8 DEF LoadsBlock
  <2>. DEFINE k == y - x  vs == [j \in 1..k |-> 0]
  <2>2. Len(vs) = k
    <3>1. k \in Nat
      BY GroupFacts DEF T, f
    <3>. HIDE DEF k
    <3>. QED BY <3>1
  <2>. HIDE DEF k, x, y, vs, c
  <2>3. c = Transfer("piper", TRUE, TRUE, 12, 0, TRUE, vs)
    BY <2>1 DEF PipeRead, k, vs
  <2>4. c.t = "piper" /\ c.rnw /\ c.a = 12 /\ c.v = 0 /\ c.vals = vs
    BY <2>3 DEF Transfer
  <2>5. GetKind(o, m)
    BY <1>4, <2>1, <2>2, <2>4 DEF GetKind, InPage, f, x, y, k
  <2>. QED BY <1>3, <2>1, <2>4, <2>5 DEF T
<1>9. CASE StoresBlock(o, T, f, m)
  <2>1. PICK vs \in Seq(Word) :
          /\ Len(vs) = y - x /\ c = PipeWrite(vs)
          /\ \A k \in 1..Len(vs) : vs[k] = o.vals[x - o.a + k]
    BY <1>9 DEF StoresBlock
  <2>2. /\ Pointed(T, m, x) /\ o.t \in Stores /\ y > x /\ y <= LastWord(o) + 1
        /\ (x % Page) + (y - x) <= Page
    BY <1>9 DEF StoresBlock
  <2>. HIDE DEF x, y, c
  <2>4. c.t = "pipew" /\ ~c.rnw /\ c.a = 12 /\ c.v = 0 /\ c.vals = vs
    BY <2>1 DEF Transfer, PipeWrite
  <2>5. PutKind(o, m)
    BY <1>4, <2>1, <2>2, <2>4 DEF PutKind, InPage, f, x, y
  <2>. QED BY <1>3, <2>2, <2>4, <2>5 DEF T
<1>. QED BY <1>1, <1>5, <1>6, <1>7, <1>8, <1>9 DEF Group, T

-----------------------------------------------------------------------------
(* What an answer leaves of the port.                                      *)

\* A pending access is over: it was done, or there was no memory for it.
Performs(h, c) ==
  LET p == h.pending[1]
  IN /\ p.addr \in h.mapped /\ (c.sticky => h.sticky)
     /\ c.tar = IF p.inc THEN NextTar(h.tar) ELSE h.tar
     /\ p.rnw => c.mem = h.mem /\ c.data = h.mem[p.addr]
     /\ ~p.rnw => c.mem = [h.mem EXCEPT ![p.addr] = p.v]
Outcome(h, c) ==
  /\ HwOK(c) /\ Quiet(c) /\ c.bank = h.bank /\ c.inc = h.inc /\ c.mapped = h.mapped
  /\ h.sticky => c.sticky
  /\ \/ Quiet(h) /\ c = h
     \/ ~Quiet(h) /\ c.sticky /\ c.mem = h.mem /\ c.tar = h.tar
     \/ ~Quiet(h) /\ Performs(h, c)

LEMMA OutcomeLemma ==
  ASSUME NEW h, HwOK(h), NEW works \in BOOLEAN
  PROVE  Outcome(h, Complete(h, works))
<1>. DEFINE c == Complete(h, works)  p == h.pending[1]  ok == works /\ p.addr \in h.mapped
<1>0. IsHw(h)
  BY DEF HwOK
<1>1. HwOK(c)
  BY CompleteOK
<1>2. /\ c.pending = <<>> /\ c.bank = h.bank /\ c.inc = h.inc /\ c.mapped = h.mapped
      /\ h.pending = <<>> => c = h
      /\ h.pending # <<>> /\ ok =>
           /\ c.sticky <=> h.sticky
           /\ c.mem = IF p.rnw THEN h.mem ELSE [h.mem EXCEPT ![p.addr] = p.v]
           /\ c.data = IF p.rnw THEN h.mem[p.addr] ELSE h.data
           /\ c.tar = IF p.inc THEN NextTar(h.tar) ELSE h.tar
      /\ h.pending # <<>> /\ ~ok => c.sticky /\ c.mem = h.mem /\ c.tar = h.tar
  BY SMTT(30), <1>0, CompleteLemma
<1>. HIDE DEF c
<1>3. CASE h.pending = <<>>
  BY <1>1, <1>2, <1>3 DEF Outcome, Quiet, c
<1>4. CASE h.pending # <<>> /\ ok
  <2>1. c.mem = (IF p.rnw THEN h.mem ELSE [h.mem EXCEPT ![p.addr] = p.v]) /\ (p.rnw => c.data = h.mem[p.addr])
        /\ c.tar = (IF p.inc THEN NextTar(h.tar) ELSE h.tar) /\ (c.sticky <=> h.sticky)
    BY <1>2, <1>4
  <2>2. Performs(h, c)
    BY <1>4, <2>1 DEF Performs
  <2>. QED BY <1>1, <1>2, <1>4, <2>1, <2>2 DEF Outcome, Quiet, c
<1>5. CASE h.pending # <<>> /\ ~ok
  BY <1>1, <1>2, <1>5 DEF Outcome, Quiet, c
<1>. QED BY <1>3, <1>4, <1>5

\* A port with power fails no access to a word that is there.
Sound(h, c) ==
  c.power = h.power /\ (h.power /\ (Quiet(h) \/ h.pending[1].addr \in h.mapped) => (c.sticky <=> h.sticky))

LEMMA SoundLemma ==
  ASSUME NEW h, HwOK(h), NEW works \in BOOLEAN, h.power => works
  PROVE  Sound(h, Complete(h, works))
<1>. DEFINE c == Complete(h, works)  p == h.pending[1]  ok == works /\ p.addr \in h.mapped
<1>0. IsHw(h)
  BY DEF HwOK
<1>1. /\ c.power = h.power
      /\ h.pending = <<>> => c = h
      /\ h.pending # <<>> /\ ok => (c.sticky <=> h.sticky)
  BY ZenonT(30), <1>0, CompleteLemma
<1>. HIDE DEF c
<1>. QED BY <1>1 DEF Sound, Quiet, c

\* A transaction of the debug port leaves the memory port alone.
DPKeeps(c, g) ==
  /\ HwOK(g) /\ Quiet(g) /\ g.mem = c.mem /\ g.mapped = c.mapped /\ g.tar = c.tar /\ g.inc = c.inc
DPQuiet(c, g) == DPKeeps(c, g) /\ g.bank = c.bank /\ (g.sticky <=> c.sticky)

LEMMA DPStart ==
  ASSUME NEW c, HwOK(c), Quiet(c), NEW r, Sane("DPACC", r)
  PROVE  LET g == Start(c, "DPACC", r)
         IN /\ DPKeeps(c, g)
            /\ r.a = 8 /\ ~r.rnw => g.bank = r.v /\ (g.sticky <=> c.sticky)
            /\ r.a # 8 => g.bank = c.bank
            /\ r.a = 4 /\ r.rnw => DPQuiet(c, g) /\ (g.data = 0 => ~g.sticky)
            /\ r.a = 4 /\ ~r.rnw => (g.sticky => c.sticky /\ r.v # "clear")
            /\ r.a = 12 => DPQuiet(c, g)
<1>. DEFINE g == StartDP(c, r)
<1>1. Start(c, "DPACC", r) = g
  BY DEF Start
<1>2. IsHw(c)
  BY DEF HwOK
<1>3. HwOK(Start(c, "DPACC", r))
  BY StartOK
<1>4. HwOK(g)
  BY <1>1, <1>3
<1>5. /\ r.a = 4 /\ r.rnw => SameBut(c, g, {"data"}) /\ g.data = (IF c.sticky THEN 1 ELSE 0)
      /\ r.a = 4 /\ ~r.rnw =>
           SameBut(c, g, {"sticky", "power"}) /\ (g.sticky => c.sticky /\ r.v # "clear")
      /\ r.a = 8 /\ ~r.rnw => SameBut(c, g, {"bank"}) /\ g.bank = r.v
      /\ r.a \notin {4, 8} \/ (r.a = 8 /\ r.rnw) => SameBut(c, g, {"data"})
  BY <1>2, StartDPLemma
<1>. HIDE DEF g
<1>6. ASSUME SameBut(c, g, {"data"}) PROVE DPQuiet(c, g)
  BY <1>4, <1>6 DEF SameBut, DPQuiet, DPKeeps, Quiet
<1>7. ASSUME SameBut(c, g, {"sticky", "power"}) PROVE DPKeeps(c, g) /\ g.bank = c.bank
  BY <1>4, <1>7 DEF SameBut, DPKeeps, Quiet
<1>8. ASSUME SameBut(c, g, {"bank"}) PROVE DPKeeps(c, g) /\ (g.sticky <=> c.sticky)
  BY <1>4, <1>8 DEF SameBut, DPKeeps, Quiet
<1>9. r.a = 4 /\ r.rnw => (g.data = 0 => ~g.sticky)
  BY <1>5 DEF SameBut
<1>10. CASE r.a = 4 /\ r.rnw
  BY <1>1, <1>5, <1>6, <1>9, <1>10 DEF DPQuiet
<1>11. CASE r.a = 4 /\ ~r.rnw
  BY <1>1, <1>5, <1>7, <1>11
<1>12. CASE r.a = 8 /\ ~r.rnw
  BY <1>1, <1>5, <1>8, <1>12
<1>13. CASE r.a \notin {4, 8} \/ (r.a = 8 /\ r.rnw)
  BY <1>1, <1>5, <1>6, <1>13 DEF DPQuiet
<1>. QED BY <1>10, <1>11, <1>12, <1>13

\* A transaction of the access port, with no access pending.
APKeeps(c, g) ==
  /\ HwOK(g) /\ g.mem = c.mem /\ g.mapped = c.mapped /\ g.bank = c.bank /\ (g.sticky <=> c.sticky)

LEMMA APStart ==
  ASSUME NEW c, HwOK(c), Quiet(c), NEW ir, ir # "DPACC", NEW r, Sane(ir, r)
  PROVE  LET g == Start(c, ir, r)
         IN /\ APKeeps(c, g)
            /\ c.sticky => g = c
            /\ ~c.sticky /\ c.bank = 1 =>
                 /\ g.tar = c.tar /\ g.inc = c.inc /\ ~g.pending[1].inc
                 /\ r.rnw => Reads(g, (c.tar - (c.tar % 4)) + (r.a \div 4))
                 /\ ~r.rnw => Writes(g, (c.tar - (c.tar % 4)) + (r.a \div 4), AsWord(r.v))
            /\ ~c.sticky /\ c.bank = 0 /\ r.a = 12 =>
                 /\ g.tar = c.tar /\ g.inc = c.inc /\ (c.inc => g.pending[1].inc)
                 /\ r.rnw => Reads(g, c.tar)
                 /\ ~r.rnw => Writes(g, c.tar, AsWord(r.v))
            /\ ~c.sticky /\ c.bank = 0 /\ r.a = 4 /\ ~r.rnw => g.tar = r.v /\ g.inc = c.inc /\ Quiet(g)
            /\ ~c.sticky /\ c.bank = 0 /\ r.a = 0 /\ ~r.rnw => g.inc /\ Quiet(g)
            /\ c.sticky \/ c.bank \notin {0, 1} \/ (c.bank = 0 /\ r.a # 12 /\ r.rnw) => Quiet(g) /\ g.inc = c.inc
            /\ r.rnw /\ r.a = 12 => g.inc = c.inc /\ g.tar = c.tar /\ OnlyReads(g)
<1>. DEFINE Pend(addr, inc) == <<[addr |-> addr, rnw |-> r.rnw, v |-> AsWord(r.v), inc |-> inc]>>
            g == StartAP(c, r)
<1>1. Start(c, ir, r) = g
  BY DEF Start
<1>2. IsHw(c) /\ c.bank \in {0, 1, 15}
  BY DEF HwOK
<1>3. HwOK(Start(c, ir, r))
  BY StartOK
<1>4. HwOK(g)
  BY <1>1, <1>3
<1>. DEFINE P == Pend((c.tar - (c.tar % 4)) + (r.a \div 4), FALSE)  Q == Pend(c.tar, c.inc)
<1>5. /\ c.sticky => g = c
      /\ ~c.sticky /\ c.bank = 1 => SameBut(c, g, {"pending"}) /\ g.pending = P
      /\ ~c.sticky /\ c.bank = 0 /\ r.a = 12 => SameBut(c, g, {"pending"}) /\ g.pending = Q
      /\ ~c.sticky /\ c.bank = 0 /\ r.a = 4 /\ ~r.rnw => SameBut(c, g, {"tar"}) /\ g.tar = r.v
      /\ ~c.sticky /\ c.bank = 0 /\ r.a = 0 /\ ~r.rnw => SameBut(c, g, {"inc"}) /\ g.inc = TRUE
      /\ ~c.sticky /\ c.bank \notin {0, 1} => SameBut(c, g, {"data"})
      /\ ~c.sticky /\ c.bank = 0 /\ r.a # 12 /\ r.rnw => SameBut(c, g, {"data"})
      /\ ~c.sticky /\ c.bank = 0 /\ r.a \notin {0, 4, 12} => SameBut(c, g, {"data"})
  BY ZenonT(30), <1>2, StartAPLemma
<1>6. P # <<>> /\ P[1] = [addr |-> (c.tar - (c.tar % 4)) + (r.a \div 4), rnw |-> r.rnw, v |-> AsWord(r.v), inc |-> FALSE]
  OBVIOUS
<1>7. Q # <<>> /\ Q[1] = [addr |-> c.tar, rnw |-> r.rnw, v |-> AsWord(r.v), inc |-> c.inc]
  OBVIOUS
<1>. DEFINE w == (c.tar - (c.tar % 4)) + (r.a \div 4)
<1>8. P[1].addr = w /\ (P[1].rnw <=> r.rnw) /\ P[1].v = AsWord(r.v) /\ ~P[1].inc
  BY <1>6
<1>9. Q[1].addr = c.tar /\ (Q[1].rnw <=> r.rnw) /\ Q[1].v = AsWord(r.v) /\ (Q[1].inc <=> c.inc)
  BY <1>7
<1>. HIDE DEF g, P, Q, Pend, w
<1>10. CASE c.sticky
  BY <1>1, <1>4, <1>5, <1>10 DEF APKeeps, OnlyReads, Quiet
<1>11. CASE ~c.sticky /\ c.bank = 1
  <2>1. SameBut(c, g, {"pending"}) /\ g.pending = P
    BY <1>5, <1>11
  <2>2. APKeeps(c, g) /\ g.tar = c.tar /\ g.inc = c.inc
    BY <1>4, <2>1 DEF APKeeps, SameBut
  <2>3. ~g.pending[1].inc /\ (r.rnw => Reads(g, w)) /\ (~r.rnw => Writes(g, w, AsWord(r.v)))
    BY <1>6, <1>8, <2>1 DEF Reads, Writes
  <2>4. r.rnw => OnlyReads(g)
    BY <2>3 DEF Reads, OnlyReads
  <2>. QED BY <1>1, <1>11, <2>2, <2>3, <2>4 DEF w
<1>12. CASE ~c.sticky /\ c.bank = 0 /\ r.a = 12
  <2>1. SameBut(c, g, {"pending"}) /\ g.pending = Q
    BY <1>5, <1>12
  <2>2. APKeeps(c, g) /\ g.tar = c.tar /\ g.inc = c.inc
    BY <1>4, <2>1 DEF APKeeps, SameBut
  <2>3. /\ c.inc => g.pending[1].inc
        /\ r.rnw => Reads(g, c.tar)
        /\ ~r.rnw => Writes(g, c.tar, AsWord(r.v))
    BY <1>7, <1>9, <2>1 DEF Reads, Writes
  <2>4. r.rnw => OnlyReads(g)
    BY <2>3 DEF Reads, OnlyReads
  <2>. QED BY <1>1, <1>12, <2>2, <2>3, <2>4
<1>13. CASE ~c.sticky /\ c.bank = 0 /\ r.a = 4 /\ ~r.rnw
  <2>1. SameBut(c, g, {"tar"}) /\ g.tar = r.v
    BY <1>5, <1>13
  <2>2. APKeeps(c, g) /\ g.inc = c.inc /\ Quiet(g)
    BY <1>4, <2>1 DEF APKeeps, SameBut, Quiet
  <2>. QED BY <1>1, <1>13, <2>1, <2>2
<1>14. CASE ~c.sticky /\ c.bank = 0 /\ r.a = 0 /\ ~r.rnw
  <2>1. SameBut(c, g, {"inc"}) /\ g.inc
    BY <1>5, <1>14
  <2>2. APKeeps(c, g) /\ Quiet(g)
    BY <1>4, <2>1 DEF APKeeps, SameBut, Quiet
  <2>3. r.a # 12 /\ r.a # 4 /\ c.bank \in {0, 1} /\ c.bank # 1
    BY <1>14
  <2>. QED BY ZenonT(30), <1>1, <1>14, <2>1, <2>2, <2>3
<1>15. CASE ~c.sticky /\ (c.bank \notin {0, 1} \/ (c.bank = 0 /\ r.a # 12 /\ r.rnw) \/ (c.bank = 0 /\ r.a \notin {0, 4, 12}))
  <2>1. SameBut(c, g, {"data"})
    BY <1>5, <1>15
  <2>2. APKeeps(c, g) /\ g.inc = c.inc /\ Quiet(g) /\ g.tar = c.tar /\ OnlyReads(g)
    BY <1>4, <2>1 DEF APKeeps, SameBut, Quiet, OnlyReads
  <2>. QED BY <1>1, <1>15, <2>1, <2>2
<1>. QED BY <1>2, <1>10, <1>11, <1>12, <1>13, <1>14, <1>15

-----------------------------------------------------------------------------
(* The words that have been transferred.                                   *)

LEMMA Spots ==
  ASSUME NEW o \in Requests, NEW m \in 1..Groups(o)
  PROVE  LET x == Frontier(o)[m - 1]  y == Frontier(o)[m]
         IN /\ x \in Nat /\ y \in Nat /\ o.a \in Nat /\ x >= o.a /\ y >= x /\ x \in Address /\ m \in Nat
            /\ LastWord(o) \in Address /\ LastWord(o) \in Nat /\ Loads \cap Stores = {}
            /\ o.t \in Loads \/ o.t \in Stores
            /\ m = 1 => x = o.a
            /\ KeptBy(o, m) => m > 1
<1>1. LastWord(o) \in Address
  BY RequestsAssumption DEF IsRequest, LastWord
<1>2. LastWord(o) \in Nat
  BY <1>1, DebugPortAssumption DEF Address
<1>3. o.t \in Loads \/ o.t \in Stores
  BY RequestsAssumption DEF IsRequest, Loads, Stores
<1>4. m = 1 => Frontier(o)[m - 1] = o.a
  <2>1. Frontier(o)[0] = o.a
    BY PlanFacts
  <2>. QED BY <2>1
<1>5. Loads \cap Stores = {}
  BY DEF Loads, Stores
<1>6. KeptBy(o, m) => m > 1
  BY GroupFacts DEF KeptBy, Main
<1>. QED BY <1>1, <1>2, <1>3, <1>4, <1>5, <1>6, GroupFacts

\* Within a block's page the transfer address goes on to the next word.
LEMMA PageStep ==
  ASSUME NEW o \in Requests, NEW m \in 1..Groups(o), InPage(o, m),
         NEW w \in Nat, Frontier(o)[m - 1] <= w, w + 1 < Frontier(o)[m]
  PROVE  NextTar(w) = w + 1 /\ w \in Address
<1>. DEFINE x == Frontier(o)[m - 1]  y == Frontier(o)[m]  p == x \div Page  r == x % Page  L == LastWord(o)
<1>1. x \in Nat /\ y \in Nat /\ L \in Nat /\ L < Words /\ Words \in Nat /\ Page \in Nat \ {0}
  BY Spots, DebugPortAssumption DEF Address
<1>2. y <= L + 1 /\ r + (y - x) <= Page
  BY DEF InPage
<1>3. p \in Nat /\ r \in Nat /\ x = Page * p + r
  BY <1>1, DivMod
<1>4. x <= w /\ w + 1 < y
  OBVIOUS
<1>. HIDE DEF x, y, p, r, L
<1>5. p * Page \in Nat /\ Page * p = p * Page /\ (p + 1) * Page = p * Page + Page
  BY <1>1, <1>3, MulNat
<1>6. p * Page <= w /\ w < (p + 1) * Page
  BY <1>1, <1>2, <1>3, <1>4, <1>5
<1>7. w % Page = w - p * Page
  BY <1>1, <1>3, <1>6, ModUnique
<1>8. (w % Page) + 1 < Page
  BY <1>1, <1>2, <1>3, <1>4, <1>5, <1>7
<1>9. w \in Address
  BY <1>1, <1>2, <1>4 DEF Address
<1>. QED BY <1>8, <1>9, NextTarLemma

LEMMA DoneSame ==
  ASSUME NEW o, NEW z, NEW h, NEW g, NEW d, g.mem = h.mem, g.mapped = h.mapped, Done(o, z, h, d)
  PROVE  Done(o, z, g, d)
  BY DEF Done

\* What is read does not matter to a write; what was read stays as it is.
LEMMA DoneData ==
  ASSUME NEW o, o.a \in Nat, NEW z \in Int, NEW h, NEW d, NEW e, Done(o, z, h, d),
         o.t \in Loads => \A k \in 1 .. (z - o.a) : e[k] = d[k]
  PROVE  Done(o, z, h, e)
<1>. SUFFICES ASSUME NEW w \in o.a .. (z - 1), w <= LastWord(o)
              PROVE  /\ w \in h.mapped
                     /\ o.t \in Loads => e[w - o.a + 1] = h.mem[w]
                     /\ o.t \in Stores /\ o.vals[w - o.a + 1] \in Word => h.mem[w] = o.vals[w - o.a + 1]
  BY DEF Done
<1>1. /\ w \in h.mapped
      /\ o.t \in Loads => d[w - o.a + 1] = h.mem[w]
      /\ o.t \in Stores /\ o.vals[w - o.a + 1] \in Word => h.mem[w] = o.vals[w - o.a + 1]
  BY DEF Done
<1>2. w - o.a + 1 \in 1 .. (z - o.a)
  OBVIOUS
<1>. QED BY <1>1, <1>2

LEMMA DoneNext ==
  ASSUME NEW o, o.a \in Nat, NEW w \in Int, NEW h, NEW d, Done(o, w, h, d),
         w <= LastWord(o) =>
           /\ w \in h.mapped
           /\ o.t \in Loads => d[w - o.a + 1] = h.mem[w]
           /\ o.t \in Stores /\ o.vals[w - o.a + 1] \in Word => h.mem[w] = o.vals[w - o.a + 1]
  PROVE  Done(o, w + 1, h, d)
<1>. SUFFICES ASSUME NEW u \in o.a .. ((w + 1) - 1), u <= LastWord(o)
              PROVE  /\ u \in h.mapped
                     /\ o.t \in Loads => d[u - o.a + 1] = h.mem[u]
                     /\ o.t \in Stores /\ o.vals[u - o.a + 1] \in Word => h.mem[u] = o.vals[u - o.a + 1]
  BY DEF Done
<1>1. CASE u = w
  BY <1>1
<1>2. CASE u # w
  <2>1. u \in o.a .. (w - 1)
    BY <1>2
  <2>. QED BY <2>1 DEF Done
<1>. QED BY <1>1, <1>2

\* A word is stored: the words below it stay as they are.
LEMMA DoneBelow ==
  ASSUME NEW o, o.a \in Nat, NEW w \in Int, NEW v, NEW h, NEW g, NEW d, Done(o, w, h, d),
         h.mem \in [Address -> Word], g.mapped = h.mapped, g.mem = [h.mem EXCEPT ![w] = v]
  PROVE  Done(o, w, g, d)
<1>. SUFFICES ASSUME NEW u \in o.a .. (w - 1), u <= LastWord(o)
              PROVE  /\ u \in g.mapped
                     /\ o.t \in Loads => d[u - o.a + 1] = g.mem[u]
                     /\ o.t \in Stores /\ o.vals[u - o.a + 1] \in Word => g.mem[u] = o.vals[u - o.a + 1]
  BY DEF Done
<1>1. u # w /\ u \in Int
  OBVIOUS
<1>2. g.mem[u] = h.mem[u]
  BY <1>1
<1>3. /\ u \in h.mapped
      /\ o.t \in Loads => d[u - o.a + 1] = h.mem[u]
      /\ o.t \in Stores /\ o.vals[u - o.a + 1] \in Word => h.mem[u] = o.vals[u - o.a + 1]
  BY DEF Done
<1>. QED BY <1>2, <1>3

LEMMA DoneWord ==
  ASSUME NEW o, o.a \in Nat, o.t \in Stores, NEW w \in Address, w \in Int, NEW v, NEW h, NEW g, NEW d, Done(o, w, h, d),
         h.mem \in [Address -> Word], g.mapped = h.mapped, g.mem = [h.mem EXCEPT ![w] = v], w \in h.mapped,
         w <= LastWord(o) /\ o.vals[w - o.a + 1] \in Word => v = o.vals[w - o.a + 1]
  PROVE  Done(o, w + 1, g, d)
<1>1. Done(o, w, g, d)
  BY DoneBelow
<1>2. g.mem[w] = v
  OBVIOUS
<1>3. o.t \notin Loads
  BY DEF Loads, Stores
<1>. QED BY <1>1, <1>2, <1>3, DoneNext

LEMMA SoSame ==
  ASSUME NEW o, NEW m, NEW j, NEW h, NEW g, NEW d, So(o, m, j, h, d),
         g.mem = h.mem, g.mapped = h.mapped, g.bank = h.bank, g.tar = h.tar
  PROVE  So(o, m, j, g, d)
  BY DoneSame DEF So, Peeked, Ready

LEMMA AfterSame ==
  ASSUME NEW o, NEW m, NEW j, NEW h, NEW g, NEW d, After(o, m, j, h, d),
         g.mem = h.mem, g.mapped = h.mapped, g.bank = h.bank, g.tar = h.tar
  PROVE  After(o, m, j, g, d)
  BY SoSame, DoneSame DEF After, Peeked

\* After the last transfer of a group the registers do not matter.
LEMMA AfterLast ==
  ASSUME NEW o, NEW m, NEW h, NEW g, NEW d, After(o, m, 4, h, d), g.mem = h.mem, g.mapped = h.mapped
  PROVE  After(o, m, 4, g, d)
  BY DoneSame DEF After, Peeked

-----------------------------------------------------------------------------
(* The first three transfers of a group.                                   *)

LEMMA Aligned ==
  ASSUME NEW x \in Nat
  PROVE  LET b == x - (x % 4)
         IN /\ b \in Nat /\ b <= x /\ b - (b % 4) = b /\ b % 4 = 0 /\ x = b + (x % 4) /\ x % 4 \in 0..3
            /\ (b + 1) - ((b + 1) % 4) = b
  OBVIOUS

LEMMA BaseFacts ==
  ASSUME NEW o \in Requests, NEW m \in 1..Groups(o)
  PROVE  LET b == Base(o, m)
         IN /\ b \in Nat /\ b \in Address
            /\ (IF Single(o, m) THEN b - (b % 4) ELSE b) = b
            /\ ~Single(o, m) => b = Frontier(o)[m - 1]
            /\ Single(o, m) => b = Frontier(o)[m - 1] - (Frontier(o)[m - 1] % 4)
<1>. DEFINE x == Frontier(o)[m - 1]
<1>1. x \in Nat /\ x \in Address /\ Words \in Nat
  BY Spots, DebugPortAssumption
<1>. HIDE DEF x
<1>2. x - (x % 4) \in Nat /\ x - (x % 4) <= x /\ (x - (x % 4)) - ((x - (x % 4)) % 4) = x - (x % 4)
  BY <1>1, Aligned
<1>3. x - (x % 4) \in Address
  BY <1>1, <1>2 DEF Address
<1>4. CASE Single(o, m)
  <2>1. Base(o, m) = x - (x % 4)
    BY <1>4 DEF Base, x
  <2>. HIDE DEF Base
  <2>. QED BY <1>2, <1>3, <1>4, <2>1 DEF x
<1>5. CASE ~Single(o, m)
  <2>1. Base(o, m) = x
    BY <1>5 DEF Base, x
  <2>. QED BY <1>1, <1>5, <2>1 DEF x
<1>. QED BY <1>4, <1>5

\* A bank is selected.
LEMMA SelectStep ==
  ASSUME NEW o \in Requests, NEW m \in 1..Groups(o), NEW j \in {1, 3}, NEW h, HwOK(h), NEW c, Outcome(h, c),
         NEW d, NEW rs, Entering(o, m, j, h, d, rs),
         NEW r, r.a = 8, ~r.rnw, r.v = IF j = 1 THEN 0 ELSE Bank(o, m)
  PROVE  Heard(o, m, j, Start(c, "DPACC", r), d)
<1>. DEFINE g == Start(c, "DPACC", r)
<1>1. HwOK(c) /\ Quiet(c)
  BY DEF Outcome
<1>2. Sane("DPACC", r)
  BY DEF Sane, Bank
<1>3. DPKeeps(c, g) /\ g.bank = r.v /\ (g.sticky <=> c.sticky)
  BY <1>1, <1>2, DPStart
<1>. HIDE DEF g
<1>4. Quiet(g) /\ g.mem = c.mem /\ g.mapped = c.mapped /\ g.tar = c.tar
  BY <1>3 DEF DPKeeps
<1>5. CASE m = 1 /\ j = 1
  <2>1. Frontier(o)[m - 1] = o.a /\ ~KeptBy(o, m) /\ o.a \in Nat
    BY <1>5, Spots
  <2>2. Done(o, Frontier(o)[m - 1], g, d)
    BY <2>1 DEF Done
  <2>3. Peeked(o, m, g, d)
    BY <2>1 DEF Peeked
  <2>4. Ready(o, m, 2, g)
    BY <1>3, <1>5 DEF Ready
  <2>5. After(o, m, j, g, d)
    BY <1>5, <2>2, <2>3, <2>4 DEF After, So
  <2>. QED BY <1>4, <1>5, <2>5 DEF Heard, g
<1>6. CASE ~(m = 1 /\ j = 1)
  <2>1. Quiet(h) /\ So(o, m, j, h, d)
    BY <1>6 DEF Entering
  <2>2. c = h
    BY <2>1 DEF Outcome
  <2>3. Done(o, Frontier(o)[m - 1], h, d) /\ Peeked(o, m, h, d) /\ Ready(o, m, j, h)
    BY <2>1 DEF So
  <2>4. Done(o, Frontier(o)[m - 1], g, d)
    BY <1>4, <2>2, <2>3, DoneSame
  <2>5. Peeked(o, m, g, d)
    BY <1>4, <2>2, <2>3 DEF Peeked
  <2>6. Ready(o, m, j + 1, g)
    BY <1>3, <1>4, <2>2, <2>3 DEF Ready
  <2>7. After(o, m, j, g, d)
    BY <2>4, <2>5, <2>6 DEF After, So
  <2>. QED BY <1>4, <2>7 DEF Heard, g
<1>. QED BY <1>5, <1>6

\* The transfer address is set.
LEMMA PointStep ==
  ASSUME NEW o \in Requests, NEW m \in 1..Groups(o), NEW h, HwOK(h), NEW c, Outcome(h, c),
         NEW d, NEW rs, Entering(o, m, 2, h, d, rs),
         NEW r, r.a = 4, ~r.rnw, r.v = Base(o, m)
  PROVE  LET g == Start(c, "APACC", r)
         IN /\ Entering(o, m, 2, g, d, rs) /\ Checking(o, m, 2, g, d)
            /\ Single(o, m) => Heard(o, m, 2, g, d)
<1>. DEFINE g == Start(c, "APACC", r)
<1>1. HwOK(c) /\ Quiet(c) /\ c = h /\ ~h.sticky /\ So(o, m, 2, h, d)
  BY DEF Outcome, Entering
<1>2. Sane("APACC", r)
  BY BaseFacts DEF Sane
<1>3. Done(o, Frontier(o)[m - 1], h, d) /\ Peeked(o, m, h, d) /\ h.bank = 0
  BY <1>1 DEF So, Ready
<1>4. APKeeps(c, g) /\ Quiet(g) /\ g.tar = r.v
  BY <1>1, <1>2, <1>3, APStart
<1>. HIDE DEF g
<1>5. g.mem = h.mem /\ g.mapped = h.mapped /\ g.bank = 0 /\ ~g.sticky /\ g.tar = Base(o, m)
  BY <1>1, <1>3, <1>4 DEF APKeeps
<1>6. Done(o, Frontier(o)[m - 1], g, d) /\ Peeked(o, m, g, d)
  BY <1>3, <1>5, DoneSame DEF Peeked
<1>7. Ready(o, m, 2, g)
  BY <1>5 DEF Ready
<1>8. Ready(o, m, 3, g)
  BY <1>5, BaseFacts DEF Ready
<1>9. After(o, m, 2, g, d) /\ So(o, m, 2, g, d)
  BY <1>6, <1>7, <1>8 DEF After, So
<1>10. Entering(o, m, 2, g, d, rs)
  BY <1>4, <1>5, <1>9 DEF Entering
<1>11. Checking(o, m, 2, g, d)
  BY <1>4, <1>9 DEF Checking, OnlyReads, Quiet
<1>12. Single(o, m) => Heard(o, m, 2, g, d)
  BY <1>4, <1>5, <1>9 DEF Heard
<1>. QED BY <1>10, <1>11, <1>12 DEF g

\* What was answered to it is heard; a read may be on its way.
LEMMA HeardStep ==
  ASSUME NEW o \in Requests, NEW m \in 1..Groups(o), NEW j \in {1, 2, 3}, NEW h, HwOK(h), NEW c, Outcome(h, c),
         NEW d, Heard(o, m, j, h, d), NEW ir, ir = IF j = 2 THEN "APACC" ELSE "DPACC"
  PROVE  Checking(o, m, j, Start(c, ir, Dummy), d)
<1>. DEFINE g == Start(c, ir, Dummy)
<1>1. HwOK(c) /\ Quiet(c) /\ c = h
  BY DEF Outcome, Heard
<1>2. Dummy.rnw /\ Dummy.a = 12 /\ Sane(ir, Dummy)
  BY DummySane DEF Dummy
<1>3. CASE j # 2
  <2>1. DPQuiet(c, g)
    BY <1>1, <1>2, <1>3, DPStart
  <2>. HIDE DEF g
  <2>2. Quiet(g) /\ g.mem = h.mem /\ g.mapped = h.mapped /\ g.tar = h.tar /\ g.bank = h.bank /\ (g.sticky <=> h.sticky)
    BY <1>1, <2>1 DEF DPQuiet, DPKeeps
  <2>3. h.sticky \/ After(o, m, j, g, d)
    BY <2>2, AfterSame DEF Heard
  <2>4. OnlyReads(g)
    BY <2>2 DEF Quiet, OnlyReads
  <2>5. Checking(o, m, j, g, d)
    BY <1>3, <2>2, <2>3, <2>4 DEF Checking
  <2>. QED BY <2>5 DEF g
<1>4. CASE j = 2
  <2>1. APKeeps(c, g) /\ g.tar = c.tar /\ OnlyReads(g)
    BY <1>1, <1>2, <1>4, APStart
  <2>. HIDE DEF g
  <2>2. g.mem = h.mem /\ g.mapped = h.mapped /\ g.tar = h.tar /\ g.bank = h.bank /\ (g.sticky <=> h.sticky)
    BY <1>1, <2>1 DEF APKeeps
  <2>3. h.sticky \/ After(o, m, j, g, d)
    BY <2>2, AfterSame DEF Heard
  <2>4. Single(o, m) /\ (h.sticky \/ g.tar = Base(o, m))
    BY <1>4, <2>2 DEF Heard
  <2>5. Checking(o, m, j, g, d)
    BY <1>4, <2>1, <2>2, <2>3, <2>4 DEF Checking
  <2>. QED BY <2>5 DEF g
<1>. QED BY <1>3, <1>4

-----------------------------------------------------------------------------
(* A single word.                                                          *)

LEMMA WordKinds ==
  ASSUME NEW o \in Requests, NEW m \in 1..Groups(o), Single(o, m)
  PROVE  LET x == Frontier(o)[m - 1]
         IN /\ LoadKind(o, m) \/ PeekKind(o, m) \/ StoreKind(o, m)
            /\ Main(o, m).a \div 4 = x % 4 /\ Main(o, m).a = 4 * (x % 4)
            /\ Base(o, m) + (x % 4) = x /\ Bank(o, m) = 1
<1>1. LoadKind(o, m) \/ PeekKind(o, m) \/ StoreKind(o, m)
  BY Kinds DEF Single, GetKind, PutKind
<1>2. Main(o, m).a = 4 * (Frontier(o)[m - 1] % 4)
  BY <1>1 DEF LoadKind, PeekKind, StoreKind
<1>. DEFINE x == Frontier(o)[m - 1]
<1>3. x \in Nat
  BY Spots
<1>4. Base(o, m) = x - (x % 4) /\ Bank(o, m) = 1
  BY DEF Base, Bank
<1>. HIDE DEF x
<1>5. (4 * (x % 4)) \div 4 = x % 4 /\ (x - (x % 4)) + (x % 4) = x
  BY <1>3
<1>. QED BY <1>1, <1>2, <1>4, <1>5 DEF x

\* A word to be read, or to be written with what is known of it.
LEMMA KindFacts ==
  ASSUME NEW o \in Requests, NEW m \in 1..Groups(o)
  PROVE  /\ KeptBy(o, m) => StoreKind(o, m) /\ m > 1
         /\ m + 1 \in 1..Groups(o) /\ KeptBy(o, m + 1) => PeekKind(o, m)
<1>1. ASSUME KeptBy(o, m) PROVE StoreKind(o, m) /\ m > 1
  <2>1. Main(o, m).v = -1
    BY <1>1 DEF KeptBy, Keep
  <2>2. o.a \in Nat /\ Frontier(o)[m - 1] \in Nat /\ Frontier(o)[m - 1] >= o.a
    BY Spots
  <2>3. ~LoadKind(o, m)
    <3>. SUFFICES ASSUME LoadKind(o, m) PROVE FALSE
      OBVIOUS
    <3>1. PICK x \in Nat : x = Frontier(o)[m - 1]
      BY <2>2
    <3>2. Main(o, m).v = x - o.a /\ x >= o.a
      BY <2>2, <3>1 DEF LoadKind
    <3>. QED BY <2>1, <2>2, <3>2
  <2>4. ~PeekKind(o, m) /\ ~GetKind(o, m) /\ ~PutKind(o, m)
    BY <2>1 DEF PeekKind, GetKind, PutKind, InPage
  <2>5. m > 1
    BY <1>1, Spots
  <2>. QED BY <2>3, <2>4, <2>5, Kinds
<1>2. ASSUME m + 1 \in 1..Groups(o), KeptBy(o, m + 1) PROVE PeekKind(o, m)
  <2>. DEFINE k == m + 1
  <2>1. k \in 1..Groups(o) /\ TransfersOf(o)[4 * k].v = Keep /\ k - 1 = m
    BY <1>2 DEF KeptBy, Main
  <2>. HIDE DEF k
  <2>2. o.t \in Stores /\ Main(o, m).t = "acc" /\ Main(o, m).rnw
    BY <2>1, GroupFacts DEF Main
  <2>3. o.t \notin Loads
    BY <2>2, Spots
  <2>. QED BY <2>2, <2>3, Kinds DEF LoadKind, StoreKind, GetKind, PutKind
<1>. QED BY <1>1, <1>2

LEMMA NothingKept ==
  ASSUME NEW o \in Requests, NEW m \in 1..Groups(o), ~PeekKind(o, m), NEW h, NEW d
  PROVE  Peeked(o, m + 1, h, d)
<1>1. m + 1 \in 1..Groups(o) \/ ~KeptBy(o, m + 1)
  <2>1. Groups(o) \in Nat /\ m \in Nat /\ (KeptBy(o, m + 1) => m + 1 <= Groups(o))
    BY PlanFacts, Spots DEF KeptBy
  <2>. QED BY <2>1
<1>2. ~KeptBy(o, m + 1)
  BY <1>1, KindFacts
<1>. QED BY <1>2 DEF Peeked

\* The access to a word has ended.
LEMMA WordEnds ==
  ASSUME NEW o \in Requests, NEW m \in 1..Groups(o), Single(o, m), NEW h, HwOK(h), NEW c, Outcome(h, c),
         NEW d, ~h.sticky, AtWord(o, m, h, d), So(o, m, 4, h, d), ~c.sticky
  PROVE  LET x == Frontier(o)[m - 1]
         IN /\ So(o, m, 4, c, d) /\ x \in c.mapped /\ c.mem[x] = (IF Main(o, m).rnw THEN c.data ELSE Value(o, m, d))
            /\ Main(o, m).rnw => c.mem = h.mem
            /\ StoreKind(o, m) => Done(o, x + 1, c, d)
<1>. DEFINE x == Frontier(o)[m - 1]  v == Value(o, m, d)
<1>0. x \in Nat /\ x \in Address /\ o.a \in Nat /\ x >= o.a
  BY Spots
<1>1. ~Quiet(h) /\ h.pending[1].addr = x /\ (h.pending[1].rnw <=> Main(o, m).rnw) /\ ~h.pending[1].inc
      /\ (~Main(o, m).rnw => h.pending[1].v = v)
  BY DEF AtWord, Reads, Writes, Quiet
<1>2. Performs(h, c) /\ HwOK(c) /\ c.mapped = h.mapped /\ c.bank = h.bank
  BY <1>1 DEF Outcome
<1>3. /\ x \in h.mapped /\ c.tar = h.tar
      /\ Main(o, m).rnw => c.mem = h.mem /\ c.data = h.mem[x]
      /\ ~Main(o, m).rnw => c.mem = [h.mem EXCEPT ![x] = v]
  <2>. HIDE DEF x, v
  <2>. QED BY <1>1, <1>2 DEF Performs
<1>4. Done(o, x, h, d) /\ Peeked(o, m, h, d) /\ Ready(o, m, 4, h)
  BY DEF So
<1>5. Ready(o, m, 4, c)
  BY <1>2, <1>3, <1>4 DEF Ready
<1>6. h.mem \in [Address -> Word]
  BY DEF HwOK
<1>7. KeptBy(o, m) => v = d[1] /\ ~Main(o, m).rnw
  <2>1. KeptBy(o, m) => ~Main(o, m).rnw
    BY KindFacts DEF StoreKind
  <2>. QED BY <2>1 DEF KeptBy, Value
<1>. HIDE DEF x, v
<1>8. CASE Main(o, m).rnw
  <2>1. c.mem = h.mem /\ c.data = h.mem[x]
    BY <1>3, <1>8
  <2>2. Done(o, x, c, d) /\ Peeked(o, m, c, d)
    BY <1>2, <1>4, <2>1, DoneSame, <1>7, <1>8 DEF Peeked
  <2>3. ~StoreKind(o, m)
    BY <1>8 DEF StoreKind
  <2>4. So(o, m, 4, c, d)
    BY <1>5, <2>2 DEF So, x
  <2>. QED BY <1>2, <1>3, <1>8, <2>1, <2>3, <2>4 DEF x
<1>9. CASE ~Main(o, m).rnw
  <2>1. c.mem = [h.mem EXCEPT ![x] = v]
    BY <1>3, <1>9
  <2>2. c.mem[x] = v
    BY <1>0, <1>6, <2>1
  <2>3. Done(o, x, c, d)
    BY <1>0, <1>2, <1>4, <1>6, <2>1, DoneBelow
  <2>4. Peeked(o, m, c, d)
    <3>1. KeptBy(o, m) => d[1] = c.mem[x]
      BY <1>7, <2>2
    <3>. QED BY <3>1 DEF Peeked, x
  <2>5. So(o, m, 4, c, d)
    BY <1>5, <2>3, <2>4 DEF So, x
  <2>6. ASSUME StoreKind(o, m) PROVE Done(o, x + 1, c, d)
    <3>1. o.t \in Stores /\ Main(o, m).v \in Word \cup {Keep}
          /\ Main(o, m).v = (IF x <= LastWord(o) THEN o.vals[x - o.a + 1] ELSE Keep)
      BY <2>6 DEF StoreKind, x
    <3>2. x <= LastWord(o) /\ o.vals[x - o.a + 1] \in Word => v = o.vals[x - o.a + 1]
      <4>1. Keep \notin Word
        BY DEF Keep, Word
      <4>. QED BY <3>1, <4>1 DEF v, Value
    <3>3. x \in Int
      BY <1>0
    <3>. QED BY <1>0, <1>2, <1>3, <1>4, <1>6, <2>1, <3>1, <3>2, <3>3, DoneWord
  <2>. QED BY <1>2, <1>3, <1>9, <2>2, <2>5, <2>6 DEF x, v
<1>. QED BY <1>8, <1>9

\* The access is started, again or for the first time.
LEMMA RepeatStep ==
  ASSUME NEW o \in Requests, NEW m \in 1..Groups(o), Single(o, m), NEW h, HwOK(h), NEW c, Outcome(h, c),
         NEW d, Repeating(o, m, h, d), ~Main(o, m).rnw => Value(o, m, d) \in Word,
         NEW r, r.rnw <=> Main(o, m).rnw, r.a = Main(o, m).a, ~r.rnw => r.v = Value(o, m, d), Sane("APACC", r)
  PROVE  Reaching(o, m, Start(c, "APACC", r), d)
<1>. DEFINE g == Start(c, "APACC", r)  x == Frontier(o)[m - 1]
<1>1. HwOK(c) /\ Quiet(c) /\ ~h.sticky /\ So(o, m, 4, h, d)
  BY DEF Outcome, Repeating
<1>2. CASE c.sticky
  <2>1. g = c
    BY <1>1, <1>2, APStart
  <2>2. Reaching(o, m, c, d)
    BY <1>1, <1>2 DEF Reaching
  <2>. QED BY <2>1, <2>2
<1>3. CASE ~c.sticky
  <2>1. So(o, m, 4, c, d)
    <3>1. CASE Quiet(h)
      BY <1>1, <3>1 DEF Outcome
    <3>2. CASE AtWord(o, m, h, d)
      BY <1>1, <1>3, <3>2, WordEnds
    <3>. QED BY <3>1, <3>2 DEF Repeating
  <2>2. c.bank = 1 /\ c.tar - (c.tar % 4) = Base(o, m)
    BY <2>1, WordKinds DEF So, Ready
  <2>3. (c.tar - (c.tar % 4)) + (r.a \div 4) = x
    BY <2>2, WordKinds
  <2>4. /\ APKeeps(c, g) /\ g.tar = c.tar /\ ~g.pending[1].inc
        /\ r.rnw => Reads(g, x)
        /\ ~r.rnw => Writes(g, x, AsWord(r.v))
    <3>1. /\ APKeeps(c, g) /\ g.tar = c.tar /\ ~g.pending[1].inc
          /\ r.rnw => Reads(g, (c.tar - (c.tar % 4)) + (r.a \div 4))
          /\ ~r.rnw => Writes(g, (c.tar - (c.tar % 4)) + (r.a \div 4), AsWord(r.v))
      BY <1>1, <1>3, <2>2, APStart
    <3>. HIDE DEF g, x
    <3>. QED BY <2>3, <3>1
  <2>. HIDE DEF g, x
  <2>5. ~r.rnw => AsWord(r.v) = Value(o, m, d)
    BY DEF AsWord
  <2>6. AtWord(o, m, g, d)
    BY <2>4, <2>5 DEF AtWord, x
  <2>7. So(o, m, 4, g, d) /\ ~g.sticky
    BY <1>3, <2>1, <2>4, SoSame DEF APKeeps
  <2>8. Reaching(o, m, g, d)
    BY <2>6, <2>7 DEF Reaching
  <2>. QED BY <2>8 DEF g
<1>. QED BY <1>2, <1>3

\* What is read takes its place behind what was read before.
LEMMA ReadAppends ==
  ASSUME NEW d \in Seq(Word), NEW v \in Nat, v <= Len(d), NEW e, NEW q, q = SubSeq(d, 1, v) \o <<e>>
  PROVE  q[v + 1] = e /\ \A k \in 1..v : q[k] = d[k]
<1>. DEFINE s == SubSeq(d, 1, v)
<1>1. s \in Seq(Word) /\ Len(s) = v /\ \A k \in 1..v : s[k] = d[k]
  <2>1. Len(d) \in Nat /\ v \in 0..Len(d)
    OBVIOUS
  <2>2. SubSeq(d, 1, v) \in Seq(Word) /\ Len(SubSeq(d, 1, v)) = v
    BY <2>1
  <2>3. \A k \in 1..v : SubSeq(d, 1, v)[k] = d[k]
    BY <2>1
  <2>. QED BY <2>2, <2>3
<1>2. q = s \o <<e>>
  BY DEF s
<1>. HIDE DEF s
<1>. DEFINE A == Word \cup {e}  t == <<e>>
<1>3. s \in Seq(A) /\ t \in Seq(A) /\ Len(t) = 1 /\ t[1] = e
  BY <1>1
<1>. HIDE DEF A, t
<1>4. \A k \in 1 .. Len(s) + Len(t) : (s \o t)[k] = IF k <= Len(s) THEN s[k] ELSE t[k - Len(s)]
  BY <1>3, ConcatProperties
<1>5. /\ v + 1 \in 1 .. v + 1 /\ ~(v + 1 <= v) /\ (v + 1) - v = 1
      /\ \A k \in 1..v : k \in 1 .. v + 1 /\ k <= v
  OBVIOUS
<1>6. q[v + 1] = e /\ \A k \in 1..v : q[k] = s[k]
  BY <1>1, <1>2, <1>3, <1>4, <1>5 DEF t
<1>. QED BY <1>1, <1>6

\* The data of a request, when the scan after a single access was answered with e.
Extended(o, m, d, e) == IF Main(o, m).rnw THEN SubSeq(d, 1, Main(o, m).v) \o <<e>> ELSE d
Enough(o, m, d) == d \in Seq(Word) /\ (LoadKind(o, m) => Len(d) >= Frontier(o)[m - 1] - o.a)

\* What was read before stays, and what is written back with it.
LEMMA ExtendKeeps ==
  ASSUME NEW o \in Requests, NEW m \in 1..Groups(o), Single(o, m), NEW d, Enough(o, m, d), NEW e, NEW h
  PROVE  LET x == Frontier(o)[m - 1]  q == Extended(o, m, d, e)
         IN /\ Done(o, x, h, d) => Done(o, x, h, q)
            /\ LoadKind(o, m) => q[x - o.a + 1] = e
            /\ PeekKind(o, m) => q[1] = e
            /\ StoreKind(o, m) => q = d
<1>. DEFINE x == Frontier(o)[m - 1]  q == Extended(o, m, d, e)
<1>1. x \in Nat /\ o.a \in Nat /\ x >= o.a /\ Loads \cap Stores = {}
  BY Spots
<1>2. ASSUME StoreKind(o, m) PROVE q = d
  BY <1>2 DEF StoreKind, Extended
<1>3. ASSUME PeekKind(o, m) PROVE q[1] = e /\ o.t \notin Loads
  <2>1. q = SubSeq(d, 1, 0) \o <<e>> /\ o.t \in Stores
    BY <1>3 DEF PeekKind, Extended
  <2>. HIDE DEF q
  <2>2. Len(d) \in Nat /\ d \in Seq(Word)
    BY DEF Enough
  <2>3. q[0 + 1] = e
    <3>. DEFINE v == 0
    <3>1. v \in Nat /\ v <= Len(d) /\ q = SubSeq(d, 1, v) \o <<e>>
      BY <2>1, <2>2
    <3>. HIDE DEF v
    <3>2. q[v + 1] = e /\ \A k \in 1..v : q[k] = d[k]
      BY <2>2, <3>1, ReadAppends
    <3>. QED BY <3>2 DEF v
  <2>. QED BY <1>1, <2>1, <2>3
<1>4. ASSUME LoadKind(o, m) PROVE q[x - o.a + 1] = e /\ \A k \in 1..(x - o.a) : q[k] = d[k]
  <2>. DEFINE v == x - o.a
  <2>1. q = SubSeq(d, 1, v) \o <<e>> /\ d \in Seq(Word) /\ v <= Len(d)
    BY <1>4 DEF LoadKind, Extended, Enough
  <2>2. v \in Nat
    BY <1>1
  <2>. HIDE DEF q, v
  <2>3. q[v + 1] = e /\ \A k \in 1..v : q[k] = d[k]
    BY <2>1, <2>2, ReadAppends
  <2>. QED BY <2>3 DEF v
<1>5. LoadKind(o, m) \/ PeekKind(o, m) \/ StoreKind(o, m)
  BY WordKinds
<1>6. ASSUME Done(o, x, h, d) PROVE Done(o, x, h, q)
  <2>1. StoreKind(o, m) => o.t \in Stores
    BY DEF StoreKind
  <2>2. o.t \in Loads => \A k \in 1..(x - o.a) : q[k] = d[k]
    BY <1>1, <1>3, <1>4, <1>5, <2>1
  <2>. HIDE DEF x, q
  <2>. QED BY <1>1, <1>6, <2>2, DoneData
<1>. QED BY <1>2, <1>3, <1>4, <1>6

\* The access was answered: the status is to be checked.
LEMMA ReachStep ==
  ASSUME NEW o \in Requests, NEW m \in 1..Groups(o), Single(o, m), NEW h, HwOK(h), NEW c, Outcome(h, c),
         NEW d, Enough(o, m, d), Reaching(o, m, h, d)
  PROVE  Checking(o, m, 4, Start(c, "APACC", Dummy), Extended(o, m, d, c.data))
<1>. DEFINE g == Start(c, "APACC", Dummy)  x == Frontier(o)[m - 1]  y == Frontier(o)[m]
            q == Extended(o, m, d, c.data)
<1>1. HwOK(c) /\ Quiet(c)
  BY DEF Outcome
<1>2. Dummy.rnw /\ Dummy.a = 12 /\ Sane("APACC", Dummy)
  BY DummySane DEF Dummy
<1>3. APKeeps(c, g) /\ OnlyReads(g)
  BY <1>1, <1>2, APStart
<1>. HIDE DEF g
<1>4. g.mem = c.mem /\ g.mapped = c.mapped /\ (g.sticky <=> c.sticky)
  BY <1>3 DEF APKeeps
<1>5. ASSUME ~c.sticky PROVE After(o, m, 4, g, q)
  <2>1. ~h.sticky /\ AtWord(o, m, h, d) /\ So(o, m, 4, h, d)
    BY <1>5 DEF Reaching, Outcome
  <2>2. /\ So(o, m, 4, c, d) /\ x \in c.mapped /\ c.mem[x] = (IF Main(o, m).rnw THEN c.data ELSE Value(o, m, d))
        /\ StoreKind(o, m) => Done(o, x + 1, c, d)
    BY <1>5, <2>1, WordEnds
  <2>3. /\ Done(o, x, c, d) => Done(o, x, c, q)
        /\ LoadKind(o, m) => q[x - o.a + 1] = c.data
        /\ PeekKind(o, m) => q[1] = c.data
        /\ StoreKind(o, m) => q = d
    BY ExtendKeeps
  <2>4. Done(o, x, c, d) /\ x \in Int /\ o.a \in Nat /\ Loads \cap Stores = {}
    BY <2>2, Spots DEF So
  <2>5. LoadKind(o, m) \/ PeekKind(o, m) \/ StoreKind(o, m)
    BY WordKinds
  <2>. HIDE DEF x, q
  <2>6. Done(o, y, c, q) /\ Peeked(o, m + 1, c, q)
    <3>1. CASE LoadKind(o, m)
      <4>1. y = x + 1 /\ o.t \in Loads /\ Main(o, m).rnw
        BY <3>1 DEF LoadKind, x
      <4>2. o.t \notin Stores
        BY <2>4, <4>1
      <4>3. c.mem[x] = c.data /\ q[x - o.a + 1] = c.data /\ x \in c.mapped /\ Done(o, x, c, q)
        BY <2>2, <2>3, <2>4, <3>1, <4>1
      <4>4. Done(o, x + 1, c, q)
        BY <2>4, <4>1, <4>2, <4>3, DoneNext
      <4>5. ~PeekKind(o, m)
        BY <4>2 DEF PeekKind
      <4>. QED BY <4>1, <4>4, <4>5, NothingKept
    <3>2. CASE PeekKind(o, m)
      <4>1. y = x /\ Main(o, m).rnw
        BY <3>2 DEF PeekKind, x
      <4>2. c.mem[x] = c.data /\ q[1] = c.data /\ Done(o, x, c, q)
        BY <2>2, <2>3, <2>4, <3>2, <4>1
      <4>3. m \in Nat
        BY Spots
      <4>4. (m + 1) - 1 = m
        BY <4>3
      <4>. QED BY <4>1, <4>2, <4>4 DEF Peeked
    <3>3. CASE StoreKind(o, m)
      <4>1. y = x + 1 /\ ~Main(o, m).rnw
        BY <3>3 DEF StoreKind, x
      <4>2. Done(o, x + 1, c, q)
        BY <2>2, <2>3, <3>3
      <4>3. ~PeekKind(o, m)
        BY <4>1 DEF PeekKind
      <4>. QED BY <4>1, <4>2, <4>3, NothingKept
    <3>. QED BY <2>5, <3>1, <3>2, <3>3
  <2>7. After(o, m, 4, c, q)
    BY <2>6 DEF After, y
  <2>. QED BY <1>4, <2>7, AfterLast
<1>6. Checking(o, m, 4, g, q)
  BY <1>3, <1>4, <1>5 DEF Checking
<1>. QED BY <1>6 DEF g, q

\* The port was busy, and there are tries left.
LEMMA BusyStep ==
  ASSUME NEW o \in Requests, NEW m \in 1..Groups(o), Single(o, m), NEW h, ~Quiet(h),
         NEW d, Enough(o, m, d), Reaching(o, m, h, d), NEW e
  PROVE  Repeating(o, m, h, Extended(o, m, d, e))
<1>. DEFINE x == Frontier(o)[m - 1]  q == Extended(o, m, d, e)
<1>1. ~h.sticky /\ AtWord(o, m, h, d) /\ So(o, m, 4, h, d)
  BY DEF Reaching
<1>2. Done(o, x, h, d) /\ Peeked(o, m, h, d) /\ Ready(o, m, 4, h)
  BY <1>1 DEF So
<1>3. Done(o, x, h, q)
  BY <1>2, ExtendKeeps
<1>4. ~Main(o, m).rnw => q = d
  BY DEF Extended
<1>5. KeptBy(o, m) => ~Main(o, m).rnw
  BY KindFacts DEF StoreKind
<1>. HIDE DEF q
<1>6. Peeked(o, m, h, q)
  BY <1>2, <1>4, <1>5 DEF Peeked
<1>7. AtWord(o, m, h, q)
  BY <1>1, <1>4 DEF AtWord
<1>8. Repeating(o, m, h, q)
  BY <1>1, <1>2, <1>3, <1>6, <1>7 DEF Repeating, So
<1>. QED BY <1>8 DEF q

-----------------------------------------------------------------------------
(* Blocks.                                                                 *)

LEMMA BlockFacts ==
  ASSUME NEW o \in Requests, NEW m \in 1..Groups(o), GetKind(o, m) \/ PutKind(o, m)
  PROVE  LET x == Frontier(o)[m - 1]  y == Frontier(o)[m]  s == Len(Main(o, m).vals)
         IN /\ InPage(o, m) /\ ~Single(o, m) /\ Base(o, m) = x /\ Bank(o, m) = 0
            /\ s \in Nat \ {0} /\ y = x + s /\ y <= LastWord(o) + 1
            /\ \A h, d : Peeked(o, m + 1, h, d)
<1>1. InPage(o, m) /\ ~Single(o, m) /\ Main(o, m).t # "acc"
  BY DEF GetKind, PutKind, Single
<1>2. Base(o, m) = Frontier(o)[m - 1] /\ Bank(o, m) = 0
  BY <1>1 DEF Base, Bank
<1>3. ~PeekKind(o, m)
  BY <1>1 DEF PeekKind
<1>4. \A h, d : Peeked(o, m + 1, h, d)
  BY <1>3, NothingKept
<1>. DEFINE x == Frontier(o)[m - 1]  y == Frontier(o)[m]  s == Len(Main(o, m).vals)
<1>5. x \in Nat /\ y \in Nat
  BY Spots
<1>6. s = y - x /\ y > x /\ y <= LastWord(o) + 1
  BY <1>1 DEF InPage
<1>. HIDE DEF x, y, s
<1>7. s \in Nat \ {0} /\ y = x + s
  BY <1>5, <1>6
<1>. QED BY <1>1, <1>2, <1>4, <1>6, <1>7 DEF x, y, s

\* A block begins where the transfer address is.
LEMMA BlockBegins ==
  ASSUME NEW o \in Requests, NEW m \in 1..Groups(o), GetKind(o, m) \/ PutKind(o, m),
         NEW h, NEW d, NEW rs, Entering(o, m, 4, h, d, rs)
  PROVE  Quiet(h) /\ ~h.sticky /\ h.bank = 0 /\ h.tar = Frontier(o)[m - 1] /\ Done(o, Frontier(o)[m - 1], h, d)
<1>1. Quiet(h) /\ ~h.sticky /\ So(o, m, 4, h, d)
  BY DEF Entering
<1>2. Ready(o, m, 4, h) /\ Done(o, Frontier(o)[m - 1], h, d)
  BY <1>1 DEF So
<1>. QED BY <1>1, <1>2, BlockFacts DEF Ready

LEMMA FirstStep ==
  ASSUME NEW o \in Requests, NEW m \in 1..Groups(o), GetKind(o, m), NEW h, HwOK(h), h.inc,
         NEW c, Outcome(h, c), NEW d, NEW rs, Entering(o, m, 4, h, d, rs),
         NEW r, r.rnw, r.a = 12, Sane("APACC", r)
  PROVE  Getting(o, m, 1, Start(c, "APACC", r), d)
<1>. DEFINE g == Start(c, "APACC", r)  x == Frontier(o)[m - 1]
<1>1. Quiet(h) /\ ~h.sticky /\ h.bank = 0 /\ h.tar = x /\ Done(o, x, h, d)
  BY BlockBegins
<1>2. HwOK(c) /\ Quiet(c) /\ c = h
  BY <1>1 DEF Outcome
<1>3. APKeeps(c, g) /\ g.tar = c.tar /\ (c.inc => g.pending[1].inc) /\ Reads(g, c.tar) /\ OnlyReads(g)
  BY <1>1, <1>2, APStart
<1>. HIDE DEF g
<1>4. Done(o, x, g, d) /\ g.bank = 0 /\ g.tar = x /\ Reads(g, x) /\ g.pending[1].inc
  BY <1>1, <1>2, <1>3, DoneSame DEF APKeeps
<1>5. x + 1 - 1 = x
  BY Spots
<1>6. Getting(o, m, 1, g, d)
  BY <1>3, <1>4, <1>5 DEF Getting
<1>. QED BY <1>6 DEF g

\* A word of a block has been read, and the read of the next is on its way.
LEMMA GetStep ==
  ASSUME NEW o \in Requests, NEW m \in 1..Groups(o), GetKind(o, m), NEW h, HwOK(h), h.inc,
         NEW c, Outcome(h, c), NEW d \in Seq(Word), NEW k \in 1..Len(Main(o, m).vals),
         Len(d) = Frontier(o)[m - 1] - o.a + k - 1, Getting(o, m, k, h, d)
  PROVE  LET g == Start(c, "APACC", Dummy)  q == Append(d, c.data)
         IN /\ k < Len(Main(o, m).vals) => Getting(o, m, k + 1, g, q)
            /\ k = Len(Main(o, m).vals) => Checking(o, m, 4, g, q)
<1>. DEFINE g == Start(c, "APACC", Dummy)  q == Append(d, c.data)  x == Frontier(o)[m - 1]  y == Frontier(o)[m]
            s == Len(Main(o, m).vals)  w == x + k - 1
<1>1. HwOK(c) /\ Quiet(c) /\ c.inc /\ c.mapped = h.mapped /\ c.bank = h.bank
  BY DEF Outcome
<1>2. Dummy.rnw /\ Dummy.a = 12 /\ Sane("APACC", Dummy)
  BY DummySane DEF Dummy
<1>3. APKeeps(c, g) /\ g.tar = c.tar /\ OnlyReads(g)
  BY <1>1, <1>2, APStart
<1>4. CASE c.sticky
  <2>. HIDE DEF g, q
  <2>1. g.sticky
    BY <1>3, <1>4 DEF APKeeps
  <2>2. Getting(o, m, k + 1, g, q)
    BY <1>3, <2>1 DEF Getting
  <2>3. Checking(o, m, 4, g, q)
    BY <1>3, <2>1 DEF Checking
  <2>. QED BY <2>2, <2>3 DEF g, q
<1>5. CASE ~c.sticky
  <2>1. ~h.sticky
    BY <1>5 DEF Outcome
  <2>2. Done(o, w, h, d) /\ h.bank = 0 /\ h.tar = w /\ Reads(h, w) /\ h.pending[1].inc
    BY <2>1 DEF Getting
  <2>3. Performs(h, c) /\ ~Quiet(h)
    BY <1>5, <2>2 DEF Outcome, Reads, Quiet
  <2>. HIDE DEF w
  <2>4. w \in h.mapped /\ c.tar = NextTar(w) /\ c.mem = h.mem /\ c.data = h.mem[w]
    BY <2>2, <2>3 DEF Performs, Reads
  <2>5. /\ x \in Nat /\ o.a \in Nat /\ x >= o.a /\ LastWord(o) \in Nat /\ s \in Nat \ {0} /\ y = x + s
        /\ y <= LastWord(o) + 1 /\ InPage(o, m) /\ o.t \in Loads /\ o.t \notin Stores
    BY Spots, BlockFacts DEF GetKind
  <2>. HIDE DEF x, y, s
  <2>6. w \in Nat /\ w - o.a = Len(d) /\ w + 1 = x + k /\ x <= w /\ w >= o.a
    <3>1. ASSUME NEW p \in Nat, NEW a \in Nat, p >= a, NEW l \in Nat \ {0}
          PROVE  LET u == p + l - 1
                 IN u \in Nat /\ u - a = p - a + l - 1 /\ u + 1 = p + l /\ p <= u /\ u >= a
      BY <3>1
    <3>2. k \in Nat \ {0}
      OBVIOUS
    <3>3. w = x + k - 1 /\ Len(d) = x - o.a + k - 1
      BY DEF w, x
    <3>. QED BY <2>5, <3>1, <3>2, <3>3
  <2>7. q[w - o.a + 1] = c.data /\ \A l \in 1..(w - o.a) : q[l] = d[l]
    <3>. DEFINE e == c.data
    <3>. HIDE DEF e
    <3>1. q = Append(d, e)
      BY DEF q, e
    <3>. HIDE DEF q
    <3>2. q[Len(d) + 1] = e /\ \A l \in 1..Len(d) : q[l] = d[l]
      BY <3>1
    <3>. QED BY <2>6, <3>2 DEF e
  <2>. HIDE DEF q, g
  <2>8. Done(o, w, c, q)
    <3>0. w \in Int /\ (o.t \in Loads => \A l \in 1..(w - o.a) : q[l] = d[l])
      BY <2>6, <2>7
    <3>1. Done(o, w, h, q)
      BY ZenonT(30), <2>2, <2>5, <3>0, DoneData
    <3>. QED BY <1>1, <2>4, <3>1, DoneSame
  <2>9. Done(o, w + 1, c, q)
    <3>1. w \in c.mapped /\ q[w - o.a + 1] = c.mem[w] /\ w \in Int
      BY <1>1, <2>4, <2>6, <2>7
    <3>. QED BY <2>5, <2>8, <3>1, DoneNext
  <2>10. Done(o, w + 1, g, q) /\ g.bank = 0
    BY <1>1, <1>3, <2>2, <2>9, DoneSame DEF APKeeps
  <2>11. ASSUME k < s PROVE Getting(o, m, k + 1, g, q)
    <3>1. w + 1 < y
      BY <2>5, <2>6, <2>11
    <3>2. NextTar(w) = w + 1
      BY <2>5, <2>6, <3>1, PageStep DEF x, y
    <3>3. /\ g.tar = w + 1 /\ x + (k + 1) - 1 = w + 1
      BY <1>3, <2>4, <2>5, <2>6, <3>2
    <3>4. Reads(g, c.tar) /\ g.pending[1].inc
      BY <1>1, <1>2, <1>5, <2>2, APStart DEF g
    <3>. QED BY <1>3, <2>10, <3>3, <3>4 DEF Getting, x
  <2>12. ASSUME k = s PROVE Checking(o, m, 4, g, q)
    <3>1. y = w + 1
      BY <2>5, <2>6, <2>12
    <3>2. After(o, m, 4, g, q)
      BY <2>10, <3>1, BlockFacts DEF After, y
    <3>. QED BY <1>3, <3>2 DEF Checking
  <2>. QED BY <2>11, <2>12 DEF g, q, s
<1>. QED BY <1>4, <1>5

LEMMA PutBegins ==
  ASSUME NEW o \in Requests, NEW m \in 1..Groups(o), PutKind(o, m), NEW h, NEW d, NEW rs, Entering(o, m, 4, h, d, rs)
  PROVE  Putting(o, m, 1, h, d)
  BY BlockBegins DEF Putting

\* The words of a written block are the request's.
LEMMA PutWords ==
  ASSUME NEW o \in Requests, NEW m \in 1..Groups(o), PutKind(o, m), NEW k \in 1..Len(Main(o, m).vals)
  PROVE  LET w == Frontier(o)[m - 1] + k - 1  v == Main(o, m).vals[k]
         IN /\ w \in Nat /\ w \in Address /\ w <= LastWord(o) /\ w >= o.a
            /\ v \in Word /\ v = o.vals[w - o.a + 1] /\ Stored(o, w, v)
<1>. DEFINE x == Frontier(o)[m - 1]  y == Frontier(o)[m]  s == Len(Main(o, m).vals)
            w == x + k - 1  v == Main(o, m).vals[k]
<1>1. /\ x \in Nat /\ o.a \in Nat /\ x >= o.a /\ LastWord(o) \in Nat /\ LastWord(o) < Words
      /\ s \in Nat \ {0} /\ y = x + s /\ y <= LastWord(o) + 1 /\ Words \in Nat
  BY Spots, BlockFacts, DebugPortAssumption DEF Address
<1>2. o.t \in Stores /\ Main(o, m).vals \in Seq(Word) /\ v = o.vals[x - o.a + k]
  BY DEF PutKind
<1>3. v \in Word
  BY <1>2
<1>4. k \in Nat /\ 1 <= k /\ k <= s
  BY <1>1
<1>. HIDE DEF x, y, s, v
<1>5. w \in Nat /\ w <= LastWord(o) /\ w >= o.a /\ w < Words /\ x - o.a + k = w - o.a + 1
  BY <1>1, <1>4
<1>6. w \in Address
  BY <1>1, <1>5 DEF Address
<1>7. v = o.vals[w - o.a + 1]
  BY <1>2, <1>5
<1>. HIDE DEF w
<1>8. Stored(o, w, v)
  BY <1>1, <1>2, <1>3, <1>5, <1>7 DEF Stored
<1>. QED BY <1>3, <1>5, <1>6, <1>7, <1>8 DEF w, x, v

\* The word w of a block has been stored.
LEMMA PutEnds ==
  ASSUME NEW o \in Requests, NEW m \in 1..Groups(o), PutKind(o, m), NEW h, HwOK(h),
         NEW c, Outcome(h, c), ~c.sticky, NEW d, NEW k \in 1..Len(Main(o, m).vals), NEW w, w = Frontier(o)[m - 1] + k - 1,
         Done(o, w, h, d), Writes(h, w, Main(o, m).vals[k])
  PROVE  /\ Done(o, w + 1, c, d)
         /\ h.pending[1].inc => c.tar = NextTar(h.tar)
<1>. DEFINE v == Main(o, m).vals[k]
<1>1. w \in Nat /\ w \in Address /\ v \in Word /\ v = o.vals[w - o.a + 1]
  BY PutWords
<1>2. Performs(h, c) /\ c.mapped = h.mapped
  BY DEF Outcome, Writes, Quiet
<1>. HIDE DEF v
<1>3. w \in h.mapped /\ c.mem = [h.mem EXCEPT ![w] = v] /\ (h.pending[1].inc => c.tar = NextTar(h.tar))
  BY <1>2 DEF Performs, Writes, v
<1>4. h.mem \in [Address -> Word]
  BY DEF HwOK
<1>5. o.a \in Nat /\ o.t \in Stores /\ w \in Int
  BY <1>1, Spots DEF PutKind
<1>6. Done(o, w + 1, c, d)
  BY <1>1, <1>2, <1>3, <1>4, <1>5, DoneWord
<1>. QED BY <1>3, <1>6

LEMMA PutStep ==
  ASSUME NEW o \in Requests, NEW m \in 1..Groups(o), PutKind(o, m), NEW h, HwOK(h), h.inc,
         NEW c, Outcome(h, c), NEW d, NEW k \in 1..Len(Main(o, m).vals), Putting(o, m, k, h, d),
         NEW r, ~r.rnw, r.a = 12, r.v = Main(o, m).vals[k], Sane("APACC", r)
  PROVE  LET g == Start(c, "APACC", r)
         IN /\ k < Len(Main(o, m).vals) => Putting(o, m, k + 1, g, d)
            /\ k = Len(Main(o, m).vals) => Ending(o, m, g, d)
<1>. DEFINE g == Start(c, "APACC", r)  x == Frontier(o)[m - 1]  y == Frontier(o)[m]  s == Len(Main(o, m).vals)
            w == x + k - 1  v == Main(o, m).vals[k]
<1>1. HwOK(c) /\ Quiet(c) /\ c.inc /\ c.mapped = h.mapped /\ c.bank = h.bank
  BY DEF Outcome
<1>2. CASE c.sticky
  <2>1. g = c
    BY <1>1, <1>2, APStart
  <2>. QED BY <1>1, <1>2, <2>1 DEF Putting, Ending
<1>3. CASE ~c.sticky
  <2>1. ~h.sticky
    BY <1>3 DEF Outcome
  <2>2. /\ x \in Nat /\ s \in Nat \ {0} /\ y = x + s /\ y <= LastWord(o) + 1 /\ InPage(o, m)
    BY Spots, BlockFacts
  <2>3. v \in Word
    BY PutWords
  <2>4. AsWord(v) = v
    BY <2>3 DEF AsWord
  <2>. HIDE DEF x, y, s, w, v
  <2>5. k \in Nat /\ 1 <= k /\ k <= s
    BY <2>2 DEF s
  <2>6. c.tar = w /\ c.bank = 0 /\ Done(o, w, c, d)
    <3>1. CASE k = 1 /\ Quiet(h)
      <4>1. h.tar = x /\ Done(o, x, h, d) /\ h.bank = 0
        BY <2>1, <3>1 DEF Putting, x, Writes, Quiet
      <4>2. c = h
        BY <3>1 DEF Outcome, Quiet
      <4>3. w = x
        BY <2>2, <3>1 DEF w
      <4>. QED BY <4>1, <4>2, <4>3
    <3>2. CASE ~(k = 1 /\ Quiet(h))
      <4>1. /\ k > 1 /\ h.bank = 0 /\ h.tar = x + k - 2 /\ Done(o, x + k - 2, h, d)
            /\ Writes(h, x + k - 2, Main(o, m).vals[k - 1]) /\ h.pending[1].inc
        BY <2>1, <3>2 DEF Putting, x
      <4>. DEFINE l == k - 1  u == x + l - 1
      <4>0. ASSUME NEW X \in Nat, NEW K \in Nat, NEW S \in Nat, K > 1, K <= S
            PROVE  /\ K - 1 \in 1..S /\ X + (K - 1) - 1 = X + K - 2 /\ X + (K - 1) - 1 \in Nat
                   /\ X + (K - 1) - 1 + 1 = X + K - 1
                   /\ X <= X + (K - 1) - 1 /\ X + (K - 1) - 1 + 1 < X + S
        BY <4>0
      <4>2. l \in 1..s /\ u = x + k - 2 /\ u \in Nat /\ u + 1 = w /\ x <= u /\ u + 1 < y
        BY <2>2, <2>5, <4>0, <4>1 DEF w
      <4>3. Done(o, u, h, d) /\ Writes(h, u, Main(o, m).vals[l]) /\ h.tar = u
        BY <4>1, <4>2
      <4>4. l \in 1..Len(Main(o, m).vals)
        BY <4>2 DEF s
      <4>. HIDE DEF l
      <4>5. Done(o, u + 1, c, d) /\ c.tar = NextTar(u)
        <5>1. u = Frontier(o)[m - 1] + l - 1
          BY DEF x
        <5>. HIDE DEF u
        <5>2. Done(o, u, h, d) /\ Writes(h, u, Main(o, m).vals[l])
          BY <4>3
        <5>3. Done(o, u + 1, c, d) /\ (h.pending[1].inc => c.tar = NextTar(h.tar))
          <6>. HIDE <4>1
          <6>1. \A K \in 1..Len(Main(o, m).vals) : \A W :
                  W = Frontier(o)[m - 1] + K - 1 /\ Done(o, W, h, d) /\ Writes(h, W, Main(o, m).vals[K])
                    => Done(o, W + 1, c, d) /\ (h.pending[1].inc => c.tar = NextTar(h.tar))
            BY <1>3, PutEnds
          <6>. QED BY <4>4, <5>1, <5>2, <6>1
        <5>. QED BY <4>1, <4>3, <5>3
      <4>6. NextTar(u) = u + 1
        BY <2>2, <4>2, PageStep DEF x, y
      <4>. QED BY <1>1, <4>1, <4>2, <4>5, <4>6
    <3>. QED BY <3>1, <3>2
  <2>7. APKeeps(c, g) /\ g.tar = c.tar /\ g.pending[1].inc /\ Writes(g, c.tar, AsWord(r.v))
    BY <1>1, <1>3, <2>6, APStart DEF g
  <2>. HIDE DEF g
  <2>8. /\ ~g.sticky /\ g.bank = 0 /\ g.tar = w /\ g.pending[1].inc /\ Writes(g, w, v) /\ Done(o, w, g, d)
    BY <1>3, <2>4, <2>6, <2>7, DoneSame DEF APKeeps, v
  <2>9. ASSUME k < s PROVE Putting(o, m, k + 1, g, d)
    <3>1. k + 1 > 1 /\ x + (k + 1) - 2 = w /\ (k + 1) - 1 = k
      BY <2>2, <2>5 DEF w
    <3>. QED BY <2>8, <3>1 DEF Putting, x, v
  <2>10. ASSUME k = s PROVE Ending(o, m, g, d)
    <3>1. y - 1 = w /\ y - x = k
      BY <2>2, <2>5, <2>10 DEF w
    <3>2. PutsLast(o, m, g, d)
      BY <2>8, <3>1 DEF PutsLast, x, y, v
    <3>. QED BY <3>2 DEF Ending
  <2>. QED BY <2>9, <2>10 DEF s, g
<1>. QED BY <1>2, <1>3

\* The last word of a block has been stored.
LEMMA LastPut ==
  ASSUME NEW o \in Requests, NEW m \in 1..Groups(o), PutKind(o, m), NEW h, HwOK(h),
         NEW c, Outcome(h, c), ~c.sticky, NEW d, PutsLast(o, m, h, d)
  PROVE  After(o, m, 4, c, d)
<1>. DEFINE x == Frontier(o)[m - 1]  y == Frontier(o)[m]  k == Len(Main(o, m).vals)  w == x + k - 1
<1>1. x \in Nat /\ k \in Nat \ {0} /\ y = x + k
  BY Spots, BlockFacts
<1>2. Done(o, y - 1, h, d) /\ Writes(h, y - 1, Main(o, m).vals[y - x])
  BY DEF PutsLast
<1>3. y - 1 = w /\ y - x = k /\ k \in 1..k /\ w + 1 = y
  BY <1>1
<1>4. Done(o, w, h, d) /\ Writes(h, w, Main(o, m).vals[k])
  BY <1>2, <1>3
<1>. HIDE DEF w
<1>5. Done(o, w + 1, c, d)
  BY <1>3, <1>4, PutEnds DEF w
<1>6. Done(o, y, c, d)
  BY <1>3, <1>5
<1>. QED BY <1>6, BlockFacts DEF After

LEMMA FinalStep ==
  ASSUME NEW o \in Requests, NEW m \in 1..Groups(o), PutKind(o, m), NEW h, HwOK(h),
         NEW c, Outcome(h, c), NEW d, Ending(o, m, h, d)
  PROVE  Checking(o, m, 4, Start(c, "APACC", Dummy), d)
<1>. DEFINE g == Start(c, "APACC", Dummy)
<1>1. HwOK(c) /\ Quiet(c)
  BY DEF Outcome
<1>2. Dummy.rnw /\ Dummy.a = 12 /\ Sane("APACC", Dummy)
  BY DummySane DEF Dummy
<1>3. APKeeps(c, g) /\ OnlyReads(g)
  BY <1>1, <1>2, APStart
<1>. HIDE DEF g
<1>4. ASSUME ~c.sticky PROVE After(o, m, 4, g, d)
  <2>1. PutsLast(o, m, h, d)
    BY <1>4 DEF Ending, Outcome
  <2>2. After(o, m, 4, c, d)
    BY <1>4, <2>1, LastPut
  <2>. QED BY <1>3, <2>2, AfterLast DEF APKeeps
<1>5. Checking(o, m, 4, g, d)
  BY <1>3, <1>4 DEF Checking, APKeeps
<1>. QED BY <1>5 DEF g

-----------------------------------------------------------------------------
(* The status.                                                             *)

\* A read that was only to shift out an answer has ended.
LEMMA DummyEnds ==
  ASSUME NEW o \in Requests, NEW m \in 1..Groups(o), NEW j \in 1..4, NEW h, HwOK(h), NEW c, Outcome(h, c), ~c.sticky,
         NEW d, OnlyReads(h), j \in {1, 3} => Quiet(h), After(o, m, j, h, d),
         j = 2 => Quiet(h) \/ (Single(o, m) /\ h.tar = Base(o, m))
  PROVE  After(o, m, j, c, d)
<1>1. CASE Quiet(h)
  BY <1>1 DEF Outcome
<1>2. CASE ~Quiet(h)
  <2>1. c.mem = h.mem /\ c.mapped = h.mapped /\ c.bank = h.bank
    BY <1>2 DEF Outcome, Performs, OnlyReads, Quiet
  <2>2. CASE j = 4
    BY <2>1, <2>2, AfterLast
  <2>3. CASE j = 2
    <3>1. c.tar = h.tar \/ c.tar = NextTar(h.tar)
      BY <1>2 DEF Outcome, Performs
    <3>. DEFINE b == Base(o, m)  x == Frontier(o)[m - 1]
    <3>2. h.tar = b /\ Single(o, m) /\ b = x - (x % 4) /\ b \in Address /\ x \in Nat
      BY <1>2, <2>3, BaseFacts, Spots
    <3>. HIDE DEF b, x
    <3>3. NextTar(b) = b + 1
      <4>1. b \in Nat /\ b % 4 = 0
        BY <3>2, Aligned
      <4>2. (b % Page) + 1 < Page
        <5>1. Page \in Nat \ {0} /\ Page % 4 = 0
          BY DebugPortAssumption
        <5>. DEFINE p == b \div Page  r == b % Page  e == Page \div 4  f == b \div 4
        <5>2. p \in Nat /\ r \in Nat /\ r < Page /\ b = Page * p + r
          BY <4>1, <5>1, DivMod
        <5>3. e \in Nat /\ Page = 4 * e /\ f \in Nat /\ b = 4 * f
          BY <4>1, <5>1
        <5>. HIDE DEF p, r, e, f
        <5>4. e * p \in Nat /\ Page * p = 4 * (e * p)
          <6>1. e * p \in Nat
            BY <5>2, <5>3, MulNat
          <6>2. (4 * e) * p = 4 * (e * p)
            BY <5>2, <5>3
          <6>. QED BY <5>3, <6>1, <6>2
        <5>5. ASSUME NEW ep \in Nat, ep = e * p PROVE r + 1 < Page
          BY <5>2, <5>3, <5>4, <5>5
        <5>. QED BY <5>4, <5>5 DEF r
      <4>. QED BY <3>2, <4>2, NextTarLemma
    <3>4. (IF Single(o, m) THEN c.tar - (c.tar % 4) ELSE c.tar) = b
      <4>1. b - (b % 4) = b /\ (b + 1) - ((b + 1) % 4) = b
        BY <3>2, Aligned
      <4>. QED BY <3>1, <3>2, <3>3, <4>1
    <3>5. So(o, m, 3, h, d)
      BY <2>3 DEF After
    <3>6. Done(o, x, c, d) /\ Peeked(o, m, c, d)
      BY <2>1, <3>5, DoneSame DEF So, Peeked, x
    <3>7. Ready(o, m, 3, c)
      BY <2>1, <3>4, <3>5 DEF Ready, So, b
    <3>. QED BY <2>3, <3>6, <3>7 DEF After, So, x
  <2>. QED BY <1>2, <2>2, <2>3
<1>. QED BY <1>1, <1>2

LEMMA CsrStep ==
  ASSUME NEW o \in Requests, NEW m \in 1..Groups(o), NEW j \in 1..4, NEW h, HwOK(h), NEW c, Outcome(h, c),
         NEW d, Checking(o, m, j, h, d), NEW r, r.rnw, r.a = 4
  PROVE  Judged(o, m, j, Start(c, "DPACC", r), d)
<1>. DEFINE g == Start(c, "DPACC", r)
<1>1. HwOK(c) /\ Quiet(c)
  BY DEF Outcome
<1>2. Sane("DPACC", r)
  BY DEF Sane
<1>3. DPQuiet(c, g) /\ (g.data = 0 => ~g.sticky)
  BY <1>1, <1>2, DPStart
<1>. HIDE DEF g
<1>4. /\ Quiet(g) /\ (g.sticky <=> c.sticky) /\ g.mem = c.mem /\ g.mapped = c.mapped /\ g.bank = c.bank /\ g.tar = c.tar
  BY <1>3 DEF DPQuiet, DPKeeps
<1>5. ASSUME ~c.sticky PROVE After(o, m, j, g, d)
  <2>1. ~h.sticky
    BY <1>5 DEF Outcome
  <2>2. After(o, m, j, c, d)
    <3>1. CASE Main(o, m).t = "pipew" /\ j = 4 /\ PutsLast(o, m, h, d)
      <4>1. PutKind(o, m)
        BY <3>1, Kinds DEF LoadKind, PeekKind, StoreKind, GetKind
      <4>. QED BY <1>5, <3>1, <4>1, LastPut
    <3>2. CASE ~(Main(o, m).t = "pipew" /\ j = 4 /\ PutsLast(o, m, h, d))
      BY <1>5, <2>1, <3>2, DummyEnds DEF Checking
    <3>. QED BY <3>1, <3>2
  <2>. QED BY <1>4, <2>2, AfterSame
<1>6. Judged(o, m, j, g, d)
  BY <1>3, <1>4, <1>5 DEF Judged
<1>. QED BY <1>6 DEF g

\* The status was read; the scan that shifts it out changes nothing.
LEMMA CsrRespStep ==
  ASSUME NEW o \in Requests, NEW m \in 1..Groups(o), NEW j \in 1..4, NEW h, HwOK(h), NEW c, Outcome(h, c),
         NEW d, Judged(o, m, j, h, d)
  PROVE  LET g == Start(c, "DPACC", Dummy)
         IN /\ Quiet(g) /\ c = h
            /\ c.data = 0 => ~g.sticky /\ After(o, m, j, g, d)
<1>. DEFINE g == Start(c, "DPACC", Dummy)
<1>1. HwOK(c) /\ Quiet(c) /\ c = h
  BY DEF Outcome, Judged
<1>2. Dummy.rnw /\ Dummy.a = 12 /\ Sane("DPACC", Dummy)
  BY DummySane DEF Dummy
<1>3. DPQuiet(c, g)
  BY <1>1, <1>2, DPStart
<1>. HIDE DEF g
<1>4. /\ Quiet(g) /\ (g.sticky <=> c.sticky) /\ g.mem = c.mem /\ g.mapped = c.mapped /\ g.bank = c.bank /\ g.tar = c.tar
  BY <1>3 DEF DPQuiet, DPKeeps
<1>5. c.data = 0 => ~g.sticky /\ After(o, m, j, g, d)
  BY <1>1, <1>4, AfterSame DEF Judged
<1>. QED BY <1>1, <1>4, <1>5 DEF g

\* The next transfer, in this group or the next.
LEMMA NextStep ==
  ASSUME NEW o \in Requests, NEW m \in 1..Groups(o), NEW j \in 1..4, NEW h, NEW d, NEW rs,
         Quiet(h), ~h.sticky, After(o, m, j, h, d)
  PROVE  /\ j < 4 => Entering(o, m, j + 1, h, d, rs)
         /\ j = 4 /\ m + 1 \in 1..Groups(o) => Entering(o, m + 1, 1, h, d, rs)
<1>1. ASSUME j < 4 PROVE Entering(o, m, j + 1, h, d, rs)
  <2>1. So(o, m, j + 1, h, d) /\ ~(m = 1 /\ j + 1 = 1)
    BY <1>1 DEF After
  <2>. QED BY <2>1 DEF Entering
<1>2. ASSUME j = 4, m + 1 \in 1..Groups(o) PROVE Entering(o, m + 1, 1, h, d, rs)
  <2>1. Done(o, Frontier(o)[m], h, d) /\ Peeked(o, m + 1, h, d) /\ (m + 1) - 1 = m /\ m + 1 # 1
    BY <1>2, Spots DEF After
  <2>2. Ready(o, m + 1, 1, h)
    BY DEF Ready
  <2>. QED BY <2>1, <2>2 DEF Entering, So
<1>. QED BY <1>1, <1>2

-----------------------------------------------------------------------------
(* What a scan of a data register does to a port that is linked in.        *)

\* The port leaves a pause: a read of a block's next word may start.
LEMMA NowFacts ==
  ASSUME Ranges, Instructions
  PROVE  /\ HwOK(Now) /\ Now.mem = hw.mem /\ Now.mapped = hw.mapped /\ Now.bank = hw.bank
         /\ ~HoldsDR => Now = hw
<1>1. HwOK(Now)
  BY LeftOK DEF Now
<1>2. CASE ~HoldsDR
  BY <1>1, <1>2, LeftOK DEF Now
<1>3. CASE HoldsDR
  <2>1. Now = Start(hw, chain.dp, Dummy) /\ Dummy.a = 12 /\ Dummy.rnw
    BY <1>3, LeftOK DEF Now, Dummy
  <2>2. IsHw(hw) /\ hw.bank \in {0, 1, 15}
    BY DEF Ranges, HwOK
  <2>3. CASE chain.dp = "DPACC"
    <3>1. Now = StartDP(hw, Dummy)
      BY <2>1, <2>3 DEF Start
    <3>2. SameBut(hw, Now, {"data"})
      BY <2>1, <2>2, <3>1, StartDPLemma
    <3>. QED BY <1>1, <1>3, <3>2 DEF SameBut
  <2>4. CASE chain.dp # "DPACC"
    <3>1. Now = StartAP(hw, Dummy)
      BY <2>1, <2>4 DEF Start
    <3>. DEFINE g == StartAP(hw, Dummy)
                P == <<[addr |-> (hw.tar - (hw.tar % 4)) + (Dummy.a \div 4), rnw |-> Dummy.rnw, v |-> AsWord(Dummy.v), inc |-> FALSE]>>
                Q == <<[addr |-> hw.tar, rnw |-> Dummy.rnw, v |-> AsWord(Dummy.v), inc |-> hw.inc]>>
    <3>2. /\ hw.sticky => g = hw
          /\ ~hw.sticky /\ hw.bank = 1 => SameBut(hw, g, {"pending"}) /\ g.pending = P
          /\ ~hw.sticky /\ hw.bank = 0 /\ Dummy.a = 12 => SameBut(hw, g, {"pending"}) /\ g.pending = Q
          /\ ~hw.sticky /\ hw.bank \notin {0, 1} => SameBut(hw, g, {"data"})
      BY ZenonT(30), <2>2, StartAPLemma
    <3>. HIDE DEF g, P, Q
    <3>3. Now = g
      BY <3>1 DEF g
    <3>. QED BY <1>1, <1>3, <2>1, <2>2, <3>2, <3>3 DEF SameBut
  <2>. QED BY <2>3, <2>4
<1>. QED BY <1>2, <1>3

LEMMA ScanMoves ==
  ASSUME NEW req, NEW to, NEW ack, NEW d, ScanDR(req, to, ack, d)
  PROVE  chain'.linked = chain.linked /\ chain'.pick = Latched(chain).pick /\ chain'.dp = Latched(chain).dp
<1>1. PICK t, held : chain' = Moved(Latched(chain), t, held)
  BY DEF ScanDR
<1>2. Latched(chain).linked = chain.linked
  BY DEF Latched
<1>. QED BY <1>1, <1>2 DEF Moved

\* The answer, and what the port is then about.
Ran(req, d) ==
  /\ \E c : Outcome(Now, c) /\ Sound(Now, c) /\ d = c.data /\ Now' = Start(c, cache.ir, req)
  /\ UNCHANGED <<excused, unnoticed>>
Busy(d) ==
  /\ ~Quiet(Now) /\ Now' = Now /\ d = Now.data
  /\ excused' = TRUE /\ unnoticed' = (unnoticed \/ Overlooked)

LEMMA LiveScan ==
  ASSUME IInv, Work, Links, kills = 0, pc \in DRPcs, NEW req, NEW to \in Ends, NEW ack, NEW d, ScanDR(req, to, ack, d)
  PROVE  /\ chain'.linked = chain.linked
         /\ chain.linked => (ack = "OK" /\ Ran(req, d)) \/ (ack = "WAIT" /\ Busy(d))
         /\ ~chain.linked => ack = "BAD" /\ Now' = Now /\ UNCHANGED <<excused, unnoticed>>
<1>. DEFINE h == Left(hw, chain)
<1>0. h = Now /\ HwOK(h)
  BY NowFacts DEF Now, Work
<1>. HIDE DEF h
<1>1. chain'.linked = chain.linked /\ chain'.dp = Latched(chain).dp
  BY ScanMoves
<1>2. ASSUME chain'.held = <<>> PROVE Now' = hw'
  BY <1>2 DEF Now, Left
<1>3. ASSUME Answered(req, to, d) PROVE chain.linked /\ Ran(req, d)
  <2>1. PICK works \in BOOLEAN :
          /\ h.power => works
          /\ LET h2 == Complete(h, works)
             IN /\ d = h2.data
                /\ to = "RTI" => hw' = Start(h2, cache.ir, req) /\ chain'.held = <<>>
                /\ to # "RTI" => hw' = h2 /\ chain'.held = <<[reg |-> "DR", req |-> req]>>
    BY <1>3 DEF Answered, h
  <2>. DEFINE c == Complete(h, works)
  <2>2. /\ d = c.data
        /\ to = "RTI" => hw' = Start(c, cache.ir, req) /\ chain'.held = <<>>
        /\ to # "RTI" => hw' = c /\ chain'.held = <<[reg |-> "DR", req |-> req]>>
    BY <2>1
  <2>3. Outcome(Now, c) /\ Sound(Now, c)
    BY <1>0, <2>1, OutcomeLemma, SoundLemma
  <2>. HIDE DEF c
  <2>4. Latched(chain).dp = cache.ir /\ chain.linked /\ UNCHANGED waitVars
    BY <1>3 DEF Answered
  <2>5. ASSUME to # "RTI" PROVE Now' = Start(c, cache.ir, req)
    <3>1. chain'.held # <<>> /\ chain'.held[1].reg = "DR" /\ chain'.held[1].req = req /\ hw' = c
      BY <2>2, <2>5
    <3>2. Now' = Start(hw', chain'.dp, chain'.held[1].req)
      BY <3>1 DEF Now, Left
    <3>. QED BY <1>1, <2>4, <3>1, <3>2
  <2>6. Now' = Start(c, cache.ir, req)
    BY <1>2, <2>2, <2>5
  <2>. QED BY <2>2, <2>3, <2>4, <2>6 DEF Ran, waitVars
<1>4. ASSUME Waited(d) PROVE chain.linked /\ Busy(d)
  <2>1. /\ h.pending # <<>> /\ hw' = h /\ chain'.held = <<>> /\ chain.linked
        /\ d = hw'.data /\ excused' = TRUE /\ unnoticed' = (unnoticed \/ Overlooked)
    BY <1>4 DEF Waited, h
  <2>. QED BY <1>0, <1>2, <2>1 DEF Busy, Quiet
<1>5. ASSUME Missed(ack) PROVE ~chain.linked /\ ack = "BAD" /\ Now' = Now /\ UNCHANGED <<excused, unnoticed>>
  <2>1. /\ hw' = h /\ chain'.held = <<>> /\ UNCHANGED <<excused, unnoticed>>
        /\ ack = "BAD" \/ Latched(chain).pick = "ROUTER"
        /\ ~Reaches(Latched(chain), ToShift("DR", belief, chain.tap), {"DPACC", "APACC"})
    BY <1>5 DEF Missed, h, waitVars
  <2>2. pc \notin RouterPcs \cup {"idIR"}
    BY DEF DRPcs, RouterPcs
  <2>3. Latched(chain).pick # "ROUTER"
    BY <2>2 DEF Links
  <2>4. ASSUME chain.linked PROVE FALSE
    <3>1. synced /\ plugged /\ cache.ready /\ conn # "off" /\ pc \notin RouterPcs
      BY <2>2, <2>4 DEF Links, DRPcs, SessionPcs, IInv, Places
    <3>2. Latched(chain).dp = cache.ir /\ Latched(chain).pick = "BYPASS" /\ chain.tap = belief /\ belief \in Beliefs
      BY <3>1 DEF IInv, CacheIsTrue, BeliefIsTrue, Shape
    <3>3. "DR" \in {"DR", "IR"} /\ "RTI" \in Ends
      BY DEF Ends
    <3>4. ToShift("DR", belief, chain.tap) = "ShiftDR"
      BY <3>2, <3>3, WalkLemma
    <3>5. cache.ir \in {"DPACC", "APACC"}
      BY DEF DRPcs, Work, Instructions, Instruction
    <3>6. Latched(chain).linked
      BY <2>4 DEF Latched
    <3>. QED BY <2>1, <3>1, <3>2, <3>4, <3>5, <3>6 DEF Reaches
  <2>. QED BY <1>0, <1>2, <2>1, <2>3, <2>4
<1>. QED BY <1>1, <1>3, <1>4, <1>5, ScanKinds DEF Work

-----------------------------------------------------------------------------
(* The router, the cache and the session.                                  *)

\* Where a step of a session leads.
Onto == pc' \in SessionPcs \cup {"idle"} /\ (conn' = conn \/ pc' = "idle")

LEMMA OntoLemma ==
  /\ \A r : Return(r) => Onto
  /\ \A p : p \in SessionPcs /\ Goto(p) => Onto
  /\ NextTransfer => Onto
  /\ \A csr : Checked(csr) => Onto
  /\ \A q, p : q \in SessionPcs /\ p \in SessionPcs /\ NextWord(q, p) => Onto
<1>1. \A r : Return(r) => Onto
  BY DEF Return, Onto
<1>2. \A p : p \in SessionPcs /\ Goto(p) => Onto
  BY DEF Goto, Onto
<1>3. NextTransfer => Onto
  BY <1>1 DEF NextTransfer, Onto, SessionPcs
<1>4. \A csr : Checked(csr) => Onto
  BY <1>1, <1>3 DEF Checked, Onto, SessionPcs
<1>5. \A q, p : q \in SessionPcs /\ p \in SessionPcs /\ NextWord(q, p) => Onto
  BY <1>2 DEF NextWord, Onto
<1>. QED BY <1>1, <1>2, <1>3, <1>4, <1>5

\* The eight scans of a data register in a session, and what they have in common.
ScansOf(req, to, ack, d) == pc \in DRPcs /\ to \in Ends /\ ScanDR(req, to, ack, d) /\ UNCHANGED scanRest /\ Onto

LEMMA SessionScans ==
  ASSUME Cmd \/ Resp \/ First \/ Get \/ Put \/ Final \/ Csr \/ CsrResp
  PROVE  \E req, to, ack, d : ScansOf(req, to, ack, d)
<1>0. "RTI" \in Ends /\ "Pause" \in Ends
  BY DEF Ends
<1>1. CASE Cmd
  <2>1. PICK ack \in Acks, d \in Word : ScanDR(Request, "RTI", ack, d)
            /\ IF call.check THEN pc' = "resp" /\ UNCHANGED <<i, n, calls, clearing, result, conn>>
               ELSE Again("cmd", Goto("csrIR"))
    BY <1>1 DEF Cmd
  <2>2. Onto
    BY <2>1, OntoLemma DEF Again, Onto, SessionPcs
  <2>. QED BY <1>0, <1>1, <2>1, <2>2 DEF Cmd, ScansOf, DRPcs
<1>2. CASE Resp
  <2>1. PICK ack \in Acks, d \in Word : ScanDR(Dummy, "RTI", ack, d)
            /\ CASE ack = "BAD"  -> Return("failure")
                 [] ack = "WAIT" -> Again("cmd", Goto("csrIR"))
                 [] ack = "OK"   -> Goto("csrIR")
    BY <1>2 DEF Resp
  <2>2. Onto
    BY <2>1, OntoLemma DEF Again, Onto, SessionPcs, Acks
  <2>. QED BY <1>0, <1>2, <2>1, <2>2 DEF Resp, ScansOf, DRPcs
<1>3. CASE First
  <2>1. PICK ack \in Acks, d \in Word : ScanDR(Request, "RTI", ack, d)
            /\ CASE ack = "BAD"  -> Return("failure")
                 [] ack = "WAIT" -> Again("first", Return("failure"))
                 [] ack = "OK"   -> Goto("get")
    BY <1>3 DEF First
  <2>2. Onto
    BY <2>1, OntoLemma DEF Again, Onto, SessionPcs, Acks
  <2>. QED BY <1>0, <1>3, <2>1, <2>2 DEF First, ScansOf, DRPcs
<1>4. CASE Get
  <2>1. PICK ack \in Acks, d \in Word : ScanDR(Dummy, "Pause", ack, d)
            /\ CASE ack = "BAD"  -> Return("failure")
                 [] ack = "WAIT" -> Again("get", Return("failure"))
                 [] ack = "OK"   -> NextWord("get", "csrIR")
    BY <1>4 DEF Get
  <2>2. Onto
    BY <2>1, OntoLemma DEF Again, Onto, SessionPcs, Acks
  <2>. QED BY <1>0, <1>4, <2>1, <2>2 DEF Get, ScansOf, DRPcs
<1>5. CASE Put
  <2>. DEFINE r == [Request EXCEPT !.v = call.vals[n]]
  <2>1. PICK ack \in Acks, d \in Word : ScanDR(r, "RTI", ack, d)
            /\ CASE ack = "BAD"  -> Return("failure")
                 [] ack = "WAIT" -> Again("put", Return("failure"))
                 [] ack = "OK"   -> NextWord("put", "final")
    BY <1>5 DEF Put
  <2>2. Onto
    BY <2>1, OntoLemma DEF Again, Onto, SessionPcs, Acks
  <2>. HIDE DEF r
  <2>. QED BY <1>0, <1>5, <2>1, <2>2 DEF Put, ScansOf, DRPcs
<1>6. CASE Final
  <2>1. PICK ack \in Acks, d \in Word : ScanDR(Dummy, "RTI", ack, d)
            /\ IF ack = "BAD" THEN Return("failure") ELSE Goto("csrIR")
    BY <1>6 DEF Final
  <2>2. Onto
    BY <2>1, OntoLemma DEF SessionPcs
  <2>. QED BY <1>0, <1>6, <2>1, <2>2 DEF Final, ScansOf, DRPcs
<1>7. CASE Csr
  <2>. DEFINE r == [rnw |-> TRUE, a |-> 4, v |-> 0]
  <2>1. PICK ack \in Acks, d \in Word : ScanDR(r, "RTI", ack, d)
    BY <1>7 DEF Csr
  <2>2. Onto
    BY <1>7 DEF Csr, Onto, SessionPcs
  <2>. HIDE DEF r
  <2>. QED BY <1>0, <1>7, <2>1, <2>2 DEF Csr, ScansOf, DRPcs
<1>8. CASE CsrResp
  <2>1. PICK ack \in Acks, d \in Word : ScanDR(Dummy, "RTI", ack, d)
            /\ IF ack = "BAD" /\ call.t = "csr" THEN Return("failure")
               ELSE IF ack = "WAIT" THEN Again("csr", Checked(d))
               ELSE Checked(d)
    BY <1>8 DEF CsrResp
  <2>2. Onto
    BY <2>1, OntoLemma DEF Again, Onto, SessionPcs
  <2>. QED BY <1>0, <1>8, <2>1, <2>2 DEF CsrResp, ScansOf, DRPcs
<1>. QED BY <1>1, <1>2, <1>3, <1>4, <1>5, <1>6, <1>7, <1>8

-----------------------------------------------------------------------------
(* Links is inductive.                                                     *)

LEMMA ScanLinks ==
  ASSUME IInv, Links, NEW req, NEW to, NEW ack, NEW d, ScansOf(req, to, ack, d)
  PROVE  Links'
<1>1. pc \in DRPcs /\ to \in Ends /\ ScanDR(req, to, ack, d) /\ Onto /\ UNCHANGED <<plugged, synced, cache, kills, op>>
  BY DEF ScansOf, scanRest, envVars
<1>2. chain'.linked = chain.linked /\ chain'.pick = Latched(chain).pick
  BY <1>1, ScanMoves
<1>3. Latched(chain').pick = Latched(chain).pick
  BY <1>1, ScanDRLemma DEF IInv
<1>4. pc \in SessionPcs /\ pc # "ir" /\ pc # "idle" /\ pc \notin RouterPcs \cup {"idIR"}
  BY <1>1 DEF DRPcs, SessionPcs, RouterPcs
<1>5. pc' # "idIR" /\ pc' # "idDR" /\ (pc' = "idle" \/ conn' = conn)
  BY <1>1 DEF Onto, SessionPcs
<1>. QED BY <1>1, <1>2, <1>3, <1>4, <1>5 DEF Links

LEMMA ShiftLinks ==
  ASSUME IInv, Links, NEW from \in SessionPcs \cup {"idIR"}, NEW ir, NEW to \in (SessionPcs \ {"ir"}) \cup {"idDR"},
         ShiftIR(from, ir, to)
  PROVE  Links'
<1>1. pc = from /\ pc' = to /\ UNCHANGED <<plugged, synced, kills, op, conn>>
  BY DEF ShiftIR, envVars, userVars
<1>2. pc # "idle" /\ pc \notin RouterPcs /\ pc' # "idIR" /\ (pc = "idIR" => ~cache.ready)
  BY <1>1 DEF SessionPcs, RouterPcs, Links
<1>3. CASE UNCHANGED <<chain, cache>> /\ cache.ready
  <2>1. Latched(chain') = Latched(chain) /\ pc # "idIR"
    BY <1>2, <1>3
  <2>. QED BY <1>1, <1>2, <1>3, <2>1 DEF Links
<1>4. CASE ScanIR(ir) /\ cache' = [ir |-> ir, ready |-> TRUE]
  <2>. DEFINE s == ToShift("IR", belief, chain.tap)
              p == IF s = "ShiftIR" THEN "BYPASS" ELSE "lost"
  <2>1. chain' = Moved(Latched(chain), AfterScan("Pause", s), <<[reg |-> "IR", pick |-> p, dp |-> ir]>>)
    BY <1>4 DEF ScanIR
  <2>2. p \in {"BYPASS", "lost"}
    OBVIOUS
  <2>. HIDE DEF s, p
  <2>3. chain'.held = <<[reg |-> "IR", pick |-> p, dp |-> ir]>> /\ chain'.linked = Latched(chain).linked
        /\ chain'.pick = Latched(chain).pick
    BY <2>1 DEF Moved
  <2>4. chain'.held # <<>> /\ chain'.held[1].reg = "IR" /\ chain'.held[1].pick = p
    BY <2>3
  <2>5. Latched(chain').pick = p
    <3>1. chain' = [tap |-> chain'.tap, linked |-> chain'.linked, pick |-> chain'.pick, dp |-> chain'.dp, held |-> chain'.held]
      BY <2>1 DEF Moved
    <3>2. Latched(chain') = [tap |-> chain'.tap, linked |-> chain'.linked, pick |-> chain'.held[1].pick, dp |-> chain'.held[1].dp, held |-> chain'.held]
      BY <2>4, <3>1 DEF Latched
    <3>. QED BY <2>4, <3>2
  <2>6. Latched(chain).linked = chain.linked
    BY DEF Latched
  <2>7. cache'.ready
    BY <1>4
  <2>. QED BY <1>1, <1>2, <2>2, <2>3, <2>5, <2>6, <2>7 DEF Links
<1>. QED BY <1>3, <1>4 DEF ShiftIR, pinVars

LEMMA IcepickLinks ==
  ASSUME Links, NEW from \in RouterPcs, NEW pick, NEW tap, NEW to, Icepick(from, pick, tap, to),
         synced' = synced \/ synced' = plugged, UNCHANGED <<op, kills>>,
         (to \in RouterPcs /\ UNCHANGED conn) \/ (to = "idle" /\ (pick # "ROUTER" \/ kills # 0))
  PROVE  Links'
<1>1. /\ pc = from /\ pc' = to /\ UNCHANGED <<plugged, cache>>
      /\ chain' = [tap |-> tap, pick |-> IF synced' /\ plugged THEN pick ELSE "lost",
                   linked |-> chain.linked \/ (pick = "BYPASS" /\ chain.pick = "CONNECT"),
                   dp |-> "unknown", held |-> <<>>]
  BY DEF Icepick
<1>2. /\ chain'.pick = IF synced' /\ plugged THEN pick ELSE "lost"
      /\ chain'.linked => chain.linked \/ chain.pick = "CONNECT"
      /\ chain'.held = <<>>
  BY <1>1
<1>3. Latched(chain') = chain'
  BY <1>2 DEF Latched
<1>4. pc # "idle" /\ pc' # "idIR" /\ pc' \notin SessionPcs /\ pc' # "idDR"
  BY <1>1 DEF RouterPcs, SessionPcs
<1>. QED BY <1>1, <1>2, <1>3, <1>4 DEF Links

LEMMA RouterLinks == IInv /\ Links /\ Router => Links'
<1>0. {"detect", "connect", "configure", "warm", "dpInit"} = RouterPcs
  BY DEF RouterPcs
<1>1. ASSUME Links, Detect PROVE Links'
  <2>. DEFINE tap == IrDr("RTI", "RTI", IrDr("TLR", "RTI", AfterReset(chain.tap)))
              to == IF plugged THEN "connect" ELSE "idle"
  <2>1. Icepick("detect", "ICEPICKCODE", tap, to) /\ synced' = plugged /\ UNCHANGED <<op, kills>>
    BY <1>1 DEF Detect
  <2>2. (to = "connect" /\ UNCHANGED conn) \/ to = "idle"
    BY <1>1 DEF Detect
  <2>. HIDE DEF tap, to
  <2>. QED BY <1>0, <1>1, <2>1, <2>2, IcepickLinks
<1>2. ASSUME Links, Connected, UNCHANGED <<synced, op, conn, kills>> PROVE Links'
  <2>1. PICK tap : Icepick("connect", "CONNECT", tap, "configure")
    BY <1>2 DEF Connected
  <2>. QED BY <1>0, <1>2, <2>1, IcepickLinks
<1>3. ASSUME Links, Configure, UNCHANGED <<synced, op, conn, kills>> PROVE Links'
  <2>1. PICK tap : Icepick("configure", "BYPASS", tap, "warm")
    BY <1>3 DEF Configure
  <2>. QED BY <1>0, <1>3, <2>1, IcepickLinks
<1>4. ASSUME IInv, Links, WarmReset, UNCHANGED <<synced, op, conn, kills>> PROVE Links'
  <2>. DEFINE tap == IrDr(belief, "RTI", chain.tap)
              to == IF op.t = "init" THEN "dpInit" ELSE "idle"
  <2>1. Icepick("warm", "ROUTER", tap, to)
    BY <1>4 DEF WarmReset
  <2>2. pc = "warm"
    BY <2>1 DEF Icepick
  <2>3. to = "dpInit" \/ (to = "idle" /\ kills # 0)
    BY <1>0, <1>4, <2>2 DEF IInv, Places
  <2>. HIDE DEF tap, to
  <2>. QED BY <1>0, <1>4, <2>1, <2>3, IcepickLinks
<1>. QED BY <1>1, <1>2, <1>3, <1>4 DEF Router, userVars

LEMMA ConnectingLinks == IInv /\ Work /\ Links /\ Connecting => Links'
<1>. SUFFICES ASSUME IInv, Work, Links, Connecting PROVE Links'
  OBVIOUS
<1>1. CASE Router
  BY <1>1, RouterLinks
<1>2. CASE DpInit
  <2>1. /\ pc = "dpInit" /\ pc' = "idIR" /\ cache' = [cache EXCEPT !.ready = FALSE]
        /\ UNCHANGED <<chain, plugged, synced, conn, op, kills>>
    BY <1>2 DEF DpInit, pinVars, envVars, userVars
  <2>2. ~cache'.ready
    BY <2>1 DEF IInv, Shape
  <2>3. pc' \notin SessionPcs /\ pc # "idle"
    BY <2>1 DEF SessionPcs
  <2>4. Latched(chain') = Latched(chain)
    BY <2>1
  <2>. QED BY <2>1, <2>2, <2>3, <2>4 DEF Links
<1>3. CASE DpDetectIR
  BY <1>3, ShiftLinks DEF DpDetectIR
<1>4. CASE DpDetect
  <2>. DEFINE t == AfterScan("RTI", ToShift("DR", belief, chain.tap))
  <2>1. /\ pc = "idDR" /\ belief' = "RTI" /\ UNCHANGED <<plugged, synced, cache, kills, op>>
        /\ chain' = Moved(Latched(chain), t, <<>>)
    BY <1>4 DEF DpDetect, scanRest, envVars
  <2>2. "RTI" \in Ends /\ belief' = Believed("DR", "RTI")
    BY <2>1 DEF Ends, Believed
  <2>3. Latched(chain').pick = Latched(chain).pick
    BY <2>1, <2>2, DataLemma DEF IInv
  <2>. HIDE DEF t
  <2>4. chain'.pick = Latched(chain).pick /\ chain'.linked = chain.linked
    BY <2>1 DEF Moved, Latched
  <2>5. (pc' = "ir" /\ conn' = conn) \/ pc' = "idle"
    BY <1>4 DEF DpDetect, Return
  <2>6. pc # "idle" /\ pc \notin RouterPcs \cup {"idIR"} /\ cache.ready
    BY <2>1 DEF RouterPcs, Links
  <2>7. pc' \notin {"idIR", "idDR"} /\ ~(pc' \in SessionPcs /\ pc' # "ir")
    BY <2>5 DEF SessionPcs
  <2>. QED BY <2>1, <2>3, <2>4, <2>5, <2>6, <2>7 DEF Links
<1>. QED BY <1>1, <1>2, <1>3, <1>4 DEF Connecting

LEMMA SessionLinks == IInv /\ Work /\ Links /\ Session => Links'
<1>. SUFFICES ASSUME IInv, Work, Links, Session PROVE Links'
  OBVIOUS
<1>1. CASE Cmd \/ Resp \/ First \/ Get \/ Put \/ Final \/ Csr \/ CsrResp
  BY <1>1, SessionScans, ScanLinks
<1>2. CASE TransferIR
  <2>1. AfterIR \in {"first", "put", "cmd"}
    BY DEF AfterIR
  <2>2. AfterIR \in SessionPcs \ {"ir"} /\ "ir" \in SessionPcs
    BY <2>1 DEF SessionPcs
  <2>. QED BY <1>2, <2>2, ShiftLinks DEF TransferIR
<1>3. CASE CsrIR
  BY <1>3, ShiftLinks DEF CsrIR, SessionPcs
<1>. QED BY <1>1, <1>2, <1>3 DEF Session

LEMMA StepLinks == IInv /\ Work /\ Links /\ [Next]_vars => Links'
<1>. SUFFICES ASSUME IInv, Work, Links, [Next]_vars PROVE Links'
  OBVIOUS
<1>1. CASE Connect
  <2>1. /\ pc = "idle" /\ pc' = "detect" /\ conn' = "connecting" /\ op' = [t |-> "init"]
        /\ UNCHANGED <<chain, cache, plugged, synced, kills>>
    BY <1>1 DEF Connect, Ask, pinVars, envVars
  <2>2. op'.t = "init" /\ Latched(chain') = Latched(chain)
    BY <2>1
  <2>. QED BY <2>1, <2>2 DEF Links, RouterPcs, SessionPcs
<1>2. CASE Kill
  <2>1. /\ pc' = "detect" /\ kills' = kills + 1 /\ UNCHANGED <<chain, cache, plugged, synced>>
    BY <1>2 DEF Kill, Ask, pinVars, envVars
  <2>2. kills' # 0 /\ Latched(chain') = Latched(chain)
    BY <2>1 DEF IInv, Shape
  <2>. QED BY <2>1, <2>2 DEF Links, SessionPcs
<1>3. CASE Plug
  <2>1. PICK s \in TapStates : chain' = [tap |-> s, linked |-> FALSE, pick |-> "lost", dp |-> "unknown", held |-> <<>>]
    BY <1>3 DEF Plug
  <2>2. ~chain'.linked /\ chain'.pick = "lost" /\ chain'.held = <<>>
    BY <2>1
  <2>3. Latched(chain') = chain'
    BY <2>2 DEF Latched
  <2>4. UNCHANGED <<cache, conn, op, kills, pc>>
    BY <1>3 DEF Plug
  <2>. QED BY <2>2, <2>3, <2>4 DEF Links
<1>4. ASSUME NEW o \in Requests, Access_(o) PROVE Links'
  <2>1. /\ pc = "idle" /\ pc' = "ir" /\ conn = "on" /\ op' = o /\ UNCHANGED <<chain, cache, plugged, synced, conn, kills>>
    BY <1>4 DEF Access_, Ask, pinVars, envVars
  <2>2. op'.t # "init" /\ Latched(chain') = Latched(chain)
    BY <2>1, RequestsAssumption DEF IsRequest
  <2>. QED BY <2>1, <2>2 DEF Links, RouterPcs, SessionPcs
<1>5. CASE UNCHANGED vars
  <2>1. UNCHANGED <<chain, cache, plugged, synced, conn, kills, op, pc>>
    BY <1>5 DEF vars, pinVars, envVars, userVars
  <2>2. Latched(chain') = Latched(chain)
    BY <2>1
  <2>. QED BY <2>1, <2>2 DEF Links
<1>. QED BY <1>1, <1>2, <1>3, <1>4, <1>5, SessionLinks, ConnectingLinks DEF Next

LEMMA InitLinks == Init => Links
<1>. SUFFICES ASSUME Init PROVE Links
  OBVIOUS
<1>1. ~chain.linked /\ chain.pick = "IDCODE" /\ chain.held = <<>> /\ pc = "idle"
  BY DEF Init
<1>2. Latched(chain) = chain
  BY <1>1 DEF Latched
<1>. QED BY <1>1, <1>2 DEF Links, SessionPcs

-----------------------------------------------------------------------------
(* The port while it is set up.                                            *)

\* Where nothing but a read is pending, no answer changes the memory.
LEMMA ReadOutcome ==
  ASSUME NEW h, OnlyReads(h), NEW c, Outcome(h, c)
  PROVE  /\ HwOK(c) /\ Quiet(c) /\ c.mem = h.mem /\ c.mapped = h.mapped /\ c.bank = h.bank /\ c.inc = h.inc
         /\ Quiet(h) => c = h
<1>1. CASE Quiet(h)
  BY <1>1 DEF Outcome
<1>2. CASE ~Quiet(h)
  BY <1>2 DEF Outcome, Performs, OnlyReads, Quiet
<1>. QED BY <1>1, <1>2

LEMMA DPRise ==
  ASSUME NEW h, OnlyReads(h), h.bank # 1, NEW c, Outcome(h, c),
         NEW r, r.a \in {4, 8, 12}, r.a = 8 => ~r.rnw /\ r.v \in {0, 15}
  PROVE  LET g == Start(c, "DPACC", r)
         IN /\ Quiet(g) /\ OnlyReads(g) /\ g.bank # 1 /\ g.mem = h.mem /\ g.mapped = h.mapped /\ g.inc = h.inc
            /\ r.a = 8 => g.bank = r.v
            /\ r.a # 8 => g.bank = h.bank
            /\ r.a = 4 /\ r.rnw => (g.data = 0 => ~g.sticky)
            /\ Quiet(h) /\ ~h.sticky => ~g.sticky
<1>. DEFINE g == Start(c, "DPACC", r)
<1>1. /\ HwOK(c) /\ Quiet(c) /\ c.mem = h.mem /\ c.mapped = h.mapped /\ c.bank = h.bank /\ c.inc = h.inc
      /\ Quiet(h) => c = h
  BY ReadOutcome
<1>2. Sane("DPACC", r)
  BY DEF Sane
<1>3. /\ DPKeeps(c, g)
      /\ r.a = 8 /\ ~r.rnw => g.bank = r.v /\ (g.sticky <=> c.sticky)
      /\ r.a # 8 => g.bank = c.bank
      /\ r.a = 4 /\ r.rnw => DPQuiet(c, g) /\ (g.data = 0 => ~g.sticky)
      /\ r.a = 4 /\ ~r.rnw => (g.sticky => c.sticky /\ r.v # "clear")
      /\ r.a = 12 => DPQuiet(c, g)
  BY <1>1, <1>2, DPStart
<1>. HIDE DEF g
<1>4. Quiet(g) /\ g.mem = h.mem /\ g.mapped = h.mapped /\ g.inc = h.inc
  BY <1>1, <1>3 DEF DPKeeps
<1>5. OnlyReads(g)
  BY <1>4 DEF OnlyReads, Quiet
<1>6. ASSUME Quiet(h), ~h.sticky PROVE ~g.sticky
  BY <1>1, <1>3, <1>6 DEF DPQuiet
<1>7. (r.a = 8 => g.bank = r.v) /\ (r.a # 8 => g.bank = h.bank) /\ g.bank # 1
  BY <1>1, <1>3
<1>8. r.a = 4 /\ r.rnw => (g.data = 0 => ~g.sticky)
  BY <1>3
<1>. QED BY <1>4, <1>5, <1>6, <1>7, <1>8 DEF g

LEMMA APRise ==
  ASSUME NEW h, Quiet(h), h.bank \in {0, 15}, NEW c, Outcome(h, c),
         NEW r, r.a \in {0, 12}, r.rnw \/ (r.a = 0 /\ h.bank = 0 /\ ~h.sticky)
  PROVE  LET g == Start(c, "APACC", r)
         IN /\ OnlyReads(g) /\ g.bank = h.bank /\ g.mem = h.mem /\ g.mapped = h.mapped
            /\ r.a = 0 \/ h.bank = 15 => Quiet(g)
            /\ r.rnw => g.inc = h.inc
            /\ ~r.rnw => g.inc
<1>. DEFINE g == Start(c, "APACC", r)
<1>1. HwOK(c) /\ Quiet(c) /\ c = h
  BY DEF Outcome
<1>2. Sane("APACC", r)
  BY DEF Sane
<1>3. /\ APKeeps(c, g)
      /\ ~c.sticky /\ c.bank = 0 /\ r.a = 0 /\ ~r.rnw => g.inc /\ Quiet(g)
      /\ c.sticky \/ c.bank \notin {0, 1} \/ (c.bank = 0 /\ r.a # 12 /\ r.rnw) => Quiet(g) /\ g.inc = c.inc
      /\ r.rnw /\ r.a = 12 => g.inc = c.inc /\ g.tar = c.tar /\ OnlyReads(g)
  BY <1>1, <1>2, APStart
<1>. HIDE DEF g
<1>4. g.mem = h.mem /\ g.mapped = h.mapped /\ g.bank = h.bank
  BY <1>1, <1>3 DEF APKeeps
<1>5. Quiet(g) => OnlyReads(g)
  BY DEF Quiet, OnlyReads
<1>6. CASE r.rnw /\ r.a = 12
  <2>1. OnlyReads(g) /\ g.inc = h.inc
    BY <1>1, <1>3, <1>6
  <2>2. h.bank = 15 => Quiet(g)
    BY <1>1, <1>3
  <2>. QED BY <1>4, <1>6, <2>1, <2>2 DEF g
<1>7. CASE r.rnw /\ r.a = 0
  <2>1. Quiet(g) /\ g.inc = h.inc
    BY <1>1, <1>3, <1>7
  <2>. QED BY <1>4, <1>5, <1>7, <2>1 DEF g
<1>8. CASE ~r.rnw
  <2>1. Quiet(g) /\ g.inc
    BY <1>1, <1>3, <1>8
  <2>. QED BY <1>4, <1>5, <1>8, <2>1 DEF g
<1>. QED BY <1>6, <1>7, <1>8

-----------------------------------------------------------------------------
\* The transfers of connecting, as requests.
LEMMA InitCall ==
  ASSUME Placed, ~clearing, op.t = "init"
  PROVE  /\ Pos \in 1..10 /\ call = InitTransfers[Pos] /\ Len(calls) = 11 - Pos
         /\ call.t = IF Pos = 2 THEN "csr" ELSE "acc"
         /\ Pos # 2 => call.check
         /\ call.ap <=> Pos \in {6, 8, 10}
         /\ Pos \in {1, 3} => ~call.rnw /\ call.a = 4
         /\ Pos = 4 => call.rnw /\ call.a = 4
         /\ Pos \in {5, 7, 9} => ~call.rnw /\ call.a = 8 /\ call.v = IF Pos = 5 THEN 15 ELSE 0
         /\ Pos = 6 => call.rnw /\ call.a = 12
         /\ Pos = 8 => call.rnw /\ call.a = 0
         /\ Pos = 10 => ~call.rnw /\ call.a = 0
<1>1. Trs = InitTransfers /\ Len(Trs) = 10
  BY ListFacts
<1>2. Pos \in 1..10 /\ call = InitTransfers[Pos] /\ Len(calls) = 10 - Pos + 1
  BY <1>1, CallFacts
<1>3. PICK p \in 1..10 : p = Pos
  BY <1>2
<1>4. Len(calls) = 11 - Pos
  BY <1>2
<1>. DEFINE c == InitTransfers[p]
<1>5. /\ p = 1 => c = ClearCSR
      /\ p = 2 => c = Transfer("csr", FALSE, TRUE, 4, 0, TRUE, <<>>)
      /\ p = 3 => c = Transfer("acc", FALSE, FALSE, 4, "power", TRUE, <<>>)
      /\ p = 4 => c = Transfer("acc", FALSE, TRUE, 4, 0, TRUE, <<>>)
      /\ p = 5 => c = SelectBank(15)
      /\ p = 6 => c = ReadAP(12)
      /\ p \in {7, 9} => c = SelectBank(0)
      /\ p = 8 => c = ReadAP(0)
      /\ p = 10 => c = WriteAP(0, 0)
  BY InitTransferFacts
<1>6. c = call
  BY <1>2, <1>3
<1>. HIDE DEF c
<1>7. /\ p = 1 => c = Transfer("acc", FALSE, FALSE, 4, "clear", TRUE, <<>>)
      /\ p = 5 => c = Transfer("acc", FALSE, FALSE, 8, 15, TRUE, <<>>)
      /\ p = 6 => c = Transfer("acc", TRUE, TRUE, 12, 0, TRUE, <<>>)
      /\ p \in {7, 9} => c = Transfer("acc", FALSE, FALSE, 8, 0, TRUE, <<>>)
      /\ p = 8 => c = Transfer("acc", TRUE, TRUE, 0, 0, TRUE, <<>>)
      /\ p = 10 => c = Transfer("acc", TRUE, FALSE, 0, 0, TRUE, <<>>)
  BY <1>5 DEF ClearCSR, SelectBank, ReadAP, WriteAP
<1>8. c.t = IF p = 2 THEN "csr" ELSE "acc"
  BY <1>5, <1>7 DEF Transfer
<1>9. p # 2 => c.check
  BY <1>5, <1>7 DEF Transfer
<1>10. /\ p \in {6, 8, 10} => c.ap
       /\ p \notin {6, 8, 10} => ~c.ap
  BY <1>5, <1>7 DEF Transfer
<1>11. /\ p \in {1, 3} => ~c.rnw /\ c.a = 4
       /\ p = 4 => c.rnw /\ c.a = 4
       /\ p \in {5, 7, 9} => ~c.rnw /\ c.a = 8 /\ c.v = IF p = 5 THEN 15 ELSE 0
       /\ p = 6 => c.rnw /\ c.a = 12
       /\ p = 8 => c.rnw /\ c.a = 0
       /\ p = 10 => ~c.rnw /\ c.a = 0
  BY <1>5, <1>7 DEF Transfer
<1>. QED BY <1>2, <1>3, <1>4, <1>6, <1>8, <1>9, <1>10, <1>11

\* The request of a transfer.
LEMMA RequestIsCall ==
  /\ Request.rnw = call.rnw /\ Request.a = call.a
  /\ ~call.rnw => Request.v = IF call.ap /\ call.v = Keep THEN data[1] ELSE call.v
  BY DEF Request

\* Clearing is one transfer.
LEMMA ClearCall ==
  ASSUME Placed, clearing
  PROVE  /\ call.t = "acc" /\ call.check /\ ~call.ap /\ ~call.rnw /\ call.a = 4 /\ call.v = "clear"
<1>1. Trs = <<ClearCSR>> /\ Len(Trs) = 1
  BY ListFacts
<1>2. Pos \in 1..1 /\ call = Trs[Pos]
  BY <1>1, CallFacts
<1>3. call = ClearCSR
  BY <1>1, <1>2
<1>. QED BY <1>3 DEF ClearCSR, Transfer

\* An instruction's scan leaves the port as it is.
LEMMA ShiftNow ==
  ASSUME NEW from, NEW ir, NEW to, ShiftIR(from, ir, to)
  PROVE  Now' = Now /\ chain'.linked = chain.linked
<1>1. CASE UNCHANGED <<hw, chain>>
  BY <1>1 DEF Now, Left
<1>2. CASE ScanIR(ir)
  <2>1. PICK t, p : /\ hw' = Left(hw, chain)
                    /\ chain' = Moved(Latched(chain), t, <<[reg |-> "IR", pick |-> p, dp |-> ir]>>)
    BY <1>2 DEF ScanIR
  <2>2. chain'.held = <<[reg |-> "IR", pick |-> p, dp |-> ir]>> /\ chain'.linked = Latched(chain).linked
    BY <2>1 DEF Moved
  <2>3. ~(chain'.held # <<>> /\ chain'.held[1].reg = "DR")
    BY <2>2
  <2>4. Left(hw', chain') = hw'
    BY <2>3 DEF Left
  <2>5. Latched(chain).linked = chain.linked
    BY DEF Latched
  <2>. QED BY <2>1, <2>2, <2>4, <2>5 DEF Now
<1>. QED BY <1>1, <1>2 DEF ShiftIR, pinVars

\* A scan that is surely answered.
LEMMA SureScan ==
  ASSUME IInv, Work, Links, Reliable, Reliable', chain.linked, pc \in DRPcs,
         NEW req, NEW to \in Ends, NEW ack, NEW d, ScanDR(req, to, ack, d), Quiet(Now) \/ pc \in {"cmd", "csr"}
  PROVE  chain'.linked /\ ack = "OK" /\ Ran(req, d)
<1>1. chain'.linked /\ ((ack = "OK" /\ Ran(req, d)) \/ Busy(d))
  BY LiveScan DEF Reliable
<1>2. ~Busy(d)
  BY DEF Busy, Reliable, Overlooked
<1>. QED BY LiveScan, <1>2 DEF Reliable

-----------------------------------------------------------------------------
(* The steps of connecting to a port that is linked in.                    *)

LEMMA InitType == ASSUME NEW p \in 1..10 PROVE InitTransfers[p].t = IF p = 2 THEN "csr" ELSE "acc"
  BY InitTransferFacts DEF Transfer, ClearCSR, SelectBank, ReadAP, WriteAP

Rises ==
  /\ IInv /\ Work /\ Links /\ NotYet /\ Reliable /\ Reliable' /\ op.t = "init" /\ op' = op
  /\ chain.linked /\ pc \in SessionPcs
NoStore == Now'.mem = Now.mem /\ Now'.mapped = Now.mapped

LEMMA RiseFacts ==
  ASSUME Rises
  PROVE  /\ Placed /\ Fits /\ HwOK(Now) /\ Now.bank \in {0, 15} /\ OnlyReads(Now)
         /\ ~clearing => Rising(Now, pc, Pos) /\ Pos \in 1..10
         /\ call.t # "piper" /\ call.t # "pipew"
<1>1. Placed /\ Fits
  BY SessionFacts DEF Rises
<1>2. HwOK(Now)
  BY NowFacts DEF Rises, Work
<1>3. Now.bank \in {0, 15}
  BY <1>2 DEF HwOK, Rises, NotYet
<1>4. ~clearing => Rising(Now, pc, Pos) /\ Pos \in 1..10
  BY <1>1, InitCall DEF Rises, NotYet
<1>5. call.t # "piper" /\ call.t # "pipew"
  <2>1. CASE clearing
    BY <1>1, <2>1, ClearCall
  <2>2. CASE ~clearing
    BY <1>1, <2>2, InitCall DEF Rises
  <2>. QED BY <2>1, <2>2
<1>. QED BY <1>1, <1>2, <1>3, <1>4, <1>5 DEF Rises, NotYet

\* While the status is cleared.
LEMMA RiseClearing ==
  ASSUME Rises, clearing, Session
  PROVE  NotYet' /\ NoStore /\ conn' # "on"
<1>0. conn # "on" /\ "RTI" \in Ends
  BY DEF Rises, Links, Reliable, SessionPcs, Ends
<1>1. /\ Placed /\ Fits /\ OnlyReads(Now) /\ Now.bank \in {0, 15} /\ call.t = "acc" /\ call.check /\ call.a = 4
      /\ Instruction = "DPACC" /\ Request.a = 4 /\ ~Request.rnw
  BY RiseFacts, ClearCall, RequestIsCall DEF Instruction
<1>2. ASSUME NEW r, r.a \in {4, 12}, NEW to \in Ends, NEW ack, NEW d, ScanDR(r, to, ack, d), pc \in DRPcs, cache.ir = "DPACC",
             clearing' \/ pc' = "idle", conn' # "on"
      PROVE  NotYet' /\ NoStore /\ conn' # "on"
  <2>1. chain'.linked /\ (Ran(r, d) \/ Busy(d))
    BY <1>2, LiveScan DEF Rises, Reliable
  <2>2. OnlyReads(Now') /\ Now'.bank # 1 /\ NoStore
    <3>1. CASE Busy(d)
      BY <1>1, <3>1 DEF Busy, NoStore
    <3>2. CASE Ran(r, d)
      <4>1. PICK c : Outcome(Now, c) /\ Now' = Start(c, "DPACC", r)
        BY <1>2, <3>2 DEF Ran
      <4>. QED BY <1>1, <1>2, <4>1, DPRise DEF NoStore
    <3>. QED BY <2>1, <3>1, <3>2
  <2>. QED BY <1>2, <2>1, <2>2 DEF NotYet, SessionPcs
<1>3. CASE TransferIR \/ CsrIR
  <2>1. PICK from, ir, to : ShiftIR(from, ir, to)
    BY <1>3 DEF TransferIR, CsrIR
  <2>2. UNCHANGED <<clearing, conn>>
    BY <2>1 DEF ShiftIR, callVars, userVars
  <2>3. Now' = Now /\ chain'.linked
    BY <2>1, ShiftNow DEF Rises
  <2>. QED BY <1>0, <1>1, <2>2, <2>3 DEF NotYet, NoStore, Rises
<1>4. CASE Cmd
  <2>1. PICK ack \in Acks, d \in Word : ScanDR(Request, "RTI", ack, d)
            /\ IF call.check THEN pc' = "resp" /\ UNCHANGED <<i, n, calls, clearing, result, conn>>
               ELSE Again("cmd", Goto("csrIR"))
    BY <1>4 DEF Cmd
  <2>2. pc = "cmd" /\ cache.ir = "DPACC"
    BY <1>1, <1>4 DEF Cmd, Rises, Work, Instructions
  <2>. QED BY <1>0, <1>1, <1>2, <2>1, <2>2 DEF DRPcs
<1>5. CASE Resp
  <2>1. PICK ack \in Acks, d \in Word : ScanDR(Dummy, "RTI", ack, d)
            /\ CASE ack = "BAD"  -> Return("failure")
                 [] ack = "WAIT" -> Again("cmd", Goto("csrIR"))
                 [] ack = "OK"   -> Goto("csrIR")
    BY <1>5 DEF Resp
  <2>2. pc = "resp" /\ cache.ir = "DPACC" /\ Dummy.a = 12
    BY <1>1, <1>5 DEF Resp, Rises, Work, Instructions, Dummy
  <2>3. (clearing' \/ pc' = "idle") /\ conn' # "on"
    BY <1>0, <2>1 DEF Return, Again, Goto, Acks, Rises
  <2>. DEFINE r == Dummy
  <2>4. r.a \in {4, 12} /\ ScanDR(r, "RTI", ack, d) /\ pc \in DRPcs
    BY <2>1, <2>2 DEF DRPcs
  <2>. HIDE DEF r
  <2>. QED BY <1>0, <1>2, <2>2, <2>3, <2>4
<1>6. CASE Csr
  <2>. DEFINE r == [rnw |-> TRUE, a |-> 4, v |-> 0]
  <2>1. PICK ack \in Acks, d \in Word : ScanDR(r, "RTI", ack, d)
    BY <1>6 DEF Csr
  <2>2. pc = "csr" /\ cache.ir = "DPACC" /\ r.a = 4 /\ UNCHANGED <<clearing, conn>>
    BY <1>6 DEF Csr, Rises, Work, Instructions, callVars
  <2>. HIDE DEF r
  <2>. QED BY <1>0, <1>2, <2>1, <2>2 DEF DRPcs
<1>7. CASE CsrResp
  <2>1. PICK ack \in Acks, d \in Word : ScanDR(Dummy, "RTI", ack, d)
            /\ IF ack = "BAD" /\ call.t = "csr" THEN Return("failure")
               ELSE IF ack = "WAIT" THEN Again("csr", Checked(d))
               ELSE Checked(d)
    BY <1>7 DEF CsrResp
  <2>2. pc = "csrResp" /\ cache.ir = "DPACC" /\ Dummy.a = 12
    BY <1>7 DEF CsrResp, Rises, Work, Instructions, Dummy
  <2>3. Checked(d) => (clearing' \/ pc' = "idle") /\ conn' # "on"
    BY <1>0 DEF Checked, Return, Rises
  <2>4. (clearing' \/ pc' = "idle") /\ conn' # "on"
    BY <1>0, <1>1, <2>1, <2>3 DEF Again
  <2>. DEFINE r == Dummy
  <2>5. r.a \in {4, 12} /\ ScanDR(r, "RTI", ack, d) /\ pc \in DRPcs
    BY <2>1, <2>2 DEF DRPcs
  <2>. HIDE DEF r
  <2>. QED BY <1>0, <1>2, <2>2, <2>4, <2>5
<1>8. CASE First \/ Get \/ Put \/ Final
  BY <1>1, <1>8 DEF Fits, First, Get, Put, Final
<1>. QED BY <1>3, <1>4, <1>5, <1>6, <1>7, <1>8 DEF Session

LEMMA RiseShift ==
  ASSUME Rises, ~clearing, TransferIR \/ CsrIR
  PROVE  NotYet' /\ NoStore /\ conn' # "on"
<1>0. conn # "on"
  BY DEF Rises, Links, Reliable, SessionPcs
<1>1. /\ Placed /\ Fits /\ OnlyReads(Now) /\ Now.bank \in {0, 15} /\ Rising(Now, pc, Pos) /\ Pos \in 1..10
      /\ call.t # "piper" /\ call.t # "pipew"
  BY RiseFacts
<1>2. PICK from, ir, to : ShiftIR(from, ir, to)
  BY DEF TransferIR, CsrIR
<1>3. UNCHANGED <<clearing, conn, calls>>
  BY <1>2 DEF ShiftIR, callVars, userVars
<1>4. Now' = Now /\ chain'.linked
  BY <1>2, ShiftNow DEF Rises
<1>5. Pos' = Pos
  BY <1>1, <1>3, StayPlaced DEF Rises
<1>6. (pc = "ir" /\ pc' = "cmd") \/ (pc = "csrIR" /\ pc' = "csr")
  BY <1>1 DEF TransferIR, CsrIR, ShiftIR, AfterIR
<1>7. Rising(Now, pc', Pos)
  BY <1>1, <1>6 DEF Rising
<1>. QED BY <1>0, <1>1, <1>3, <1>4, <1>5, <1>7 DEF NotYet, NoStore

LEMMA RiseCmd ==
  ASSUME Rises, ~clearing, Cmd
  PROVE  NotYet' /\ NoStore /\ conn' # "on"
<1>0. conn # "on" /\ pc = "cmd" /\ "RTI" \in Ends /\ pc \in DRPcs
  BY DEF Rises, Links, Reliable, SessionPcs, Cmd, Ends, DRPcs
<1>1. /\ Placed /\ Fits /\ OnlyReads(Now) /\ Now.bank \in {0, 15} /\ Rising(Now, pc, Pos) /\ Pos \in 1..10
  BY RiseFacts
<1>2. /\ call.t = "acc" /\ Pos # 2 /\ call.check
      /\ call.ap <=> Pos \in {6, 8, 10}
      /\ Pos \in {1, 3} => ~call.rnw /\ call.a = 4
      /\ Pos = 4 => call.rnw /\ call.a = 4
      /\ Pos \in {5, 7, 9} => ~call.rnw /\ call.a = 8 /\ call.v = IF Pos = 5 THEN 15 ELSE 0
      /\ Pos = 6 => call.rnw /\ call.a = 12
      /\ Pos = 8 => call.rnw /\ call.a = 0
      /\ Pos = 10 => ~call.rnw /\ call.a = 0
  <2>1. call.t = "acc"
    BY <1>0, <1>1 DEF Fits
  <2>. QED BY ZenonT(30), <1>1, <2>1, InitCall DEF Rises
<1>3. PICK ack \in Acks, d \in Word : ScanDR(Request, "RTI", ack, d)
          /\ IF call.check THEN pc' = "resp" /\ UNCHANGED <<i, n, calls, clearing, result, conn>>
             ELSE Again("cmd", Goto("csrIR"))
  BY DEF Cmd
<1>4. chain'.linked /\ Ran(Request, d)
  BY <1>0, <1>3, SureScan DEF Rises
<1>5. PICK c : Outcome(Now, c) /\ Now' = Start(c, cache.ir, Request)
  BY <1>4 DEF Ran
<1>6. pc' = "resp" /\ UNCHANGED <<calls, clearing, conn>>
  BY <1>2, <1>3
<1>7. Pos' = Pos
  BY <1>1, <1>6, StayPlaced DEF Rises
<1>8. cache.ir = IF call.ap THEN "APACC" ELSE "DPACC"
  BY <1>0 DEF Rises, Work, Instructions, Instruction
<1>. DEFINE r == Request  g == Start(c, cache.ir, r)  q == Pos
<1>9. r.rnw = call.rnw /\ r.a = call.a /\ (~call.rnw /\ ~call.ap => r.v = call.v)
  BY RequestIsCall
<1>. HIDE DEF r
<1>10. CASE Pos \notin {6, 8, 10}
  <2>1. cache.ir = "DPACC" /\ ~call.ap
    BY <1>2, <1>8, <1>10
  <2>2. Pos \in {1, 3, 4, 5, 7, 9}
    BY <1>1, <1>2, <1>10
  <2>3. r.a \in {4, 8} /\ (r.a = 8 => ~r.rnw /\ r.v \in {0, 15})
    BY <1>2, <1>9, <2>1, <2>2
  <2>4. Now' = Start(c, "DPACC", r)
    BY <1>5, <2>1 DEF r
  <2>5. /\ Quiet(Now') /\ OnlyReads(Now') /\ Now'.bank # 1 /\ Now'.mem = Now.mem /\ Now'.mapped = Now.mapped
        /\ r.a = 8 => Now'.bank = r.v
    BY <1>1, <1>5, <2>3, <2>4, DPRise
  <2>6. (Pos = 5 => Now'.bank = 15) /\ (Pos = 9 => Now'.bank = 0)
    BY <1>2, <1>9, <2>1, <2>5
  <2>7. Rising(Now', pc', Pos')
    BY <1>6, <1>7, <2>2, <2>5, <2>6 DEF Rising
  <2>. QED BY <1>0, <1>4, <1>6, <2>5, <2>7 DEF NotYet, NoStore
<1>11. CASE Pos \in {6, 8, 10}
  <2>1. cache.ir = "APACC"
    BY <1>2, <1>8, <1>11
  <2>2. Quiet(Now) /\ ~Now.sticky /\ (Pos = 6 => Now.bank = 15) /\ (Pos = 10 => Now.bank = 0)
    BY <1>0, <1>1, <1>11 DEF Rising
  <2>3. r.a \in {0, 12} /\ (Pos = 6 => r.rnw) /\ (Pos = 8 => r.rnw /\ r.a = 0) /\ (Pos = 10 => ~r.rnw /\ r.a = 0)
    BY <1>2, <1>9, <1>11
  <2>4. Now' = Start(c, "APACC", r)
    BY <1>5, <2>1 DEF r
  <2>5. r.rnw \/ (r.a = 0 /\ Now.bank = 0 /\ ~Now.sticky)
    BY <1>11, <2>2, <2>3
  <2>6. /\ OnlyReads(Now') /\ Now'.bank = Now.bank /\ Now'.mem = Now.mem /\ Now'.mapped = Now.mapped
        /\ r.a = 0 \/ Now.bank = 15 => Quiet(Now')
        /\ ~r.rnw => Now'.inc
    BY <1>1, <1>5, <2>2, <2>3, <2>4, <2>5, APRise
  <2>7. Quiet(Now') /\ (Pos = 10 => Now'.inc)
    BY <1>11, <2>2, <2>3, <2>6
  <2>8. Rising(Now', pc', Pos')
    BY <1>6, <1>7, <1>11, <2>2, <2>6, <2>7 DEF Rising
  <2>. QED BY <1>0, <1>1, <1>4, <1>6, <2>6, <2>8 DEF NotYet, NoStore
<1>. QED BY <1>10, <1>11

LEMMA RiseResp ==
  ASSUME Rises, ~clearing, Resp
  PROVE  NotYet' /\ NoStore /\ conn' # "on"
<1>0. conn # "on" /\ pc = "resp" /\ "RTI" \in Ends /\ pc \in DRPcs
  BY DEF Rises, Links, Reliable, SessionPcs, Resp, Ends, DRPcs
<1>1. /\ Placed /\ Fits /\ OnlyReads(Now) /\ Now.bank \in {0, 15} /\ Rising(Now, pc, Pos) /\ Pos \in 1..10
  BY RiseFacts
<1>2. Pos # 2 /\ (call.ap <=> Pos \in {6, 8, 10})
  <2>1. call.t = "acc"
    BY <1>0, <1>1 DEF Fits
  <2>. QED BY ZenonT(30), <1>1, <2>1, InitCall DEF Rises
<1>3. PICK ack \in Acks, d \in Word : ScanDR(Dummy, "RTI", ack, d)
          /\ CASE ack = "BAD"  -> Return("failure")
               [] ack = "WAIT" -> Again("cmd", Goto("csrIR"))
               [] ack = "OK"   -> Goto("csrIR")
  BY DEF Resp
<1>4. Quiet(Now)
  BY <1>0, <1>1 DEF Rising
<1>5. chain'.linked /\ ack = "OK" /\ Ran(Dummy, d)
  BY <1>0, <1>3, <1>4, SureScan DEF Rises
<1>6. PICK c : Outcome(Now, c) /\ Now' = Start(c, cache.ir, Dummy)
  BY <1>5 DEF Ran
<1>7. pc' = "csrIR" /\ UNCHANGED <<calls, clearing, conn>>
  BY <1>3, <1>5 DEF Goto
<1>8. Pos' = Pos
  BY <1>1, <1>7, StayPlaced DEF Rises
<1>9. Dummy.rnw /\ Dummy.a = 12
  BY DEF Dummy
<1>10. /\ OnlyReads(Now') /\ Now'.bank = Now.bank /\ Now'.mem = Now.mem /\ Now'.mapped = Now.mapped
       /\ Now'.inc = Now.inc
  <2>1. CASE cache.ir = "DPACC"
    BY <1>1, <1>6, <1>9, <2>1, DPRise
  <2>2. CASE cache.ir = "APACC"
    BY <1>1, <1>4, <1>6, <1>9, <2>2, APRise
  <2>. QED BY <1>0, <2>1, <2>2 DEF Rises, Work, Instructions, Instruction
<1>11. Rising(Now', pc', Pos')
  BY <1>0, <1>1, <1>2, <1>7, <1>8, <1>10 DEF Rising
<1>. QED BY <1>0, <1>1, <1>5, <1>7, <1>10, <1>11 DEF NotYet, NoStore

LEMMA RiseCsr ==
  ASSUME Rises, ~clearing, Csr
  PROVE  NotYet' /\ NoStore /\ conn' # "on"
<1>0. conn # "on" /\ pc = "csr" /\ "RTI" \in Ends /\ pc \in DRPcs /\ cache.ir = "DPACC"
  BY DEF Rises, Links, Reliable, SessionPcs, Csr, Ends, DRPcs, Work, Instructions
<1>1. /\ Placed /\ Fits /\ OnlyReads(Now) /\ Now.bank \in {0, 15} /\ Rising(Now, pc, Pos) /\ Pos \in 1..10
  BY RiseFacts
<1>. DEFINE r == [rnw |-> TRUE, a |-> 4, v |-> 0]
<1>2. PICK ack \in Acks, d \in Word : ScanDR(r, "RTI", ack, d)
  BY DEF Csr
<1>3. pc' = "csrResp" /\ UNCHANGED <<calls, clearing, conn>> /\ r.a = 4 /\ r.rnw
  BY DEF Csr, callVars
<1>. HIDE DEF r
<1>4. chain'.linked /\ Ran(r, d)
  BY <1>0, <1>2, SureScan DEF Rises
<1>5. PICK c : Outcome(Now, c) /\ Now' = Start(c, "DPACC", r)
  BY <1>0, <1>4 DEF Ran
<1>6. Pos' = Pos
  BY <1>1, <1>3, StayPlaced DEF Rises
<1>7. /\ Quiet(Now') /\ OnlyReads(Now') /\ Now'.bank = Now.bank /\ Now'.mem = Now.mem /\ Now'.mapped = Now.mapped
      /\ Now'.inc = Now.inc /\ (Now'.data = 0 => ~Now'.sticky)
      /\ Quiet(Now) /\ ~Now.sticky => ~Now'.sticky
  BY <1>1, <1>3, <1>5, DPRise
<1>8. Rising(Now', pc', Pos')
  BY <1>0, <1>1, <1>3, <1>6, <1>7 DEF Rising
<1>. QED BY <1>0, <1>1, <1>3, <1>4, <1>7, <1>8 DEF NotYet, NoStore

LEMMA RiseCsrResp ==
  ASSUME Rises, ~clearing, CsrResp
  PROVE  NoStore /\ (conn' # "on" => NotYet') /\ (conn' = "on" => Serving' /\ Quiet(Now') /\ ~Now'.sticky)
<1>0. conn # "on" /\ pc = "csrResp" /\ "RTI" \in Ends /\ pc \in DRPcs /\ cache.ir = "DPACC"
  BY DEF Rises, Links, Reliable, SessionPcs, CsrResp, Ends, DRPcs, Work, Instructions
<1>1. /\ Placed /\ Fits /\ OnlyReads(Now) /\ Now.bank \in {0, 15} /\ Rising(Now, pc, Pos) /\ Pos \in 1..10
  BY RiseFacts
<1>2. PICK ack \in Acks, d \in Word : ScanDR(Dummy, "RTI", ack, d)
            /\ IF ack = "BAD" /\ call.t = "csr" THEN Return("failure")
               ELSE IF ack = "WAIT" THEN Again("csr", Checked(d))
               ELSE Checked(d)
  BY DEF CsrResp
<1>3. Quiet(Now)
  BY <1>0, <1>1 DEF Rising
<1>4. chain'.linked /\ ack = "OK" /\ Ran(Dummy, d)
  BY <1>0, <1>2, <1>3, SureScan DEF Rises
<1>5. PICK c : Outcome(Now, c) /\ d = c.data /\ Now' = Start(c, "DPACC", Dummy)
  BY <1>0, <1>4 DEF Ran
<1>6. d = Now.data
  BY <1>3, <1>5 DEF Outcome
<1>7. Dummy.rnw /\ Dummy.a = 12
  BY DEF Dummy
<1>8. /\ Quiet(Now') /\ OnlyReads(Now') /\ Now'.bank = Now.bank /\ Now'.mem = Now.mem /\ Now'.mapped = Now.mapped
      /\ Now'.inc = Now.inc
      /\ Quiet(Now) /\ ~Now.sticky => ~Now'.sticky
  BY <1>1, <1>5, <1>7, DPRise
<1>9. NoStore
  BY <1>8 DEF NoStore
<1>10. Checked(d)
  BY <1>2, <1>4
<1>11. CASE call.t # "csr" /\ d = 1
  <2>1. clearing' = TRUE /\ conn' = conn
    BY <1>10, <1>11 DEF Checked
  <2>. QED BY <1>0, <1>1, <1>4, <1>8, <1>9, <2>1 DEF NotYet
<1>12. CASE ~(call.t # "csr" /\ d = 1)
  <2>1. NextTransfer
    BY <1>10, <1>12 DEF Checked
  <2>2. (call.t = "csr" <=> Pos = 2) /\ Len(calls) = 11 - Pos
    BY <1>1, InitCall DEF Rises
  <2>3. ~Now.sticky
    <3>1. CASE Pos = 2
      BY <1>1, <3>1 DEF Rising
    <3>2. CASE Pos # 2
      BY <1>0, <1>1, <1>6, <1>12, <2>2, <3>2 DEF Rising, Word
    <3>. QED BY <3>1, <3>2
  <2>4. CASE Len(calls) = 1
    <3>1. Pos = 10
      <4>1. PICK p \in 1..10 : p = Pos
        BY <1>1
      <4>2. 1 = 11 - p
        BY <2>2, <2>4, <4>1
      <4>. QED BY <4>1, <4>2
    <3>2. Now'.inc
      BY <1>0, <1>1, <1>8, <3>1 DEF Rising
    <3>3. pc' = "idle" /\ conn' = "on" /\ result' = "success"
      BY <2>1, <2>4 DEF NextTransfer, Return, Rises
    <3>4. LeftOver({}, Now')
      BY <1>8 DEF LeftOver
    <3>5. (IF IsAccess(op') /\ result' = "failure" THEN {op'} ELSE {}) = {}
      BY <3>3
    <3>. QED BY <1>3, <1>4, <1>8, <1>9, <2>3, <3>2, <3>3, <3>4, <3>5 DEF Serving, SessionPcs
  <2>5. CASE Len(calls) # 1
    <3>1. /\ calls' = Tail(calls) /\ pc' = (IF calls'[1].t = "csr" THEN "csrIR" ELSE "ir")
          /\ UNCHANGED <<clearing, conn>>
      BY <2>1, <2>5 DEF NextTransfer
    <3>2. Pos' = Pos + 1 /\ Pos < Len(Trs) /\ call' = Trs[Pos + 1]
      BY <1>1, <2>5, <3>1, NextPlaced DEF Rises
    <3>3. Trs = InitTransfers /\ Len(Trs) = 10
      BY <1>1, ListFacts DEF Rises
    <3>4. Pos + 1 \in 1..10
      BY <1>1, <3>2, <3>3
    <3>5. call'.t = IF Pos + 1 = 2 THEN "csr" ELSE "acc"
      BY <3>2, <3>3, <3>4, InitType
    <3>8. call' = calls'[1]
      BY DEF call
    <3>6. pc' = IF Pos = 1 THEN "csrIR" ELSE "ir"
      <4>1. PICK p \in 1..10 : p = Pos
        BY <1>1
      <4>2. calls'[1].t = IF p = 1 THEN "csr" ELSE "acc"
        BY <3>5, <3>8, <4>1
      <4>3. pc' = IF p = 1 THEN "csrIR" ELSE "ir"
        BY <3>1, <4>2
      <4>. QED BY <4>1, <4>3
    <3>7. Rising(Now', pc', Pos')
      BY <1>0, <1>1, <1>3, <1>8, <2>3, <3>2, <3>6 DEF Rising
    <3>9. OnlyReads(Now') /\ Now'.bank # 1 /\ conn' # "on"
      BY <1>0, <1>1, <1>8, <3>1
    <3>10. NotYet'
      BY <1>4, <3>7, <3>9 DEF NotYet
    <3>. QED BY <1>9, <3>9, <3>10
  <2>. QED BY <2>4, <2>5
<1>. QED BY <1>11, <1>12

-----------------------------------------------------------------------------
(* Every other step on the way to a connection.                            *)

Before == IInv /\ Work /\ Links /\ NotYet /\ Reliable /\ Reliable' /\ conn # "on"
Settled == NoStore /\ (conn' # "on" => NotYet') /\ (conn' = "on" => Serving')

\* Where the port is as it was, and no session is at work in it.
LEMMA CalmSettles ==
  ASSUME Before, Now' = Now, pc' \notin SessionPcs, chain.linked => chain'.linked, conn' # "on"
  PROVE  Settled
  BY DEF Before, Settled, NotYet, NoStore

\* A port that is not linked in answers nothing.
LEMMA SilentSettles ==
  ASSUME Before, ~chain.linked, Session
  PROVE  Settled
<1>0. Quiet(Now) /\ Now.bank # 1 /\ kills = 0
  BY DEF Before, NotYet, Reliable
<1>1. ASSUME ~chain'.linked, Now' = Now, conn' = "on" => pc' = "idle" PROVE Settled
  BY <1>0, <1>1 DEF Settled, NotYet, Serving, NoStore, OnlyReads, Quiet, SessionPcs
<1>2. CASE TransferIR \/ CsrIR
  <2>1. PICK from, ir, to : ShiftIR(from, ir, to)
    BY <1>2 DEF TransferIR, CsrIR
  <2>2. Now' = Now /\ chain'.linked = chain.linked /\ conn' = conn
    BY <2>1, ShiftNow DEF ShiftIR, userVars
  <2>. QED BY <1>1, <2>2 DEF Before
<1>3. CASE Cmd \/ Resp \/ First \/ Get \/ Put \/ Final \/ Csr \/ CsrResp
  <2>1. PICK req, to, ack, d : ScansOf(req, to, ack, d)
    BY <1>3, SessionScans
  <2>2. ~chain'.linked /\ Now' = Now
    BY <1>0, <2>1, LiveScan DEF ScansOf, Before
  <2>. QED BY <1>1, <2>1, <2>2 DEF ScansOf, Onto, Before
<1>. QED BY <1>2, <1>3 DEF Session

\* The router's instructions leave the port as it is.
LEMMA IcepickNow ==
  ASSUME NEW from, NEW pick, NEW tap, NEW to, Icepick(from, pick, tap, to)
  PROVE  Now' = Now /\ (chain.linked => chain'.linked)
<1>1. /\ hw' = Now
      /\ chain' = [tap |-> tap, pick |-> IF synced' /\ plugged THEN pick ELSE "lost",
                   linked |-> chain.linked \/ (pick = "BYPASS" /\ chain.pick = "CONNECT"),
                   dp |-> "unknown", held |-> <<>>]
  BY DEF Icepick, Now
<1>2. chain'.held = <<>> /\ (chain.linked => chain'.linked)
  BY <1>1
<1>. QED BY <1>1, <1>2 DEF Now, Left

LEMMA RouterSettles ==
  ASSUME Before, Router
  PROVE  Settled
<1>1. ASSUME NEW from \in RouterPcs, NEW pick, NEW tap, NEW to, Icepick(from, pick, tap, to), to \notin SessionPcs,
             conn' # "on"
      PROVE  Settled
  <2>1. pc' = to
    BY <1>1 DEF Icepick
  <2>. QED BY <1>1, <2>1, IcepickNow, CalmSettles
<1>2. {"detect", "connect", "configure", "warm", "dpInit"} = RouterPcs
      /\ {"idle", "connect", "configure", "warm", "dpInit"} \cap SessionPcs = {}
  BY DEF RouterPcs, SessionPcs
<1>3. CASE Detect
  <2>. DEFINE tap == IrDr("RTI", "RTI", IrDr("TLR", "RTI", AfterReset(chain.tap)))
              to == IF plugged THEN "connect" ELSE "idle"
  <2>1. Icepick("detect", "ICEPICKCODE", tap, to) /\ conn' # "on"
    BY <1>3 DEF Detect, Before
  <2>2. to \in {"connect", "idle"}
    OBVIOUS
  <2>. HIDE DEF tap, to
  <2>. QED BY <1>1, <1>2, <2>1, <2>2
<1>4. CASE Connected /\ UNCHANGED conn
  <2>1. PICK tap : Icepick("connect", "CONNECT", tap, "configure")
    BY <1>4 DEF Connected
  <2>. QED BY <1>1, <1>2, <1>4, <2>1 DEF Before
<1>5. CASE Configure /\ UNCHANGED conn
  <2>1. PICK tap : Icepick("configure", "BYPASS", tap, "warm")
    BY <1>5 DEF Configure
  <2>. QED BY <1>1, <1>2, <1>5, <2>1 DEF Before
<1>6. CASE WarmReset /\ UNCHANGED conn
  <2>. DEFINE tap == IrDr(belief, "RTI", chain.tap)
              to == IF op.t = "init" THEN "dpInit" ELSE "idle"
  <2>1. Icepick("warm", "ROUTER", tap, to) /\ to \in {"dpInit", "idle"}
    BY <1>6 DEF WarmReset
  <2>. HIDE DEF tap, to
  <2>. QED BY <1>1, <1>2, <1>6, <2>1 DEF Before
<1>. QED BY <1>3, <1>4, <1>5, <1>6 DEF Router, userVars

LEMMA DetectedSettles ==
  ASSUME Before, DpDetect
  PROVE  Settled
<1>. DEFINE t == AfterScan("RTI", ToShift("DR", belief, chain.tap))
<1>1. /\ pc = "idDR" /\ hw' = Now /\ op' = op /\ chain' = Moved(Latched(chain), t, <<>>)
      /\ \/ pc' = "ir" /\ calls' = InitTransfers /\ clearing' = FALSE /\ UNCHANGED conn
         \/ Return("failure")
  BY DEF DpDetect, Now, scanRest
<1>. HIDE DEF t
<1>2. chain'.held = <<>> /\ chain'.linked = chain.linked
  BY <1>1 DEF Moved, Latched
<1>3. Now' = Now
  BY <1>1, <1>2 DEF Now, Left
<1>4. op.t = "init"
  BY <1>1 DEF Before, Work, Instructions
<1>5. CASE Return("failure")
  <2>1. pc' \notin SessionPcs /\ conn' # "on"
    BY <1>4, <1>5 DEF Return, SessionPcs
  <2>. QED BY <1>2, <1>3, <2>1, CalmSettles
<1>6. CASE pc' = "ir" /\ calls' = InitTransfers /\ clearing' = FALSE /\ UNCHANGED conn
  <2>1. Pos' = 1
    BY <1>1, <1>4, <1>6, InitPlaced
  <2>2. Rising(Now', pc', Pos')
    BY <1>6, <2>1 DEF Rising
  <2>. QED BY <1>2, <1>3, <1>6, <2>2 DEF Before, Settled, NotYet, NoStore
<1>. QED BY <1>1, <1>5, <1>6

LEMMA PlugSettles ==
  ASSUME Before, Plug
  PROVE  Settled
<1>1. PICK s \in TapStates : chain' = [tap |-> s, linked |-> FALSE, pick |-> "lost", dp |-> "unknown", held |-> <<>>]
  BY DEF Plug
<1>2. ~chain'.linked /\ chain'.held = <<>>
  BY <1>1
<1>3. hw' = [hw EXCEPT !.power = FALSE, !.sticky = FALSE, !.pending = <<>>, !.inc = FALSE] /\ conn' = conn
  BY DEF Plug
<1>4. IsHw(hw) /\ Now.mem = hw.mem /\ Now.mapped = hw.mapped /\ Now.bank = hw.bank
  BY NowFacts DEF Before, Work, Ranges, HwOK
<1>5. hw'.pending = <<>> /\ hw'.mem = hw.mem /\ hw'.mapped = hw.mapped /\ hw'.bank = hw.bank
  BY <1>3, <1>4 DEF IsHw
<1>6. Now' = hw'
  BY <1>2 DEF Now, Left
<1>7. Quiet(Now') /\ OnlyReads(Now')
  BY <1>5, <1>6 DEF Quiet, OnlyReads
<1>. QED BY <1>2, <1>3, <1>4, <1>5, <1>6, <1>7 DEF Before, Settled, NotYet, NoStore

LEMMA BeforeSettles ==
  ASSUME Before, [Next]_vars
  PROVE  Settled
<1>1. CASE Session
  <2>1. pc \in SessionPcs /\ op' = op
    BY <1>1 DEF Session, TransferIR, ShiftIR, Cmd, Resp, First, Get, Put, Final, CsrIR, Csr, CsrResp, SessionPcs, scanRest, userVars
  <2>2. op.t = "init"
    BY <2>1 DEF Before, Links, Reliable, SessionPcs
  <2>3. CASE ~chain.linked
    BY <1>1, <2>3, SilentSettles
  <2>4. CASE chain.linked
    <3>1. Rises
      BY <2>1, <2>2, <2>4 DEF Rises, Before
    <3>2. CASE clearing
      BY <1>1, <3>1, <3>2, RiseClearing DEF Settled
    <3>3. CASE ~clearing
      <4>1. ~First /\ ~Get /\ ~Put /\ ~Final
        BY <3>1, RiseFacts DEF Fits, First, Get, Put, Final
      <4>. QED BY <1>1, <3>1, <3>3, <4>1, RiseShift, RiseCmd, RiseResp, RiseCsr, RiseCsrResp DEF Session, Settled
    <3>. QED BY <3>2, <3>3
  <2>. QED BY <2>3, <2>4
<1>2. CASE DpInit
  <2>1. pc' = "idIR" /\ UNCHANGED <<hw, chain, conn>>
    BY <1>2 DEF DpInit, pinVars, userVars
  <2>. QED BY <2>1, CalmSettles DEF Now, Before, SessionPcs
<1>3. CASE DpDetectIR
  <2>1. ShiftIR("idIR", "IDCODE", "idDR")
    BY <1>3 DEF DpDetectIR
  <2>2. pc' = "idDR" /\ UNCHANGED conn /\ Now' = Now /\ chain'.linked = chain.linked
    BY <2>1, ShiftNow DEF ShiftIR, userVars
  <2>. QED BY <2>2, CalmSettles DEF Before, SessionPcs
<1>4. CASE Connect
  <2>1. pc' = "detect" /\ conn' = "connecting" /\ UNCHANGED <<hw, chain>>
    BY <1>4 DEF Connect, Ask, pinVars
  <2>. QED BY <2>1, CalmSettles DEF Now, SessionPcs
<1>5. CASE Kill \/ \E o \in Requests : Access_(o)
  BY <1>5 DEF Kill, Access_, Before
<1>6. CASE UNCHANGED vars
  <2>1. UNCHANGED <<pc, op, calls, clearing, conn, chain, hw>>
    BY <1>6 DEF vars, pinVars, userVars, callVars
  <2>2. Now' = Now /\ Trs' = Trs
    BY <2>1 DEF Now, Trs
  <2>3. Pos' = Pos
    BY <2>1, <2>2 DEF Pos
  <2>. QED BY <2>1, <2>2, <2>3 DEF Before, Settled, NotYet, NoStore
<1>. QED BY <1>1, <1>2, <1>3, <1>4, <1>5, <1>6, RouterSettles, DetectedSettles, PlugSettles DEF Next, Connecting

-----------------------------------------------------------------------------
(* What a write that is still pending may do to the memory.                *)

LEMMA StartKeeps ==
  ASSUME NEW c, HwOK(c), NEW ir, NEW r
  PROVE  LET g == Start(c, ir, r) IN g.mem = c.mem /\ g.mapped = c.mapped /\ (c.inc => g.inc)
<1>1. IsHw(c) /\ c.bank \in {0, 1, 15}
  BY DEF HwOK
<1>2. CASE ir = "DPACC"
  <2>. DEFINE g == StartDP(c, r)
  <2>1. \E fields : SameBut(c, g, fields) /\ "inc" \notin fields
    <3>1. /\ r.a = 4 /\ r.rnw => SameBut(c, g, {"data"})
          /\ r.a = 4 /\ ~r.rnw => SameBut(c, g, {"sticky", "power"})
          /\ r.a = 8 /\ ~r.rnw => SameBut(c, g, {"bank"})
          /\ r.a \notin {4, 8} \/ (r.a = 8 /\ r.rnw) => SameBut(c, g, {"data"})
      BY ZenonT(30), <1>1, StartDPLemma
    <3>. HIDE DEF g
    <3>2. "inc" \notin {"data"} /\ "inc" \notin {"bank"} /\ "inc" \notin {"sticky", "power"}
      OBVIOUS
    <3>. QED BY <3>1, <3>2
  <2>2. g.mem = c.mem /\ g.mapped = c.mapped /\ g.inc = c.inc
    <3>. HIDE DEF g
    <3>. QED BY <2>1 DEF SameBut
  <2>. QED BY <1>2, <2>2 DEF Start
<1>3. CASE ir # "DPACC"
  <2>. DEFINE g == StartAP(c, r)
  <2>1. g = c \/ \E fields : SameBut(c, g, fields) /\ ("inc" \notin fields \/ g.inc = TRUE)
    <3>1. /\ c.sticky => g = c
          /\ ~c.sticky /\ c.bank = 1 => SameBut(c, g, {"pending"})
          /\ ~c.sticky /\ c.bank = 0 /\ r.a = 12 => SameBut(c, g, {"pending"})
          /\ ~c.sticky /\ c.bank = 0 /\ r.a = 4 /\ ~r.rnw => SameBut(c, g, {"tar"})
          /\ ~c.sticky /\ c.bank = 0 /\ r.a = 0 /\ ~r.rnw => SameBut(c, g, {"inc"}) /\ g.inc = TRUE
          /\ ~c.sticky /\ c.bank \notin {0, 1} => SameBut(c, g, {"data"})
          /\ ~c.sticky /\ c.bank = 0 /\ r.a # 12 /\ r.rnw => SameBut(c, g, {"data"})
          /\ ~c.sticky /\ c.bank = 0 /\ r.a \notin {0, 4, 12} => SameBut(c, g, {"data"})
      BY ZenonT(30), <1>1, StartAPLemma
    <3>. HIDE DEF g
    <3>2. "inc" \notin {"data"} /\ "inc" \notin {"pending"} /\ "inc" \notin {"tar"}
      OBVIOUS
    <3>3. r.a \in {0, 4, 12} \/ r.a \notin {0, 4, 12}
      OBVIOUS
    <3>. QED BY <3>1, <3>2, <3>3
  <2>2. g.mem = c.mem /\ g.mapped = c.mapped
    <3>. HIDE DEF g
    <3>. QED BY <2>1 DEF SameBut
  <2>3. c.inc => g.inc
    <3>. HIDE DEF g
    <3>. QED BY <2>1 DEF SameBut
  <2>. QED BY <1>3, <2>2, <2>3 DEF Start
<1>. QED BY <1>2, <1>3

\* What is pending is a read, a word of one of the writes rs, or what is there.
Covers(h, rs) ==
  OnlyReads(h) \/ (\E r \in rs : Stored(r, h.pending[1].addr, h.pending[1].v))
    \/ h.pending[1].v = h.mem[h.pending[1].addr]
StoresOne(g, h, rs) == \E r \in rs : \E w \in h.mapped, v \in Word : Stored(r, w, v) /\ g.mem = [h.mem EXCEPT ![w] = v]
Stores1(g, h, rs) == g.mapped = h.mapped /\ (h.inc => g.inc) /\ (g.mem = h.mem \/ StoresOne(g, h, rs))

LEMMA Lands ==
  ASSUME NEW h, HwOK(h), NEW rs, Covers(h, rs), NEW c, Outcome(h, c), NEW ir, NEW r
  PROVE  Stores1(Start(c, ir, r), h, rs)
<1>. DEFINE g == Start(c, ir, r)  p == h.pending[1]
<1>1. g.mem = c.mem /\ g.mapped = c.mapped /\ (c.inc => g.inc) /\ c.mapped = h.mapped /\ c.inc = h.inc
  BY StartKeeps DEF Outcome
<1>. HIDE DEF g
<1>2. CASE c.mem = h.mem
  BY <1>1, <1>2 DEF Stores1, g
<1>3. CASE c.mem # h.mem
  <2>1. Performs(h, c) /\ ~p.rnw /\ h.pending # <<>>
    BY <1>3 DEF Outcome, Performs, Quiet
  <2>2. p.addr \in h.mapped /\ c.mem = [h.mem EXCEPT ![p.addr] = p.v] /\ ~OnlyReads(h) /\ h.mem \in [Address -> Word]
    BY <2>1 DEF Performs, OnlyReads, HwOK
  <2>3. p.v # h.mem[p.addr]
    BY <1>3, <2>2
  <2>4. PICK q \in rs : Stored(q, p.addr, p.v)
    BY <2>2, <2>3 DEF Covers
  <2>5. p.v \in Word
    BY <2>4 DEF Stored
  <2>6. StoresOne(g, h, rs)
    BY <1>1, <2>2, <2>4, <2>5 DEF StoresOne
  <2>. QED BY <1>1, <2>6 DEF Stores1, g
<1>. QED BY <1>2, <1>3
LEMMA QuietCovers == ASSUME NEW h, NEW rs, OnlyReads(h) \/ Quiet(h) PROVE OnlyReads(h) /\ Covers(h, rs)
  BY DEF OnlyReads, Quiet, Covers

LEMMA WriteCovers ==
  ASSUME NEW o, NEW rs, NEW h, NEW w, NEW v, Writes(h, w, v), Stored(o, w, v) \/ v = h.mem[w]
  PROVE  Covers(h, {o} \cup rs)
  BY DEF Writes, Covers

LEMMA WordCovers ==
  ASSUME NEW o \in Requests, NEW m \in 1..Groups(o), Single(o, m), NEW h, NEW d, NEW rs, AtWord(o, m, h, d), So(o, m, 4, h, d)
  PROVE  Covers(h, {o} \cup rs)
<1>. DEFINE x == Frontier(o)[m - 1]  c == Main(o, m)  v == Value(o, m, d)
<1>1. LoadKind(o, m) \/ PeekKind(o, m) \/ StoreKind(o, m)
  BY WordKinds
<1>2. CASE c.rnw
  <2>1. OnlyReads(h)
    BY <1>2 DEF AtWord, Reads, OnlyReads
  <2>. QED BY <2>1, QuietCovers
<1>3. CASE ~c.rnw
  <2>1. StoreKind(o, m) /\ Writes(h, x, v)
    BY <1>1, <1>3 DEF LoadKind, PeekKind, AtWord
  <2>2. /\ o.t \in Stores /\ c.v \in Word \cup {Keep}
        /\ c.v = IF x <= LastWord(o) THEN o.vals[x - o.a + 1] ELSE Keep
    BY <2>1 DEF StoreKind
  <2>3. x \in Nat /\ o.a \in Nat /\ x >= o.a /\ LastWord(o) \in Nat /\ m <= Groups(o)
    BY Spots
  <2>4. CASE c.v = Keep
    <3>1. v = h.mem[x]
      BY <2>3, <2>4 DEF Value, So, Peeked, KeptBy
    <3>. QED BY <2>1, <3>1, WriteCovers
  <2>5. CASE c.v # Keep
    <3>1. v = c.v /\ v \in Word /\ x <= LastWord(o) /\ v = o.vals[x - o.a + 1]
      BY <2>2, <2>5 DEF Value
    <3>2. x \in o.a .. LastWord(o)
      BY <2>3, <3>1
    <3>3. Stored(o, x, v)
      BY <2>2, <3>1, <3>2 DEF Stored
    <3>. QED BY <2>1, <3>3, WriteCovers
  <2>. QED BY <2>4, <2>5
<1>. QED BY <1>2, <1>3

LEMMA PutCovers ==
  ASSUME NEW o \in Requests, NEW m \in 1..Groups(o), PutKind(o, m), NEW h, NEW d, NEW rs
  PROVE  /\ PutsLast(o, m, h, d) => Covers(h, {o} \cup rs)
         /\ \A k \in 1..Len(Main(o, m).vals) : Putting(o, m, k, h, d) =>
              Covers(h, {o} \cup rs) /\ LeftOver({o}, h)
<1>. DEFINE x == Frontier(o)[m - 1]  y == Frontier(o)[m]  s == Len(Main(o, m).vals)  vs == Main(o, m).vals
<1>1. x \in Nat /\ s \in Nat \ {0} /\ y = x + s
  BY Spots, BlockFacts
<1>2. \A k \in 1..s : Stored(o, x + k - 1, vs[k])
  BY PutWords
<1>. HIDE DEF x, y, s, vs
<1>3. ASSUME PutsLast(o, m, h, d) PROVE Covers(h, {o} \cup rs)
  <2>1. Writes(h, y - 1, vs[y - x])
    BY <1>3 DEF PutsLast, x, y, vs
  <2>2. y - x = s /\ y - 1 = x + s - 1 /\ s \in 1..s
    BY <1>1
  <2>3. Stored(o, x + s - 1, vs[s])
    BY <1>2, <2>2
  <2>. QED BY <2>1, <2>2, <2>3, WriteCovers
<1>4. ASSUME NEW k \in 1..s, Putting(o, m, k, h, d) PROVE Covers(h, {o} \cup rs) /\ LeftOver({o}, h)
  <2>1. CASE Quiet(h)
    BY <2>1, QuietCovers DEF LeftOver
  <2>2. CASE ~Quiet(h)
    <3>1. k > 1 /\ Writes(h, x + k - 2, vs[k - 1])
      BY <1>4, <2>2 DEF Putting, x, vs
    <3>. DEFINE q == k - 1
    <3>2. q \in 1..s /\ x + q - 1 = x + k - 2
      BY <1>1, <3>1
    <3>. HIDE DEF q
    <3>3. Stored(o, x + q - 1, vs[q])
      BY <1>2, <3>2
    <3>4. Writes(h, x + q - 1, vs[q])
      BY <3>1, <3>2 DEF q
    <3>5. LeftOver({o}, h)
      BY <3>3, <3>4 DEF Writes, LeftOver
    <3>. QED BY <3>3, <3>4, <3>5, WriteCovers
  <2>. QED BY <2>1, <2>2
<1>. QED BY <1>3, <1>4 DEF s

\* Where a scan finds a request at work.
LEMMA StageCovers ==
  ASSUME NEW o \in Requests, NEW m \in 1..Groups(o), NEW j \in 1..4, NEW p \in DRPcs, NEW k, NEW h, NEW d, NEW rs,
         Stage(o, m, j, p, k, h, d, rs),
         p \in {"cmd", "resp"} /\ j = 4 => Single(o, m),
         p \in {"put", "final"} => PutKind(o, m),
         p = "put" => k \in 1..Len(Main(o, m).vals)
  PROVE  Covers(h, {o} \cup rs)
<1>1. CASE p = "first" \/ (p = "cmd" /\ j < 4)
  <2>1. Entering(o, m, j, h, d, rs)
    BY <1>1 DEF Stage
  <2>2. LeftOver(rs, h) \/ Quiet(h)
    BY <2>1 DEF Entering
  <2>. QED BY <2>2, QuietCovers DEF LeftOver, Covers
<1>2. CASE p = "cmd" /\ j = 4
  <2>1. Repeating(o, m, h, d)
    BY <1>2 DEF Stage
  <2>. QED BY <1>2, <2>1, QuietCovers, WordCovers DEF Repeating
<1>3. CASE p = "resp" /\ j < 4
  <2>1. Heard(o, m, j, h, d)
    BY <1>3 DEF Stage
  <2>. QED BY <2>1, QuietCovers DEF Heard
<1>4. CASE p = "resp" /\ j = 4
  <2>1. Reaching(o, m, h, d)
    BY <1>4 DEF Stage
  <2>. QED BY <1>4, <2>1, QuietCovers, WordCovers DEF Reaching
<1>5. CASE p = "get"
  <2>1. Getting(o, m, k, h, d)
    BY <1>5 DEF Stage
  <2>. QED BY <2>1, QuietCovers DEF Getting
<1>6. CASE p = "put"
  <2>1. Putting(o, m, k, h, d)
    BY <1>6 DEF Stage
  <2>. QED BY <1>6, <2>1, PutCovers
<1>7. CASE p = "final"
  <2>1. Ending(o, m, h, d)
    BY <1>7 DEF Stage
  <2>. QED BY <1>7, <2>1, PutCovers, QuietCovers DEF Ending
<1>8. CASE p = "csr"
  <2>1. Checking(o, m, j, h, d)
    BY <1>8 DEF Stage
  <2>2. CASE OnlyReads(h)
    BY <2>2, QuietCovers
  <2>3. CASE ~OnlyReads(h)
    <3>1. Main(o, m).t = "pipew" /\ PutsLast(o, m, h, d)
      BY <2>1, <2>3 DEF Checking
    <3>2. PutKind(o, m)
      BY <3>1, Kinds DEF LoadKind, PeekKind, StoreKind, GetKind
    <3>. QED BY <3>1, <3>2, PutCovers
  <2>. QED BY <2>2, <2>3
<1>9. CASE p = "csrResp"
  <2>1. Judged(o, m, j, h, d)
    BY <1>9 DEF Stage
  <2>. QED BY <2>1, QuietCovers DEF Judged
<1>. QED BY <1>1, <1>2, <1>3, <1>4, <1>5, <1>6, <1>7, <1>8, <1>9 DEF DRPcs

-----------------------------------------------------------------------------
(* A session's request at work.                                            *)

\* The transfer at a place in a group is one of the four.
LEMMA PlaceIs ==
  ASSUME NEW o \in Requests, NEW m \in 1..Groups(o), NEW j \in 1..4
  PROVE  LET c == TransfersOf(o)[4 * (m - 1) + j]
         IN /\ j \in {1, 3} => c = SelectBank(IF j = 1 THEN 0 ELSE Bank(o, m))
            /\ j = 2 => c = WriteTar(Base(o, m), Single(o, m))
            /\ j = 4 => c = Main(o, m) /\ c.ap /\ c.check
            /\ c.t # "csr"
<1>. DEFINE T == TransfersOf(o)  p == 4 * (m - 1) + j  c == T[p]
<1>1. m \in Nat /\ p = (4 * m - 4) + j
  OBVIOUS
<1>2. T[4 * m - 3] = SelectBank(0) /\ T[4 * m - 2] = WriteTar(Base(o, m), Single(o, m)) /\ T[4 * m - 1] = SelectBank(Bank(o, m))
  BY Kinds
<1>3. IsMain(o, m, T[4 * m]) /\ T[4 * m] = Main(o, m)
  BY GroupFacts DEF Main
<1>. HIDE DEF T
<1>4. CASE j = 1
  <2>1. c = SelectBank(0)
    BY <1>1, <1>2, <1>4
  <2>. QED BY <1>4, <2>1 DEF SelectBank, Transfer, T
<1>5. CASE j = 2
  <2>1. c = WriteTar(Base(o, m), Single(o, m))
    BY <1>1, <1>2, <1>5
  <2>2. c.t = "acc"
    BY <2>1 DEF WriteTar, Transfer
  <2>. HIDE DEF c
  <2>. QED BY <1>5, <2>1, <2>2 DEF T, c
<1>6. CASE j = 3
  <2>1. c = SelectBank(Bank(o, m))
    BY <1>1, <1>2, <1>6
  <2>2. c.t = "acc"
    BY <2>1 DEF SelectBank, Transfer
  <2>. HIDE DEF c
  <2>. QED BY <1>6, <2>1, <2>2 DEF T, c
<1>7. CASE j = 4
  <2>1. c = Main(o, m) /\ IsMain(o, m, c)
    BY <1>1, <1>3, <1>7
  <2>. HIDE DEF c
  <2>2. c.ap /\ c.check /\ c.t # "csr"
    BY <2>1 DEF IsMain
  <2>. QED BY <1>7, <2>1, <2>2 DEF T, c
<1>. QED BY <1>4, <1>5, <1>6, <1>7

LEMMA GroupIs ==
  ASSUME Placed, NEW m, NEW j, AtGroup(m, j)
  PROVE  /\ op \in Requests /\ m \in 1..Groups(op) /\ j \in 1..4 /\ Pos = 4 * (m - 1) + j
         /\ j \in {1, 3} => call = SelectBank(IF j = 1 THEN 0 ELSE Bank(op, m))
         /\ j = 2 => call = WriteTar(Base(op, m), Single(op, m))
         /\ j = 4 => call = Main(op, m) /\ call.ap /\ call.check
         /\ call.t = "acc" /\ j = 4 => Single(op, m)
         /\ call.t = "piper" => j = 4 /\ GetKind(op, m)
         /\ call.t = "pipew" => j = 4 /\ PutKind(op, m)
         /\ call.t # "csr"
<1>1. /\ op \in Requests /\ Trs = TransfersOf(op) /\ call = Trs[Pos] /\ m \in 1..Groups(op) /\ j \in 1..4
      /\ Pos = 4 * (m - 1) + j
  BY ListFacts, CallFacts DEF AtGroup
<1>. DEFINE c == TransfersOf(op)[4 * (m - 1) + j]
<1>2. call = c
  BY <1>1
<1>3. /\ j \in {1, 3} => c = SelectBank(IF j = 1 THEN 0 ELSE Bank(op, m))
      /\ j = 2 => c = WriteTar(Base(op, m), Single(op, m))
      /\ j = 4 => c = Main(op, m) /\ c.ap /\ c.check
      /\ c.t # "csr"
  BY <1>1, PlaceIs
<1>4. j < 4 => call.t = "acc"
  BY GroupCall
<1>5. LoadKind(op, m) \/ PeekKind(op, m) \/ StoreKind(op, m) \/ GetKind(op, m) \/ PutKind(op, m)
  BY <1>1, Kinds
<1>. HIDE DEF c
<1>6. call.t = "acc" /\ j = 4 => Single(op, m)
  BY <1>2, <1>3 DEF Single
<1>7. call.t \in {"piper", "pipew"} => j = 4
  BY <1>1, <1>4
<1>8. call.t = "piper" => GetKind(op, m)
  BY <1>2, <1>3, <1>5, <1>7 DEF LoadKind, PeekKind, StoreKind, GetKind, PutKind
<1>9. call.t = "pipew" => PutKind(op, m)
  BY <1>2, <1>3, <1>5, <1>7 DEF LoadKind, PeekKind, StoreKind, GetKind, PutKind
<1>. QED BY <1>1, <1>2, <1>3, <1>6, <1>7, <1>8, <1>9

\* A step of a session that serves requests.
Serves ==
  /\ IInv /\ Work /\ Links /\ Serving /\ Reliable /\ Reliable' /\ conn = "on" /\ pc \in SessionPcs /\ Session
Served ==
  /\ Serving' /\ op' = op
  /\ pc' = "idle" /\ result' = "success" =>
       /\ ~clearing /\ Done(op, Frontier(op)[Groups(op)], Now', data')
       /\ op.t \in Loads => Len(data') = op.n

LEMMA ServesFacts ==
  ASSUME Serves
  PROVE  /\ Placed /\ Fits /\ data \in Seq(Word) /\ i \in 0..(Retries - 1) /\ HwOK(Now) /\ op.t # "init"
         /\ UNCHANGED <<op, before, plugged, synced, kills>> /\ (chain.linked => Now.inc)
         /\ \A m, j : AtGroup(m, j) => Collected(m, j) /\ (chain.linked => Stage(op, m, j, pc, n, Now, data, before))
         /\ ~clearing => \E m, j : AtGroup(m, j)
         /\ pc' \in SessionPcs \cup {"idle"} /\ conn' = "on"
<1>1. /\ Placed /\ Fits /\ data \in Seq(Word) /\ i \in 0..(Retries - 1)
      /\ \A m, j : AtGroup(m, j) => Collected(m, j)
  BY SessionFacts DEF Serves
<1>2. HwOK(Now)
  BY NowFacts DEF Serves, Work
<1>3. op.t # "init"
  BY DEF Serves, Links, Reliable, SessionPcs
<1>4. UNCHANGED <<op, before, plugged, synced, kills>>
  BY DEF Serves, Session, TransferIR, ShiftIR, Cmd, Resp, First, Get, Put, Final, CsrIR, Csr, CsrResp, scanRest, userVars, envVars
<1>5. ASSUME NEW m, NEW j, AtGroup(m, j), chain.linked PROVE Stage(op, m, j, pc, n, Now, data, before)
  BY <1>5 DEF Serves, Serving, AtGroup
<1>6. ~clearing => \E m, j : AtGroup(m, j)
  BY <1>1, <1>3, CallInGroup DEF AtGroup
<1>7. pc' \in SessionPcs \cup {"idle"} /\ conn' = "on"
  <2>1. CASE Cmd \/ Resp \/ First \/ Get \/ Put \/ Final \/ Csr \/ CsrResp
    <3>1. pc' \in SessionPcs \cup {"idle"} /\ (conn' = conn \/ pc' = "idle")
      BY <2>1, SessionScans DEF ScansOf, Onto
    <3>2. conn' = conn
      <4>1. \A r : Return(r) => conn' = conn
        BY <1>3 DEF Return
      <4>. QED BY <2>1, <4>1 DEF Cmd, Resp, First, Get, Put, Final, Csr, CsrResp, Again, Goto, NextWord, Checked, NextTransfer, Acks
    <3>. QED BY <3>1, <3>2 DEF Serves
  <2>2. CASE TransferIR \/ CsrIR
    BY <2>2 DEF TransferIR, CsrIR, ShiftIR, AfterIR, SessionPcs, userVars, Serves
  <2>. QED BY <2>1, <2>2 DEF Serves, Session
<1>. QED BY <1>1, <1>2, <1>3, <1>4, <1>5, <1>6, <1>7 DEF Serves, Serving
-----------------------------------------------------------------------------
(* How such a step may end.                                                *)

LEMMA SamePlace ==
  ASSUME NEW m \in Int, NEW k \in Int, NEW j \in 1..4, NEW l \in 1..4, 4 * (m - 1) + j = 4 * (k - 1) + l
  PROVE  m = k /\ j = l
  OBVIOUS

\* With the same transfer.
LEMMA StayServes ==
  ASSUME Serves, ~clearing, chain'.linked, Now'.inc, UNCHANGED <<calls, clearing>>, pc' \in SessionPcs,
         NEW m, NEW j, AtGroup(m, j), Stage(op, m, j, pc', n', Now', data', before)
  PROVE  Served
<1>1. Placed /\ UNCHANGED <<op, before>> /\ pc' # "idle"
  BY ServesFacts DEF SessionPcs
<1>2. Pos' = Pos
  BY <1>1, StayPlaced
<1>3. ASSUME NEW k \in 1..Groups(op'), NEW l \in 1..4, AtGroup(k, l)' PROVE Stage(op, k, l, pc', n', Now', data', before)
  <2>1. /\ Pos = 4 * (m - 1) + j /\ m \in 1..Groups(op) /\ j \in 1..4
        /\ Pos = 4 * (k - 1) + l /\ k \in 1..Groups(op) /\ l \in 1..4
    BY <1>1, <1>2, <1>3 DEF AtGroup
  <2>2. k = m /\ l = j
    BY <2>1, SamePlace
  <2>. QED BY <2>2
<1>. QED BY <1>1, <1>3 DEF Served, Serving

\* To clear the status, and until it is cleared.
LEMMA ClearServes ==
  ASSUME Serves, chain'.linked, Now'.inc, Quiet(Now'), clearing' \/ pc' = "idle", pc' = "idle" => result' # "success"
  PROVE  Served
<1>1. op' = op /\ pc' \in SessionPcs \cup {"idle"} /\ OnlyReads(Now')
  BY ServesFacts DEF Quiet, OnlyReads
<1>2. pc' = "idle" => pc' \notin SessionPcs
  BY DEF SessionPcs
<1>. QED BY <1>1, <1>2 DEF Served, Serving, LeftOver

\* With a failure.
LEMMA FailServes ==
  ASSUME Serves, ~clearing, chain'.linked, Now'.inc, OnlyReads(Now') \/ LeftOver({op}, Now'), Return("failure")
  PROVE  Served
<1>1. Placed /\ op' = op /\ pc' = "idle" /\ result' = "failure" /\ op.t # "init"
  BY ServesFacts DEF Return
<1>2. op \in Requests
  BY <1>1 DEF Placed
<1>3. IsAccess(op)
  BY <1>2, RequestsAssumption DEF IsAccess, IsRequest
<1>4. LeftOver(IF IsAccess(op') /\ result' = "failure" THEN {op'} ELSE {}, Now')
  BY <1>1, <1>3 DEF LeftOver
<1>. QED BY <1>1, <1>4 DEF Served, Serving, SessionPcs

\* With the next transfer, or with success.
LEMMA NextServes ==
  ASSUME Serves, ~clearing, pc = "csrResp", chain'.linked, Now'.inc, NextTransfer, data' = data,
         NEW m, NEW j, AtGroup(m, j), Quiet(Now'), ~Now'.sticky, After(op, m, j, Now', data)
  PROVE  Served
<1>1. Placed /\ UNCHANGED <<op, before>> /\ op.t # "init"
  BY ServesFacts
<1>2. /\ op \in Requests /\ m \in 1..Groups(op) /\ j \in 1..4 /\ Pos = 4 * (m - 1) + j
  BY <1>1, GroupIs
<1>3. Len(Trs) = 4 * Groups(op) /\ Groups(op) \in Nat \ {0} /\ Len(calls) = Len(Trs) - Pos + 1 /\ Trs = TransfersOf(op)
  BY <1>1, ListFacts, CallFacts
<1>4. CASE Len(calls) = 1
  <2>1. pc' = "idle" /\ result' = "success"
    BY <1>4 DEF NextTransfer, Return
  <2>2. m = Groups(op) /\ j = 4
    <3>1. PICK M \in Nat : M = Groups(op)
      BY <1>3
    <3>2. 1 = 4 * M - (4 * (m - 1) + j) + 1 /\ m \in 1..M /\ j \in 1..4
      BY <1>2, <1>3, <1>4, <3>1
    <3>3. m = M /\ j = 4
      BY <3>2
    <3>. QED BY <3>1, <3>3
  <2>3. Done(op, Frontier(op)[Groups(op)], Now', data')
    BY <2>2 DEF After
  <2>4. LeftOver(IF IsAccess(op') /\ result' = "failure" THEN {op'} ELSE {}, Now')
    BY DEF LeftOver, OnlyReads, Quiet
  <2>5. op.t \in Loads => Len(data') = op.n
    <3>1. Collected(m, 4)
      BY <2>2, ServesFacts
    <3>2. op.t \in Loads => Len(data) = Frontier(op)[Groups(op)] - op.a
      BY <2>2, <3>1 DEF Collected, CsrPcs
    <3>3. op.a \in Nat /\ op.n \in Nat /\ (op.t \in Loads => Frontier(op)[Groups(op)] = op.a + op.n)
      <4>1. op.a \in Nat /\ op.n \in Nat
        BY <1>2, RequestsAssumption, DebugPortAssumption DEF IsRequest, Address
      <4>2. op.t \in Loads => Frontier(op)[Groups(op)] = LastWord(op) + 1
        BY <1>2, PlanFacts
      <4>. QED BY <4>1, <4>2 DEF LastWord
    <3>. QED BY <3>2, <3>3
  <2>. QED BY <1>1, <2>1, <2>3, <2>4, <2>5 DEF Served, Serving, SessionPcs
<1>5. CASE Len(calls) # 1
  <2>1. /\ calls' = Tail(calls) /\ pc' = (IF calls'[1].t = "csr" THEN "csrIR" ELSE "ir") /\ clearing' = clearing
    BY <1>5 DEF NextTransfer
  <2>2. Pos' = Pos + 1 /\ call' = Trs[Pos + 1]
    BY <1>1, <1>5, <2>1, NextPlaced
  <2>3. call' = calls'[1]
    BY DEF call
  <2>4. ASSUME NEW k \in 1..Groups(op'), NEW l \in 1..4, AtGroup(k, l)' PROVE Stage(op, k, l, pc', n', Now', data, before)
    <3>1. Pos + 1 = 4 * (k - 1) + l /\ k \in 1..Groups(op) /\ l \in 1..4
      BY <1>1, <2>2, <2>4 DEF AtGroup
    <3>2. calls'[1].t # "csr"
      <4>1. TransfersOf(op)[4 * (k - 1) + l].t # "csr"
        BY <1>2, <3>1, PlaceIs
      <4>2. calls'[1] = TransfersOf(op)[4 * (k - 1) + l]
        BY <1>3, <2>2, <2>3, <3>1
      <4>. QED BY <4>1, <4>2
    <3>3. pc' = "ir"
      BY <2>1, <3>2
    <3>4. Entering(op, k, l, Now', data, before)
      <4>1. CASE j < 4
        <5>1. Pos + 1 = 4 * (m - 1) + (j + 1) /\ j + 1 \in 1..4
          BY <1>2, <4>1
        <5>2. k = m /\ l = j + 1
          BY <1>2, <3>1, <5>1, SamePlace
        <5>. QED BY <1>2, <4>1, <5>2, NextStep
      <4>2. CASE j = 4
        <5>1. Pos + 1 = 4 * ((m + 1) - 1) + 1 /\ m + 1 \in Int /\ 1 \in 1..4
          BY <1>2, <4>2
        <5>2. k = m + 1 /\ l = 1
          BY <1>2, <3>1, <5>1, SamePlace
        <5>. QED BY <1>2, <3>1, <4>2, <5>2, NextStep
      <4>. QED BY <1>2, <4>1, <4>2
    <3>. QED BY <3>3, <3>4 DEF Stage
  <2>5. pc' # "idle"
    BY <2>1
  <2>. QED BY <1>1, <2>1, <2>4, <2>5 DEF Served, Serving
<1>. QED BY <1>4, <1>5
\* A step that leaves the port alone; one that is answered for sure.
LEMMA IncServes ==
  ASSUME Serves, chain.linked, NEW req, NEW d, Ran(req, d)
  PROVE  Now'.inc /\ \E c : Outcome(Now, c) /\ d = c.data /\ Now' = Start(c, cache.ir, req)
<1>1. PICK c : Outcome(Now, c) /\ d = c.data /\ Now' = Start(c, cache.ir, req)
  BY DEF Ran
<1>2. Now.inc
  BY ServesFacts
<1>3. Start(c, cache.ir, req).inc
  BY <1>1, <1>2, StartKeeps DEF Outcome
<1>. QED BY <1>1, <1>3

LEMMA SureServes ==
  ASSUME Serves, chain.linked, pc \in DRPcs, NEW req, NEW to \in Ends, NEW ack, NEW d, ScanDR(req, to, ack, d),
         Quiet(Now) \/ pc \in {"cmd", "csr"}
  PROVE  /\ chain'.linked /\ ack = "OK" /\ Now'.inc
         /\ \E c : Outcome(Now, c) /\ d = c.data /\ Now' = Start(c, cache.ir, req)
<1>1. chain'.linked /\ ack = "OK" /\ Ran(req, d)
  BY SureScan DEF Serves
<1>. QED BY <1>1, IncServes

\* One that may find the port busy.
LEMMA BusyServes ==
  ASSUME Serves, chain.linked, pc \in DRPcs, NEW req, NEW to \in Ends, NEW ack, NEW d, ScanDR(req, to, ack, d)
  PROVE  /\ chain'.linked /\ Now'.inc
         /\ \/ ack = "OK" /\ \E c : Outcome(Now, c) /\ d = c.data /\ Now' = Start(c, cache.ir, req)
            \/ ack = "WAIT" /\ ~Quiet(Now) /\ Now' = Now /\ ~Overlooked
<1>1. chain'.linked /\ ((ack = "OK" /\ Ran(req, d)) \/ (ack = "WAIT" /\ Busy(d)))
  BY LiveScan DEF Serves, Reliable
<1>2. CASE ack = "OK" /\ Ran(req, d)
  BY <1>1, <1>2, IncServes
<1>3. CASE ack = "WAIT" /\ Busy(d)
  <2>1. Now.inc
    BY ServesFacts
  <2>. QED BY <1>1, <1>3, <2>1 DEF Busy, Serves, Reliable
<1>. QED BY <1>1, <1>2, <1>3

-----------------------------------------------------------------------------
(* The instruction.                                                        *)

LEMMA ShiftServes ==
  ASSUME Serves, chain.linked, ~clearing, TransferIR \/ CsrIR
  PROVE  Served
<1>1. /\ Placed /\ Fits /\ Now.inc /\ pc' \in SessionPcs \cup {"idle"}
      /\ \A m, j : AtGroup(m, j) => Stage(op, m, j, pc, n, Now, data, before)
      /\ \E m, j : AtGroup(m, j)
  BY ServesFacts
<1>2. PICK m, j : AtGroup(m, j)
  BY <1>1
<1>3. Stage(op, m, j, pc, n, Now, data, before)
  BY <1>1, <1>2
<1>4. PICK from, ir, to : ShiftIR(from, ir, to)
  BY DEF TransferIR, CsrIR
<1>5. UNCHANGED <<clearing, calls, data, n>>
  BY <1>4 DEF ShiftIR, callVars
<1>6. Now' = Now /\ chain'.linked
  BY <1>4, ShiftNow
<1>7. /\ op \in Requests /\ m \in 1..Groups(op) /\ j \in 1..4
      /\ call.t = "piper" => j = 4 /\ GetKind(op, m)
      /\ call.t = "pipew" => j = 4 /\ PutKind(op, m)
  BY <1>1, <1>2, GroupIs
<1>8. ASSUME pc' \in SessionPcs, Stage(op, m, j, pc', n, Now, data, before) PROVE Served
  BY <1>1, <1>2, <1>5, <1>6, <1>8, StayServes
<1>9. CASE CsrIR
  <2>1. pc = "csrIR" /\ pc' = "csr"
    BY <1>9 DEF CsrIR, ShiftIR
  <2>2. Stage(op, m, j, "csr", n, Now, data, before)
    BY <1>3, <2>1 DEF Stage
  <2>. QED BY <1>8, <2>1, <2>2 DEF SessionPcs
<1>10. CASE TransferIR
  <2>1. pc = "ir" /\ pc' = AfterIR /\ n = 1
    BY <1>1, <1>10 DEF TransferIR, ShiftIR, Fits
  <2>2. Entering(op, m, j, Now, data, before)
    BY <1>3, <2>1 DEF Stage
  <2>3. CASE call.t = "piper"
    <3>1. pc' = "first"
      BY <2>1, <2>3 DEF AfterIR
    <3>2. Stage(op, m, j, "first", n, Now, data, before)
      BY <2>2 DEF Stage
    <3>. QED BY <1>8, <3>1, <3>2 DEF SessionPcs
  <2>4. CASE call.t = "pipew"
    <3>1. pc' = "put"
      BY <2>1, <2>4 DEF AfterIR
    <3>2. Putting(op, m, n, Now, data)
      BY <1>7, <2>1, <2>2, <2>4, PutBegins
    <3>3. Stage(op, m, j, "put", n, Now, data, before)
      BY <3>2 DEF Stage
    <3>. QED BY <1>8, <3>1, <3>3 DEF SessionPcs
  <2>5. CASE call.t \notin {"piper", "pipew"}
    <3>1. pc' = "cmd"
      BY <2>1, <2>5 DEF AfterIR
    <3>2. j = 4 => Repeating(op, m, Now, data)
      BY <2>2 DEF Entering, Repeating
    <3>3. Stage(op, m, j, "cmd", n, Now, data, before)
      BY <2>2, <3>2 DEF Stage
    <3>. QED BY <1>8, <3>1, <3>3 DEF SessionPcs
  <2>. QED BY <2>3, <2>4, <2>5
<1>. QED BY <1>9, <1>10

-----------------------------------------------------------------------------
(* The single accesses of a request.                                       *)

LEMMA CmdServes ==
  ASSUME Serves, chain.linked, ~clearing, Cmd
  PROVE  Served
<1>1. /\ Placed /\ Fits /\ HwOK(Now) /\ data \in Seq(Word) /\ op.t # "init"
      /\ \A m, j : AtGroup(m, j) => Collected(m, j) /\ Stage(op, m, j, pc, n, Now, data, before)
      /\ \E m, j : AtGroup(m, j)
  BY ServesFacts
<1>2. PICK m, j : AtGroup(m, j)
  BY <1>1
<1>3. pc = "cmd" /\ pc \in DRPcs /\ call.t = "acc" /\ "RTI" \in Ends /\ cache.ir = Instruction
  BY <1>1 DEF Cmd, DRPcs, Fits, Ends, Serves, Work, Instructions
<1>4. Stage(op, m, j, "cmd", n, Now, data, before)
  BY <1>1, <1>2, <1>3
<1>5. PICK ack \in Acks, d \in Word : ScanDR(Request, "RTI", ack, d)
          /\ IF call.check THEN pc' = "resp" /\ UNCHANGED <<i, n, calls, clearing, result, conn>>
             ELSE Again("cmd", Goto("csrIR"))
  BY DEF Cmd
<1>6. data' = data
  BY DEF Cmd
<1>. DEFINE r == Request
<1>7. /\ chain'.linked /\ Now'.inc
      /\ \E c : Outcome(Now, c) /\ d = c.data /\ Now' = Start(c, cache.ir, r)
  BY <1>3, <1>5, SureServes
<1>8. PICK c : Outcome(Now, c) /\ Now' = Start(c, cache.ir, r)
  BY <1>7
<1>9. /\ op \in Requests /\ m \in 1..Groups(op) /\ j \in 1..4
      /\ j \in {1, 3} => call = SelectBank(IF j = 1 THEN 0 ELSE Bank(op, m))
      /\ j = 2 => call = WriteTar(Base(op, m), Single(op, m))
      /\ j = 4 => call = Main(op, m) /\ call.ap /\ call.check /\ Single(op, m)
  BY <1>1, <1>2, <1>3, GroupIs
<1>10. /\ r.rnw = call.rnw /\ r.a = call.a
       /\ ~call.rnw => r.v = IF call.ap /\ call.v = Keep THEN data[1] ELSE call.v
  BY RequestIsCall
<1>11. Sane(cache.ir, r)
  BY <1>1, <1>3, RequestSane DEF AtGroup
<1>. HIDE DEF r
<1>12. /\ UNCHANGED <<calls, clearing, n>> /\ pc' \in {"resp", "cmd", "csrIR"} /\ pc' \in SessionPcs
       /\ call.check => pc' = "resp"
       /\ ~call.check => pc' # "resp"
  <2>1. CASE call.check
    BY <1>5, <2>1 DEF SessionPcs
  <2>2. CASE ~call.check
    BY <1>5, <2>2 DEF Again, Goto, SessionPcs
  <2>. QED BY <2>1, <2>2
<1>13. ASSUME Stage(op, m, j, pc', n', Now', data', before) PROVE Served
  BY <1>2, <1>7, <1>12, <1>13, StayServes
<1>14. CASE j \in {1, 3}
  <2>. DEFINE b == IF j = 1 THEN 0 ELSE Bank(op, m)
  <2>1. call = Transfer("acc", FALSE, FALSE, 8, b, TRUE, <<>>)
    BY <1>9, <1>14 DEF SelectBank
  <2>2. ~call.ap /\ ~call.rnw /\ call.a = 8 /\ call.v = b /\ call.check
    <3>. HIDE DEF b
    <3>. QED BY <2>1 DEF Transfer
  <2>3. cache.ir = "DPACC" /\ r.a = 8 /\ ~r.rnw /\ r.v = b
    BY <1>3, <1>10, <2>2 DEF Instruction
  <2>4. Entering(op, m, j, Now, data, before)
    BY <1>4, <1>14 DEF Stage
  <2>. HIDE DEF b
  <2>5. Heard(op, m, j, Start(c, "DPACC", r), data)
    BY <1>1, <1>8, <1>9, <1>14, <2>3, <2>4, SelectStep DEF b
  <2>6. pc' = "resp" /\ Heard(op, m, j, Now', data')
    BY <1>6, <1>8, <1>12, <2>2, <2>3, <2>5
  <2>7. Stage(op, m, j, "resp", n', Now', data', before)
    BY <1>14, <2>6 DEF Stage
  <2>. QED BY <1>13, <2>6, <2>7
<1>15. CASE j = 2
  <2>1. call = Transfer("acc", TRUE, FALSE, 4, Base(op, m), Single(op, m), <<>>)
    BY <1>9, <1>15 DEF WriteTar
  <2>2. call.ap /\ ~call.rnw /\ call.a = 4 /\ call.v = Base(op, m) /\ call.check = Single(op, m)
    BY <2>1 DEF Transfer
  <2>3. Base(op, m) \in Nat
    BY <1>9, BaseFacts
  <2>4. call.v # Keep
    BY <2>2, <2>3 DEF Keep
  <2>5. cache.ir = "APACC" /\ r.a = 4 /\ ~r.rnw /\ r.v = Base(op, m)
    BY <1>3, <1>10, <2>2, <2>4 DEF Instruction
  <2>6. Entering(op, m, 2, Now, data, before)
    BY <1>4, <1>15 DEF Stage
  <2>. DEFINE g == Start(c, "APACC", r)
  <2>7. Entering(op, m, 2, g, data, before) /\ Checking(op, m, 2, g, data) /\ (Single(op, m) => Heard(op, m, 2, g, data))
    BY <1>1, <1>8, <1>9, <2>5, <2>6, PointStep
  <2>. HIDE DEF g
  <2>8. Now' = g
    BY <1>8, <2>5 DEF g
  <2>9. pc' = "resp" => Single(op, m)
    BY <1>12, <2>2
  <2>10. Stage(op, m, j, pc', n', Now', data', before)
    BY <1>6, <1>12, <1>15, <2>7, <2>8, <2>9 DEF Stage
  <2>. QED BY <1>13, <2>10
<1>16. CASE j = 4
  <2>1. Main(op, m) = call /\ call.ap /\ Single(op, m) /\ pc' = "resp" /\ cache.ir = "APACC"
    BY <1>3, <1>9, <1>12, <1>16 DEF Instruction
  <2>2. Repeating(op, m, Now, data)
    BY <1>4, <1>16 DEF Stage
  <2>3. ~call.rnw => r.v = Value(op, m, data)
    BY <1>10, <2>1 DEF Value
  <2>4. ~Main(op, m).rnw => Value(op, m, data) \in Word
    <3>1. LoadKind(op, m) \/ PeekKind(op, m) \/ StoreKind(op, m)
      BY <1>9, <2>1, WordKinds
    <3>2. CASE Main(op, m).v = Keep
      <4>1. m <= Groups(op) /\ Main(op, m) = TransfersOf(op)[4 * m]
        BY <1>9 DEF Main
      <4>2. Kept(m)
        BY <3>2, <4>1 DEF Kept
      <4>3. Collected(m, j)
        BY <1>1, <1>2
      <4>4. Len(data) = 1
        BY <4>2, <4>3 DEF Collected, Kept
      <4>5. data[1] \in Word
        <5>1. data \in Seq(Word) /\ 1 \in 1..Len(data)
          BY <1>1, <4>4
        <5>. QED BY <5>1, ElementOfSeq
      <4>. QED BY <3>2, <4>5 DEF Value
    <3>3. CASE Main(op, m).v # Keep
      <4>1. ~Main(op, m).rnw => Main(op, m).v \in Word
        BY <3>1, <3>3 DEF LoadKind, PeekKind, StoreKind
      <4>. QED BY <3>3, <4>1 DEF Value
    <3>. QED BY <3>2, <3>3
  <2>5. Reaching(op, m, Start(c, "APACC", r), data)
    <3>1. (r.rnw <=> Main(op, m).rnw) /\ r.a = Main(op, m).a /\ (~r.rnw => r.v = Value(op, m, data)) /\ Sane("APACC", r)
      BY <1>10, <1>11, <2>1, <2>3
    <3>. QED BY <1>1, <1>8, <1>9, <2>1, <2>2, <2>4, <3>1, RepeatStep
  <2>6. Reaching(op, m, Now', data')
    BY <1>6, <1>8, <2>1, <2>5
  <2>7. Stage(op, m, j, "resp", n', Now', data', before)
    BY <1>16, <2>6 DEF Stage
  <2>. QED BY <1>13, <2>1, <2>7
<1>. QED BY <1>9, <1>14, <1>15, <1>16

LEMMA RespIs ==
  ASSUME Resp
  PROVE  \E ack \in Acks, d \in Word :
           /\ ScanDR(Dummy, "RTI", ack, d)
           /\ call.rnw => data' = SubSeq(data, 1, call.v) \o <<d>>
           /\ ~call.rnw => data' = data
           /\ ack = "BAD" => Return("failure")
           /\ ack = "WAIT" => Again("cmd", Goto("csrIR"))
           /\ ack = "OK" => Goto("csrIR")
<1>1. PICK ack \in Acks, d \in Word :
       /\ ScanDR(Dummy, "RTI", ack, d)
       /\ data' = IF call.rnw THEN SubSeq(data, 1, call.v) \o <<d>> ELSE data
       /\ CASE ack = "BAD"  -> Return("failure")
            [] ack = "WAIT" -> Again("cmd", Goto("csrIR"))
            [] ack = "OK"   -> Goto("csrIR")
  BY ZenonT(30) DEF Resp
<1>2. /\ ack = "BAD" => Return("failure")
      /\ ack = "WAIT" => Again("cmd", Goto("csrIR"))
      /\ ack = "OK" => Goto("csrIR")
  BY <1>1 DEF Acks
<1>3. /\ call.rnw => data' = SubSeq(data, 1, call.v) \o <<d>>
      /\ ~call.rnw => data' = data
  BY <1>1
<1>. QED BY <1>1, <1>2, <1>3

LEMMA RespServes ==
  ASSUME Serves, chain.linked, ~clearing, Resp
  PROVE  Served
<1>1. /\ Placed /\ Fits /\ HwOK(Now) /\ data \in Seq(Word) /\ i \in 0..(Retries - 1)
      /\ \A m, j : AtGroup(m, j) => Collected(m, j) /\ Stage(op, m, j, pc, n, Now, data, before)
      /\ \E m, j : AtGroup(m, j)
  BY ServesFacts
<1>2. PICK m, j : AtGroup(m, j)
  BY <1>1
<1>3. pc = "resp" /\ pc \in DRPcs /\ call.t = "acc" /\ "RTI" \in Ends /\ cache.ir = Instruction
  BY <1>1 DEF Resp, DRPcs, Fits, Ends, Serves, Work, Instructions
<1>4. Stage(op, m, j, "resp", n, Now, data, before)
  BY <1>1, <1>2, <1>3
<1>5. PICK ack \in Acks, d \in Word :
       /\ ScanDR(Dummy, "RTI", ack, d)
       /\ call.rnw => data' = SubSeq(data, 1, call.v) \o <<d>>
       /\ ~call.rnw => data' = data
       /\ ack = "BAD" => Return("failure")
       /\ ack = "WAIT" => Again("cmd", Goto("csrIR"))
       /\ ack = "OK" => Goto("csrIR")
  BY RespIs
<1>6. /\ op \in Requests /\ m \in 1..Groups(op) /\ j \in 1..4
      /\ j \in {1, 3} => call = SelectBank(IF j = 1 THEN 0 ELSE Bank(op, m))
      /\ j = 2 => call = WriteTar(Base(op, m), Single(op, m))
      /\ j = 4 => call = Main(op, m) /\ call.ap /\ call.check /\ Single(op, m)
  BY <1>1, <1>2, <1>3, GroupIs
<1>7. ASSUME chain'.linked, Now'.inc, UNCHANGED <<calls, clearing>>, pc' \in SessionPcs,
             Stage(op, m, j, pc', n', Now', data', before)
      PROVE  Served
  BY <1>2, <1>7, StayServes
<1>8. CASE j < 4
  <2>1. Heard(op, m, j, Now, data)
    BY <1>4, <1>8 DEF Stage
  <2>2. Quiet(Now)
    BY <2>1 DEF Heard
  <2>3. /\ chain'.linked /\ ack = "OK" /\ Now'.inc
        /\ \E c : Outcome(Now, c) /\ d = c.data /\ Now' = Start(c, cache.ir, Dummy)
    BY <1>3, <1>5, <2>2, SureServes
  <2>4. PICK c : Outcome(Now, c) /\ Now' = Start(c, cache.ir, Dummy)
    BY <2>3
  <2>5. ~call.rnw /\ (j = 2 <=> call.ap)
    BY <1>1, <1>2, <1>8, GroupCall
  <2>6. cache.ir = IF j = 2 THEN "APACC" ELSE "DPACC"
    BY <1>3, <2>5 DEF Instruction
  <2>7. j \in {1, 2, 3}
    BY <1>6, <1>8
  <2>8. Checking(op, m, j, Now', data)
    BY <1>1, <1>6, <2>1, <2>4, <2>6, <2>7, HeardStep
  <2>9. data' = data /\ pc' = "csrIR" /\ UNCHANGED <<calls, clearing>>
    BY <1>5, <2>3, <2>5 DEF Goto
  <2>10. Stage(op, m, j, "csrIR", n', Now', data', before)
    BY <2>8, <2>9 DEF Stage
  <2>. QED BY <1>7, <2>3, <2>9, <2>10 DEF SessionPcs
<1>9. CASE j = 4
  <2>1. Reaching(op, m, Now, data)
    BY <1>4, <1>9 DEF Stage
  <2>2. Main(op, m) = call /\ Single(op, m) /\ cache.ir = "APACC"
    BY <1>3, <1>6, <1>9 DEF Instruction
  <2>3. Enough(op, m, data)
    <3>1. Collected(m, 4)
      BY <1>1, <1>2, <1>9
    <3>2. LoadKind(op, m) => Len(data) >= Frontier(op)[m - 1] - op.a
      BY <1>3, <3>1 DEF Collected, LoadKind
    <3>. QED BY <1>1, <3>2 DEF Enough
  <2>4. data' = Extended(op, m, data, d)
    BY <1>5, <2>2 DEF Extended
  <2>5. /\ chain'.linked /\ Now'.inc
        /\ \/ ack = "OK" /\ \E c : Outcome(Now, c) /\ d = c.data /\ Now' = Start(c, cache.ir, Dummy)
           \/ ack = "WAIT" /\ ~Quiet(Now) /\ Now' = Now /\ ~Overlooked
    BY <1>3, <1>5, BusyServes
  <2>6. CASE ack = "OK"
    <3>1. PICK c : Outcome(Now, c) /\ d = c.data /\ Now' = Start(c, "APACC", Dummy)
      BY <2>2, <2>5, <2>6
    <3>2. Checking(op, m, 4, Now', data')
      BY <1>1, <1>6, <2>1, <2>2, <2>3, <2>4, <3>1, ReachStep
    <3>3. pc' = "csrIR" /\ UNCHANGED <<calls, clearing>>
      BY <1>5, <2>6 DEF Goto
    <3>4. Stage(op, m, j, "csrIR", n', Now', data', before)
      BY <1>9, <3>2 DEF Stage
    <3>. QED BY <1>7, <2>5, <3>3, <3>4 DEF SessionPcs
  <2>7. CASE ack = "WAIT"
    <3>1. ~Quiet(Now) /\ Now' = Now /\ ~Overlooked
      BY <2>5, <2>7
    <3>2. i + 1 < Retries
      <4>1. i + 1 # Retries
        BY <1>3, <3>1 DEF Overlooked
      <4>. QED BY <1>1, <4>1, JtagDpAssumption
    <3>3. pc' = "cmd" /\ UNCHANGED <<calls, clearing>>
      BY <1>5, <2>7, <3>2 DEF Again
    <3>4. Repeating(op, m, Now', data')
      BY <1>6, <2>1, <2>2, <2>3, <2>4, <3>1, BusyStep
    <3>5. Stage(op, m, j, "cmd", n', Now', data', before)
      BY <1>9, <3>4 DEF Stage
    <3>. QED BY <1>7, <2>5, <3>3, <3>5 DEF SessionPcs
  <2>. QED BY <2>5, <2>6, <2>7
<1>. QED BY <1>6, <1>8, <1>9

-----------------------------------------------------------------------------
(* The pipelined accesses of a request.                                    *)

\* Where a scan of a pipelined access is.
LEMMA PipeServes ==
  ASSUME Serves, chain.linked, ~clearing, pc \in {"first", "get", "put", "final"}
  PROVE  \E m : /\ AtGroup(m, 4) /\ op \in Requests /\ m \in 1..Groups(op) /\ call = Main(op, m)
                /\ Stage(op, m, 4, pc, n, Now, data, before) /\ Collected(m, 4)
                /\ pc \in {"first", "get"} => GetKind(op, m)
                /\ pc \in {"put", "final"} => PutKind(op, m)
                /\ cache.ir = "APACC" /\ pc \in DRPcs
<1>1. /\ Placed /\ Fits
      /\ \A m, j : AtGroup(m, j) => Collected(m, j) /\ Stage(op, m, j, pc, n, Now, data, before)
      /\ \E m, j : AtGroup(m, j)
  BY ServesFacts
<1>2. PICK m, j : AtGroup(m, j)
  BY <1>1
<1>3. call.t \in {"piper", "pipew"}
  BY <1>1 DEF Fits
<1>4. /\ op \in Requests /\ m \in 1..Groups(op) /\ j \in 1..4
      /\ j = 4 => call = Main(op, m) /\ call.ap
      /\ call.t = "piper" => j = 4 /\ GetKind(op, m)
      /\ call.t = "pipew" => j = 4 /\ PutKind(op, m)
  BY <1>1, <1>2, GroupIs
<1>5. j = 4 /\ call.ap
  BY <1>3, <1>4
<1>6. cache.ir = "APACC" /\ pc \in DRPcs
  BY <1>5 DEF Serves, Work, Instructions, Instruction, DRPcs
<1>7. Stage(op, m, 4, pc, n, Now, data, before) /\ Collected(m, 4)
  BY <1>1, <1>2, <1>5
<1>. QED BY <1>1, <1>2, <1>4, <1>5, <1>6, <1>7 DEF Fits

LEMMA FirstServes ==
  ASSUME Serves, chain.linked, ~clearing, First
  PROVE  Served
<1>0. pc = "first" /\ "RTI" \in Ends
  BY DEF First, Ends
<1>1. PICK m : /\ AtGroup(m, 4) /\ op \in Requests /\ m \in 1..Groups(op) /\ call = Main(op, m)
               /\ Stage(op, m, 4, pc, n, Now, data, before) /\ GetKind(op, m) /\ cache.ir = "APACC" /\ pc \in DRPcs
  BY <1>0, PipeServes
<1>2. Entering(op, m, 4, Now, data, before)
  BY <1>0, <1>1 DEF Stage
<1>3. Quiet(Now)
  BY <1>1, <1>2, BlockBegins
<1>4. PICK ack \in Acks, d \in Word :
        /\ ScanDR(Request, "RTI", ack, d)
        /\ CASE ack = "BAD"  -> Return("failure")
             [] ack = "WAIT" -> Again("first", Return("failure"))
             [] ack = "OK"   -> Goto("get")
  BY ZenonT(30) DEF First
<1>5. data' = data
  BY DEF First
<1>. DEFINE r == Request
<1>6. /\ chain'.linked /\ ack = "OK" /\ Now'.inc
      /\ \E c : Outcome(Now, c) /\ d = c.data /\ Now' = Start(c, cache.ir, r)
  BY <1>0, <1>1, <1>3, <1>4, SureServes
<1>7. PICK c : Outcome(Now, c) /\ Now' = Start(c, "APACC", r)
  BY <1>1, <1>6
<1>8. /\ Placed /\ Fits /\ HwOK(Now) /\ Now.inc /\ data \in Seq(Word)
      /\ \A k, j : AtGroup(k, j) => Collected(k, j)
  BY ServesFacts
<1>9. Sane(Instruction, r)
  BY <1>0, <1>8, RequestSane DEF AtGroup
<1>10. Instruction = cache.ir
  BY <1>0 DEF Serves, Work, Instructions
<1>11. r.rnw /\ r.a = 12 /\ Sane("APACC", r)
  BY <1>1, <1>9, <1>10, RequestIsCall DEF GetKind, InPage
<1>. HIDE DEF r
<1>12. Getting(op, m, 1, Start(c, "APACC", r), data)
  BY <1>1, <1>2, <1>7, <1>8, <1>11, FirstStep
<1>13. Goto("get")
  BY <1>4, <1>6
<1>14. pc' = "get" /\ n' = 1 /\ UNCHANGED <<calls, clearing>>
  BY <1>0, <1>8, <1>13 DEF Goto, Fits
<1>15. Getting(op, m, n', Now', data')
  BY <1>5, <1>7, <1>12, <1>14
<1>16. Stage(op, m, 4, pc', n', Now', data', before)
  BY <1>14, <1>15 DEF Stage
<1>. QED BY <1>1, <1>6, <1>14, <1>16, StayServes DEF SessionPcs

LEMMA GetServes ==
  ASSUME Serves, chain.linked, ~clearing, Get
  PROVE  Served
<1>0. pc = "get" /\ "Pause" \in Ends
  BY DEF Get, Ends
<1>1. PICK m : /\ AtGroup(m, 4) /\ op \in Requests /\ m \in 1..Groups(op) /\ call = Main(op, m)
               /\ Stage(op, m, 4, pc, n, Now, data, before) /\ GetKind(op, m) /\ cache.ir = "APACC" /\ pc \in DRPcs
               /\ Collected(m, 4)
  BY <1>0, PipeServes
<1>2. Getting(op, m, n, Now, data)
  BY <1>0, <1>1 DEF Stage
<1>3. PICK ack \in Acks, d \in Word :
        /\ ScanDR(Dummy, "Pause", ack, d)
        /\ data' = IF ack = "OK" THEN Append(data, d) ELSE data
        /\ CASE ack = "BAD"  -> Return("failure")
             [] ack = "WAIT" -> Again("get", Return("failure"))
             [] ack = "OK"   -> NextWord("get", "csrIR")
  BY ZenonT(30) DEF Get
<1>4. /\ ack = "OK" => data' = Append(data, d) /\ NextWord("get", "csrIR")
      /\ ack = "WAIT" => data' = data /\ Again("get", Return("failure"))
  BY <1>3 DEF Acks
<1>5. /\ chain'.linked /\ Now'.inc
      /\ \/ ack = "OK" /\ \E c : Outcome(Now, c) /\ d = c.data /\ Now' = Start(c, cache.ir, Dummy)
         \/ ack = "WAIT" /\ ~Quiet(Now) /\ Now' = Now /\ ~Overlooked
  BY <1>0, <1>1, <1>3, BusyServes
<1>6. HwOK(Now) /\ Now.inc /\ data \in Seq(Word) /\ n \in 1..Len(Main(op, m).vals)
  BY <1>0, <1>1, ServesFacts DEF Fits
<1>7. CASE ack = "OK"
  <2>1. PICK c : Outcome(Now, c) /\ d = c.data /\ Now' = Start(c, "APACC", Dummy)
    BY <1>1, <1>5, <1>7
  <2>2. Len(data) = (Frontier(op)[m - 1] - op.a) + n - 1
    BY <1>0, <1>1 DEF Collected, GetKind
  <2>. DEFINE g == Start(c, "APACC", Dummy)  q == Append(data, c.data)
  <2>3. /\ n < Len(Main(op, m).vals) => Getting(op, m, n + 1, g, q)
        /\ n = Len(Main(op, m).vals) => Checking(op, m, 4, g, q)
    BY <1>1, <1>2, <1>6, <2>1, <2>2, GetStep
  <2>4. Now' = g /\ data' = q
    BY <1>4, <1>7, <2>1
  <2>. HIDE DEF g, q
  <2>5. NextWord("get", "csrIR")
    BY <1>4, <1>7
  <2>6. CASE n = Len(call.vals)
    <3>1. pc' = "csrIR" /\ UNCHANGED <<calls, clearing>>
      BY <2>5, <2>6 DEF NextWord, Goto
    <3>2. Checking(op, m, 4, Now', data')
      BY <1>1, <2>3, <2>4, <2>6
    <3>3. Stage(op, m, 4, pc', n', Now', data', before)
      BY <3>1, <3>2 DEF Stage
    <3>. QED BY <1>1, <1>5, <3>1, <3>3, StayServes DEF SessionPcs
  <2>7. CASE n # Len(call.vals)
    <3>1. pc' = "get" /\ n' = n + 1 /\ UNCHANGED <<calls, clearing>>
      BY <2>5, <2>7 DEF NextWord
    <3>2. n < Len(Main(op, m).vals)
      BY <1>1, <1>6, <2>7
    <3>3. Getting(op, m, n', Now', data')
      BY <2>3, <2>4, <3>1, <3>2
    <3>4. Stage(op, m, 4, pc', n', Now', data', before)
      BY <3>1, <3>3 DEF Stage
    <3>. QED BY <1>1, <1>5, <3>1, <3>4, StayServes DEF SessionPcs
  <2>. QED BY <2>6, <2>7
<1>8. CASE ack = "WAIT"
  <2>1. Now' = Now /\ data' = data /\ Again("get", Return("failure"))
    BY <1>4, <1>5, <1>8
  <2>2. CASE i + 1 < Retries
    <3>1. pc' = "get" /\ n' = n /\ UNCHANGED <<calls, clearing>>
      BY <2>1, <2>2 DEF Again
    <3>2. Getting(op, m, n', Now', data')
      BY <1>2, <2>1, <3>1
    <3>3. Stage(op, m, 4, pc', n', Now', data', before)
      BY <3>1, <3>2 DEF Stage
    <3>. QED BY <1>1, <1>5, <3>1, <3>3, StayServes DEF SessionPcs
  <2>3. CASE ~(i + 1 < Retries)
    <3>1. Return("failure")
      BY <2>1, <2>3 DEF Again
    <3>2. OnlyReads(Now')
      BY <1>2, <2>1 DEF Getting
    <3>. QED BY <1>5, <3>1, <3>2, FailServes
  <2>. QED BY <2>2, <2>3
<1>. QED BY <1>5, <1>7, <1>8

LEMMA PutServes ==
  ASSUME Serves, chain.linked, ~clearing, Put
  PROVE  Served
<1>0. pc = "put" /\ "RTI" \in Ends
  BY DEF Put, Ends
<1>1. PICK m : /\ AtGroup(m, 4) /\ op \in Requests /\ m \in 1..Groups(op) /\ call = Main(op, m)
               /\ Stage(op, m, 4, pc, n, Now, data, before) /\ PutKind(op, m) /\ cache.ir = "APACC" /\ pc \in DRPcs
  BY <1>0, PipeServes
<1>2. Putting(op, m, n, Now, data)
  BY <1>0, <1>1 DEF Stage
<1>. DEFINE r == [Request EXCEPT !.v = call.vals[n]]
<1>3. PICK ack \in Acks, d \in Word :
        /\ ScanDR(r, "RTI", ack, d)
        /\ CASE ack = "BAD"  -> Return("failure")
             [] ack = "WAIT" -> Again("put", Return("failure"))
             [] ack = "OK"   -> NextWord("put", "final")
  BY ZenonT(30) DEF Put
<1>4. /\ ack = "OK" => NextWord("put", "final")
      /\ ack = "WAIT" => Again("put", Return("failure"))
  BY <1>3 DEF Acks
<1>5. data' = data
  BY DEF Put
<1>6. ~r.rnw /\ r.a = 12 /\ r.v = Main(op, m).vals[n] /\ Sane("APACC", r)
  <2>1. r.rnw = call.rnw /\ r.a = call.a /\ r.v = call.vals[n]
    BY DEF Request
  <2>. HIDE DEF r
  <2>. QED BY <1>1, <2>1 DEF PutKind, InPage, Sane
<1>. HIDE DEF r
<1>7. /\ chain'.linked /\ Now'.inc
      /\ \/ ack = "OK" /\ \E c : Outcome(Now, c) /\ d = c.data /\ Now' = Start(c, cache.ir, r)
         \/ ack = "WAIT" /\ ~Quiet(Now) /\ Now' = Now /\ ~Overlooked
  BY <1>0, <1>1, <1>3, BusyServes
<1>8. HwOK(Now) /\ Now.inc /\ n \in 1..Len(Main(op, m).vals)
  BY <1>0, <1>1, ServesFacts DEF Fits
<1>9. CASE ack = "OK"
  <2>1. PICK c : Outcome(Now, c) /\ Now' = Start(c, "APACC", r)
    BY <1>1, <1>7, <1>9
  <2>. DEFINE g == Start(c, "APACC", r)
  <2>2. /\ n < Len(Main(op, m).vals) => Putting(op, m, n + 1, g, data)
        /\ n = Len(Main(op, m).vals) => Ending(op, m, g, data)
    BY <1>1, <1>2, <1>6, <1>8, <2>1, PutStep
  <2>3. Now' = g
    BY <2>1
  <2>. HIDE DEF g
  <2>4. NextWord("put", "final")
    BY <1>4, <1>9
  <2>5. CASE n = Len(call.vals)
    <3>1. pc' = "final" /\ UNCHANGED <<calls, clearing>>
      BY <2>4, <2>5 DEF NextWord, Goto
    <3>2. Ending(op, m, Now', data')
      BY <1>1, <1>5, <2>2, <2>3, <2>5
    <3>3. Stage(op, m, 4, pc', n', Now', data', before)
      BY <3>1, <3>2 DEF Stage
    <3>. QED BY <1>1, <1>7, <3>1, <3>3, StayServes DEF SessionPcs
  <2>6. CASE n # Len(call.vals)
    <3>1. pc' = "put" /\ n' = n + 1 /\ UNCHANGED <<calls, clearing>>
      BY <2>4, <2>6 DEF NextWord
    <3>2. n < Len(Main(op, m).vals)
      BY <1>1, <1>8, <2>6
    <3>3. Putting(op, m, n', Now', data')
      BY <1>5, <2>2, <2>3, <3>1, <3>2
    <3>4. Stage(op, m, 4, pc', n', Now', data', before)
      BY <3>1, <3>3 DEF Stage
    <3>. QED BY <1>1, <1>7, <3>1, <3>4, StayServes DEF SessionPcs
  <2>. QED BY <2>5, <2>6
<1>10. CASE ack = "WAIT"
  <2>1. Now' = Now /\ Again("put", Return("failure"))
    BY <1>4, <1>7, <1>10
  <2>2. CASE i + 1 < Retries
    <3>1. pc' = "put" /\ n' = n /\ UNCHANGED <<calls, clearing>>
      BY <2>1, <2>2 DEF Again
    <3>2. Putting(op, m, n', Now', data')
      BY <1>2, <1>5, <2>1, <3>1
    <3>3. Stage(op, m, 4, pc', n', Now', data', before)
      BY <3>1, <3>2 DEF Stage
    <3>. QED BY <1>1, <1>7, <3>1, <3>3, StayServes DEF SessionPcs
  <2>3. CASE ~(i + 1 < Retries)
    <3>1. Return("failure")
      BY <2>1, <2>3 DEF Again
    <3>2. LeftOver({op}, Now')
      BY <1>1, <1>2, <1>8, <2>1, PutCovers
    <3>. QED BY <1>7, <3>1, <3>2, FailServes
  <2>. QED BY <2>2, <2>3
<1>. QED BY <1>7, <1>9, <1>10

LEMMA FinalServes ==
  ASSUME Serves, chain.linked, ~clearing, Final
  PROVE  Served
<1>0. pc = "final" /\ "RTI" \in Ends
  BY DEF Final, Ends
<1>1. PICK m : /\ AtGroup(m, 4) /\ op \in Requests /\ m \in 1..Groups(op) /\ call = Main(op, m)
               /\ Stage(op, m, 4, pc, n, Now, data, before) /\ PutKind(op, m) /\ cache.ir = "APACC" /\ pc \in DRPcs
  BY <1>0, PipeServes
<1>2. Ending(op, m, Now, data)
  BY <1>0, <1>1 DEF Stage
<1>3. PICK ack \in Acks, d \in Word :
        /\ ScanDR(Dummy, "RTI", ack, d)
        /\ IF ack = "BAD" THEN Return("failure") ELSE Goto("csrIR")
  BY ZenonT(30) DEF Final
<1>4. data' = data
  BY DEF Final
<1>5. /\ chain'.linked /\ Now'.inc
      /\ \/ ack = "OK" /\ \E c : Outcome(Now, c) /\ d = c.data /\ Now' = Start(c, cache.ir, Dummy)
         \/ ack = "WAIT" /\ ~Quiet(Now) /\ Now' = Now /\ ~Overlooked
  BY <1>0, <1>1, <1>3, BusyServes
<1>6. pc' = "csrIR" /\ UNCHANGED <<calls, clearing>>
  BY <1>3, <1>5 DEF Goto
<1>7. HwOK(Now)
  BY ServesFacts
<1>8. Checking(op, m, 4, Now', data')
  <2>1. CASE ack = "OK"
    <3>1. PICK c : Outcome(Now, c) /\ Now' = Start(c, "APACC", Dummy)
      BY <1>1, <1>5, <2>1
    <3>. QED BY <1>1, <1>2, <1>4, <1>7, <3>1, FinalStep
  <2>2. CASE ack = "WAIT"
    <3>1. ~Quiet(Now) /\ Now' = Now
      BY <1>5, <2>2
    <3>2. PutsLast(op, m, Now, data)
      BY <1>2, <3>1 DEF Ending
    <3>. QED BY <1>1, <1>4, <3>1, <3>2 DEF Checking, PutKind
  <2>. QED BY <1>5, <2>1, <2>2
<1>9. Stage(op, m, 4, pc', n', Now', data', before)
  BY <1>6, <1>8 DEF Stage
<1>. QED BY <1>1, <1>5, <1>6, <1>9, StayServes DEF SessionPcs

-----------------------------------------------------------------------------
(* The status.                                                             *)

LEMMA CsrServes ==
  ASSUME Serves, chain.linked, ~clearing, Csr
  PROVE  Served
<1>0. pc = "csr" /\ "RTI" \in Ends /\ pc \in DRPcs /\ cache.ir = "DPACC"
  BY DEF Csr, Ends, DRPcs, Serves, Work, Instructions
<1>1. /\ Placed /\ HwOK(Now)
      /\ \A m, j : AtGroup(m, j) => Stage(op, m, j, pc, n, Now, data, before)
      /\ \E m, j : AtGroup(m, j)
  BY ServesFacts
<1>2. PICK m, j : AtGroup(m, j)
  BY <1>1
<1>3. op \in Requests /\ m \in 1..Groups(op) /\ j \in 1..4
  BY <1>1, <1>2, GroupIs
<1>4. Checking(op, m, j, Now, data)
  BY <1>0, <1>1, <1>2 DEF Stage
<1>. DEFINE r == [rnw |-> TRUE, a |-> 4, v |-> 0]
<1>5. PICK ack \in Acks, d \in Word : ScanDR(r, "RTI", ack, d)
  BY DEF Csr
<1>6. pc' = "csrResp" /\ data' = data /\ UNCHANGED <<calls, clearing>>
  BY DEF Csr, callVars
<1>7. r.rnw /\ r.a = 4
  OBVIOUS
<1>. HIDE DEF r
<1>8. /\ chain'.linked /\ ack = "OK" /\ Now'.inc
      /\ \E c : Outcome(Now, c) /\ d = c.data /\ Now' = Start(c, cache.ir, r)
  BY <1>0, <1>5, SureServes
<1>9. PICK c : Outcome(Now, c) /\ Now' = Start(c, "DPACC", r)
  BY <1>0, <1>8
<1>10. Judged(op, m, j, Now', data')
  BY <1>1, <1>3, <1>4, <1>6, <1>7, <1>9, CsrStep
<1>11. Stage(op, m, j, pc', n', Now', data', before)
  BY <1>6, <1>10 DEF Stage
<1>. QED BY <1>2, <1>6, <1>8, <1>11, StayServes DEF SessionPcs

LEMMA CsrRespServes ==
  ASSUME Serves, chain.linked, ~clearing, CsrResp
  PROVE  Served
<1>0. pc = "csrResp" /\ "RTI" \in Ends /\ pc \in DRPcs /\ cache.ir = "DPACC"
  BY DEF CsrResp, Ends, DRPcs, Serves, Work, Instructions
<1>1. /\ Placed /\ HwOK(Now)
      /\ \A m, j : AtGroup(m, j) => Stage(op, m, j, pc, n, Now, data, before)
      /\ \E m, j : AtGroup(m, j)
  BY ServesFacts
<1>2. PICK m, j : AtGroup(m, j)
  BY <1>1
<1>3. op \in Requests /\ m \in 1..Groups(op) /\ j \in 1..4 /\ call.t # "csr"
  BY <1>1, <1>2, GroupIs
<1>4. Judged(op, m, j, Now, data)
  BY <1>0, <1>1, <1>2 DEF Stage
<1>5. PICK ack \in Acks, d \in Word :
        /\ ScanDR(Dummy, "RTI", ack, d)
        /\ IF ack = "BAD" /\ call.t = "csr" THEN Return("failure")
           ELSE IF ack = "WAIT" THEN Again("csr", Checked(d)) ELSE Checked(d)
  BY ZenonT(30) DEF CsrResp
<1>6. data' = data
  BY DEF CsrResp
<1>7. Quiet(Now)
  BY <1>4 DEF Judged
<1>8. /\ chain'.linked /\ ack = "OK" /\ Now'.inc
      /\ \E c : Outcome(Now, c) /\ d = c.data /\ Now' = Start(c, cache.ir, Dummy)
  BY <1>0, <1>5, <1>7, SureServes
<1>9. Checked(d)
  BY <1>5, <1>8
<1>10. PICK c : Outcome(Now, c) /\ d = c.data /\ Now' = Start(c, "DPACC", Dummy)
  BY <1>0, <1>8
<1>. DEFINE g == Start(c, "DPACC", Dummy)
<1>11. Quiet(g) /\ c = Now /\ (c.data = 0 => ~g.sticky /\ After(op, m, j, g, data))
  BY <1>1, <1>3, <1>4, <1>10, CsrRespStep
<1>12. Now' = g
  BY <1>10
<1>. HIDE DEF g
<1>13. CASE d = 1
  <2>1. clearing' /\ pc' = "ir"
    BY <1>3, <1>9, <1>13 DEF Checked
  <2>. QED BY <1>8, <1>11, <1>12, <2>1, ClearServes
<1>14. CASE d = 0
  <2>1. NextTransfer
    BY <1>9, <1>14 DEF Checked
  <2>2. Quiet(Now') /\ ~Now'.sticky /\ After(op, m, j, Now', data)
    BY <1>10, <1>11, <1>12, <1>14
  <2>. QED BY <1>0, <1>2, <1>6, <1>8, <2>1, <2>2, NextServes
<1>. QED BY <1>13, <1>14 DEF Word

-----------------------------------------------------------------------------
(* While the status is cleared; without a port.                            *)

LEMMA ClearingServes ==
  ASSUME Serves, chain.linked, clearing
  PROVE  Served
<1>0. "RTI" \in Ends
  BY DEF Ends
<1>1. /\ Placed /\ Fits /\ HwOK(Now) /\ Now.inc /\ call.t = "acc" /\ call.check /\ call.a = 4
      /\ Instruction = "DPACC" /\ Request.a = 4 /\ ~Request.rnw
  BY ServesFacts, ClearCall, RequestIsCall DEF Instruction
<1>2. Quiet(Now)
  BY DEF Serves, Serving
<1>3. ASSUME NEW r, r.a \in {4, 12}, NEW to \in Ends, NEW ack, NEW d, ScanDR(r, to, ack, d), pc \in DRPcs, cache.ir = "DPACC",
             clearing' \/ pc' = "idle", pc' = "idle" => result' # "success"
      PROVE  Served
  <2>1. chain'.linked /\ Now'.inc /\ \E c : Outcome(Now, c) /\ d = c.data /\ Now' = Start(c, cache.ir, r)
    BY <1>2, <1>3, SureServes
  <2>2. PICK c : Outcome(Now, c) /\ Now' = Start(c, "DPACC", r)
    BY <1>3, <2>1
  <2>3. HwOK(c) /\ Quiet(c) /\ Sane("DPACC", r)
    BY <1>3, <2>2 DEF Outcome, Sane
  <2>4. DPKeeps(c, Start(c, "DPACC", r))
    BY <2>3, DPStart
  <2>5. Quiet(Now')
    BY <2>2, <2>4 DEF DPKeeps
  <2>. QED BY <1>3, <2>1, <2>5, ClearServes
<1>4. CASE TransferIR \/ CsrIR
  <2>1. PICK from, ir, to : ShiftIR(from, ir, to)
    BY <1>4 DEF TransferIR, CsrIR
  <2>2. clearing'
    BY <2>1 DEF ShiftIR, callVars
  <2>3. Now' = Now /\ chain'.linked
    BY <2>1, ShiftNow
  <2>4. pc' # "idle"
    BY <1>4 DEF TransferIR, CsrIR, ShiftIR, AfterIR
  <2>. QED BY <1>1, <1>2, <2>2, <2>3, <2>4, ClearServes
<1>5. CASE Cmd
  <2>1. PICK ack \in Acks, d \in Word : ScanDR(Request, "RTI", ack, d)
            /\ IF call.check THEN pc' = "resp" /\ UNCHANGED <<i, n, calls, clearing, result, conn>>
               ELSE Again("cmd", Goto("csrIR"))
    BY <1>5 DEF Cmd
  <2>2. pc = "cmd" /\ cache.ir = "DPACC"
    BY <1>1, <1>5 DEF Cmd, Serves, Work, Instructions
  <2>. QED BY <1>0, <1>1, <1>3, <2>1, <2>2 DEF DRPcs
<1>6. CASE Resp
  <2>. DEFINE r == Dummy
  <2>1. PICK ack \in Acks, d \in Word :
       /\ ScanDR(r, "RTI", ack, d)
       /\ call.rnw => data' = SubSeq(data, 1, call.v) \o <<d>>
       /\ ~call.rnw => data' = data
       /\ ack = "BAD" => Return("failure")
       /\ ack = "WAIT" => Again("cmd", Goto("csrIR"))
       /\ ack = "OK" => Goto("csrIR")
    BY <1>6, RespIs
  <2>2. pc = "resp" /\ cache.ir = "DPACC" /\ r.a = 12 /\ pc \in DRPcs
    BY <1>1, <1>6 DEF Resp, Serves, Work, Instructions, Dummy, DRPcs
  <2>3. (clearing' \/ pc' = "idle") /\ (pc' = "idle" => result' # "success")
    BY <2>1 DEF Return, Again, Goto, Acks
  <2>. HIDE DEF r
  <2>. QED BY <1>0, <1>3, <2>1, <2>2, <2>3
<1>7. CASE Csr
  <2>. DEFINE r == [rnw |-> TRUE, a |-> 4, v |-> 0]
  <2>1. PICK ack \in Acks, d \in Word : ScanDR(r, "RTI", ack, d)
    BY <1>7 DEF Csr
  <2>2. pc = "csr" /\ cache.ir = "DPACC" /\ r.a = 4 /\ clearing' /\ pc' # "idle"
    BY <1>7 DEF Csr, Serves, Work, Instructions, callVars
  <2>. HIDE DEF r
  <2>. QED BY <1>0, <1>3, <2>1, <2>2 DEF DRPcs
<1>8. CASE CsrResp
  <2>. DEFINE r == Dummy
  <2>1. PICK ack \in Acks, d \in Word : ScanDR(r, "RTI", ack, d)
            /\ IF ack = "BAD" /\ call.t = "csr" THEN Return("failure")
               ELSE IF ack = "WAIT" THEN Again("csr", Checked(d))
               ELSE Checked(d)
    BY ZenonT(30), <1>8 DEF CsrResp
  <2>2. pc = "csrResp" /\ cache.ir = "DPACC" /\ r.a = 12 /\ pc \in DRPcs
    BY <1>8 DEF CsrResp, Serves, Work, Instructions, Dummy, DRPcs
  <2>3. Checked(d) => (clearing' \/ pc' = "idle") /\ (pc' = "idle" => result' # "success")
    BY DEF Checked, Return
  <2>4. (clearing' \/ pc' = "idle") /\ (pc' = "idle" => result' # "success")
    BY <1>1, <2>1, <2>3 DEF Again
  <2>. HIDE DEF r
  <2>. QED BY <1>0, <1>3, <2>1, <2>2, <2>4
<1>9. ~First /\ ~Get /\ ~Put /\ ~Final
  BY <1>1 DEF Fits, First, Get, Put, Final
<1>. QED BY <1>4, <1>5, <1>6, <1>7, <1>8, <1>9 DEF Serves, Session

LEMMA SilentServes ==
  ASSUME Serves, ~chain.linked
  PROVE  Served
<1>1. Quiet(Now) /\ ~clearing /\ Pos = 1 /\ pc \in {"ir", "cmd", "resp"}
  BY DEF Serves, Serving
<1>2. Placed /\ op' = op /\ op.t # "init" /\ op \in Requests
  BY <1>1, ServesFacts DEF Placed
<1>3. call = SelectBank(0)
  <2>1. Groups(op) \in Nat \ {0} /\ 1 \in 1..Groups(op)
    BY <1>2, PlanFacts
  <2>2. AtGroup(1, 1)
    BY <1>1, <1>2, <2>1 DEF AtGroup
  <2>. QED BY <1>2, <2>2, GroupIs
<1>4. call.t = "acc" /\ call.check
  BY <1>3 DEF SelectBank, Transfer
<1>5. ASSUME ~chain'.linked, Now' = Now, UNCHANGED <<calls, clearing>>,
             pc' \in {"ir", "cmd", "resp"} \/ (pc' = "idle" /\ result' = "failure")
      PROVE  Served
  <2>1. Pos' = 1
    BY <1>1, <1>2, <1>5, StayPlaced
  <2>. QED BY <1>1, <1>2, <1>5, <2>1 DEF Served, Serving, Quiet, SessionPcs
<1>6. CASE TransferIR
  <2>1. ShiftIR("ir", Instruction, AfterIR)
    BY <1>6 DEF TransferIR
  <2>2. pc' = "cmd" /\ UNCHANGED <<calls, clearing>>
    BY <1>4, <2>1 DEF ShiftIR, AfterIR, callVars
  <2>3. Now' = Now /\ ~chain'.linked
    BY <2>1, ShiftNow
  <2>. QED BY <1>5, <2>2, <2>3
<1>7. ASSUME NEW r, NEW ack, NEW d, ScanDR(r, "RTI", ack, d), pc \in {"cmd", "resp"}
      PROVE  ~chain'.linked /\ Now' = Now /\ ack = "BAD"
  <2>1. pc \in DRPcs /\ "RTI" \in Ends
    BY <1>7 DEF DRPcs, Ends
  <2>. QED BY <1>7, <2>1, LiveScan DEF Serves, Reliable
<1>8. CASE Cmd
  <2>1. PICK ack \in Acks, d \in Word : ScanDR(Request, "RTI", ack, d)
            /\ IF call.check THEN pc' = "resp" /\ UNCHANGED <<i, n, calls, clearing, result, conn>>
               ELSE Again("cmd", Goto("csrIR"))
    BY <1>8 DEF Cmd
  <2>2. ~chain'.linked /\ Now' = Now
    BY <1>7, <1>8, <2>1 DEF Cmd
  <2>. QED BY <1>4, <1>5, <2>1, <2>2
<1>9. CASE Resp
  <2>. DEFINE r == Dummy
  <2>1. PICK ack \in Acks, d \in Word :
       /\ ScanDR(r, "RTI", ack, d)
       /\ call.rnw => data' = SubSeq(data, 1, call.v) \o <<d>>
       /\ ~call.rnw => data' = data
       /\ ack = "BAD" => Return("failure")
       /\ ack = "WAIT" => Again("cmd", Goto("csrIR"))
       /\ ack = "OK" => Goto("csrIR")
    BY <1>9, RespIs
  <2>. HIDE DEF r
  <2>2. pc = "resp"
    BY <1>9 DEF Resp
  <2>3. ~chain'.linked /\ Now' = Now /\ ack = "BAD"
    BY <1>7, <2>1, <2>2
  <2>4. pc' = "idle" /\ result' = "failure" /\ UNCHANGED <<calls, clearing>>
    BY <2>1, <2>3 DEF Return
  <2>. QED BY <1>5, <2>3, <2>4
<1>10. ~First /\ ~Get /\ ~Put /\ ~Final /\ ~CsrIR /\ ~Csr /\ ~CsrResp
  BY <1>1 DEF First, Get, Put, Final, CsrIR, Csr, CsrResp, ShiftIR
<1>. QED BY <1>6, <1>8, <1>9, <1>10 DEF Serves, Session

\* Every step of a session.
LEMMA SessionServes ==
  ASSUME Serves
  PROVE  Served
<1>1. CASE ~chain.linked
  BY <1>1, SilentServes
<1>2. CASE chain.linked /\ clearing
  BY <1>2, ClearingServes
<1>3. CASE chain.linked /\ ~clearing
  BY <1>3, ShiftServes, CmdServes, RespServes, FirstServes, GetServes, PutServes, FinalServes, CsrServes, CsrRespServes
    DEF Serves, Session
<1>. QED BY <1>1, <1>2, <1>3

-----------------------------------------------------------------------------
(* A request begins.                                                       *)

\* A request begins with its first transfer.
LEMMA FirstPlace ==
  ASSUME NEW o \in Requests, op' = o, ~clearing', calls' = TransfersOf(o)
  PROVE  Pos' = 1
<1>1. o.t # "init" /\ TransfersOf(o) \in Seq(AnyTransfer)
  <2>1. IsRequest(o)
    BY RequestsAssumption
  <2>. QED BY <2>1, PlanFacts DEF IsRequest
<1>. DEFINE T == TransfersOf(o)
<1>2. Trs' = T
  BY <1>1 DEF Trs
<1>3. Pos' = Len(T) - Len(T) + 1 /\ Len(T) \in Nat
  BY <1>1, <1>2 DEF Pos
<1>. HIDE DEF T
<1>. QED BY <1>3

LEMMA AccessServes ==
  ASSUME Work, Serving, pc = "idle", NEW o \in Requests, Access_(o)
  PROVE  Serving'
<1>1. /\ pc' = "ir" /\ op' = o /\ ~clearing' /\ calls' = TransfersOf(o) /\ UNCHANGED <<hw, chain>>
      /\ before' = IF IsAccess(op) /\ result = "failure" THEN {op} ELSE {}
  BY DEF Access_, Ask, pinVars
<1>2. Now' = Now
  BY <1>1 DEF Now
<1>3. o.t # "init" /\ Groups(o) \in Nat \ {0} /\ TransfersOf(o) \in Seq(AnyTransfer) /\ Frontier(o)[0] = o.a /\ o.a \in Nat
  <2>1. IsRequest(o)
    BY RequestsAssumption
  <2>. QED BY <2>1, PlanFacts, DebugPortAssumption DEF IsRequest, Address
<1>4. Pos' = 1
  BY <1>1, FirstPlace
<1>5. ASSUME chain.linked, NEW m \in 1..Groups(op'), NEW j \in 1..4, AtGroup(m, j)'
      PROVE  Stage(op', m, j, "ir", n', Now, data', before')
  <2>1. 1 = 4 * (m - 1) + j /\ 1 = 4 * (1 - 1) + 1 /\ m \in Int /\ 1 \in 1..4
    BY <1>4, <1>5 DEF AtGroup
  <2>2. m = 1 /\ j = 1
    BY <2>1
  <2>3. 1 \in 1..Groups(o)
    BY <1>3
  <2>4. ~KeptBy(o, 1)
    BY <2>3, Spots
  <2>5. \A h, d : Done(o, Frontier(o)[1 - 1], h, d)
    BY <1>3 DEF Done
  <2>6. \A h, d : So(o, 1, 1, h, d)
    BY <2>4, <2>5 DEF So, Peeked, Ready
  <2>7. LeftOver(before', Now)
    BY <1>1, <1>5 DEF Serving
  <2>8. Entering(o, 1, 1, Now, data', before')
    BY <2>6, <2>7 DEF Entering
  <2>. QED BY <1>1, <2>2, <2>8 DEF Stage
<1>. QED BY <1>1, <1>2, <1>4, <1>5 DEF Serving, SessionPcs

-----------------------------------------------------------------------------
(* What a step of a session does to the memory.                            *)

LEMMA SessionStores ==
  ASSUME Serves
  PROVE  Stores1(Now', Now, {op} \cup before)
<1>1. ASSUME Now' = Now PROVE Stores1(Now', Now, {op} \cup before)
  BY <1>1 DEF Stores1
<1>2. CASE TransferIR \/ CsrIR
  <2>1. PICK from, ir, to : ShiftIR(from, ir, to)
    BY <1>2 DEF TransferIR, CsrIR
  <2>. QED BY <1>1, <2>1, ShiftNow
<1>3. CASE Cmd \/ Resp \/ First \/ Get \/ Put \/ Final \/ Csr \/ CsrResp
  <2>1. PICK req, to, ack, d : ScansOf(req, to, ack, d)
    BY <1>3, SessionScans
  <2>2. pc \in DRPcs /\ to \in Ends /\ ScanDR(req, to, ack, d)
    BY <2>1 DEF ScansOf
  <2>3. CASE Now' = Now
    BY <1>1, <2>3
  <2>4. CASE Now' # Now
    <3>1. chain.linked /\ Ran(req, d)
      BY <2>2, <2>4, LiveScan DEF Serves, Reliable, Busy
    <3>2. PICK c : Outcome(Now, c) /\ Now' = Start(c, cache.ir, req)
      BY <3>1 DEF Ran
    <3>3. Covers(Now, {op} \cup before)
      <4>1. CASE clearing
        <5>1. Quiet(Now)
          BY <3>1, <4>1 DEF Serves, Serving
        <5>. QED BY <5>1, QuietCovers
      <4>2. CASE ~clearing
        <5>1. /\ Placed /\ Fits
              /\ \A m, j : AtGroup(m, j) => Stage(op, m, j, pc, n, Now, data, before)
              /\ \E m, j : AtGroup(m, j)
          BY <3>1, <4>2, ServesFacts
        <5>2. PICK m, j : AtGroup(m, j)
          BY <5>1
        <5>3. /\ op \in Requests /\ m \in 1..Groups(op) /\ j \in 1..4
              /\ j = 4 => call = Main(op, m)
              /\ call.t = "acc" /\ j = 4 => Single(op, m)
              /\ call.t = "pipew" => j = 4 /\ PutKind(op, m)
          BY <5>1, <5>2, GroupIs
        <5>4. /\ pc \in {"cmd", "resp"} /\ j = 4 => Single(op, m)
              /\ pc \in {"put", "final"} => PutKind(op, m)
              /\ pc = "put" => n \in 1..Len(Main(op, m).vals)
          BY <5>1, <5>3 DEF Fits
        <5>5. Stage(op, m, j, pc, n, Now, data, before)
          BY <5>1, <5>2
        <5>. QED BY <2>2, <5>3, <5>4, <5>5, StageCovers
      <4>. QED BY <4>1, <4>2
    <3>4. HwOK(Now)
      BY ServesFacts
    <3>. QED BY <3>2, <3>3, <3>4, Lands
  <2>. QED BY <2>3, <2>4
<1>. QED BY <1>2, <1>3 DEF Serves, Session

-----------------------------------------------------------------------------
(* Held is an invariant.                                                   *)

\* What is relied on once was so before.
LEMMA ReliedOn ==
  ASSUME kills \in Nat, [Next]_vars
  PROVE  Reliable' => Reliable /\ ~Kill
<1>1. (Kill => kills' # 0) /\ (kills' = 0 => kills = 0)
  <2>1. Kill => kills' = kills + 1
    BY DEF Kill
  <2>2. kills' = kills \/ Kill
    BY DEF Next, Session, TransferIR, ShiftIR, Cmd, Resp, First, Get, Put, Final, CsrIR, Csr, CsrResp, Connecting,
           Router, Detect, DpInit, DpDetectIR, DpDetect, Connect, Plug, Access_, scanRest, userVars, vars
  <2>. QED BY <2>1, <2>2
<1>2. unnoticed => unnoticed'
  <2>1. ASSUME UNCHANGED unnoticed PROVE unnoticed => unnoticed'
    BY <2>1
  <2>2. \A req, to, ack, d : ScanDR(req, to, ack, d) => (unnoticed => unnoticed')
    BY DEF ScanDR, waitVars
  <2>3. Cmd \/ Resp \/ First \/ Get \/ Put \/ Final \/ Csr \/ CsrResp => (unnoticed => unnoticed')
    BY <2>2, SessionScans DEF ScansOf
  <2>4. \A from, ir, to : ShiftIR(from, ir, to) => UNCHANGED unnoticed
    BY DEF ShiftIR, waitVars
  <2>5. \A from, pick, tap, to : Icepick(from, pick, tap, to) => UNCHANGED unnoticed
    BY DEF Icepick, waitVars
  <2>6. Session \/ Connecting => (unnoticed => unnoticed')
    BY <2>1, <2>3, <2>4, <2>5 DEF Session, Connecting, TransferIR, CsrIR, Router, Detect, Connected, Configure,
         WarmReset, DpInit, DpDetectIR, DpDetect, waitVars
  <2>7. Connect \/ Kill \/ Plug \/ (\E o \in Requests : Access_(o)) \/ UNCHANGED vars => UNCHANGED unnoticed
    BY DEF Connect, Kill, Plug, Access_, Ask, vars, waitVars
  <2>. QED BY <2>1, <2>6, <2>7 DEF Next
<1>. QED BY <1>1, <1>2 DEF Reliable

Holding == IInv /\ Work /\ Held

\* A connection is there when no more is to be done for it.
LEMMA TurnsOn ==
  ASSUME [Next]_vars, conn # "on", conn' = "on"
  PROVE  pc' = "idle"
<1>1. Cmd \/ Resp \/ First \/ Get \/ Put \/ Final \/ Csr \/ CsrResp => conn' = conn \/ pc' = "idle"
  BY SessionScans DEF ScansOf, Onto
<1>2. \A from, ir, to : ShiftIR(from, ir, to) => conn' = conn
  BY DEF ShiftIR, userVars
<1>3. Session \/ DpDetectIR \/ DpInit => conn' = conn \/ pc' = "idle"
  BY <1>1, <1>2 DEF Session, TransferIR, CsrIR, DpDetectIR, DpInit, userVars
<1>4. Router => conn' \in {conn, "off"}
  BY DEF Router, Detect, userVars
<1>5. DpDetect => conn' = conn \/ pc' = "idle"
  BY DEF DpDetect, Return
<1>6. Connect \/ Kill \/ Plug \/ (\E o \in Requests : Access_(o)) \/ UNCHANGED vars => conn' \in {conn, "connecting"}
  BY DEF Connect, Kill, Plug, Access_, vars, userVars
<1>. QED BY <1>3, <1>4, <1>5, <1>6 DEF Next, Connecting

\* What happens while requests are served.
LEMMA OnSteps ==
  ASSUME Holding, [Next]_vars, Reliable', conn = "on"
  PROVE  Serves \/ (pc = "idle" /\ \E o \in Requests : Access_(o)) \/ UNCHANGED vars
<1>1. Links /\ Serving /\ Reliable /\ kills = 0 /\ ~Kill
  BY ReliedOn DEF Holding, Held, Reliable, IInv, Shape
<1>2. ~Connect /\ ~Plug
  BY DEF Connect, Plug
<1>3. CASE Connecting
  <2>1. pc \in RouterPcs \cup {"dpInit", "idIR", "idDR"}
    BY <1>3 DEF Connecting, Router, Detect, Connected, Configure, WarmReset, Icepick, DpInit, DpDetectIR, ShiftIR, DpDetect, RouterPcs
  <2>2. op.t = "init"
    BY <1>1, <2>1 DEF Holding, IInv, Places, Work, Instructions
  <2>3. pc # "idle"
    BY <2>1 DEF RouterPcs
  <2>. QED BY <1>1, <2>2, <2>3 DEF Links
<1>4. CASE Session
  <2>1. pc \in SessionPcs
    BY <1>4 DEF Session, TransferIR, ShiftIR, Cmd, Resp, First, Get, Put, Final, CsrIR, Csr, CsrResp, SessionPcs
  <2>. QED BY <1>1, <1>4, <2>1 DEF Serves, Holding
<1>5. CASE \E o \in Requests : Access_(o)
  BY <1>5 DEF Access_, Ask
<1>. QED BY <1>1, <1>2, <1>3, <1>4, <1>5 DEF Next

LEMMA StepHeld == Holding /\ [Next]_vars => Held'
<1>. SUFFICES ASSUME Holding, [Next]_vars PROVE Held'
  OBVIOUS
<1>1. Links'
  BY StepLinks DEF Holding, Held
<1>2. ASSUME Reliable' PROVE (conn' # "on" => NotYet') /\ (conn' = "on" => Serving' /\ (pc' \in SessionPcs => op' \in Requests))
  <2>1. Reliable
    BY <1>2, ReliedOn DEF Holding, IInv, Shape
  <2>2. CASE conn # "on"
    <3>1. Settled
      BY <1>2, <2>1, <2>2, BeforeSettles DEF Before, Holding, Held
    <3>2. conn' = "on" => pc' \notin SessionPcs
      BY <2>2, TurnsOn DEF SessionPcs
    <3>. QED BY <3>1, <3>2 DEF Settled
  <2>3. CASE conn = "on"
    <3>1. Work /\ Serving /\ (pc \in SessionPcs => op \in Requests)
      BY <2>1, <2>3 DEF Holding, Held
    <3>2. CASE Serves
      <4>1. Serving' /\ op' = op /\ conn' = "on" /\ pc \in SessionPcs
        BY <3>2, ServesFacts, SessionServes DEF Served, Serves
      <4>. QED BY <3>1, <4>1
    <3>3. CASE pc = "idle" /\ \E o \in Requests : Access_(o)
      <4>1. conn' = conn /\ op' \in Requests
        BY <3>3 DEF Access_, Ask
      <4>. QED BY <2>3, <3>1, <3>3, <4>1, AccessServes
    <3>4. CASE UNCHANGED vars
      <4>1. UNCHANGED <<pc, n, op, calls, clearing, data, result, before, conn, chain, hw>>
        BY <3>4 DEF vars, pinVars, userVars, callVars
      <4>2. Now' = Now /\ Trs' = Trs
        BY <4>1 DEF Now, Trs
      <4>3. Pos' = Pos
        BY <4>1, <4>2 DEF Pos
      <4>4. \A m, j : AtGroup(m, j)' => AtGroup(m, j)
        BY <4>1, <4>3 DEF AtGroup
      <4>5. Serving'
        BY <3>1, <4>1, <4>2, <4>3, <4>4 DEF Serving
      <4>. QED BY <2>3, <3>1, <4>1, <4>5
    <3>. QED BY <1>2, <2>3, <3>2, <3>3, <3>4, OnSteps
  <2>. QED BY <2>2, <2>3
<1>. QED BY <1>1, <1>2 DEF Held

LEMMA InitHeld == Init => Held
<1>. SUFFICES ASSUME Init PROVE Held
  OBVIOUS
<1>1. Links /\ conn = "off" /\ pc = "idle"
  BY InitLinks DEF Init
<1>2. chain.held = <<>> /\ hw.pending = <<>> /\ hw.bank = 0
  BY DEF Init
<1>3. Now = hw
  BY <1>2 DEF Now, Left
<1>4. NotYet
  BY <1>1, <1>2, <1>3 DEF NotYet, OnlyReads, Quiet, SessionPcs
<1>. QED BY <1>1, <1>4 DEF Held

LEMMA HeldInvariant == Spec => []Holding
<1>1. Init => Holding
  BY InitIInv, InitWork, InitHeld DEF Holding
<1>2. Holding /\ [Next]_vars => Holding'
  BY StepIInv, StepWork, StepHeld DEF Holding
<1>. QED BY <1>1, <1>2, PTL DEF Spec

-----------------------------------------------------------------------------
(* Each access does what it says.                                          *)

NowIs == Now.mem = hw.mem /\ Now.mapped = hw.mapped

\* A word is stored that the access, or the one before, is to store.
LEMMA OneStored ==
  ASSUME NowIs, NowIs', Serves
  PROVE  hw'.mapped = hw.mapped /\ (hw'.mem = hw.mem \/ Memory!StoreOne)
<1>1. Stores1(Now', Now, {op} \cup before)
  BY SessionStores
<1>2. hw'.mapped = hw.mapped /\ (hw'.mem = hw.mem \/ StoresOne(Now', Now, {op} \cup before))
  BY <1>1 DEF Stores1, NowIs
<1>3. CASE StoresOne(Now', Now, {op} \cup before)
  <2>1. PICK r \in {op} \cup before : \E w \in Now.mapped, v \in Word : Stored(r, w, v) /\ Now'.mem = [Now.mem EXCEPT ![w] = v]
    BY <1>3 DEF StoresOne
  <2>2. PICK w \in hw.mapped, v \in Word : Stored(r, w, v) /\ hw'.mem = [hw.mem EXCEPT ![w] = v]
    BY <2>1 DEF NowIs
  <2>3. r.t \in Memory!Stores /\ w \in Memory!Changed(r) /\ v = r.vals[w - r.a + 1]
    BY <2>2 DEF Stored, Stores, Memory!Stores, Memory!Changed, Memory!Footprint, LastWord
  <2>4. hw'.mem = [hw.mem EXCEPT ![w] = r.vals[w - r.a + 1]]
    BY <2>2, <2>3
  <2>. QED BY <1>2, <2>2, <2>3, <2>4 DEF Memory!StoreOne
<1>. QED BY <1>2, <1>3

\* Success means that it was done.
LEMMA WasDone ==
  ASSUME NowIs', Serves, hw'.mapped = hw.mapped, data' \in Seq(Word), op \in Requests, pc' = "idle", result' = "success"
  PROVE  Memory!Footprint(op) \subseteq hw.mapped /\ Memory!Performed(op, hw'.mem, data')
<1>1. /\ Done(op, Frontier(op)[Groups(op)], Now', data')
      /\ op.t \in Loads => Len(data') = op.n
  BY SessionServes DEF Served
<1>2. /\ op.a \in Nat /\ op.n \in Nat \ {0} /\ op.t \in Loads \cup Stores
      /\ Frontier(op)[Groups(op)] \in Int /\ Frontier(op)[Groups(op)] > LastWord(op)
  <2>1. op.a \in Nat /\ op.n \in Nat \ {0} /\ op.t \in Loads \cup Stores
    BY RequestsAssumption, DebugPortAssumption DEF IsRequest, Address, Loads, Stores
  <2>2. Groups(op) \in 1..Groups(op) /\ Frontier(op)[Groups(op)] > LastWord(op)
    BY PlanFacts
  <2>3. Frontier(op)[Groups(op)] \in Nat
    BY <2>2, Spots
  <2>. QED BY <2>1, <2>2, <2>3
<1>3. ASSUME NEW w \in op.a .. LastWord(op)
      PROVE  /\ w \in hw.mapped
             /\ op.t \in Loads => data'[w - op.a + 1] = hw'.mem[w]
             /\ op.t \in Stores /\ op.vals[w - op.a + 1] \in Word => hw'.mem[w] = op.vals[w - op.a + 1]
  <2>1. w \in op.a .. (Frontier(op)[Groups(op)] - 1) /\ w <= LastWord(op)
    <3>. DEFINE z == Frontier(op)[Groups(op)]
    <3>1. z \in Int /\ z > op.a + op.n - 1 /\ w \in op.a .. (op.a + op.n - 1)
      BY <1>2, <1>3 DEF LastWord
    <3>. HIDE DEF z
    <3>2. w \in op.a .. (z - 1) /\ w <= op.a + op.n - 1
      BY <1>2, <3>1
    <3>. QED BY <3>2 DEF z, LastWord
  <2>2. /\ w \in Now'.mapped
        /\ op.t \in Loads => data'[w - op.a + 1] = Now'.mem[w]
        /\ op.t \in Stores /\ op.vals[w - op.a + 1] \in Word => Now'.mem[w] = op.vals[w - op.a + 1]
    BY <1>1, <2>1 DEF Done
  <2>. QED BY <2>2 DEF NowIs
<1>4. Memory!Footprint(op) \subseteq hw.mapped
  BY <1>3 DEF Memory!Footprint, LastWord
<1>5. CASE op.t \in Stores
  <2>1. op.t \in Memory!Stores
    BY <1>5 DEF Stores, Memory!Stores
  <2>2. \A w \in Memory!Changed(op) : hw'.mem[w] = op.vals[w - op.a + 1]
    BY <1>3, <1>5 DEF Memory!Changed, Memory!Footprint, LastWord
  <2>. QED BY <1>4, <2>1, <2>2 DEF Memory!Performed
<1>6. CASE op.t \in Loads
  <2>1. op.t \notin Memory!Stores
    BY <1>6 DEF Loads, Memory!Stores
  <2>2. data' = [j \in 1..op.n |-> data'[j]]
    BY <1>1, <1>6
  <2>3. \A j \in 1..op.n : data'[j] = hw'.mem[op.a + j - 1]
    <3>1. SUFFICES ASSUME NEW j \in 1..op.n PROVE data'[j] = hw'.mem[op.a + j - 1]
      OBVIOUS
    <3>2. op.a + j - 1 \in op.a .. LastWord(op) /\ (op.a + j - 1) - op.a + 1 = j
      BY <1>2 DEF LastWord
    <3>3. data'[(op.a + j - 1) - op.a + 1] = hw'.mem[op.a + j - 1]
      BY <1>3, <1>6, <3>2
    <3>. QED BY <3>2, <3>3
  <2>4. data' = [j \in 1..op.n |-> hw'.mem[op.a + j - 1]]
    BY <2>2, <2>3
  <2>. QED BY <1>4, <2>1, <2>4 DEF Memory!Performed
<1>. QED BY <1>2, <1>5, <1>6

LEMMA IsAnAccess == ASSUME NEW o \in Requests PROVE IsAccess(o)
  BY RequestsAssumption DEF IsAccess, IsRequest

LEMMA StepMemory ==
  ASSUME Holding, Holding', NowIs, NowIs', [Next]_vars
  PROVE  [Memory!Next]_<<hw.mem, hw.mapped, Accessing>>
<1>1. CASE ~Reliable'
  BY <1>1 DEF Memory!Next, Reliable
<1>2. ASSUME ~Accessing, ~Accessing', hw'.mem = hw.mem, hw'.mapped = hw.mapped
      PROVE  [Memory!Next]_<<hw.mem, hw.mapped, Accessing>>
  <2>1. Accessing = FALSE /\ Accessing' = FALSE
    BY <1>2 DEF Accessing
  <2>. QED BY <1>2, <2>1
<1>3. CASE Reliable' /\ conn # "on"
  <2>1. Reliable
    BY <1>3, ReliedOn DEF Holding, IInv, Shape
  <2>2. hw'.mem = hw.mem /\ hw'.mapped = hw.mapped
    <3>1. Settled
      BY <1>3, <2>1, BeforeSettles DEF Before, Holding, Held
    <3>. QED BY <3>1 DEF Settled, NoStore, NowIs
  <2>3. ~Accessing
    BY <1>3, <2>1 DEF Holding, Held, Links, Reliable, Accessing, IsAccess
  <2>4. ~Accessing'
    <3>1. CASE conn' = "on"
      BY <1>3, <3>1, TurnsOn DEF Accessing
    <3>2. CASE conn' # "on"
      BY <1>3, <3>2 DEF Holding, Held, Links, Reliable, Accessing, IsAccess
    <3>. QED BY <3>1, <3>2
  <2>. QED BY <1>2, <2>2, <2>3, <2>4
<1>4. CASE Reliable' /\ conn = "on"
  <2>0. Reliable
    BY <1>4, ReliedOn DEF Holding, IInv, Shape
  <2>1. CASE Serves
    <3>1. hw'.mapped = hw.mapped /\ (hw'.mem = hw.mem \/ Memory!StoreOne)
      BY <2>1, OneStored
    <3>2. op \in Requests /\ UNCHANGED <<op, before>>
      BY <2>0, <2>1, <1>4, ServesFacts DEF Serves, Holding, Held
    <3>3. IsAccess(op) /\ pc # "idle"
      BY <2>1, <3>2, IsAnAccess DEF Serves, SessionPcs
    <3>4. Accessing
      BY <3>3 DEF Accessing
    <3>5. CASE pc' = "idle"
      <4>1. ~Accessing'
        BY <3>5 DEF Accessing
      <4>2. data' \in Seq(Word)
        BY DEF Holding, Work, Ranges
      <4>3. result' = "success" => Memory!Footprint(op) \subseteq hw.mapped /\ Memory!Performed(op, hw'.mem, data')
        BY <2>1, <3>1, <3>2, <3>5, <4>2, WasDone
      <4>4. Memory!Finish
        BY <3>1, <3>2, <3>4, <4>1, <4>3 DEF Memory!Finish
      <4>. QED BY <4>4 DEF Memory!Next
    <3>6. CASE pc' # "idle"
      <4>1. Accessing' = TRUE /\ Accessing = TRUE
        BY <3>2, <3>3, <3>6 DEF Accessing
      <4>2. CASE hw'.mem = hw.mem
        <5>1. Memory!Progress
          BY <3>1, <3>2, <3>4, <4>1, <4>2 DEF Memory!Progress
        <5>. QED BY <5>1 DEF Memory!Next
      <4>3. CASE Memory!StoreOne
        <5>1. Memory!Store
          BY <3>1, <3>2, <3>4, <4>1, <4>3 DEF Memory!Store
        <5>. QED BY <5>1 DEF Memory!Next
      <4>. QED BY <3>1, <4>2, <4>3
    <3>. QED BY <3>5, <3>6
  <2>2. CASE pc = "idle" /\ \E o \in Requests : Access_(o)
    <3>1. PICK o \in Requests : Access_(o)
      BY <2>2
    <3>2. op' = o /\ pc' = "ir" /\ hw' = hw /\ IsAccess(o)
      BY <3>1, IsAnAccess DEF Access_, Ask, pinVars
    <3>3. ~Accessing /\ Accessing' = TRUE
      BY <2>2, <3>2 DEF Accessing
    <3>4. Memory!Begin
      BY <3>2, <3>3 DEF Memory!Begin
    <3>. QED BY <3>4 DEF Memory!Next
  <2>3. CASE UNCHANGED vars
    <3>1. UNCHANGED <<hw, op, pc>>
      BY <2>3 DEF vars, pinVars, userVars
    <3>2. Accessing' = Accessing
      BY <3>1 DEF Accessing
    <3>. QED BY <3>1, <3>2
  <2>. QED BY <1>4, <2>1, <2>2, <2>3, OnSteps
<1>. QED BY <1>1, <1>3, <1>4

\* For every memory, page, limit of tries and set of requests: an access that
\* succeeds did what it says, and nothing else in the target's memory changes but
\* by the words of a failed write before it, as long as no WAIT goes unnoticed and
\* GDB has not asked for a reset.
THEOREM Implements == Spec => ImplementsMemory
<1>1. Init => Memory!Init
  <2>. SUFFICES ASSUME Init PROVE Memory!Init
    OBVIOUS
  <2>1. PICK mapped \in Mappings :
          hw = [mem |-> [w \in Address |-> 0], mapped |-> mapped, bank |-> 0, tar |-> 0, inc |-> FALSE,
                power |-> FALSE, sticky |-> FALSE, pending |-> <<>>, data |-> 0]
    BY DEF Init
  <2>2. hw.mem = [w \in Address |-> 0]
    BY <2>1
  <2>3. hw.mem \in [Address -> Word]
    BY <2>2 DEF Word
  <2>4. Accessing = FALSE
    BY DEF Init, Accessing
  <2>. QED BY <2>3, <2>4 DEF Memory!Init
<1>2. Holding => NowIs
  BY NowFacts DEF Holding, Work, NowIs
<1>3. Holding /\ Holding' /\ NowIs /\ NowIs' /\ [Next]_vars => [Memory!Next]_<<hw.mem, hw.mapped, Accessing>>
  BY StepMemory
<1>. QED BY <1>1, <1>2, <1>3, HeldInvariant, PTL DEF Spec, ImplementsMemory, Memory!Spec

-----------------------------------------------------------------------------
(* Why an access fails: the words that are there, page by page.            *)

\* If the words that o is about are there, so is w.
Given(o, h, w) == o.a .. Top(o) \subseteq h.mapped => w \in h.mapped

LEMMA DivUnique ==
  ASSUME NEW x \in Nat, NEW d \in Nat \ {0}, NEW p \in Nat, NEW s \in Nat, s < d, x = d * p + s
  PROVE  x \div d = p
<1>. DEFINE q == x \div d
<1>1. p * d \in Nat /\ d * p = p * d /\ (p + 1) * d = p * d + d
  BY MulNat
<1>2. x % d = x - p * d
  BY <1>1, ModUnique
<1>3. q \in Nat /\ x = d * q + (x % d)
  BY DivMod
<1>. HIDE DEF q
<1>4. q * d \in Nat /\ d * q = q * d /\ (q + 1) * d = q * d + d
  BY <1>3, MulNat
<1>5. q * d = p * d
  BY <1>1, <1>2, <1>3, <1>4
<1>6. ~(p < q)
  <2>. SUFFICES ASSUME p < q PROVE FALSE
    OBVIOUS
  <2>1. (p + 1) * d <= q * d
    BY <1>3, MulMono
  <2>. QED BY <1>1, <1>4, <1>5, <2>1
<1>7. ~(q < p)
  <2>. SUFFICES ASSUME q < p PROVE FALSE
    OBVIOUS
  <2>1. (q + 1) * d <= p * d
    BY <1>3, MulMono
  <2>. QED BY <1>1, <1>4, <1>5, <2>1
<1>. QED BY <1>3, <1>6, <1>7 DEF q

\* Words of one page, of which one exists.
LEMMA PageMates ==
  ASSUME NEW t \in Address, NEW w \in Nat, w \div Page = t \div Page
  PROVE  w \in Address
<1>. DEFINE q == t \div Page  r == t % Page  s == w % Page  k == Words \div Page
<1>1. Page \in Nat \ {0} /\ Words \in Nat \ {0} /\ Words % Page = 0 /\ t \in Nat /\ t < Words
  BY DebugPortAssumption DEF Address
<1>2. /\ q \in Nat /\ r \in Nat /\ t = Page * q + r
      /\ s \in Nat /\ s < Page /\ w = Page * q + s
      /\ k \in Nat /\ Words = Page * k + (Words % Page)
  BY <1>1, DivMod
<1>. HIDE DEF q, r, s, k
<1>3. /\ q * Page \in Nat /\ Page * q = q * Page /\ (q + 1) * Page = q * Page + Page
      /\ k * Page \in Nat /\ Page * k = k * Page /\ (k + 1) * Page = k * Page + Page
  BY <1>1, <1>2, MulNat
<1>4. q < k
  <2>. SUFFICES ASSUME k < q \/ k = q PROVE FALSE
    BY <1>2
  <2>1. CASE k < q
    <3>1. (k + 1) * Page <= q * Page
      BY <2>1, <1>1, <1>2, MulMono
    <3>. QED BY <3>1, <1>1, <1>2, <1>3
  <2>2. CASE k = q
    BY <2>2, <1>1, <1>2, <1>3
  <2>. QED BY <2>1, <2>2
<1>5. (q + 1) * Page <= k * Page
  BY <1>1, <1>2, <1>4, MulMono
<1>6. w < Words
  BY <1>1, <1>2, <1>3, <1>5
<1>. QED BY <1>1, <1>6 DEF Address

\* The window of four words at the transfer address, and the next word, are in its page.
LEMMA WindowPage ==
  ASSUME NEW t \in Nat, NEW b \in 0..3
  PROVE  LET w == (t - (t % 4)) + b IN w \in Nat /\ w \div Page = t \div Page
<1>. DEFINE u == t \div 4  l == t % 4  k == Page \div 4  q == u \div k  v == u % k  w == (t - l) + b
<1>1. Page \in Nat \ {0} /\ Page % 4 = 0
  BY DebugPortAssumption
<1>2. u \in Nat /\ l \in Nat /\ l < 4 /\ t = 4 * u + l
  BY DivMod
<1>3. k \in Nat \ {0} /\ Page = 4 * k
  <2>1. k \in Nat /\ Page = 4 * k + (Page % 4)
    BY <1>1, DivMod
  <2>. HIDE DEF k
  <2>. QED BY <1>1, <2>1
<1>4. q \in Nat /\ v \in Nat /\ v < k /\ u = k * q + v
  <2>. HIDE DEF u, k
  <2>. QED BY <1>2, <1>3, DivMod
<1>. HIDE DEF u, l, k, q, v
<1>5. k * q \in Nat /\ Page * q = 4 * (k * q)
  <2>1. k * q \in Nat
    BY <1>3, <1>4, MulNat
  <2>2. Page * q = (4 * k) * q
    BY <1>3
  <2>3. (4 * k) * q = 4 * (k * q)
    BY <1>3, <1>4
  <2>. QED BY <2>1, <2>2, <2>3
<1>6. t = Page * q + (4 * v + l) /\ w = Page * q + (4 * v + b) /\ 4 * v + l < Page /\ 4 * v + b < Page /\ w \in Nat
  BY <1>2, <1>3, <1>4, <1>5
<1>7. t \div Page = q /\ w \div Page = q
  <2>1. 4 * v + l \in Nat /\ 4 * v + b \in Nat
    BY <1>2, <1>4
  <2>. HIDE DEF w
  <2>. QED BY <1>1, <1>4, <1>6, <2>1, DivUnique
<1>. QED BY <1>6, <1>7 DEF l

LEMMA NextTarPage ==
  ASSUME NEW t \in Address
  PROVE  NextTar(t) \div Page = t \div Page
<1>. DEFINE q == t \div Page  r == t % Page  s == (t + 1) % Page
<1>1. Page \in Nat \ {0} /\ t \in Nat
  BY DebugPortAssumption DEF Address
<1>2. q \in Nat /\ r \in Nat /\ t = Page * q + r /\ s \in Nat /\ s < Page /\ NextTar(t) = (t - r) + s
  BY <1>1, DivMod DEF NextTar
<1>. HIDE DEF q, r, s
<1>3. Page * q \in Nat
  BY <1>1, <1>2, MulNat
<1>4. NextTar(t) \in Nat /\ NextTar(t) = Page * q + s
  BY <1>1, <1>2, <1>3
<1>. QED BY <1>1, <1>2, <1>4, DivUnique DEF q

LEMMA GivenPage ==
  ASSUME WholePages, NEW h, h.mapped \in Mappings, NEW o, NEW t \in Address, Given(o, h, t),
         NEW w \in Nat, w \div Page = t \div Page
  PROVE  Given(o, h, w)
<1>1. w \in Address
  BY PageMates
<1>. QED BY <1>1 DEF Given, WholePages

\* The words where a group of a request begins, and what it points to.
LEMMA GivenBase ==
  ASSUME WholePages, NEW h, h.mapped \in Mappings, NEW o \in Requests, NEW m \in 1..Groups(o)
  PROVE  Given(o, h, Frontier(o)[m - 1]) /\ Given(o, h, Base(o, m))
<1>. DEFINE x == Frontier(o)[m - 1]
<1>1. x \in Address /\ x >= o.a /\ x <= Top(o) /\ o.a \in Nat /\ LastWord(o) \in Nat /\ x \in Nat
  BY PlanFacts, Spots DEF Group
<1>2. Top(o) \in Nat
  BY <1>1, TopLemma
<1>. HIDE DEF x
<1>3. x \in o.a .. Top(o)
  BY <1>1, <1>2
<1>4. Given(o, h, x)
  BY <1>3 DEF Given
<1>5. CASE ~Single(o, m)
  BY <1>4, <1>5, BaseFacts DEF x
<1>6. CASE Single(o, m)
  <2>1. Base(o, m) = x - (x % 4)
    BY <1>6, BaseFacts DEF x
  <2>2. Base(o, m) = (x - (x % 4)) + 0 /\ 0 \in 0..3
    BY <1>1, <2>1, BaseFacts
  <2>3. Base(o, m) \in Nat /\ Base(o, m) \div Page = x \div Page
    BY <1>1, <2>2, WindowPage
  <2>. QED BY <1>1, <1>4, <2>3, GivenPage DEF x
<1>. QED BY <1>5, <1>6, <1>4 DEF x

-----------------------------------------------------------------------------
(* What a transaction leaves of the power, the error and the page.         *)

\* What a transaction of a request may be: the status is not cleared, and the
\* access port is addressed by its registers.
Mild(ir, r) == (ir = "DPACC" => r.rnw \/ r.a # 4) /\ (ir # "DPACC" => r.a \in {0, 4, 8, 12})

LEMMA MildDP ==
  ASSUME NEW c, HwOK(c), Quiet(c), NEW r, r.rnw \/ r.a # 4
  PROVE  LET g == Start(c, "DPACC", r)
         IN /\ Quiet(g) /\ g.mapped = c.mapped /\ g.tar = c.tar /\ g.power = c.power /\ (g.sticky <=> c.sticky)
            /\ r.rnw /\ r.a = 4 /\ ~c.sticky => g.data = 0
<1>. DEFINE g == StartDP(c, r)
<1>1. IsHw(c)
  BY DEF HwOK
<1>2. /\ r.a = 4 /\ r.rnw => SameBut(c, g, {"data"}) /\ g.data = (IF c.sticky THEN 1 ELSE 0)
      /\ r.a = 8 /\ ~r.rnw => SameBut(c, g, {"bank"})
      /\ r.a \notin {4, 8} \/ (r.a = 8 /\ r.rnw) => SameBut(c, g, {"data"})
  BY <1>1, StartDPLemma
<1>. HIDE DEF g
<1>3. SameBut(c, g, {"data"}) \/ SameBut(c, g, {"bank"})
  BY <1>2
<1>4. Quiet(g) /\ g.mapped = c.mapped /\ g.tar = c.tar /\ g.power = c.power /\ (g.sticky <=> c.sticky)
  BY <1>3 DEF SameBut, Quiet
<1>. QED BY <1>2, <1>4 DEF Start, g

LEMMA ClearDP ==
  ASSUME NEW c, HwOK(c), Quiet(c), NEW r, ~r.rnw, r.a = 4
  PROVE  LET g == Start(c, "DPACC", r)
         IN Quiet(g) /\ g.mapped = c.mapped /\ (r.v = "clear" => ~g.power /\ ~g.sticky)
<1>. DEFINE u == c.sticky /\ r.v # "clear"  v == (r.v = "power")  g == StartDP(c, r)
<1>1. IsHw(c)
  BY DEF HwOK
<1>2. g = [c EXCEPT !.sticky = u, !.power = v]
  BY DEF StartDP
<1>. HIDE DEF u, v, g
<1>3. g = [mem |-> c.mem, mapped |-> c.mapped, bank |-> c.bank, tar |-> c.tar, inc |-> c.inc,
           power |-> v, sticky |-> u, pending |-> c.pending, data |-> c.data]
  BY <1>1, <1>2 DEF IsHw
<1>4. g.pending = c.pending /\ g.mapped = c.mapped /\ g.power = v /\ g.sticky = u
  BY <1>3
<1>5. r.v = "clear" => ~u /\ ~v
  BY DEF u, v
<1>. QED BY <1>4, <1>5 DEF Quiet, Start, g

LEMMA MildAP ==
  ASSUME NEW c, HwOK(c), Quiet(c), NEW ir, ir # "DPACC", NEW r, r.a \in {0, 4, 8, 12}
  PROVE  LET g == Start(c, ir, r)
         IN /\ g.mapped = c.mapped /\ g.power = c.power /\ (g.sticky <=> c.sticky)
            /\ c.sticky => Quiet(g)
            /\ Quiet(g) \/ (g.pending[1].addr \in Nat /\ g.pending[1].addr \div Page = c.tar \div Page)
            /\ g.tar = c.tar \/ (~c.sticky /\ c.bank = 0 /\ r.a = 4 /\ ~r.rnw)
            /\ ~c.sticky /\ c.bank = 0 /\ r.a = 4 /\ ~r.rnw => Quiet(g) /\ g.tar = r.v
<1>. DEFINE Pend(addr, inc) == <<[addr |-> addr, rnw |-> r.rnw, v |-> AsWord(r.v), inc |-> inc]>>
            w == (c.tar - (c.tar % 4)) + (r.a \div 4)
            P == Pend(w, FALSE)  Q == Pend(c.tar, c.inc)
            g == StartAP(c, r)
<1>1. IsHw(c) /\ c.bank \in {0, 1, 15} /\ c.tar \in Address /\ c.tar \in Nat
  BY DebugPortAssumption DEF HwOK, Address
<1>2. /\ c.sticky => g = c
      /\ ~c.sticky /\ c.bank = 1 => SameBut(c, g, {"pending"}) /\ g.pending = P
      /\ ~c.sticky /\ c.bank = 0 /\ r.a = 12 => SameBut(c, g, {"pending"}) /\ g.pending = Q
      /\ ~c.sticky /\ c.bank = 0 /\ r.a = 4 /\ ~r.rnw => SameBut(c, g, {"tar"}) /\ g.tar = r.v
      /\ ~c.sticky /\ c.bank = 0 /\ r.a = 0 /\ ~r.rnw => SameBut(c, g, {"inc"})
      /\ ~c.sticky /\ c.bank \notin {0, 1} => SameBut(c, g, {"data"})
      /\ ~c.sticky /\ c.bank = 0 /\ r.a # 12 /\ r.rnw => SameBut(c, g, {"data"})
      /\ ~c.sticky /\ c.bank = 0 /\ r.a \notin {0, 4, 12} => SameBut(c, g, {"data"})
  BY ZenonT(30), <1>1, StartAPLemma
<1>3. P[1].addr = w /\ Q[1].addr = c.tar
  OBVIOUS
<1>4. w \in Nat /\ w \div Page = c.tar \div Page
  <2>1. r.a \div 4 \in 0..3
    OBVIOUS
  <2>. DEFINE b == r.a \div 4
  <2>2. b \in 0..3 /\ w = (c.tar - (c.tar % 4)) + b
    BY <2>1
  <2>. HIDE DEF b, w
  <2>. QED BY <1>1, <2>2, WindowPage
<1>. HIDE DEF g, P, Q, Pend, w
<1>5. \/ c.sticky /\ g = c
      \/ ~c.sticky /\ SameBut(c, g, {"pending"}) /\ g.pending \in {P, Q} /\ ~(c.bank = 0 /\ r.a = 4 /\ ~r.rnw)
      \/ ~c.sticky /\ SameBut(c, g, {"tar"}) /\ c.bank = 0 /\ r.a = 4 /\ ~r.rnw /\ g.tar = r.v
      \/ ~c.sticky /\ (SameBut(c, g, {"inc"}) \/ SameBut(c, g, {"data"})) /\ ~(c.bank = 0 /\ r.a = 4 /\ ~r.rnw)
  BY <1>1, <1>2
<1>6. g.mapped = c.mapped /\ g.power = c.power /\ (g.sticky <=> c.sticky)
  BY <1>5 DEF SameBut
<1>7. c.sticky => Quiet(g)
  BY <1>5
<1>8. Quiet(g) \/ (g.pending[1].addr \in Nat /\ g.pending[1].addr \div Page = c.tar \div Page)
  BY <1>1, <1>3, <1>4, <1>5 DEF SameBut, Quiet
<1>9. g.tar = c.tar \/ (~c.sticky /\ c.bank = 0 /\ r.a = 4 /\ ~r.rnw)
  BY <1>5 DEF SameBut
<1>10. ~c.sticky /\ c.bank = 0 /\ r.a = 4 /\ ~r.rnw => Quiet(g) /\ g.tar = r.v
  BY <1>5 DEF SameBut, Quiet
<1>. QED BY <1>6, <1>7, <1>8, <1>9, <1>10 DEF Start, g

\* What is pending takes the transfer address no further than its page.
LEMMA OutcomePage ==
  ASSUME NEW h, HwOK(h), NEW c, Outcome(h, c)
  PROVE  c.tar \in Address /\ c.tar \div Page = h.tar \div Page /\ c.mapped = h.mapped
<1>1. h.tar \in Address /\ c.tar \in Address /\ c.mapped = h.mapped
  BY DEF Outcome, HwOK
<1>2. c.tar \in {h.tar, NextTar(h.tar)}
  BY DEF Outcome, Performs
<1>. QED BY <1>1, <1>2, NextTarPage

-----------------------------------------------------------------------------
(* A transaction of a request stays on the pages of the request's words.   *)

LEMMA GivenSame ==
  ASSUME NEW o, NEW h, NEW g, g.mapped = h.mapped, NEW w
  PROVE  Given(o, h, w) <=> Given(o, g, w)
  BY DEF Given

\* What is asked of the port, and what that leaves.  selects: by the first transfer;
\* points: by the first scan of the second.
Aims(o, selects, points, h, ir, r) ==
  /\ selects \in BOOLEAN /\ points \in BOOLEAN /\ Mild(ir, r)
  /\ selects => ir = "DPACC"
  /\ points => ir # "DPACC" /\ ~r.rnw /\ r.a = 4 /\ Quiet(h) /\ ~h.sticky /\ h.bank = 0
  /\ ir # "DPACC" /\ ~r.rnw /\ r.a = 4 => h.bank # 0 \/ Given(o, h, r.v)
  /\ selects \/ points \/ h.sticky \/ Given(o, h, h.tar)
Stays(o, selects, h, ir, r, g) ==
  /\ g.mapped = h.mapped /\ g.power = h.power /\ (g.sticky => Quiet(g))
  /\ Quiet(g) \/ Given(o, g, g.pending[1].addr)
  /\ selects \/ g.sticky \/ Given(o, g, g.tar)
  /\ h.power /\ (Quiet(h) \/ h.pending[1].addr \in h.mapped) => (g.sticky <=> h.sticky)
  /\ Quiet(h) => (g.sticky <=> h.sticky)
  /\ ir = "DPACC" => Quiet(g)
  /\ ir = "DPACC" /\ r.rnw /\ r.a = 4 /\ ~g.sticky => g.data = 0

LEMMA StaysNear ==
  ASSUME WholePages, NEW h, HwOK(h), h.mapped \in Mappings, NEW c, Outcome(h, c), Sound(h, c),
         NEW ir, NEW r, NEW o, NEW selects, NEW points, Aims(o, selects, points, h, ir, r)
  PROVE  Stays(o, selects, h, ir, r, Start(c, ir, r))
<1>. DEFINE g == Start(c, ir, r)
<1>1. /\ HwOK(c) /\ Quiet(c) /\ c.mapped = h.mapped /\ c.bank = h.bank /\ (h.sticky => c.sticky)
      /\ Quiet(h) => c = h
  BY DEF Outcome
<1>2. c.tar \in Address /\ c.tar \in Nat /\ c.tar \div Page = h.tar \div Page /\ h.tar \in Address
  BY OutcomePage, DebugPortAssumption DEF HwOK, Address
<1>3. c.power = h.power /\ (h.power /\ (Quiet(h) \/ h.pending[1].addr \in h.mapped) => (c.sticky <=> h.sticky))
  BY DEF Sound
<1>4. Given(o, h, h.tar) => \A w \in Nat : w \div Page = c.tar \div Page => Given(o, c, w)
  BY <1>1, <1>2, GivenPage, GivenSame
<1>0. /\ selects \in BOOLEAN /\ points \in BOOLEAN /\ Mild(ir, r)
      /\ selects => ir = "DPACC"
      /\ points => ir # "DPACC" /\ ~r.rnw /\ r.a = 4 /\ Quiet(h) /\ ~h.sticky /\ h.bank = 0
      /\ ir # "DPACC" /\ ~r.rnw /\ r.a = 4 => h.bank # 0 \/ Given(o, h, r.v)
      /\ selects \/ points \/ h.sticky \/ Given(o, h, h.tar)
  BY DEF Aims
<1>5. CASE ir = "DPACC"
  <2>1. r.rnw \/ r.a # 4
    BY <1>0, <1>5 DEF Mild
  <2>2. /\ Quiet(g) /\ g.mapped = c.mapped /\ g.tar = c.tar /\ g.power = c.power /\ (g.sticky <=> c.sticky)
        /\ r.rnw /\ r.a = 4 /\ ~c.sticky => g.data = 0
    BY <1>1, <1>5, <2>1, MildDP
  <2>. HIDE DEF g
  <2>3. selects \/ g.sticky \/ Given(o, g, g.tar)
    BY <1>0, <1>1, <1>2, <1>4, <1>5, <2>2, GivenSame
  <2>. QED BY <1>1, <1>3, <1>5, <2>2, <2>3 DEF g, Stays
<1>6. CASE ir # "DPACC"
  <2>1. r.a \in {0, 4, 8, 12}
    BY <1>0, <1>6 DEF Mild
  <2>2. /\ g.mapped = c.mapped /\ g.power = c.power /\ (g.sticky <=> c.sticky)
        /\ c.sticky => Quiet(g)
        /\ Quiet(g) \/ (g.pending[1].addr \in Nat /\ g.pending[1].addr \div Page = c.tar \div Page)
        /\ g.tar = c.tar \/ (~c.sticky /\ c.bank = 0 /\ r.a = 4 /\ ~r.rnw)
        /\ ~c.sticky /\ c.bank = 0 /\ r.a = 4 /\ ~r.rnw => Quiet(g) /\ g.tar = r.v
    BY <1>1, <1>6, <2>1, MildAP
  <2>. HIDE DEF g
  <2>3. ~selects
    BY <1>0, <1>6
  <2>4. ~c.sticky /\ c.bank = 0 /\ r.a = 4 /\ ~r.rnw => Quiet(g) /\ Given(o, g, g.tar)
    BY <1>0, <1>1, <1>6, <2>2, GivenSame
  <2>5. CASE points
    <3>1. ~c.sticky /\ c.bank = 0 /\ r.a = 4 /\ ~r.rnw
      BY <1>0, <1>1, <2>5
    <3>. QED BY <1>1, <1>3, <1>6, <2>2, <2>4, <3>1 DEF g, Stays
  <2>6. CASE h.sticky
    BY <1>1, <1>3, <1>6, <2>2, <2>6 DEF g, Stays
  <2>7. CASE Given(o, h, h.tar)
    <3>1. Quiet(g) \/ Given(o, g, g.pending[1].addr)
      BY <1>4, <2>2, <2>7, GivenSame
    <3>2. Given(o, g, g.tar)
      BY <1>2, <1>4, <2>2, <2>4, <2>7, GivenSame
    <3>. QED BY <1>1, <1>3, <1>6, <2>2, <3>1, <3>2 DEF g, Stays
  <2>. QED BY <1>0, <2>3, <2>5, <2>6, <2>7
<1>. QED BY <1>5, <1>6

-----------------------------------------------------------------------------
(* What a failure is blamed on, and what a success shows.                  *)

\* The words that the access, and the one that failed before it, are about are there.
Innocent == \A o \in {op} \cup before : o.a .. Top(o) \subseteq Now.mapped
HasFailed == IsAccess(op) /\ result = "failure"
\* The first transfer's, and the second's, first scan is still to come.
Selecting == Pos = 1 /\ pc \in {"ir", "cmd"}
Pointing  == Pos = 2 /\ pc \in {"ir", "cmd"}

Resting ==
  /\ Now.power => ~Now.sticky
  /\ Quiet(Now) \/ (HasFailed /\ Given(op, Now, Now.pending[1].addr))
  /\ HasFailed => excused \/ ~Innocent
Working ==
  /\ ~clearing => \/ Quiet(Now) \/ Given(op, Now, Now.pending[1].addr)
                  \/ Selecting /\ \E o \in before : Given(o, Now, Now.pending[1].addr)
  /\ ~clearing => Pos = 1 \/ Pointing \/ Now.sticky \/ Given(op, Now, Now.tar)
  /\ clearing /\ pc \notin {"ir", "cmd"} => ~Now.power
  /\ ~excused /\ Innocent => ~clearing /\ Now.power /\ ~Now.sticky /\ (pc = "csrResp" => Now.data = 0)
Grounded ==
  /\ Now.mapped \in Mappings /\ (Now.power => chain.linked) /\ (Now.sticky => Quiet(Now))
  /\ conn # "on" => ~IsAccess(op)
  /\ conn = "on" /\ pc = "idle" => Resting
  /\ conn = "on" /\ pc \in SessionPcs => Working
Grounds == Reliable => Grounded

-----------------------------------------------------------------------------
(* What the scans of a request ask, and where they lead.                   *)

Asks(req) ==
  /\ Mild(cache.ir, req)
  /\ pc = "csr" => cache.ir = "DPACC" /\ req.rnw /\ req.a = 4
  /\ Pos = 1 => cache.ir = "DPACC"
  /\ Pointing => cache.ir # "DPACC" /\ ~req.rnw /\ req.a = 4 /\ Quiet(Now) /\ ~Now.sticky /\ Now.bank = 0
  /\ cache.ir # "DPACC" /\ ~req.rnw /\ req.a = 4 => Now.bank # 0 \/ Given(op, Now, req.v)
LeadsOn(ack, d) ==
  \/ pc' \in SessionPcs /\ UNCHANGED <<calls, clearing>> /\ (pc' = "csrResp" => pc = "csr")
  \/ pc' = "idle" /\ result' = "failure" /\ ack # "OK"
  \/ pc = "csrResp" /\ d # 1 /\ NextTransfer
  \/ pc = "csrResp" /\ d = 1 /\ clearing' /\ pc' = "ir"
Scans(req, to, ack, d) == pc \in DRPcs /\ to \in Ends /\ d \in Word /\ ScanDR(req, to, ack, d)

\* A read of the port of which only the answer to the one before is looked at.
LEMMA DummyAsks ==
  ASSUME ~Pointing, Pos = 1 => cache.ir = "DPACC", pc # "csr"
  PROVE  Asks(Dummy)
<1>1. Dummy.rnw /\ Dummy.a = 12
  BY DEF Dummy
<1>. HIDE DEF Dummy
<1>. QED BY <1>1 DEF Asks, Mild

Asking == Serves /\ chain.linked /\ ~clearing /\ WholePages /\ Now.mapped \in Mappings

LEMMA CmdAsks ==
  ASSUME Asking, Cmd
  PROVE  \E req, to, ack, d : Scans(req, to, ack, d) /\ Asks(req) /\ LeadsOn(ack, d)
<1>0. Serves /\ chain.linked /\ ~clearing
  BY DEF Asking
<1>1. /\ Placed /\ Fits /\ HwOK(Now) /\ op.t # "init"
      /\ \A m, j : AtGroup(m, j) => Stage(op, m, j, pc, n, Now, data, before)
      /\ \E m, j : AtGroup(m, j)
  BY <1>0, ServesFacts
<1>2. PICK m, j : AtGroup(m, j)
  BY <1>1
<1>3. pc = "cmd" /\ pc \in DRPcs /\ call.t = "acc" /\ "RTI" \in Ends /\ cache.ir = Instruction
  BY <1>0, <1>1 DEF Cmd, DRPcs, Fits, Ends, Serves, Work, Instructions
<1>4. Stage(op, m, j, "cmd", n, Now, data, before)
  BY <1>1, <1>2, <1>3
<1>5. PICK ack \in Acks, d \in Word : ScanDR(Request, "RTI", ack, d)
          /\ IF call.check THEN pc' = "resp" /\ UNCHANGED <<i, n, calls, clearing, result, conn>>
             ELSE Again("cmd", Goto("csrIR"))
  BY DEF Cmd
<1>. DEFINE r == Request
<1>6. /\ op \in Requests /\ m \in 1..Groups(op) /\ j \in 1..4 /\ Pos = 4 * (m - 1) + j
      /\ j \in {1, 3} => call = SelectBank(IF j = 1 THEN 0 ELSE Bank(op, m))
      /\ j = 2 => call = WriteTar(Base(op, m), Single(op, m))
      /\ j = 4 => call = Main(op, m) /\ call.ap /\ call.check /\ Single(op, m)
  BY <1>1, <1>2, <1>3, GroupIs
<1>7. /\ r.rnw = call.rnw /\ r.a = call.a
      /\ ~call.rnw => r.v = IF call.ap /\ call.v = Keep THEN data[1] ELSE call.v
  BY RequestIsCall
<1>. HIDE DEF r
<1>8. LeadsOn(ack, d)
  <2>1. UNCHANGED <<calls, clearing>> /\ pc' \in {"resp", "cmd", "csrIR"}
    BY <1>5 DEF Again, Goto
  <2>. QED BY <2>1 DEF LeadsOn, SessionPcs
<1>9. (Pos = 1 => j = 1) /\ (Pos = 2 => j = 2)
  <2>1. m \in Nat \ {0}
    BY <1>6
  <2>2. j \in {1, 2, 3, 4} /\ Pos = 4 * (m - 1) + j
    BY <1>6
  <2>. HIDE DEF Pos
  <2>. QED BY <2>1, <2>2
<1>10. Asks(r)
  <2>1. CASE j \in {1, 3}
    <3>. DEFINE b == IF j = 1 THEN 0 ELSE Bank(op, m)
    <3>1. call = Transfer("acc", FALSE, FALSE, 8, b, TRUE, <<>>)
      BY <1>6, <2>1 DEF SelectBank
    <3>. HIDE DEF b
    <3>2. ~call.ap /\ ~call.rnw /\ call.a = 8
      BY <3>1 DEF Transfer
    <3>3. cache.ir = "DPACC" /\ r.a = 8
      BY <1>3, <1>7, <3>2 DEF Instruction
    <3>. QED BY <1>3, <1>9, <2>1, <3>3 DEF Asks, Mild, Pointing
  <2>2. CASE j = 2
    <3>1. call = Transfer("acc", TRUE, FALSE, 4, Base(op, m), Single(op, m), <<>>)
      BY <1>6, <2>2 DEF WriteTar
    <3>2. call.ap /\ ~call.rnw /\ call.a = 4 /\ call.v = Base(op, m)
      BY <3>1 DEF Transfer
    <3>3. Base(op, m) \in Nat
      BY <1>6, BaseFacts
    <3>4. call.v # Keep
      BY <3>2, <3>3 DEF Keep
    <3>5. cache.ir = "APACC" /\ r.a = 4 /\ ~r.rnw /\ r.v = Base(op, m)
      BY <1>3, <1>7, <3>2, <3>4 DEF Instruction
    <3>6. Entering(op, m, 2, Now, data, before)
      BY <1>4, <2>2 DEF Stage
    <3>7. Quiet(Now) /\ ~Now.sticky /\ Now.bank = 0
      BY <3>6 DEF Entering, So, Ready
    <3>8. Given(op, Now, r.v)
      BY <1>6, <3>5, GivenBase DEF Asking
    <3>. QED BY <1>3, <1>9, <2>2, <3>5, <3>7, <3>8 DEF Asks, Mild
  <2>3. CASE j = 4
    <3>1. Single(op, m) /\ cache.ir = "APACC" /\ r.a = Main(op, m).a
      BY <1>3, <1>6, <1>7, <2>3 DEF Instruction
    <3>2. Repeating(op, m, Now, data)
      BY <1>4, <2>3 DEF Stage
    <3>3. Now.bank = 1
      BY <3>1, <3>2 DEF Repeating, So, Ready, Bank
    <3>4. r.a \in {0, 4, 8, 12}
      <4>1. r.a = 4 * (Frontier(op)[m - 1] % 4) /\ Frontier(op)[m - 1] \in Nat
        BY <1>6, <3>1, WordKinds, Spots
      <4>. DEFINE x == Frontier(op)[m - 1]
      <4>. HIDE DEF x
      <4>. QED BY <4>1 DEF x
    <3>. QED BY <1>3, <1>9, <2>3, <3>1, <3>3, <3>4 DEF Asks, Mild, Pointing
  <2>. QED BY <1>6, <2>1, <2>2, <2>3
<1>. QED BY <1>3, <1>5, <1>8, <1>10 DEF Scans, r

LEMMA RespAsks ==
  ASSUME Asking, Resp
  PROVE  \E req, to, ack, d : Scans(req, to, ack, d) /\ Asks(req) /\ LeadsOn(ack, d)
<1>0. Serves /\ chain.linked /\ ~clearing
  BY DEF Asking
<1>1. /\ Placed /\ Fits /\ i \in 0..(Retries - 1) /\ \E m, j : AtGroup(m, j)
  BY <1>0, ServesFacts
<1>2. PICK m, j : AtGroup(m, j)
  BY <1>1
<1>3. pc = "resp" /\ pc \in DRPcs /\ "RTI" \in Ends /\ cache.ir = Instruction
  BY <1>0 DEF Resp, DRPcs, Ends, Serves, Work, Instructions
<1>. DEFINE r == Dummy
<1>5. PICK ack \in Acks, d \in Word :
       /\ ScanDR(r, "RTI", ack, d)
       /\ call.rnw => data' = SubSeq(data, 1, call.v) \o <<d>>
       /\ ~call.rnw => data' = data
       /\ ack = "BAD" => Return("failure")
       /\ ack = "WAIT" => Again("cmd", Goto("csrIR"))
       /\ ack = "OK" => Goto("csrIR")
  BY RespIs
<1>6. Pos = 1 => cache.ir = "DPACC"
  <2>1. /\ m \in 1..Groups(op) /\ j \in 1..4 /\ Pos = 4 * (m - 1) + j
        /\ j = 1 => call = SelectBank(0)
    BY <1>1, <1>2, GroupIs
  <2>2. Pos = 1 => j = 1
    <3>1. m \in Nat \ {0} /\ j \in {1, 2, 3, 4}
      BY <2>1
    <3>. HIDE DEF Pos
    <3>. QED BY <2>1, <3>1
  <2>. QED BY <1>3, <2>1, <2>2 DEF SelectBank, Transfer, Instruction
<1>7. Asks(r)
  BY <1>3, <1>6, DummyAsks DEF Pointing
<1>8. LeadsOn(ack, d)
  BY <1>5 DEF Return, Again, Goto, LeadsOn, SessionPcs, Acks
<1>. HIDE DEF r
<1>. QED BY <1>3, <1>5, <1>7, <1>8 DEF Scans

\* Those of a block's pipeline.
LEMMA PipeAsks ==
  ASSUME Asking, First \/ Get \/ Put \/ Final
  PROVE  \E req, to, ack, d : Scans(req, to, ack, d) /\ Asks(req) /\ LeadsOn(ack, d)
<1>0. Serves /\ chain.linked /\ ~clearing /\ pc \in {"first", "get", "put", "final"}
  BY DEF Asking, First, Get, Put, Final
<1>1. PICK m : /\ AtGroup(m, 4) /\ call = Main(op, m) /\ m \in 1..Groups(op)
               /\ pc \in {"first", "get"} => GetKind(op, m)
               /\ pc \in {"put", "final"} => PutKind(op, m)
               /\ cache.ir = "APACC" /\ pc \in DRPcs
  BY <1>0, PipeServes
<1>2. Pos # 1 /\ Pos # 2
  <2>1. m \in Nat \ {0} /\ Pos = 4 * (m - 1) + 4
    BY <1>1 DEF AtGroup
  <2>. HIDE DEF Pos
  <2>. QED BY <2>1
<1>3. "RTI" \in Ends /\ "Pause" \in Ends
  BY DEF Ends
<1>4. Asks(Dummy)
  BY <1>0, <1>2, DummyAsks DEF Pointing
<1>5. ASSUME NEW r, r.a = 12 PROVE Asks(r)
  BY <1>0, <1>1, <1>2, <1>5 DEF Asks, Mild, Pointing
<1>6. /\ \A ack, p : ack # "OK" /\ p \in SessionPcs \ {"csrResp"} /\ Again(p, Return("failure")) => \A d : LeadsOn(ack, d)
      /\ \A ack : ack # "OK" /\ Return("failure") => \A d : LeadsOn(ack, d)
      /\ \A ack, p : p \in SessionPcs \ {"csrResp"} /\ Goto(p) => \A d : LeadsOn(ack, d)
      /\ \A ack, q, p : q \in SessionPcs \ {"csrResp"} /\ p \in SessionPcs \ {"csrResp"} /\ NextWord(q, p) => \A d : LeadsOn(ack, d)
  BY DEF Again, Return, Goto, NextWord, LeadsOn
<1>7. CASE First
  <2>. DEFINE r == Request
  <2>1. PICK ack \in Acks, d \in Word :
        /\ ScanDR(r, "RTI", ack, d)
        /\ CASE ack = "BAD"  -> Return("failure")
             [] ack = "WAIT" -> Again("first", Return("failure"))
             [] ack = "OK"   -> Goto("get")
    BY ZenonT(30), <1>7 DEF First
  <2>2. r.a = 12
    BY <1>1, <1>7, RequestIsCall DEF First, GetKind, InPage
  <2>. HIDE DEF r
  <2>3. LeadsOn(ack, d)
    BY <1>6, <2>1 DEF Acks, SessionPcs
  <2>. QED BY <1>1, <1>3, <1>5, <2>1, <2>2, <2>3 DEF Scans
<1>8. CASE Get
  <2>. DEFINE r == Dummy
  <2>1. PICK ack \in Acks, d \in Word :
        /\ ScanDR(r, "Pause", ack, d)
        /\ CASE ack = "BAD"  -> Return("failure")
             [] ack = "WAIT" -> Again("get", Return("failure"))
             [] ack = "OK"   -> NextWord("get", "csrIR")
    BY ZenonT(30), <1>8 DEF Get
  <2>2. LeadsOn(ack, d)
    BY <1>6, <2>1 DEF Acks, SessionPcs
  <2>. HIDE DEF r
  <2>. QED BY <1>1, <1>3, <1>4, <2>1, <2>2 DEF Scans, r
<1>9. CASE Put
  <2>. DEFINE r == [Request EXCEPT !.v = call.vals[n]]
  <2>1. PICK ack \in Acks, d \in Word :
        /\ ScanDR(r, "RTI", ack, d)
        /\ CASE ack = "BAD"  -> Return("failure")
             [] ack = "WAIT" -> Again("put", Return("failure"))
             [] ack = "OK"   -> NextWord("put", "final")
    BY ZenonT(30), <1>9 DEF Put
  <2>2. r.a = 12
    <3>1. r.a = call.a
      BY DEF Request
    <3>. HIDE DEF r
    <3>. QED BY <1>1, <1>9, <3>1 DEF Put, PutKind, InPage
  <2>. HIDE DEF r
  <2>3. LeadsOn(ack, d)
    BY <1>6, <2>1 DEF Acks, SessionPcs
  <2>. QED BY <1>1, <1>3, <1>5, <2>1, <2>2, <2>3 DEF Scans
<1>10. CASE Final
  <2>. DEFINE r == Dummy
  <2>1. PICK ack \in Acks, d \in Word :
        /\ ScanDR(r, "RTI", ack, d)
        /\ IF ack = "BAD" THEN Return("failure") ELSE Goto("csrIR")
    BY ZenonT(30), <1>10 DEF Final
  <2>2. LeadsOn(ack, d)
    BY <1>6, <2>1 DEF SessionPcs
  <2>. HIDE DEF r
  <2>. QED BY <1>1, <1>3, <1>4, <2>1, <2>2 DEF Scans, r
<1>. QED BY <1>7, <1>8, <1>9, <1>10

\* Those of the status.
LEMMA StatusAsks ==
  ASSUME Asking, Csr \/ CsrResp
  PROVE  \E req, to, ack, d : Scans(req, to, ack, d) /\ Asks(req) /\ LeadsOn(ack, d)
<1>0. pc \in {"csr", "csrResp"} /\ "RTI" \in Ends /\ pc \in DRPcs /\ cache.ir = "DPACC" /\ Serves /\ ~clearing
  BY DEF Csr, CsrResp, Ends, DRPcs, Asking, Serves, Work, Instructions
<1>1. CASE Csr
  <2>. DEFINE r == [rnw |-> TRUE, a |-> 4, v |-> 0]
  <2>1. PICK ack \in Acks, d \in Word : ScanDR(r, "RTI", ack, d)
    BY <1>1 DEF Csr
  <2>2. pc = "csr" /\ pc' = "csrResp" /\ UNCHANGED <<calls, clearing>>
    BY <1>1 DEF Csr, callVars
  <2>3. r.rnw /\ r.a = 4
    OBVIOUS
  <2>. HIDE DEF r
  <2>4. Asks(r)
    BY <1>0, <2>2, <2>3 DEF Asks, Mild, Pointing
  <2>5. LeadsOn(ack, d)
    BY <2>2 DEF LeadsOn, SessionPcs
  <2>. QED BY <1>0, <2>1, <2>4, <2>5 DEF Scans
<1>2. CASE CsrResp
  <2>. DEFINE r == Dummy
  <2>1. PICK ack \in Acks, d \in Word :
        /\ ScanDR(r, "RTI", ack, d)
        /\ IF ack = "BAD" /\ call.t = "csr" THEN Return("failure")
           ELSE IF ack = "WAIT" THEN Again("csr", Checked(d)) ELSE Checked(d)
    BY ZenonT(30), <1>2 DEF CsrResp
  <2>2. pc = "csrResp"
    BY <1>2 DEF CsrResp
  <2>3. Asks(r)
    BY <1>0, <2>2, DummyAsks DEF Pointing
  <2>4. call.t # "csr"
    <3>1. Placed /\ \E m, j : AtGroup(m, j)
      BY <1>0, ServesFacts
    <3>. QED BY <3>1, GroupIs
  <2>5. Checked(d) => LeadsOn(ack, d)
    BY <1>0, <2>2, <2>4 DEF Checked, LeadsOn
  <2>6. LeadsOn(ack, d)
    <3>1. CASE ack = "WAIT" /\ i + 1 < Retries
      BY <2>1, <3>1 DEF Again, LeadsOn, SessionPcs
    <3>2. CASE ~(ack = "WAIT" /\ i + 1 < Retries)
      BY <2>1, <2>4, <2>5, <3>2 DEF Again
    <3>. QED BY <3>1, <3>2
  <2>. HIDE DEF r
  <2>. QED BY <1>0, <2>1, <2>3, <2>6 DEF Scans
<1>. QED BY <1>1, <1>2

-----------------------------------------------------------------------------
(* The steps of a request that is served.                                  *)

LEMMA GroundsFrom ==
  ASSUME Serves, Grounded, Now'.mapped = Now.mapped, Now'.power => chain'.linked, Now'.sticky => Quiet(Now'),
         pc' = "idle" => Resting', pc' # "idle" => Working'
  PROVE  Grounded'
<1>1. conn' = "on"
  BY ServesFacts
<1>. QED BY <1>1 DEF Grounded, SessionPcs

LEMMA StillInnocent ==
  ASSUME Serves, Now'.mapped = Now.mapped
  PROVE  Innocent' <=> Innocent
<1>1. UNCHANGED <<op, before>>
  BY ServesFacts
<1>. QED BY <1>1 DEF Innocent

\* What the words that are asked for have to do with what is pending.
LEMMA InnocentIsThere ==
  ASSUME Innocent, Working, ~clearing, ~Quiet(Now)
  PROVE  Now.pending[1].addr \in Now.mapped
<1>1. PICK o \in {op} \cup before : Given(o, Now, Now.pending[1].addr)
  BY DEF Working
<1>. QED BY <1>1 DEF Innocent, Given

\* What an answered scan, or one that found the port busy, leaves.
LEMMA ScanKeeps ==
  ASSUME WholePages, Serves, Grounded, chain.linked, ~clearing,
         NEW req, NEW to, NEW ack, NEW d, Scans(req, to, ack, d), Asks(req)
  PROVE  /\ chain'.linked /\ Now'.mapped = Now.mapped /\ Now'.power = Now.power /\ (Now'.sticky => Quiet(Now'))
         /\ Quiet(Now') \/ Given(op, Now', Now'.pending[1].addr)
         /\ Pos = 1 \/ Now'.sticky \/ Given(op, Now', Now'.tar)
         /\ ~excused' /\ Innocent => ~excused /\ ~Now'.sticky /\ (pc = "csr" => Now'.data = 0)
         /\ Quiet(Now) => ack = "OK" /\ d = Now.data /\ (Now'.sticky <=> Now.sticky)
         /\ Quiet(Now) /\ cache.ir = "DPACC" => Quiet(Now')
         /\ ack # "OK" => Now' = Now /\ excused' /\ ~Quiet(Now)
<1>1. HwOK(Now) /\ pc \in DRPcs /\ to \in Ends /\ ScanDR(req, to, ack, d)
  BY ServesFacts DEF Scans
<1>2. Working /\ Now.mapped \in Mappings /\ (Now.sticky => Quiet(Now))
  BY DEF Grounded, Serves
<1>3. chain'.linked /\ ((ack = "OK" /\ Ran(req, d)) \/ (ack = "WAIT" /\ Busy(d)))
  BY <1>1, LiveScan DEF Serves, Reliable
<1>4. CASE ack = "OK" /\ Ran(req, d)
  <2>1. PICK c : Outcome(Now, c) /\ Sound(Now, c) /\ d = c.data /\ Now' = Start(c, cache.ir, req)
    BY <1>4 DEF Ran
  <2>2. UNCHANGED <<excused, unnoticed>>
    BY <1>4 DEF Ran
  <2>. DEFINE selects == (Pos = 1)  points == Pointing  ir == cache.ir  h == Now
  <2>3. Aims(op, selects, points, h, ir, req)
    BY <1>2 DEF Aims, Asks, Working, Pointing
  <2>6. HwOK(h) /\ h.mapped \in Mappings /\ Outcome(h, c) /\ Sound(h, c)
    BY <1>1, <1>2, <2>1
  <2>7. ~excused' /\ Innocent => h.power /\ ~h.sticky /\ (Quiet(h) \/ h.pending[1].addr \in h.mapped)
    BY <1>2, <2>2, InnocentIsThere DEF Working
  <2>8. pc = "csr" => ir = "DPACC" /\ req.rnw /\ req.a = 4
    BY DEF Asks
  <2>. HIDE DEF selects, points, ir, h
  <2>. DEFINE g == Start(c, ir, req)
  <2>9. Stays(op, selects, h, ir, req, g)
    BY <2>3, <2>6, StaysNear
  <2>10. Now' = g /\ (Quiet(h) => d = h.data)
    BY <2>1 DEF ir, h, Outcome
  <2>. HIDE DEF g
  <2>11. chain'.linked /\ ack = "OK" /\ Now'.mapped = h.mapped /\ Now'.power = h.power /\ (Now'.sticky => Quiet(Now'))
    BY <1>3, <1>4, <2>9, <2>10 DEF Stays
  <2>12. /\ Quiet(Now') \/ Given(op, Now', Now'.pending[1].addr)
         /\ selects \/ Now'.sticky \/ Given(op, Now', Now'.tar)
    BY <2>9, <2>10 DEF Stays
  <2>13. ~excused' /\ Innocent => ~excused /\ ~Now'.sticky /\ (pc = "csr" => Now'.data = 0)
    BY <2>2, <2>7, <2>8, <2>9, <2>10 DEF Stays
  <2>14. Quiet(h) => d = h.data /\ (Now'.sticky <=> h.sticky) /\ (ir = "DPACC" => Quiet(Now'))
    BY <2>9, <2>10 DEF Stays
  <2>. QED BY <2>11, <2>12, <2>13, <2>14 DEF h, selects, ir
<1>5. CASE ack = "WAIT" /\ Busy(d)
  <2>1. ~Quiet(Now) /\ Now' = Now /\ excused' /\ pc \notin {"ir", "cmd", "csr"}
    BY <1>1, <1>5 DEF Busy, Overlooked, Serves, Reliable, DRPcs
  <2>. QED BY <1>2, <1>3, <1>5, <2>1 DEF Working, Selecting, Pointing
<1>. QED BY <1>3, <1>4, <1>5

\* The next transfer, if there is one, begins with its instruction.
LEMMA NextBegins ==
  ASSUME Serves, ~clearing, NextTransfer
  PROVE  \/ pc' = "idle" /\ result' = "success"
         \/ pc' = "ir" /\ Pos' = Pos + 1 /\ ~clearing'
<1>1. Placed /\ op' = op /\ op.t # "init"
  BY ServesFacts
<1>2. CASE Len(calls) = 1
  BY <1>2 DEF NextTransfer, Return
<1>3. CASE Len(calls) # 1
  <2>1. /\ calls' = Tail(calls) /\ pc' = (IF calls'[1].t = "csr" THEN "csrIR" ELSE "ir") /\ clearing' = clearing
    BY <1>3 DEF NextTransfer
  <2>2. Placed' /\ Pos' = Pos + 1
    BY <1>1, <1>3, <2>1, NextPlaced
  <2>3. ~clearing' /\ op'.t # "init"
    BY <1>1, <2>1
  <2>4. \E m \in 1..Groups(op'), j \in 1..4 : Pos' = 4 * (m - 1) + j /\ call' = TransfersOf(op')[4 * (m - 1) + j]
    <3>1. (Placed /\ ~clearing /\ op.t # "init" => \E m \in 1..Groups(op), j \in 1..4 : Pos = 4 * (m - 1) + j /\ call = TransfersOf(op)[4 * (m - 1) + j])'
      BY CallInGroup, PTL
    <3>. QED BY <2>2, <2>3, <3>1
  <2>5. call'.t # "csr"
    <3>1. op' \in Requests
      BY <1>1 DEF Placed
    <3>. QED BY <2>4, <3>1, PlaceIs
  <2>. QED BY <2>1, <2>2, <2>3, <2>5 DEF call
<1>. QED BY <1>2, <1>3

LEMMA ScanGrounds ==
  ASSUME WholePages, Serves, Grounded, chain.linked, ~clearing,
         NEW req, NEW to, NEW ack, NEW d, Scans(req, to, ack, d), Asks(req), LeadsOn(ack, d)
  PROVE  Grounded'
<1>1. /\ Placed /\ HwOK(Now) /\ op' = op /\ before' = before
      /\ \A m, j : AtGroup(m, j) => Stage(op, m, j, pc, n, Now, data, before)
      /\ \E m, j : AtGroup(m, j)
  BY ServesFacts
<1>2. Working /\ (Now.sticky => Quiet(Now))
  BY DEF Grounded, Serves
<1>3. /\ chain'.linked /\ Now'.mapped = Now.mapped /\ Now'.power = Now.power /\ (Now'.sticky => Quiet(Now'))
      /\ Quiet(Now') \/ Given(op, Now', Now'.pending[1].addr)
      /\ Pos = 1 \/ Now'.sticky \/ Given(op, Now', Now'.tar)
      /\ ~excused' /\ Innocent => ~excused /\ ~Now'.sticky /\ (pc = "csr" => Now'.data = 0)
      /\ Quiet(Now) => ack = "OK" /\ d = Now.data /\ (Now'.sticky <=> Now.sticky)
      /\ Quiet(Now) /\ cache.ir = "DPACC" => Quiet(Now')
      /\ ack # "OK" => Now' = Now /\ excused' /\ ~Quiet(Now)
  BY ScanKeeps
<1>4. Innocent' <=> Innocent
  BY <1>3, StillInnocent
<1>5. ASSUME pc' = "idle" => Resting', pc' # "idle" => Working' PROVE Grounded'
  BY <1>3, <1>5, GroundsFrom
<1>6. pc = "csrResp" => Quiet(Now) /\ (Now.data = 0 => ~Now.sticky)
  BY <1>1 DEF Stage, Judged
<1>7. CASE pc' \in SessionPcs /\ UNCHANGED <<calls, clearing>> /\ (pc' = "csrResp" => pc = "csr")
  <2>1. Pos' = Pos /\ ~clearing' /\ pc' # "idle"
    BY <1>1, <1>7, StayPlaced DEF SessionPcs
  <2>2. Working'
    BY <1>1, <1>2, <1>3, <1>4, <1>7, <2>1 DEF Working
  <2>. QED BY <1>5, <2>1, <2>2
<1>8. CASE pc' = "idle" /\ result' = "failure" /\ ack # "OK"
  <2>1. Resting'
    <3>1. IsAccess(op)
      BY <1>1, ServesFacts, IsAnAccess DEF AtGroup, Placed
    <3>2. HasFailed' /\ ~Now'.sticky
      BY <1>1, <1>2, <1>3, <1>8, <3>1 DEF HasFailed
    <3>. QED BY <1>1, <1>3, <1>8, <3>2 DEF Resting
  <2>. QED BY <1>5, <1>8, <2>1
<1>9. CASE pc = "csrResp" /\ d # 1 /\ NextTransfer
  <2>1. ~Now'.sticky /\ (Quiet(Now') \/ Given(op, Now', Now'.pending[1].addr))
    <3>1. d \in Word
      BY DEF Scans
    <3>. QED BY <1>3, <1>6, <1>9, <3>1 DEF Word
  <2>2. CASE pc' = "idle" /\ result' = "success"
    <3>1. ~HasFailed'
      BY <2>2 DEF HasFailed
    <3>2. Quiet(Now')
      BY <1>3, <1>6, <1>9 DEF Serves, Work, Instructions
    <3>3. Resting'
      BY <2>1, <3>1, <3>2 DEF Resting
    <3>. QED BY <1>5, <2>2, <3>3
  <2>3. CASE pc' = "ir" /\ Pos' = Pos + 1 /\ ~clearing'
    <3>1. Pos = 1 => Pointing'
      BY <2>3 DEF Pointing
    <3>2. Working'
      BY <1>1, <1>2, <1>3, <1>4, <2>1, <2>3, <3>1 DEF Working
    <3>. QED BY <1>5, <2>3, <3>2
  <2>. QED BY <1>9, <2>2, <2>3, NextBegins
<1>10. CASE pc = "csrResp" /\ d = 1 /\ clearing' /\ pc' = "ir"
  <2>1. ~(~excused' /\ Innocent)
    BY <1>2, <1>3, <1>6, <1>10 DEF Working
  <2>2. Working'
    BY <1>4, <1>10, <2>1 DEF Working
  <2>. QED BY <1>5, <1>10, <2>2
<1>. QED BY <1>7, <1>8, <1>9, <1>10 DEF LeadsOn

-----------------------------------------------------------------------------
(* The other steps of a session.                                           *)

\* The first two transfers of a request, and that of the status, are single ones.
LEMMA EarlyCall ==
  ASSUME Serves, clearing \/ Pos \in {1, 2}
  PROVE  call.t = "acc"
<1>1. Placed /\ (~clearing => \E m, j : AtGroup(m, j))
  BY ServesFacts
<1>2. CASE clearing
  BY <1>1, <1>2, ClearCall
<1>3. CASE ~clearing /\ Pos \in {1, 2}
  <2>1. PICK m, j : AtGroup(m, j)
    BY <1>1, <1>3
  <2>2. m \in Nat \ {0} /\ j \in {1, 2, 3, 4} /\ Pos = 4 * (m - 1) + j
    BY <2>1 DEF AtGroup
  <2>3. j < 4
    <3>. HIDE DEF Pos
    <3>. QED BY <1>3, <2>2
  <2>. QED BY <1>1, <2>1, <2>3, GroupCall
<1>. QED BY <1>2, <1>3

LEMMA ShiftGrounds ==
  ASSUME Serves, Grounded, TransferIR \/ CsrIR
  PROVE  Grounded'
<1>1. Placed /\ op' = op /\ before' = before
  BY ServesFacts
<1>2. PICK from, ir, to : ShiftIR(from, ir, to)
  BY DEF TransferIR, CsrIR
<1>3. UNCHANGED <<clearing, calls, excused, unnoticed>>
  BY <1>2 DEF ShiftIR, callVars, waitVars
<1>4. Now' = Now /\ chain'.linked = chain.linked
  BY <1>2, ShiftNow
<1>5. Pos' = Pos
  BY <1>1, <1>3, StayPlaced
<1>6. Working /\ (Now.power => chain.linked) /\ (Now.sticky => Quiet(Now))
  BY DEF Grounded, Serves
<1>7. \/ pc = "csrIR" /\ pc' = "csr"
      \/ pc = "ir" /\ pc' \in {"first", "put", "cmd"} /\ (clearing \/ Pos \in {1, 2} => pc' = "cmd")
  BY EarlyCall DEF TransferIR, CsrIR, ShiftIR, AfterIR
<1>8. Innocent' <=> Innocent
  BY <1>4, StillInnocent
<1>9. (Selecting => Selecting') /\ (Pointing => Pointing')
  BY <1>5, <1>7 DEF Selecting, Pointing
<1>10. Working'
  BY <1>1, <1>3, <1>4, <1>5, <1>6, <1>7, <1>8, <1>9 DEF Working
<1>. QED BY <1>4, <1>6, <1>7, <1>10, GroundsFrom

\* While the status is cleared the port has nothing pending, and then no power.
LEMMA ClearScan ==
  ASSUME Serves, Grounded, chain.linked, clearing, cache.ir = "DPACC", pc \in DRPcs,
         NEW r, r.rnw \/ r.a # 4 \/ r.v = "clear", pc # "cmd" => r.rnw \/ r.a # 4, pc = "cmd" => ~r.rnw /\ r.a = 4,
         NEW to \in Ends, NEW ack, NEW d, ScanDR(r, to, ack, d), clearing' \/ pc' = "idle"
  PROVE  Grounded'
<1>1. Quiet(Now) /\ HwOK(Now) /\ Working /\ (Now.power => chain.linked)
  BY ServesFacts DEF Serves, Serving, Grounded
<1>2. chain'.linked /\ ack = "OK" /\ Ran(r, d)
  BY <1>1, SureScan DEF Serves
<1>3. PICK c : Outcome(Now, c) /\ Now' = Start(c, "DPACC", r)
  BY <1>2 DEF Ran
<1>4. c = Now /\ excused' = excused
  BY <1>1, <1>2, <1>3 DEF Outcome, Ran
<1>5. Quiet(Now') /\ Now'.mapped = Now.mapped /\ ~Now'.power
  <2>. DEFINE h == Now
  <2>1. HwOK(h) /\ Quiet(h) /\ Now' = Start(h, "DPACC", r) /\ (pc # "cmd" => ~h.power)
    BY <1>1, <1>3, <1>4 DEF Working, DRPcs
  <2>. HIDE DEF h
  <2>2. CASE pc = "cmd"
    BY <2>1, <2>2, ClearDP DEF h
  <2>3. CASE pc # "cmd"
    BY <2>1, <2>3, MildDP DEF h
  <2>. QED BY <2>2, <2>3
<1>6. ~(~excused' /\ Innocent')
  BY <1>1, <1>4, <1>5, StillInnocent DEF Working
<1>7. clearing' => Working'
  BY <1>5, <1>6 DEF Working
<1>8. Resting'
  BY <1>5, <1>6 DEF Resting
<1>. QED BY <1>2, <1>5, <1>7, <1>8, GroundsFrom

LEMMA ClearGrounds ==
  ASSUME Serves, Grounded, chain.linked, clearing, Cmd \/ Resp \/ Csr \/ CsrResp
  PROVE  Grounded'
<1>0. "RTI" \in Ends
  BY DEF Ends
<1>1. /\ call.t = "acc" /\ call.check /\ Instruction = "DPACC"
      /\ Request.a = 4 /\ ~Request.rnw /\ Request.v = "clear"
  BY ServesFacts, ClearCall, RequestIsCall DEF Instruction
<1>2. CASE Cmd
  <2>1. PICK ack \in Acks, d \in Word : ScanDR(Request, "RTI", ack, d)
            /\ IF call.check THEN pc' = "resp" /\ UNCHANGED <<i, n, calls, clearing, result, conn>>
               ELSE Again("cmd", Goto("csrIR"))
    BY <1>2 DEF Cmd
  <2>2. pc = "cmd" /\ cache.ir = "DPACC" /\ pc \in DRPcs /\ clearing'
    BY <1>1, <1>2, <2>1 DEF Cmd, Serves, Work, Instructions, DRPcs
  <2>. QED BY <1>0, <1>1, <2>1, <2>2, ClearScan
<1>3. CASE Resp
  <2>. DEFINE r == Dummy
  <2>1. PICK ack \in Acks, d \in Word :
       /\ ScanDR(r, "RTI", ack, d)
       /\ call.rnw => data' = SubSeq(data, 1, call.v) \o <<d>>
       /\ ~call.rnw => data' = data
       /\ ack = "BAD" => Return("failure")
       /\ ack = "WAIT" => Again("cmd", Goto("csrIR"))
       /\ ack = "OK" => Goto("csrIR")
    BY <1>3, RespIs
  <2>2. pc = "resp" /\ cache.ir = "DPACC" /\ r.a = 12 /\ pc \in DRPcs
    BY <1>1, <1>3 DEF Resp, Serves, Work, Instructions, Dummy, DRPcs
  <2>3. clearing' \/ pc' = "idle"
    BY <2>1 DEF Return, Again, Goto, Acks
  <2>. HIDE DEF r
  <2>4. ScanDR(r, "RTI", ack, d)
    BY <2>1
  <2>. QED BY <1>0, <2>2, <2>3, <2>4, ClearScan
<1>4. CASE Csr
  <2>. DEFINE r == [rnw |-> TRUE, a |-> 4, v |-> 0]
  <2>1. PICK ack \in Acks, d \in Word : ScanDR(r, "RTI", ack, d)
    BY <1>4 DEF Csr
  <2>2. pc = "csr" /\ cache.ir = "DPACC" /\ r.rnw /\ clearing' /\ pc \in DRPcs
    BY <1>4 DEF Csr, Serves, Work, Instructions, callVars, DRPcs
  <2>. HIDE DEF r
  <2>. QED BY <1>0, <2>1, <2>2, ClearScan
<1>5. CASE CsrResp
  <2>. DEFINE r == Dummy
  <2>1. PICK ack \in Acks, d \in Word : ScanDR(r, "RTI", ack, d)
            /\ IF ack = "BAD" /\ call.t = "csr" THEN Return("failure")
               ELSE IF ack = "WAIT" THEN Again("csr", Checked(d))
               ELSE Checked(d)
    BY ZenonT(30), <1>5 DEF CsrResp
  <2>2. pc = "csrResp" /\ cache.ir = "DPACC" /\ r.a = 12 /\ pc \in DRPcs
    BY <1>5 DEF CsrResp, Serves, Work, Instructions, Dummy, DRPcs
  <2>3. Checked(d) => clearing' \/ pc' = "idle"
    BY DEF Checked, Return
  <2>4. clearing' \/ pc' = "idle"
    BY <1>1, <2>1, <2>3 DEF Again
  <2>. HIDE DEF r
  <2>. QED BY <1>0, <2>1, <2>2, <2>4, ClearScan
<1>. QED BY <1>2, <1>3, <1>4, <1>5

\* Without a port.
LEMMA SilentGrounds ==
  ASSUME Serves, Grounded, ~chain.linked, Cmd \/ Resp
  PROVE  Grounded'
<1>1. Quiet(Now) /\ ~clearing /\ Pos = 1
  BY DEF Serves, Serving, Cmd, Resp
<1>2. Placed /\ op' = op /\ before' = before /\ call.t = "acc"
  BY <1>1, ServesFacts, EarlyCall
<1>3. ~Now.power /\ Working
  BY DEF Grounded, Serves
<1>4. call.check
  <2>1. \E m, j : AtGroup(m, j)
    BY <1>1, ServesFacts
  <2>2. PICK m, j : AtGroup(m, j)
    BY <2>1
  <2>3. m \in Nat \ {0} /\ j \in {1, 2, 3, 4} /\ Pos = 4 * (m - 1) + j
    BY <2>2 DEF AtGroup
  <2>4. j # 2
    <3>. HIDE DEF Pos
    <3>. QED BY <1>1, <2>3
  <2>. QED BY <1>2, <2>2, <2>3, <2>4, GroupCall
<1>5. ASSUME ~chain'.linked, Now' = Now, UNCHANGED <<calls, clearing, excused, unnoticed>>,
             pc' = "resp" \/ (pc' = "idle" /\ result' = "failure")
      PROVE  Grounded'
  <2>1. Pos' = 1
    BY <1>1, <1>2, <1>5, StayPlaced
  <2>2. ~(~excused' /\ Innocent')
    BY <1>3, <1>5, StillInnocent DEF Working
  <2>3. pc' = "resp" => Working'
    BY <1>1, <1>5, <2>1, <2>2 DEF Working
  <2>4. Resting'
    BY <1>1, <1>3, <1>5, <2>2 DEF Resting
  <2>. QED BY <1>1, <1>3, <1>5, <2>3, <2>4, GroundsFrom
<1>6. ASSUME NEW r, NEW ack, NEW d, ScanDR(r, "RTI", ack, d), pc \in {"cmd", "resp"}
      PROVE  ~chain'.linked /\ Now' = Now /\ ack = "BAD" /\ UNCHANGED <<excused, unnoticed>>
  <2>1. pc \in DRPcs /\ "RTI" \in Ends
    BY <1>6 DEF DRPcs, Ends
  <2>. QED BY <1>6, <2>1, LiveScan DEF Serves, Reliable
<1>7. CASE Cmd
  <2>1. PICK ack \in Acks, d \in Word : ScanDR(Request, "RTI", ack, d)
            /\ IF call.check THEN pc' = "resp" /\ UNCHANGED <<i, n, calls, clearing, result, conn>>
               ELSE Again("cmd", Goto("csrIR"))
    BY <1>7 DEF Cmd
  <2>2. ~chain'.linked /\ Now' = Now /\ UNCHANGED <<excused, unnoticed>>
    BY <1>6, <1>7, <2>1 DEF Cmd
  <2>. QED BY <1>4, <1>5, <2>1, <2>2
<1>8. CASE Resp
  <2>. DEFINE r == Dummy
  <2>1. PICK ack \in Acks, d \in Word :
       /\ ScanDR(r, "RTI", ack, d)
       /\ call.rnw => data' = SubSeq(data, 1, call.v) \o <<d>>
       /\ ~call.rnw => data' = data
       /\ ack = "BAD" => Return("failure")
       /\ ack = "WAIT" => Again("cmd", Goto("csrIR"))
       /\ ack = "OK" => Goto("csrIR")
    BY <1>8, RespIs
  <2>. HIDE DEF r
  <2>2. pc = "resp"
    BY <1>8 DEF Resp
  <2>3. ~chain'.linked /\ Now' = Now /\ ack = "BAD" /\ UNCHANGED <<excused, unnoticed>>
    BY <1>6, <2>1, <2>2
  <2>4. pc' = "idle" /\ result' = "failure" /\ UNCHANGED <<calls, clearing>>
    BY <2>1, <2>3 DEF Return
  <2>. QED BY <1>5, <2>3, <2>4
<1>. QED BY <1>7, <1>8

LEMMA SessionGrounds ==
  ASSUME WholePages, Serves, Grounded
  PROVE  Grounded'
<1>1. CASE TransferIR \/ CsrIR
  BY <1>1, ShiftGrounds
<1>2. CASE ~chain.linked
  <2>1. pc \in {"ir", "cmd", "resp"}
    BY <1>2 DEF Serves, Serving
  <2>2. ~First /\ ~Get /\ ~Put /\ ~Final /\ ~CsrIR /\ ~Csr /\ ~CsrResp
    BY <2>1 DEF First, Get, Put, Final, CsrIR, Csr, CsrResp, ShiftIR
  <2>. QED BY <1>1, <1>2, <2>2, SilentGrounds DEF Serves, Session
<1>3. CASE chain.linked /\ clearing
  <2>1. ~First /\ ~Get /\ ~Put /\ ~Final
    BY <1>3, EarlyCall, ServesFacts DEF Fits, First, Get, Put, Final
  <2>. QED BY <1>1, <1>3, <2>1, ClearGrounds DEF Serves, Session
<1>4. CASE chain.linked /\ ~clearing
  <2>1. Asking
    BY <1>4 DEF Asking, Grounded
  <2>2. CASE Cmd \/ Resp \/ First \/ Get \/ Put \/ Final \/ Csr \/ CsrResp
    <3>1. \E req, to, ack, d : Scans(req, to, ack, d) /\ Asks(req) /\ LeadsOn(ack, d)
      BY <2>1, <2>2, CmdAsks, RespAsks, PipeAsks, StatusAsks
    <3>. QED BY <1>4, <3>1, ScanGrounds
  <2>. QED BY <1>1, <2>2 DEF Serves, Session
<1>. QED BY <1>2, <1>3, <1>4

\* A request begins.
LEMMA AccessGrounds ==
  ASSUME Work, Grounded, conn = "on", pc = "idle", NEW o \in Requests, Access_(o)
  PROVE  Grounded'
<1>1. /\ pc' = "ir" /\ op' = o /\ ~clearing' /\ calls' = TransfersOf(o) /\ UNCHANGED <<hw, chain, conn>>
      /\ before' = (IF HasFailed THEN {op} ELSE {}) /\ excused' = ~hw.power
  BY DEF Access_, Ask, pinVars, HasFailed
<1>2. Now' = Now /\ Now = hw
  <2>1. ~HoldsDR
    BY DEF Work, Instructions
  <2>. QED BY <1>1, <2>1, NowFacts DEF Now, Work
<1>3. Pos' = 1 /\ Selecting'
  BY <1>1, FirstPlace DEF Selecting
<1>4. Resting
  BY DEF Grounded
<1>5. HasFailed => op \in before'
  BY <1>1
<1>6. ~excused' => Now'.power /\ ~Now'.sticky
  BY <1>1, <1>2, <1>4 DEF Resting
<1>7. Working'
  BY <1>1, <1>2, <1>3, <1>4, <1>5, <1>6 DEF Working, Resting
<1>. QED BY <1>1, <1>2, <1>7 DEF Grounded

-----------------------------------------------------------------------------
(* The steps on the way to a connection.                                   *)

LEMMA RouterNow ==
  ASSUME Router
  PROVE  Now' = Now /\ (chain.linked => chain'.linked) /\ op' = op /\ conn' \in {conn, "off"}
<1>1. /\ Detect => \E tap, to : Icepick("detect", "ICEPICKCODE", tap, to)
      /\ Connected => \E tap : Icepick("connect", "CONNECT", tap, "configure")
      /\ Configure => \E tap : Icepick("configure", "BYPASS", tap, "warm")
      /\ WarmReset => \E tap, to : Icepick("warm", "ROUTER", tap, to)
  BY DEF Detect, Connected, Configure, WarmReset
<1>2. op' = op /\ conn' \in {conn, "off"}
  BY DEF Router, Detect, userVars
<1>. QED BY <1>1, <1>2, IcepickNow DEF Router

\* Where the port is as it was.
LEMMA CalmGrounds ==
  ASSUME Grounded, conn # "on", Now' = Now, chain.linked => chain'.linked, conn' # "on", op' = op \/ op'.t = "init"
  PROVE  Grounded'
  BY DEF Grounded, Quiet, IsAccess

\* An error leaves nothing pending, whatever is asked of the port.
LEMMA StickyQuiet ==
  ASSUME NEW c, HwOK(c), Quiet(c), NEW ir, NEW r
  PROVE  LET g == Start(c, ir, r) IN g.mapped = c.mapped /\ (g.sticky => Quiet(g))
<1>1. IsHw(c) /\ c.bank \in {0, 1, 15}
  BY DEF HwOK
<1>2. CASE ir = "DPACC"
  <2>. DEFINE g == Start(c, "DPACC", r)
  <2>1. g.mapped = c.mapped /\ Quiet(g)
    BY MildDP, ClearDP
  <2>. HIDE DEF g
  <2>. QED BY <1>2, <2>1 DEF g
<1>3. CASE ir # "DPACC"
  <2>. DEFINE g == StartAP(c, r)
  <2>1. g = c \/ (~c.sticky /\ \E fields : SameBut(c, g, fields) /\ "sticky" \notin fields)
    <3>1. /\ c.sticky => g = c
          /\ ~c.sticky /\ c.bank = 1 => SameBut(c, g, {"pending"})
          /\ ~c.sticky /\ c.bank = 0 /\ r.a = 12 => SameBut(c, g, {"pending"})
          /\ ~c.sticky /\ c.bank = 0 /\ r.a = 4 /\ ~r.rnw => SameBut(c, g, {"tar"})
          /\ ~c.sticky /\ c.bank = 0 /\ r.a = 0 /\ ~r.rnw => SameBut(c, g, {"inc"})
          /\ ~c.sticky /\ c.bank \notin {0, 1} => SameBut(c, g, {"data"})
          /\ ~c.sticky /\ c.bank = 0 /\ r.a # 12 /\ r.rnw => SameBut(c, g, {"data"})
          /\ ~c.sticky /\ c.bank = 0 /\ r.a \notin {0, 4, 12} => SameBut(c, g, {"data"})
      BY ZenonT(30), <1>1, StartAPLemma
    <3>. HIDE DEF g
    <3>2. "sticky" \notin {"data"} /\ "sticky" \notin {"pending"} /\ "sticky" \notin {"tar"} /\ "sticky" \notin {"inc"}
      OBVIOUS
    <3>3. r.a \in {0, 4, 12} \/ r.a \notin {0, 4, 12}
      OBVIOUS
    <3>. QED BY <3>1, <3>2, <3>3
  <2>2. g.mapped = c.mapped /\ (g.sticky => Quiet(g))
    <3>. HIDE DEF g
    <3>. QED BY <2>1 DEF SameBut
  <2>. QED BY <1>3, <2>2 DEF Start
<1>. QED BY <1>2, <1>3

\* A scan before there is a connection.
LEMMA ScanBefore ==
  ASSUME Before, Grounded, NEW req, NEW to, NEW ack, NEW d, ScansOf(req, to, ack, d)
  PROVE  /\ chain'.linked = chain.linked /\ Now'.mapped = Now.mapped /\ (Now'.sticky => Quiet(Now'))
         /\ ~chain.linked => Now' = Now
<1>1. HwOK(Now) /\ (Now.sticky => Quiet(Now))
  BY NowFacts DEF Before, Work, Grounded
<1>2. /\ chain'.linked = chain.linked
      /\ chain.linked => (ack = "OK" /\ Ran(req, d)) \/ (ack = "WAIT" /\ Busy(d))
      /\ ~chain.linked => ack = "BAD" /\ Now' = Now /\ UNCHANGED <<excused, unnoticed>>
  BY LiveScan DEF Before, Reliable, ScansOf
<1>3. CASE Ran(req, d)
  <2>1. PICK c : Outcome(Now, c) /\ Now' = Start(c, cache.ir, req)
    BY <1>3 DEF Ran
  <2>2. HwOK(c) /\ Quiet(c) /\ c.mapped = Now.mapped
    BY <2>1 DEF Outcome
  <2>. DEFINE g == Start(c, cache.ir, req)
  <2>3. g.mapped = c.mapped /\ (g.sticky => Quiet(g))
    BY <2>2, StickyQuiet
  <2>. HIDE DEF g
  <2>4. Now' = g
    BY <2>1 DEF g
  <2>. QED BY <1>2, <2>2, <2>3, <2>4
<1>4. CASE Now' = Now
  BY <1>1, <1>2, <1>4
<1>. QED BY <1>2, <1>3, <1>4 DEF Busy

\* The port has met no error when the connection is there.
LEMMA ArriveGrounds ==
  ASSUME Before, [Next]_vars, conn' = "on", op' = op, op.t = "init", pc \in SessionPcs, Session, chain.linked
  PROVE  Quiet(Now') /\ ~Now'.sticky
<1>1. Rises
  BY DEF Rises, Before
<1>2. ~clearing
  BY <1>1, RiseClearing
<1>3. ~First /\ ~Get /\ ~Put /\ ~Final
  BY <1>1, RiseFacts DEF Fits, First, Get, Put, Final
<1>. QED BY <1>1, <1>2, <1>3, RiseShift, RiseCmd, RiseResp, RiseCsr, RiseCsrResp DEF Session

LEMMA ConnectingSession ==
  ASSUME Before, Grounded, [Next]_vars, Session
  PROVE  Grounded'
<1>1. pc \in SessionPcs /\ op' = op /\ conn # "on"
  BY DEF Session, TransferIR, ShiftIR, Cmd, Resp, First, Get, Put, Final, CsrIR, Csr, CsrResp, SessionPcs, scanRest, userVars, Before
<1>2. op.t = "init" /\ ~IsAccess(op)
  BY <1>1 DEF Before, Links, Reliable, SessionPcs, IsAccess
<1>3. CASE TransferIR \/ CsrIR
  <2>1. PICK from, ir, to : ShiftIR(from, ir, to)
    BY <1>3 DEF TransferIR, CsrIR
  <2>2. conn' = conn
    BY <2>1 DEF ShiftIR, userVars
  <2>. QED BY <1>1, <2>1, <2>2, ShiftNow, CalmGrounds
<1>4. CASE ~(TransferIR \/ CsrIR)
  <2>1. PICK req, to, ack, d : ScansOf(req, to, ack, d)
    BY <1>4, SessionScans DEF Session
  <2>2. /\ chain'.linked = chain.linked /\ Now'.mapped = Now.mapped /\ (Now'.sticky => Quiet(Now'))
        /\ ~chain.linked => Now' = Now
    BY <2>1, ScanBefore
  <2>3. Now.mapped \in Mappings /\ (Now.power => chain.linked)
    BY DEF Grounded
  <2>4. Now'.power => chain'.linked
    BY <2>2, <2>3
  <2>5. conn' = "on" => pc' = "idle" /\ Resting'
    <3>. SUFFICES ASSUME conn' = "on" PROVE pc' = "idle" /\ Resting'
      OBVIOUS
    <3>1. pc' = "idle"
      BY <1>1, TurnsOn
    <3>2. ~HasFailed'
      BY <1>1, <1>2 DEF HasFailed
    <3>3. Quiet(Now') /\ (Now'.power => ~Now'.sticky)
      <4>1. CASE chain.linked
        BY <1>1, <1>2, <4>1, ArriveGrounds
      <4>2. CASE ~chain.linked
        BY <2>2, <2>3, <4>2 DEF Before, NotYet
      <4>. QED BY <4>1, <4>2
    <3>. QED BY <3>1, <3>2, <3>3 DEF Resting
  <2>6. "idle" \notin SessionPcs /\ ~IsAccess(op')
    BY <1>1, <1>2 DEF SessionPcs
  <2>. QED BY <2>2, <2>3, <2>4, <2>5, <2>6 DEF Grounded
<1>. QED BY <1>3, <1>4

LEMMA DetectGrounds ==
  ASSUME Before, Grounded, DpDetect
  PROVE  Grounded'
<1>. DEFINE t == AfterScan("RTI", ToShift("DR", belief, chain.tap))
<1>1. /\ hw' = Now /\ op' = op /\ chain' = Moved(Latched(chain), t, <<>>) /\ conn' # "on"
  BY DEF DpDetect, Now, scanRest, Return, Before, Work, Instructions
<1>. HIDE DEF t
<1>2. chain'.held = <<>> /\ chain'.linked = chain.linked
  BY <1>1 DEF Moved, Latched
<1>3. Now' = Now
  BY <1>1, <1>2 DEF Now, Left
<1>. QED BY <1>1, <1>2, <1>3, CalmGrounds DEF Before

LEMMA PlugGrounds ==
  ASSUME Before, Grounded, Plug
  PROVE  Grounded'
<1>1. PICK s \in TapStates : chain' = [tap |-> s, linked |-> FALSE, pick |-> "lost", dp |-> "unknown", held |-> <<>>]
  BY DEF Plug
<1>2. ~chain'.linked /\ chain'.held = <<>>
  BY <1>1
<1>3. hw' = [hw EXCEPT !.power = FALSE, !.sticky = FALSE, !.pending = <<>>, !.inc = FALSE] /\ conn' = conn /\ op' = op
  BY DEF Plug
<1>4. IsHw(hw) /\ Now.mapped = hw.mapped
  BY NowFacts DEF Before, Work, Ranges, HwOK
<1>5. hw'.power = FALSE /\ hw'.sticky = FALSE /\ hw'.mapped = hw.mapped
  BY <1>3, <1>4 DEF IsHw
<1>6. Now' = hw'
  BY <1>2 DEF Now, Left
<1>. QED BY <1>2, <1>3, <1>4, <1>5, <1>6 DEF Before, Grounded

LEMMA BeforeGrounds ==
  ASSUME Before, Grounded, [Next]_vars
  PROVE  Grounded'
<1>0. conn # "on"
  BY DEF Before
<1>1. CASE Session
  BY <1>1, ConnectingSession
<1>2. CASE Router
  BY <1>0, <1>2, RouterNow, CalmGrounds
<1>3. CASE DpInit
  <2>1. UNCHANGED <<hw, chain, conn, op>>
    BY <1>3 DEF DpInit, pinVars, userVars
  <2>. QED BY <1>0, <2>1, CalmGrounds DEF Now
<1>4. CASE DpDetectIR
  <2>1. ShiftIR("idIR", "IDCODE", "idDR")
    BY <1>4 DEF DpDetectIR
  <2>2. UNCHANGED <<conn, op>> /\ Now' = Now /\ chain'.linked = chain.linked
    BY <2>1, ShiftNow DEF ShiftIR, userVars
  <2>. QED BY <1>0, <2>2, CalmGrounds
<1>5. CASE Connect
  <2>1. op'.t = "init" /\ conn' = "connecting" /\ UNCHANGED <<hw, chain>>
    BY <1>5 DEF Connect, Ask, pinVars
  <2>. QED BY <1>0, <2>1, CalmGrounds DEF Now
<1>6. CASE Kill \/ \E o \in Requests : Access_(o)
  BY <1>0, <1>6 DEF Kill, Access_
<1>7. CASE UNCHANGED vars
  <2>1. UNCHANGED <<hw, chain, conn, op>>
    BY <1>7 DEF vars, pinVars, userVars
  <2>. QED BY <1>0, <2>1, CalmGrounds DEF Now
<1>. QED BY <1>1, <1>2, <1>3, <1>4, <1>5, <1>6, <1>7, DetectGrounds, PlugGrounds DEF Next, Connecting

-----------------------------------------------------------------------------
(* No access fails without a reason.                                       *)

LEMMA StepGrounds ==
  ASSUME WholePages, Holding, Grounds, [Next]_vars
  PROVE  Grounds'
<1>. SUFFICES ASSUME Reliable' PROVE Grounded'
  BY DEF Grounds
<1>1. Reliable /\ Grounded /\ Work
  BY ReliedOn DEF Holding, IInv, Shape, Grounds
<1>2. CASE conn # "on"
  BY <1>1, <1>2, BeforeGrounds DEF Before, Holding, Held
<1>3. CASE conn = "on"
  <2>1. CASE Serves
    BY <1>1, <2>1, SessionGrounds
  <2>2. CASE pc = "idle" /\ \E o \in Requests : Access_(o)
    BY <1>1, <1>3, <2>2, AccessGrounds
  <2>3. CASE UNCHANGED vars
    <3>1. UNCHANGED <<pc, op, calls, clearing, result, excused, before, conn, chain, hw>>
      BY <2>3 DEF vars, pinVars, userVars, callVars, waitVars
    <3>2. Now' = Now /\ Trs' = Trs
      BY <3>1 DEF Now, Trs
    <3>3. Pos' = Pos
      BY <3>1, <3>2 DEF Pos
    <3>4. /\ Innocent' = Innocent /\ HasFailed' = HasFailed /\ Selecting' = Selecting /\ Pointing' = Pointing
          /\ Quiet(Now') = Quiet(Now)
      BY <3>1, <3>2, <3>3 DEF Innocent, HasFailed, Selecting, Pointing
    <3>5. Resting' = Resting
      BY <3>1, <3>2, <3>4 DEF Resting
    <3>6. Working' = Working
      BY <3>1, <3>2, <3>3, <3>4 DEF Working
    <3>. QED BY <1>1, <3>1, <3>2, <3>4, <3>5, <3>6 DEF Grounded
  <2>. QED BY <1>3, <2>1, <2>2, <2>3, OnSteps
<1>. QED BY <1>2, <1>3

LEMMA InitGrounds == Init => Grounds
<1>. SUFFICES ASSUME Init PROVE Grounded
  BY DEF Grounds
<1>1. PICK mapped \in Mappings :
        hw = [mem |-> [w \in Address |-> 0], mapped |-> mapped, bank |-> 0, tar |-> 0, inc |-> FALSE,
              power |-> FALSE, sticky |-> FALSE, pending |-> <<>>, data |-> 0]
  BY DEF Init
<1>2. chain.held = <<>> /\ conn = "off" /\ op.t = "none"
  BY DEF Init
<1>3. Now = hw
  BY <1>2 DEF Now, Left
<1>. QED BY <1>1, <1>2, <1>3 DEF Grounded, IsAccess

\* What is asked for is one of the requests.
Asked == (IsAccess(op) => op \in Requests) /\ before \subseteq Requests

LEMMA StepAsked == Asked /\ [Next]_vars => Asked'
<1>. SUFFICES ASSUME Asked, [Next]_vars PROVE Asked'
  OBVIOUS
<1>1. CASE UNCHANGED <<op, before>>
  BY <1>1 DEF Asked, IsAccess
<1>2. CASE Connect \/ Kill \/ \E o \in Requests : Access_(o)
  <2>1. before' = IF IsAccess(op) /\ result = "failure" THEN {op} ELSE {}
    BY <1>2 DEF Connect, Kill, Access_, Ask
  <2>2. op' \in Requests \/ op'.t \in {"init", "reset"}
    BY <1>2 DEF Connect, Kill, Access_, Ask
  <2>. QED BY <2>1, <2>2 DEF Asked, IsAccess
<1>3. CASE Session \/ Connecting \/ Plug \/ UNCHANGED vars
  <2>1. UNCHANGED <<op, before>>
    BY <1>3 DEF Session, TransferIR, ShiftIR, Cmd, Resp, First, Get, Put, Final, CsrIR, Csr, CsrResp, Connecting,
       Router, Detect, DpInit, DpDetectIR, DpDetect, Plug, scanRest, userVars, vars
  <2>. QED BY <1>1, <2>1
<1>. QED BY <1>2, <1>3 DEF Next

LEMMA AboutTop ==
  ASSUME NEW o \in Requests
  PROVE  AboutMapped(o) <=> o.a .. Top(o) \subseteq hw.mapped
<1>1. o.a \in Nat /\ o.n \in Nat
  <2>1. IsRequest(o)
    BY RequestsAssumption
  <2>. QED BY <2>1, DebugPortAssumption DEF IsRequest, Address
<1>2. Top(o) = o.a + o.n - (IF o.t = "uwrite" /\ o.tail THEN 0 ELSE 1)
  BY <1>1 DEF Top, LastWord
<1>. QED BY <1>2 DEF AboutMapped

LEMMA HasReason == Holding /\ Grounds /\ Asked => FailureHasReason
<1>. SUFFICES ASSUME Holding, Grounds, Asked, Failed, kills = 0, ~unnoticed, ~excused
              PROVE  \E o \in {op} \cup before : ~AboutMapped(o)
  BY DEF FailureHasReason, Reason
<1>1. Reliable /\ Grounded
  BY DEF Reliable, Grounds
<1>2. IsAccess(op) /\ {op} \cup before \subseteq Requests /\ HasFailed
  BY DEF Failed, Asked, HasFailed
<1>3. Resting
  BY <1>1, <1>2 DEF Grounded, Failed
<1>4. PICK o \in {op} \cup before : ~(o.a .. Top(o) \subseteq Now.mapped)
  BY <1>2, <1>3 DEF Resting, Innocent
<1>5. Now.mapped = hw.mapped
  BY NowFacts DEF Holding, Work
<1>. QED BY <1>2, <1>4, <1>5, AboutTop

\* An access fails only for what it, or the failed one before it, is about, or
\* for a WAIT, or for a port that an earlier error has left without power: for
\* every request, every number of tries and every memory that comes in whole
\* pages of the transfer address, as long as GDB asks for no reset.
THEOREM ReasonCorrect ==
  ASSUME WholePages
  PROVE  Spec => []FailureHasReason
<1>1. Init => Grounds /\ Asked
  <2>1. Init => before = {} /\ op.t = "none"
    BY DEF Init
  <2>. QED BY <2>1, InitGrounds DEF Asked, IsAccess
<1>2. Holding /\ Grounds /\ Asked /\ [Next]_vars => Grounds' /\ Asked'
  BY StepGrounds, StepAsked
<1>3. Holding /\ Grounds /\ Asked => FailureHasReason
  BY HasReason
<1>. QED BY <1>1, <1>2, <1>3, HeldInvariant, PTL DEF Spec
=============================================================================
