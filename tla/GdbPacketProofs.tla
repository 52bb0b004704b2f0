--------------------------- MODULE GdbPacketProofs ---------------------------
(***************************************************************************)
(* GdbPacket for any bounds: whole packets, every 0x03 read as what it is, *)
(* commands executed once and in order, and no answer taken for another.   *)
(*                                                                         *)
(* The invariant says what can be on its way to the server, wherever a     *)
(* client was cut off (Grammar, Comes), how far the automaton is in it     *)
(* (Automaton), and, of a client that found nothing of another's, where    *)
(* its command or the answer to it is (Exchange).                          *)
(***************************************************************************)
EXTENDS GdbPacket, TLAPS

-----------------------------------------------------------------------------
(* What is on its way to the server.                                       *)

Real == [n : 0 .. MaxSent, kind : Kinds]
Sum(c) == Char("sum", c)

\* What follows the '$' of a packet, and how much of it is data.
Rest(c) ==
  IF c.kind = "X"
    THEN <<Char("data", c), Char("^C", c), Char("#", c), Sum(c), Sum(c)>>
    ELSE <<Char("data", c), Char("#", c), Sum(c), Sum(c)>>
RestLen(c) == IF c.kind = "X" THEN 5 ELSE 4
DataLen(c) == RestLen(c) - 3

Plus == Plain("+")
Signs == {Plus, Plain("-"), Plain("^C")}
Opens(x) == x.is = "$" /\ x.of \in Real
Starts(x) == x \in Signs \/ Opens(x)
IsQuery(x) == Opens(x) /\ x.of.kind = "query"

\* From position k of s on it is a new client that talks: it acknowledges whatever there
\* was, then asks its first query; or has not come so far, if nothing was asked yet.
Renewed(s, k, asked) ==
  \E j \in k .. Len(s) + 1 :
    /\ \A i \in k .. j - 1 : s[i] = Plus
    /\ IF j <= Len(s) THEN IsQuery(s[j]) ELSE asked = None

\* From position k of s on comes what is left of c's packet after m characters, but
\* that its client may have gone in the middle.
Comes(c, m, s, k, asked) ==
  \E n \in 0 .. RestLen(c) - m :
    /\ k + n <= Len(s) + 1
    /\ \A i \in 1..n : s[k + i - 1] = Rest(c)[m + i]
    /\ IF n = RestLen(c) - m THEN k + n <= Len(s) => Starts(s[k + n])
                             ELSE Renewed(s, k + n, asked)

Grammar(s, asked) ==
  \A i \in 1..Len(s) :
    /\ s[i].is = "$" => s[i].of \in Real /\ Comes(s[i].of, 0, s, i + 1, asked)
    /\ s[i] \in Signs /\ i < Len(s) => Starts(s[i + 1])

-----------------------------------------------------------------------------
(* The automaton, after m characters of c's packet.                        *)

Opening(s) == {i \in 1..Len(s) : s[i].is = "$"}

\* It has the data so far; or c's client has gone, and what the next one says is
\* taken for data, up to its query.
InData(c, m) ==
  /\ packet_phase = "DATA" /\ m <= DataLen(c)
  /\ \/ /\ Len(cur_packet) = m /\ cur_checksum = cur_packet
        /\ \A i \in 1..m : cur_packet[i] = Rest(c)[i]
     \/ Renewed(rx, 1, cmd)

InChecksum(c, m) ==
  /\ packet_phase = "CHECKSUM" /\ cur_packet = Data(c) /\ cur_checksum = Data(c)
  /\ \/ digits = <<>> /\ m = DataLen(c) + 1
     \/ digits = <<Sum(c)>> /\ m = DataLen(c) + 2

\* Between packets, or passing over a query.
InNone(c, m) == packet_phase = "NONE" /\ (m = RestLen(c) \/ c.kind = "query")

Automaton(c, m) ==
  /\ m <= RestLen(c) /\ Comes(c, m, rx, 1, cmd)
  /\ InData(c, m) \/ InChecksum(c, m) \/ InNone(c, m)

-----------------------------------------------------------------------------
(* The order of execution.                                                 *)

Acks(s) == {i \in 1..Len(s) : s[i].is = "+"}
NoNack == \A i \in 1..Len(tx) : tx[i].is # "-"

Order ==
  /\ \A i \in 1..Len(rx) : rx[i].is = "$" => rx[i].of.n <= sent
  /\ \A i, j \in 1..Len(rx) : i < j /\ rx[i].is = "$" /\ rx[j].is = "$" => rx[i].of.n < rx[j].of.n
  /\ \A i \in 1..Len(rx), j \in 1..Len(ran) : rx[i].is = "$" => ran[j] < rx[i].of.n
  /\ \A i, j \in 1..Len(ran) : i < j => ran[i] < ran[j]
  /\ \A j \in 1..Len(ran) : ran[j] <= sent
  /\ gdb = "acking" /\ Acks(tx) = {} => \A j \in 1..Len(ran) : ran[j] < cmd.n

OrderIn(c) ==
  packet_phase # "NONE" =>
    /\ c.n <= sent
    /\ \A i \in 1..Len(rx) : rx[i].is = "$" => c.n < rx[i].of.n
    /\ \A j \in 1..Len(ran) : ran[j] < c.n

-----------------------------------------------------------------------------
(* A client that found nothing of another's: where its command is.         *)

Alone == clean /\ gdb # "gone"
Reply == Char("reply", cmd)
NoOpening == Opening(rx) = {}

OnItsWay ==
  /\ packet_phase = "NONE" /\ Acks(tx) = {}
  /\ \E k \in 1..Len(rx) : rx[k] = Char("$", cmd) /\ \A j \in Opening(rx) : j = k
Arriving(c) == packet_phase # "NONE" /\ Acks(tx) = {} /\ NoOpening /\ c = cmd
Answered ==
  /\ packet_phase = "NONE" /\ NoOpening
  /\ \E k \in 1..Len(tx) :
       /\ tx[k].is = "+" /\ \A j \in Acks(tx) : j = k
       /\ cmd.kind # "c" => k < Len(tx) /\ tx[k + 1] = Reply
Resting ==
  /\ packet_phase = "NONE" /\ NoOpening /\ Acks(tx) = {}
  /\ gdb = "reading" => tx # <<>> /\ tx[1] = Reply

Exchange(c) ==
  Alone => /\ ~wrong
           /\ IF gdb = "acking" THEN OnItsWay \/ Arriving(c) \/ Answered ELSE Resting

Session ==
  /\ gdb = "gone" => cmd = None /\ ~wrong
  /\ cmd = None => gdb \in {"gone", "idle"}
  /\ cmd # None => cmd.n <= sent /\ cmd.n >= 1
  /\ sent <= clients + MaxCommands
  /\ gdb = "idle" /\ cmd = None => sent < clients + MaxCommands

\* The automaton is m characters into c's packet.
Tracks(c, m) == Automaton(c, m) /\ (slow = 0 => OrderIn(c)) /\ Exchange(c)

\* What holds of the types, the client and the channel; and what is known of the exchange.
Base == TypeOK /\ Session /\ Grammar(rx, cmd)
Kept ==
  /\ NoNack
  /\ slow = 0 => Order
  /\ \E c \in Real : \E m \in 0 .. RestLen(c) : Tracks(c, m)

Inv == Base /\ Kept

-----------------------------------------------------------------------------
(* Facts about sequences and packets.                                      *)

LEMMA TailFacts ==
  ASSUME NEW S, NEW s \in Seq(S), s # <<>>
  PROVE  /\ Tail(s) \in Seq(S) /\ Len(s) \in Nat /\ Len(s) >= 1 /\ Len(Tail(s)) = Len(s) - 1
         /\ \A i \in 1 .. Len(s) - 1 : Tail(s)[i] = s[i + 1]
         /\ Head(s) = s[1] /\ s[1] \in S
  OBVIOUS

LEMMA JoinFacts ==
  ASSUME NEW S, NEW s \in Seq(S), NEW t \in Seq(S)
  PROVE  /\ s \o t \in Seq(S) /\ Len(s) \in Nat /\ Len(t) \in Nat
         /\ Len(s \o t) = Len(s) + Len(t)
         /\ \A i \in 1 .. Len(s) : (s \o t)[i] = s[i]
         /\ \A i \in Len(s) + 1 .. Len(s) + Len(t) : (s \o t)[i] = t[i - Len(s)]
         /\ \A i \in 1 .. Len(t) : (s \o t)[Len(s) + i] = t[i]
  OBVIOUS

LEMMA Lengths ==
  ASSUME NEW c \in Real
  PROVE  /\ RestLen(c) \in {4, 5} /\ DataLen(c) \in {1, 2} /\ RestLen(c) = DataLen(c) + 3
         /\ c.kind # "X" => DataLen(c) = 1
         /\ c.n \in 0 .. MaxSent /\ c.kind \in Kinds /\ c # None
<1>1. c.n \in 0 .. MaxSent /\ c.kind \in Kinds
  BY DEF Real
<1>2. c # None
  BY <1>1 DEF None, Command, Kinds
<1>. QED  BY <1>1, <1>2 DEF RestLen, DataLen

\* The characters of a packet after its '$'.
LEMMA RestFacts ==
  ASSUME NEW c \in Real
  PROVE  /\ Len(Rest(c)) = RestLen(c)
         /\ Rest(c)[1] = Char("data", c)
         /\ DataLen(c) = 2 => c.kind = "X" /\ Rest(c)[2] = Char("^C", c)
         /\ Rest(c)[DataLen(c) + 1] = Char("#", c)
         /\ Rest(c)[DataLen(c) + 2] = Sum(c)
         /\ Rest(c)[DataLen(c) + 3] = Sum(c)
<1>1. CASE c.kind = "X"
  BY <1>1 DEF Rest, RestLen, DataLen
<1>2. CASE c.kind # "X"
  BY <1>2 DEF Rest, RestLen, DataLen
<1>. QED  BY <1>1, <1>2

\* Of what is a character of a packet: of its command, and neither a sign nor a '$'.
LEMMA RestChars ==
  ASSUME NEW c \in Real, NEW i \in 1 .. RestLen(c)
  PROVE  /\ Rest(c)[i].of = c /\ Rest(c)[i].is \in {"data", "^C", "#", "sum"}
         /\ Rest(c)[i] \notin Signs /\ ~Opens(Rest(c)[i])
         /\ Rest(c)[i].is = "^C" => i = 2 /\ DataLen(c) = 2
<1>1. c # None
  BY Lengths
<1>2. i = 1 \/ (i = 2 /\ DataLen(c) = 2) \/ i \in {DataLen(c) + 1, DataLen(c) + 2, DataLen(c) + 3}
  BY Lengths
<1>3. \/ Rest(c)[i] \in {Char("data", c), Char("#", c), Char("sum", c)}
      \/ Rest(c)[i] = Char("^C", c) /\ i = 2 /\ DataLen(c) = 2
  BY <1>2, RestFacts DEF Sum
<1>4. /\ Rest(c)[i].of = c /\ Rest(c)[i].is \in {"data", "^C", "#", "sum"}
      /\ Rest(c)[i].is = "^C" => i = 2 /\ DataLen(c) = 2
  BY <1>3 DEF Char
<1>5. \A x \in Signs : x.of = None
  BY DEF Signs, Plus, Plain, Char
<1>. QED  BY <1>1, <1>4, <1>5 DEF Opens

LEMMA PacketFacts ==
  ASSUME NEW c \in Real
  PROVE  /\ Packet(c) = <<Char("$", c)>> \o Rest(c)
         /\ Len(Packet(c)) = RestLen(c) + 1
         /\ Packet(c)[1] = Char("$", c) /\ Opens(Packet(c)[1])
         /\ \A i \in 1 .. RestLen(c) : Packet(c)[i + 1] = Rest(c)[i]
<1>1. Packet(c) = <<Char("$", c)>> \o Rest(c)
  BY DEF Packet, Data, Rest, Sum
<1>2. Rest(c) \in Seq([is : {"$", "data", "^C", "#", "sum"}, of : Real])
  <2>1. \A is \in {"data", "^C", "#", "sum"} : Char(is, c) \in [is : {"$", "data", "^C", "#", "sum"}, of : Real]
    BY DEF Char
  <2>. HIDE DEF Char
  <2>2. CASE c.kind = "X"
    BY <2>1, <2>2 DEF Rest, Sum
  <2>3. CASE c.kind # "X"
    BY <2>1, <2>3 DEF Rest, Sum
  <2>. QED  BY <2>2, <2>3
<1>3. Char("$", c) \in [is : {"$", "data", "^C", "#", "sum"}, of : Real] /\ Opens(Char("$", c))
  BY DEF Char, Opens
<1>4. Len(Rest(c)) = RestLen(c)
  BY RestFacts
<1>5. /\ Len(<<Char("$", c)>> \o Rest(c)) = RestLen(c) + 1
      /\ (<<Char("$", c)>> \o Rest(c))[1] = Char("$", c)
      /\ \A i \in 1 .. RestLen(c) : (<<Char("$", c)>> \o Rest(c))[i + 1] = Rest(c)[i]
  BY <1>2, <1>3, <1>4, Lengths
<1>. QED  BY <1>1, <1>3, <1>5

-----------------------------------------------------------------------------
(* The grammar of what is on its way: read at one end, written at the      *)
(* other, cut off when a client goes.                                      *)

LEMMA RenewedTail ==
  ASSUME NEW S, NEW s \in Seq(S), s # <<>>, NEW k \in Nat, k >= 1, NEW asked,
         Renewed(s, k + 1, asked)
  PROVE  Renewed(Tail(s), k, asked)
<1>1. PICK j \in k + 1 .. Len(s) + 1 :
        /\ \A i \in k + 1 .. j - 1 : s[i] = Plus
        /\ IF j <= Len(s) THEN IsQuery(s[j]) ELSE asked = None
  BY DEF Renewed
<1>2. j - 1 \in k .. Len(Tail(s)) + 1
  BY <1>1, TailFacts
<1>3. \A i \in k .. (j - 1) - 1 : Tail(s)[i] = Plus
  BY <1>1, TailFacts
<1>4. IF j - 1 <= Len(Tail(s)) THEN IsQuery(Tail(s)[j - 1]) ELSE asked = None
  BY <1>1, TailFacts
<1>. QED  BY <1>2, <1>3, <1>4 DEF Renewed

LEMMA ComesTail ==
  ASSUME NEW S, NEW s \in Seq(S), s # <<>>, NEW k \in Nat, k >= 1, NEW asked,
         NEW c \in Real, NEW m \in 0 .. RestLen(c), Comes(c, m, s, k + 1, asked)
  PROVE  Comes(c, m, Tail(s), k, asked)
<1>1. PICK n \in 0 .. RestLen(c) - m :
        /\ (k + 1) + n <= Len(s) + 1
        /\ \A i \in 1 .. n : s[(k + 1) + i - 1] = Rest(c)[m + i]
        /\ IF n = RestLen(c) - m THEN (k + 1) + n <= Len(s) => Starts(s[(k + 1) + n])
                                 ELSE Renewed(s, (k + 1) + n, asked)
  BY DEF Comes
<1>2. n \in Nat
  BY <1>1, Lengths
<1>3. k + n <= Len(Tail(s)) + 1
  BY <1>1, <1>2, TailFacts
<1>4. \A i \in 1 .. n : Tail(s)[k + i - 1] = Rest(c)[m + i]
  BY <1>1, <1>2, TailFacts
<1>5. CASE n = RestLen(c) - m
  <2>1. k + n <= Len(Tail(s)) => Starts(Tail(s)[k + n])
    BY <1>1, <1>2, <1>5, TailFacts
  <2>. QED  BY <2>1, <1>1, <1>3, <1>4, <1>5 DEF Comes
<1>6. CASE n # RestLen(c) - m
  <2>1. Renewed(s, (k + n) + 1, asked)
    BY <1>1, <1>2, <1>6
  <2>2. Renewed(Tail(s), k + n, asked)
    BY <2>1, <1>2, RenewedTail
  <2>. QED  BY <2>2, <1>1, <1>3, <1>4, <1>6 DEF Comes
<1>. QED  BY <1>5, <1>6

LEMMA GrammarTail ==
  ASSUME NEW S, NEW s \in Seq(S), s # <<>>, NEW asked, Grammar(s, asked)
  PROVE  Grammar(Tail(s), asked)
<1> SUFFICES ASSUME NEW i \in 1 .. Len(Tail(s))
             PROVE  /\ Tail(s)[i].is = "$" =>
                         Tail(s)[i].of \in Real /\ Comes(Tail(s)[i].of, 0, Tail(s), i + 1, asked)
                    /\ Tail(s)[i] \in Signs /\ i < Len(Tail(s)) => Starts(Tail(s)[i + 1])
  BY DEF Grammar
<1>1. i + 1 \in 1 .. Len(s) /\ Tail(s)[i] = s[i + 1] /\ i + 1 \in Nat /\ i + 1 >= 1
  BY TailFacts
<1>2. /\ s[i + 1].is = "$" => s[i + 1].of \in Real /\ Comes(s[i + 1].of, 0, s, (i + 1) + 1, asked)
      /\ s[i + 1] \in Signs /\ i + 1 < Len(s) => Starts(s[(i + 1) + 1])
  BY <1>1 DEF Grammar
<1>3. ASSUME Tail(s)[i].is = "$"
      PROVE  Tail(s)[i].of \in Real /\ Comes(Tail(s)[i].of, 0, Tail(s), i + 1, asked)
  <2>1. s[i + 1].of \in Real /\ Comes(s[i + 1].of, 0, s, (i + 1) + 1, asked)
    BY <1>1, <1>2, <1>3
  <2>2. 0 \in 0 .. RestLen(s[i + 1].of)
    BY <2>1, Lengths
  <2>3. Comes(s[i + 1].of, 0, Tail(s), i + 1, asked)
    BY <1>1, <2>1, <2>2, ComesTail
  <2>. QED  BY <1>1, <2>1, <2>3
<1>4. ASSUME Tail(s)[i] \in Signs, i < Len(Tail(s))
      PROVE  Starts(Tail(s)[i + 1])
  <2>1. i + 1 < Len(s) /\ Tail(s)[i + 1] = s[(i + 1) + 1]
    BY <1>4, TailFacts
  <2>. QED  BY <1>1, <1>2, <1>4, <2>1
<1>. QED  BY <1>3, <1>4

\* What a client may write next: an acknowledgement or a query first, then anything
\* that starts there.
Continues(t, asked, asked2) ==
  /\ t # <<>> /\ Starts(t[1])
  /\ IF asked = None THEN IsQuery(t[1]) \/ (t = <<Plus>> /\ asked2 = None) ELSE asked2 # None

LEMMA RenewedJoin ==
  ASSUME NEW S, NEW s \in Seq(S), NEW t \in Seq(S), NEW asked, NEW asked2,
         Continues(t, asked, asked2), NEW k \in Nat, k >= 1, Renewed(s, k, asked)
  PROVE  Renewed(s \o t, k, asked2)
<1> DEFINE u == s \o t
<1>. SUFFICES Renewed(u, k, asked2)
  OBVIOUS
<1>1. PICK j \in k .. Len(s) + 1 :
        /\ \A i \in k .. j - 1 : s[i] = Plus
        /\ IF j <= Len(s) THEN IsQuery(s[j]) ELSE asked = None
  BY DEF Renewed
<1>2. \A i \in k .. j - 1 : u[i] = Plus
  BY <1>1, JoinFacts
<1>3. Len(t) >= 1 /\ t[1] = u[Len(s) + 1] /\ Len(u) = Len(s) + Len(t) /\ Len(t) \in Nat
      /\ Len(s) \in Nat
  BY JoinFacts DEF Continues
<1>4. CASE j <= Len(s)
  <2>1. u[j] = s[j] /\ j \in k .. Len(u) + 1 /\ j <= Len(u)
    BY <1>1, <1>3, <1>4, JoinFacts
  <2>. HIDE DEF u
  <2>. QED  BY <1>1, <1>2, <1>4, <2>1 DEF Renewed
<1>5. CASE j > Len(s) /\ IsQuery(t[1])
  <2>1. j = Len(s) + 1 /\ j \in k .. Len(u) + 1 /\ j <= Len(u) /\ IsQuery(u[j])
    BY <1>1, <1>3, <1>5
  <2>. HIDE DEF u
  <2>. QED  BY <1>2, <2>1 DEF Renewed
<1>6. CASE j > Len(s) /\ t = <<Plus>> /\ asked2 = None
  <2>1. Len(u) = j /\ u[j] = Plus /\ j + 1 \in k .. Len(u) + 1 /\ j \in Nat
    BY <1>1, <1>3, <1>6
  <2>. HIDE DEF u
  <2>2. \A i \in k .. (j + 1) - 1 : u[i] = Plus
    BY <1>1, <1>2, <2>1
  <2>3. IF j + 1 <= Len(u) THEN IsQuery(u[j + 1]) ELSE asked2 = None
    BY <1>6, <2>1
  <2>. QED  BY <2>1, <2>2, <2>3 DEF Renewed
<1>. QED  BY <1>1, <1>4, <1>5, <1>6 DEF Continues

LEMMA ComesJoin ==
  ASSUME NEW S, NEW s \in Seq(S), NEW t \in Seq(S), NEW asked, NEW asked2,
         Continues(t, asked, asked2), NEW k \in Nat, k >= 1,
         NEW c \in Real, NEW m \in 0 .. RestLen(c), Comes(c, m, s, k, asked)
  PROVE  Comes(c, m, s \o t, k, asked2)
<1> DEFINE u == s \o t
<1>1. PICK n \in 0 .. RestLen(c) - m :
        /\ k + n <= Len(s) + 1
        /\ \A i \in 1 .. n : s[k + i - 1] = Rest(c)[m + i]
        /\ IF n = RestLen(c) - m THEN k + n <= Len(s) => Starts(s[k + n])
                                 ELSE Renewed(s, k + n, asked)
  BY DEF Comes
<1>2. n \in Nat
  BY <1>1, Lengths
<1>3. Len(t) >= 1 /\ t[1] = u[Len(s) + 1] /\ Len(u) = Len(s) + Len(t) /\ Len(t) \in Nat
      /\ Len(s) \in Nat /\ Starts(t[1])
  BY JoinFacts DEF Continues
<1>4. k + n <= Len(u) + 1 /\ \A i \in 1 .. n : u[k + i - 1] = Rest(c)[m + i]
  <2>1. \A i \in 1 .. n : k + i - 1 \in 1 .. Len(s)
    BY <1>1, <1>2, <1>3
  <2>2. \A i \in 1 .. Len(s) : u[i] = s[i]
    BY JoinFacts
  <2>. HIDE DEF u
  <2>3. \A i \in 1 .. n : u[k + i - 1] = s[k + i - 1]
    BY <2>1, <2>2
  <2>4. k + n <= Len(u) + 1
    BY <1>1, <1>2, <1>3
  <2>. QED  BY <1>1, <2>3, <2>4
<1>5. CASE n = RestLen(c) - m
  <2>1. CASE k + n <= Len(s)
    <3>1. u[k + n] = s[k + n]
      BY <1>2, <2>1, JoinFacts
    <3>. QED  BY <1>1, <1>4, <1>5, <2>1, <3>1 DEF Comes
  <2>2. CASE k + n = Len(s) + 1
    <3>1. u[k + n] = t[1]
      BY <1>3, <2>2
    <3>. QED  BY <1>1, <1>3, <1>4, <1>5, <3>1 DEF Comes
  <2>. QED  BY <1>1, <1>2, <1>3, <2>1, <2>2
<1>6. CASE n # RestLen(c) - m
  <2>1. Renewed(s, k + n, asked) /\ k + n \in Nat /\ k + n >= 1
    BY <1>1, <1>2, <1>6
  <2>2. Renewed(u, k + n, asked2)
    BY <2>1, RenewedJoin
  <2>. QED  BY <1>1, <1>4, <1>6, <2>2 DEF Comes
<1>. QED  BY <1>5, <1>6

\* What is written is one sign, or one packet.
Saying(t) == (\E x \in Signs : t = <<x>>) \/ (\E c \in Real : t = Packet(c))

LEMMA SayingFacts ==
  ASSUME NEW t, Saying(t)
  PROVE  /\ Len(t) \in Nat /\ Len(t) >= 1 /\ t # <<>> /\ Starts(t[1])
         /\ \A i \in 2 .. Len(t) : t[i].is # "$" /\ t[i] \notin Signs
         /\ t[1] \in Signs => Len(t) = 1
         /\ t[1].is = "$" =>
              /\ t[1].of \in Real /\ Len(t) = RestLen(t[1].of) + 1
              /\ \A i \in 1 .. RestLen(t[1].of) : t[i + 1] = Rest(t[1].of)[i]
<1>1. \A x \in Signs : x.is # "$" /\ x.of = None
  BY DEF Signs, Plus, Plain, Char
<1>2. ASSUME NEW x \in Signs, t = <<x>>
      PROVE  /\ Len(t) = 1 /\ t # <<>> /\ Starts(t[1]) /\ t[1].is # "$"
  BY <1>1, <1>2 DEF Starts
<1>3. ASSUME NEW c \in Real, t = Packet(c)
      PROVE  /\ Len(t) = RestLen(c) + 1 /\ t # <<>> /\ Starts(t[1]) /\ t[1] \notin Signs
             /\ \A i \in 2 .. Len(t) : t[i].is # "$" /\ t[i] \notin Signs
             /\ t[1].of = c /\ c \in Real
             /\ \A i \in 1 .. RestLen(c) : t[i + 1] = Rest(c)[i]
  <2>1. /\ Len(t) = RestLen(c) + 1 /\ t[1] = Char("$", c)
        /\ \A i \in 1 .. RestLen(c) : t[i + 1] = Rest(c)[i]
    BY <1>3, PacketFacts
  <2>2. Opens(t[1])
    BY <1>3, PacketFacts
  <2>3. t[1].is = "$" /\ t[1].of = c
    BY <2>1 DEF Char
  <2>4. ASSUME NEW i \in 2 .. Len(t)
        PROVE  t[i].is # "$" /\ t[i] \notin Signs
    <3>1. i - 1 \in 1 .. RestLen(c) /\ t[i] = Rest(c)[i - 1]
      BY <2>1, <2>4, Lengths
    <3>2. /\ Rest(c)[i - 1].is \in {"data", "^C", "#", "sum"}
          /\ Rest(c)[i - 1] \notin Signs
      BY <3>1, RestChars
    <3>. QED  BY <3>1, <3>2
  <2>5. t # <<>>
    BY <2>1, Lengths
  <2>6. t[1] \notin Signs
    BY <1>1, <2>3
  <2>. QED  BY <2>1, <2>2, <2>3, <2>4, <2>5, <2>6 DEF Starts
<1>4. CASE \E x \in Signs : t = <<x>>
  BY <1>2, <1>4
<1>5. CASE \E c \in Real : t = Packet(c)
  <2>1. PICK c \in Real : t = Packet(c)
    BY <1>5
  <2>2. RestLen(c) \in Nat
    BY Lengths
  <2>3. /\ Len(t) = RestLen(c) + 1 /\ t # <<>> /\ Starts(t[1]) /\ t[1] \notin Signs
        /\ \A i \in 2 .. Len(t) : t[i].is # "$" /\ t[i] \notin Signs
        /\ t[1].of = c /\ \A i \in 1 .. RestLen(c) : t[i + 1] = Rest(c)[i]
    BY <1>3, <2>1
  <2>4. Len(t) \in Nat /\ Len(t) >= 1
    BY <2>2, <2>3
  <2>. QED  BY <2>3, <2>4
<1>. QED  BY <1>4, <1>5 DEF Saying

LEMMA GrammarJoin ==
  ASSUME NEW S, NEW s \in Seq(S), NEW t \in Seq(S), NEW asked, NEW asked2,
         Saying(t), Continues(t, asked, asked2), Grammar(s, asked)
  PROVE  Grammar(s \o t, asked2)
<1> DEFINE u == s \o t
<1>1. /\ Len(u) = Len(s) + Len(t) /\ Len(s) \in Nat /\ Len(t) \in Nat /\ Len(t) >= 1
      /\ \A i \in 1 .. Len(s) : u[i] = s[i]
      /\ \A i \in 1 .. Len(t) : u[Len(s) + i] = t[i]
      /\ Starts(t[1])
  BY JoinFacts, SayingFacts
<1>2. ASSUME NEW i \in 1 .. Len(s)
      PROVE  /\ u[i].is = "$" => u[i].of \in Real /\ Comes(u[i].of, 0, u, i + 1, asked2)
             /\ u[i] \in Signs /\ i < Len(u) => Starts(u[i + 1])
  <2>1. /\ s[i].is = "$" => s[i].of \in Real /\ Comes(s[i].of, 0, s, i + 1, asked)
        /\ s[i] \in Signs /\ i < Len(s) => Starts(s[i + 1])
    BY DEF Grammar
  <2>2. u[i] = s[i] /\ i + 1 \in Nat /\ i + 1 >= 1
    BY <1>1
  <2>3. ASSUME u[i].is = "$"
        PROVE  u[i].of \in Real /\ Comes(u[i].of, 0, u, i + 1, asked2)
    <3>1. s[i].of \in Real /\ Comes(s[i].of, 0, s, i + 1, asked)
      BY <2>1, <2>2, <2>3
    <3>2. 0 \in 0 .. RestLen(s[i].of)
      BY <3>1, Lengths
    <3>3. Comes(s[i].of, 0, u, i + 1, asked2)
      BY <2>2, <3>1, <3>2, ComesJoin
    <3>. QED  BY <2>2, <3>1, <3>3
  <2>4. ASSUME u[i] \in Signs
        PROVE  Starts(u[i + 1])
    <3>1. CASE i < Len(s)
      BY <1>1, <2>1, <2>2, <2>4, <3>1
    <3>2. CASE i = Len(s)
      BY <1>1, <3>2
    <3>. QED  BY <3>1, <3>2, <1>1
  <2>. QED  BY <2>3, <2>4
<1>3. ASSUME NEW i \in 1 .. Len(t)
      PROVE  /\ t[i].is = "$" => t[i].of \in Real /\ Comes(t[i].of, 0, u, Len(s) + i + 1, asked2)
             /\ ~(t[i] \in Signs /\ i < Len(t))
  <2>1. CASE i > 1
    BY <2>1, SayingFacts
  <2>2. CASE i = 1 /\ t[1].is # "$"
    BY <2>2, SayingFacts
  <2>3. CASE i = 1 /\ t[1].is = "$"
    <3> DEFINE c == t[1].of
    <3>1. /\ c \in Real /\ Len(t) = RestLen(c) + 1
          /\ \A l \in 1 .. RestLen(c) : t[l + 1] = Rest(c)[l]
      BY <2>3, SayingFacts
    <3>2. RestLen(c) \in Nat /\ RestLen(c) >= 4
      BY <3>1, Lengths
    <3>3. ~(t[1] \in Signs /\ 1 < Len(t))
      BY <3>1, <3>2, SayingFacts
    <3> HIDE DEF c, u
    <3>4. \A l \in 1 .. RestLen(c) : u[(Len(s) + 2) + l - 1] = Rest(c)[0 + l]
      <4> SUFFICES ASSUME NEW l \in 1 .. RestLen(c)
                   PROVE  u[(Len(s) + 2) + l - 1] = Rest(c)[0 + l]
        OBVIOUS
      <4>1. l + 1 \in 1 .. Len(t) /\ (Len(s) + 2) + l - 1 = Len(s) + (l + 1) /\ 0 + l = l
        BY <1>1, <3>1, <3>2
      <4>2. u[Len(s) + (l + 1)] = t[l + 1]
        BY <1>1, <4>1
      <4>. QED  BY <3>1, <4>1, <4>2
    <3>5. Comes(c, 0, u, Len(s) + 2, asked2)
      <4>1. RestLen(c) \in 0 .. RestLen(c) - 0 /\ (Len(s) + 2) + RestLen(c) = Len(u) + 1
            /\ RestLen(c) - 0 = RestLen(c)
        BY <1>1, <3>1, <3>2
      <4>2. ~((Len(s) + 2) + RestLen(c) <= Len(u))
        BY <1>1, <3>1, <3>2
      <4>. QED  BY <3>4, <4>1, <4>2 DEF Comes
    <3>6. Len(s) + i + 1 = Len(s) + 2
      BY <1>1, <2>3
    <3>. QED  BY <2>3, <3>1, <3>3, <3>5, <3>6 DEF c
  <2>. QED  BY <2>1, <2>2, <2>3
<1>4. ASSUME NEW i \in 1 .. Len(u)
      PROVE  /\ u[i].is = "$" => u[i].of \in Real /\ Comes(u[i].of, 0, u, i + 1, asked2)
             /\ u[i] \in Signs /\ i < Len(u) => Starts(u[i + 1])
  <2>1. CASE i <= Len(s)
    <3>1. i \in 1 .. Len(s)
      BY <1>1, <2>1
    <3>. QED  BY <1>2, <3>1
  <2>2. CASE i > Len(s)
    <3>1. PICK j \in 1 .. Len(t) : i = Len(s) + j
      <4>1. i - Len(s) \in 1 .. Len(t) /\ i = Len(s) + (i - Len(s))
        BY <1>1, <2>2
      <4>. QED  BY <4>1
    <3>2. u[i] = t[j] /\ (i < Len(u) => j < Len(t))
      BY <1>1, <3>1
    <3>. QED  BY <1>3, <3>1, <3>2
  <2>. QED  BY <1>1, <2>1, <2>2
<1>. QED  BY <1>4 DEF Grammar

\* Cut off at l, nothing was asked yet.
LEMMA RenewedCut ==
  ASSUME NEW S, NEW s \in Seq(S), NEW l \in 0 .. Len(s), NEW asked,
         NEW k \in Nat, k >= 1, k <= l + 1, Renewed(s, k, asked)
  PROVE  Renewed(SubSeq(s, 1, l), k, None)
<1> DEFINE u == SubSeq(s, 1, l)
<1>. SUFFICES Renewed(u, k, None)
  OBVIOUS
<1>1. PICK j \in k .. Len(s) + 1 :
        /\ \A i \in k .. j - 1 : s[i] = Plus
        /\ IF j <= Len(s) THEN IsQuery(s[j]) ELSE asked = None
  BY DEF Renewed
<1>2. Len(u) = l /\ (\A i \in 1 .. l : u[i] = s[i]) /\ Len(s) \in Nat /\ l \in Nat /\ l <= Len(s)
  OBVIOUS
<1> HIDE DEF u
<1>3. CASE j <= l
  <2>1. /\ \A i \in k .. j - 1 : u[i] = Plus
        /\ j \in k .. Len(u) + 1 /\ j <= Len(u) /\ j <= Len(s) /\ u[j] = s[j]
    BY <1>1, <1>2, <1>3
  <2>. QED  BY <1>1, <2>1 DEF Renewed
<1>4. CASE j > l
  <2>1. /\ \A i \in k .. (l + 1) - 1 : u[i] = Plus
        /\ l + 1 \in k .. Len(u) + 1 /\ ~(l + 1 <= Len(u))
    BY <1>1, <1>2, <1>4
  <2>. QED  BY <2>1 DEF Renewed
<1>5. j <= l \/ j > l
  BY <1>1, <1>2
<1>. QED  BY <1>3, <1>4, <1>5

LEMMA ComesCut ==
  ASSUME NEW S, NEW s \in Seq(S), NEW l \in 0 .. Len(s), NEW asked,
         NEW k \in Nat, k >= 1, k <= l + 1,
         NEW c \in Real, NEW m \in 0 .. RestLen(c), Comes(c, m, s, k, asked)
  PROVE  Comes(c, m, SubSeq(s, 1, l), k, None)
<1> DEFINE u == SubSeq(s, 1, l)
<1>. SUFFICES Comes(c, m, u, k, None)
  OBVIOUS
<1>1. PICK n \in 0 .. RestLen(c) - m :
        /\ k + n <= Len(s) + 1
        /\ \A i \in 1 .. n : s[k + i - 1] = Rest(c)[m + i]
        /\ IF n = RestLen(c) - m THEN k + n <= Len(s) => Starts(s[k + n])
                                 ELSE Renewed(s, k + n, asked)
  BY DEF Comes
<1>2. n \in Nat /\ Len(s) \in Nat /\ l \in Nat /\ RestLen(c) - m \in Nat
  BY <1>1, Lengths
<1>3. Len(u) = l /\ \A i \in 1 .. l : u[i] = s[i]
  OBVIOUS
<1> HIDE DEF u
<1>5. ASSUME NEW i \in 1 .. n, k + i - 1 <= l
      PROVE  u[k + i - 1] = Rest(c)[m + i]
  <2>1. k + i - 1 \in 1 .. l
    BY <1>2, <1>5
  <2>2. u[k + i - 1] = s[k + i - 1]
    BY <1>3, <2>1
  <2>. QED  BY <1>1, <2>2
<1>6. CASE k + n > l + 1
  <2> DEFINE d == l + 1 - k
  <2>1. d \in 0 .. n /\ d < n /\ d \in 0 .. RestLen(c) - m /\ d # RestLen(c) - m
        /\ k + d = l + 1
    BY <1>1, <1>2, <1>6
  <2>2. \A i \in 1 .. d : u[k + i - 1] = Rest(c)[m + i]
    <3>1. \A i \in 1 .. d : i \in 1 .. n /\ k + i - 1 <= l
      BY <1>2, <2>1
    <3>. QED  BY <1>5, <3>1
  <2>3. Renewed(u, k + d, None)
    <3>1. l + 1 \in l + 1 .. Len(u) + 1 /\ ~(l + 1 <= Len(u)) /\ (l + 1) .. (l + 1) - 1 = {}
      BY <1>2, <1>3
    <3>. QED  BY <2>1, <3>1 DEF Renewed
  <2> HIDE DEF d
  <2>4. k + d <= Len(u) + 1
    BY <1>2, <1>3, <2>1
  <2>. QED  BY <2>1, <2>2, <2>3, <2>4 DEF Comes
<1>7. CASE k + n <= l + 1 /\ n = RestLen(c) - m
  <2>1. \A i \in 1 .. n : u[k + i - 1] = Rest(c)[m + i]
    <3>1. \A i \in 1 .. n : k + i - 1 <= l
      BY <1>2, <1>7
    <3>. QED  BY <1>5, <3>1
  <2>2. k + n <= Len(u) => Starts(u[k + n])
    BY <1>1, <1>2, <1>3, <1>7
  <2>. QED  BY <1>3, <1>7, <2>1, <2>2 DEF Comes
<1>8. CASE k + n <= l + 1 /\ n # RestLen(c) - m
  <2>1. \A i \in 1 .. n : u[k + i - 1] = Rest(c)[m + i]
    <3>1. \A i \in 1 .. n : k + i - 1 <= l
      BY <1>2, <1>8
    <3>. QED  BY <1>5, <3>1
  <2>2. Renewed(s, k + n, asked) /\ k + n \in Nat /\ k + n >= 1 /\ k + n <= l + 1
    BY <1>1, <1>2, <1>8
  <2>3. Renewed(u, k + n, None)
    BY <2>2, RenewedCut DEF u
  <2>. QED  BY <1>3, <1>8, <2>1, <2>3 DEF Comes
<1>9. k + n <= l + 1 \/ k + n > l + 1
  BY <1>2
<1>. QED  BY <1>6, <1>7, <1>8, <1>9

LEMMA GrammarCut ==
  ASSUME NEW S, NEW s \in Seq(S), NEW l \in 0 .. Len(s), NEW asked, Grammar(s, asked)
  PROVE  Grammar(SubSeq(s, 1, l), None)
<1> DEFINE u == SubSeq(s, 1, l)
<1>1. Len(u) = l /\ (\A i \in 1 .. l : u[i] = s[i]) /\ Len(s) \in Nat /\ l \in Nat
  OBVIOUS
<1>2. ASSUME NEW i \in 1 .. Len(u)
      PROVE  /\ u[i].is = "$" => u[i].of \in Real /\ Comes(u[i].of, 0, u, i + 1, None)
             /\ u[i] \in Signs /\ i < Len(u) => Starts(u[i + 1])
  <2>1. i \in 1 .. Len(s) /\ u[i] = s[i] /\ (i < Len(u) => i < Len(s) /\ u[i + 1] = s[i + 1])
        /\ i + 1 \in Nat /\ i + 1 >= 1 /\ i + 1 <= l + 1
    BY <1>1
  <2>2. /\ s[i].is = "$" => s[i].of \in Real /\ Comes(s[i].of, 0, s, i + 1, asked)
        /\ s[i] \in Signs /\ i < Len(s) => Starts(s[i + 1])
    BY <2>1 DEF Grammar
  <2>3. ASSUME u[i].is = "$"
        PROVE  u[i].of \in Real /\ Comes(u[i].of, 0, u, i + 1, None)
    <3>1. s[i].of \in Real /\ Comes(s[i].of, 0, s, i + 1, asked)
      BY <2>1, <2>2, <2>3
    <3>2. 0 \in 0 .. RestLen(s[i].of)
      BY <3>1, Lengths
    <3>3. Comes(s[i].of, 0, u, i + 1, None)
      BY <2>1, <3>1, <3>2, ComesCut
    <3>. QED  BY <2>1, <3>1, <3>3
  <2>. QED  BY <2>1, <2>2, <2>3
<1>. QED  BY <1>2 DEF Grammar

LEMMA RenewedHead ==
  ASSUME NEW S, NEW s \in Seq(S), s # <<>>, NEW asked, Renewed(s, 1, asked)
  PROVE  IsQuery(s[1]) \/ (s[1] = Plus /\ Renewed(Tail(s), 1, asked))
<1>1. PICK j \in 1 .. Len(s) + 1 :
        /\ \A i \in 1 .. j - 1 : s[i] = Plus
        /\ IF j <= Len(s) THEN IsQuery(s[j]) ELSE asked = None
  BY DEF Renewed
<1>2. Len(s) \in Nat /\ Len(s) >= 1
  BY TailFacts
<1>3. CASE j = 1
  BY <1>1, <1>2, <1>3
<1>4. CASE j > 1
  <2>1. s[1] = Plus
    BY <1>1, <1>2, <1>4
  <2>2. j \in 1 + 1 .. Len(s) + 1 /\ \A i \in 1 + 1 .. j - 1 : s[i] = Plus
    BY <1>1, <1>2, <1>4
  <2>3. Renewed(s, 1 + 1, asked)
    BY <1>1, <2>2 DEF Renewed
  <2>4. Renewed(Tail(s), 1, asked)
    BY <2>3, RenewedTail
  <2>. QED  BY <2>1, <2>4
<1>. QED  BY <1>1, <1>3, <1>4

\* A client that has gone may have left nothing of its packet.
LEMMA RenewedComes ==
  ASSUME NEW S, NEW s \in Seq(S), NEW asked, Renewed(s, 1, asked),
         NEW c \in Real, NEW m \in 0 .. RestLen(c), m < RestLen(c)
  PROVE  Comes(c, m, s, 1, asked)
<1>1. /\ 0 \in 0 .. RestLen(c) - m /\ 0 # RestLen(c) - m /\ 1 + 0 = 1 /\ 1 + 0 <= Len(s) + 1
      /\ 1 .. 0 = {}
  BY Lengths
<1>. QED  BY <1>1 DEF Comes

LEMMA OpensNext ==
  ASSUME NEW S, NEW s \in Seq(S), s # <<>>, NEW asked, Grammar(s, asked), Opens(s[1])
  PROVE  Comes(s[1].of, 0, Tail(s), 1, asked)
<1>1. PICK d \in Real : s[1].is = "$" /\ s[1].of = d
  BY DEF Opens
<1>2. 0 \in 0 .. RestLen(d) /\ 1 \in 1 .. Len(s)
  BY TailFacts, Lengths
<1>3. Comes(d, 0, s, 1 + 1, asked)
  BY <1>1, <1>2 DEF Grammar
<1>4. Comes(d, 0, Tail(s), 1, asked)
  BY <1>2, <1>3, ComesTail
<1>. QED  BY <1>1, <1>4

\* What the next character may be, and what then comes.
LEMMA NextChar ==
  ASSUME NEW S, NEW s \in Seq(S), s # <<>>, NEW asked, Grammar(s, asked),
         NEW c \in Real, NEW m \in 0 .. RestLen(c), Comes(c, m, s, 1, asked)
  PROVE  \/ /\ m < RestLen(c) /\ s[1] = Rest(c)[m + 1]
            /\ Comes(c, m + 1, Tail(s), 1, asked)
         \/ /\ m < RestLen(c) /\ s[1] = Plus
            /\ Renewed(s, 1, asked) /\ Renewed(Tail(s), 1, asked)
         \/ /\ m < RestLen(c) /\ IsQuery(s[1]) /\ Renewed(s, 1, asked)
            /\ Comes(s[1].of, 0, Tail(s), 1, asked)
         \/ /\ m = RestLen(c) /\ s[1] \in Signs
            /\ Comes(c, RestLen(c), Tail(s), 1, asked)
         \/ /\ m = RestLen(c) /\ Opens(s[1])
            /\ Comes(s[1].of, 0, Tail(s), 1, asked)
<1>1. PICK n \in 0 .. RestLen(c) - m :
        /\ 1 + n <= Len(s) + 1
        /\ \A i \in 1 .. n : s[1 + i - 1] = Rest(c)[m + i]
        /\ IF n = RestLen(c) - m THEN 1 + n <= Len(s) => Starts(s[1 + n])
                                 ELSE Renewed(s, 1 + n, asked)
  BY DEF Comes
<1>2. /\ n \in Nat /\ Len(s) \in Nat /\ Len(s) >= 1 /\ RestLen(c) \in Nat /\ m \in Nat
      /\ Len(Tail(s)) = Len(s) - 1
      /\ \A i \in 1 .. Len(s) - 1 : Tail(s)[i] = s[i + 1]
  BY <1>1, Lengths, TailFacts
<1>3. Opens(s[1]) => Comes(s[1].of, 0, Tail(s), 1, asked)
  BY OpensNext
<1>4. CASE n > 0
  <2>1. /\ m < RestLen(c) /\ s[1] = Rest(c)[m + 1] /\ n - 1 \in 0 .. RestLen(c) - (m + 1)
        /\ m + 1 \in 0 .. RestLen(c)
    BY <1>1, <1>2, <1>4
  <2>2. \A i \in 1 .. n - 1 : s[2 + i - 1] = Rest(c)[(m + 1) + i]
    <3> SUFFICES ASSUME NEW i \in 1 .. n - 1
                 PROVE  s[2 + i - 1] = Rest(c)[(m + 1) + i]
      OBVIOUS
    <3>1. /\ i + 1 \in 1 .. n /\ 2 + i - 1 = 1 + (i + 1) - 1 /\ (m + 1) + i = m + (i + 1)
      BY <1>2
    <3>. QED  BY <1>1, <3>1
  <2>3. Comes(c, m + 1, s, 2, asked)
    <3>1. 2 + (n - 1) = 1 + n /\ (n - 1 = RestLen(c) - (m + 1) <=> n = RestLen(c) - m)
      BY <1>2
    <3>. QED  BY <1>1, <2>1, <2>2, <3>1 DEF Comes
  <2>4. Comes(c, m + 1, s, 1 + 1, asked)
    BY <2>3
  <2>5. Comes(c, m + 1, Tail(s), 1, asked)
    BY <2>1, <2>4, ComesTail
  <2>. QED  BY <2>1, <2>5
<1>5. CASE n = 0 /\ m = RestLen(c)
  <2>1. Starts(s[1])
    BY <1>1, <1>2, <1>5
  <2>2. CASE Opens(s[1])
    BY <1>3, <1>5, <2>2
  <2>3. CASE s[1] \in Signs
    <3>1. 1 + 1 <= Len(s) => Starts(s[1 + 1])
      BY <1>2, <2>3 DEF Grammar
    <3>2. 0 \in 0 .. RestLen(c) - m /\ 0 = RestLen(c) - m /\ 1 + 0 = 1 /\ m = RestLen(c)
      BY <1>2, <1>5
    <3>3. 1 <= Len(Tail(s)) => Starts(Tail(s)[1])
      BY <1>2, <3>1
    <3>4. Comes(c, m, Tail(s), 1, asked)
      BY <1>2, <3>2, <3>3 DEF Comes
    <3>. QED  BY <1>5, <2>3, <3>4
  <2>. QED  BY <2>1, <2>2, <2>3 DEF Starts
<1>6. CASE n = 0 /\ m # RestLen(c)
  <2>1. m < RestLen(c) /\ Renewed(s, 1, asked)
    BY <1>1, <1>2, <1>6
  <2>. QED  BY <1>3, <2>1, RenewedHead DEF IsQuery
<1>. QED  BY <1>1, <1>2, <1>4, <1>5, <1>6

-----------------------------------------------------------------------------
(* What the automaton reads in each phase.                                 *)

LEMMA SequenceTypes ==
  ASSUME TypeOK
  PROVE  /\ rx \in Seq(Received) /\ tx \in Seq(Answers) /\ ran \in Seq(1 .. MaxSent)
         /\ cur_packet \in Seq(Received) /\ cur_checksum \in Seq(Received)
         /\ digits \in Seq(Received)
  BY DEF TypeOK

LEMMA ReadsData ==
  ASSUME TypeOK, Grammar(rx, cmd), NEW c \in Real, NEW m \in 0 .. RestLen(c),
         Automaton(c, m), packet_phase = "DATA", rx # <<>>
  PROVE  \/ /\ m < DataLen(c) /\ rx[1] = Rest(c)[m + 1]
            /\ Len(cur_packet) = m /\ cur_checksum = cur_packet
            /\ \A i \in 1 .. m : cur_packet[i] = Rest(c)[i]
            /\ Comes(c, m + 1, Tail(rx), 1, cmd)
         \/ /\ m = DataLen(c) /\ rx[1] = Char("#", c)
            /\ Len(cur_packet) = m /\ cur_checksum = cur_packet
            /\ \A i \in 1 .. m : cur_packet[i] = Rest(c)[i]
            /\ Comes(c, m + 1, Tail(rx), 1, cmd)
         \/ rx[1] = Plus /\ Renewed(rx, 1, cmd) /\ Renewed(Tail(rx), 1, cmd) /\ m < RestLen(c)
         \/ IsQuery(rx[1]) /\ Renewed(rx, 1, cmd) /\ Comes(rx[1].of, 0, Tail(rx), 1, cmd)
<1>1. rx \in Seq(Received) /\ m <= DataLen(c) /\ DataLen(c) < RestLen(c) /\ m \in Nat
      /\ DataLen(c) \in Nat
  <2>1. InData(c, m)
    BY DEF Automaton, InChecksum, InNone
  <2>2. m <= DataLen(c)
    BY <2>1 DEF InData
  <2>3. DataLen(c) < RestLen(c) /\ m \in Nat /\ DataLen(c) \in Nat
    BY Lengths
  <2>. QED  BY <2>2, <2>3, SequenceTypes
<1>2. CASE Renewed(rx, 1, cmd)
  <2>1. IsQuery(rx[1]) \/ (rx[1] = Plus /\ Renewed(Tail(rx), 1, cmd))
    BY <1>1, <1>2, RenewedHead
  <2>2. IsQuery(rx[1]) => Comes(rx[1].of, 0, Tail(rx), 1, cmd)
    BY <1>1, OpensNext DEF IsQuery
  <2>3. m < RestLen(c)
    BY <1>1, Lengths
  <2>. QED  BY <1>2, <2>1, <2>2, <2>3
<1>3. CASE ~Renewed(rx, 1, cmd)
  <2>1. /\ Len(cur_packet) = m /\ cur_checksum = cur_packet
        /\ \A i \in 1 .. m : cur_packet[i] = Rest(c)[i]
    BY <1>3 DEF Automaton, InData, InChecksum, InNone
  <2>2. m # RestLen(c)
    BY <1>1, Lengths
  <2>3. Comes(c, m, rx, 1, cmd)
    BY DEF Automaton
  <2>4. m < RestLen(c) /\ rx[1] = Rest(c)[m + 1] /\ Comes(c, m + 1, Tail(rx), 1, cmd)
    BY <1>1, <1>3, <2>2, <2>3, NextChar
  <2>5. CASE m < DataLen(c)
    BY <2>1, <2>4, <2>5
  <2>6. CASE m = DataLen(c)
    <3>1. Rest(c)[m + 1] = Char("#", c)
      BY <2>6, RestFacts
    <3>. QED  BY <2>1, <2>4, <2>6, <3>1
  <2>7. m < DataLen(c) \/ m = DataLen(c)
    BY <1>1
  <2>. QED  BY <2>5, <2>6, <2>7
<1>. QED  BY <1>2, <1>3

LEMMA ReadsChecksum ==
  ASSUME TypeOK, Grammar(rx, cmd), NEW c \in Real, NEW m \in 0 .. RestLen(c),
         Automaton(c, m), packet_phase = "CHECKSUM", rx # <<>>
  PROVE  /\ cur_packet = Data(c) /\ cur_checksum = Data(c)
         /\ \/ /\ rx[1] = Sum(c) /\ digits = <<>> /\ m = DataLen(c) + 1
               /\ Comes(c, m + 1, Tail(rx), 1, cmd)
            \/ /\ rx[1] = Sum(c) /\ digits = <<Sum(c)>> /\ m = DataLen(c) + 2
               /\ Comes(c, m + 1, Tail(rx), 1, cmd)
            \/ rx[1] = Plus /\ Renewed(rx, 1, cmd) /\ Renewed(Tail(rx), 1, cmd)
            \/ IsQuery(rx[1]) /\ Renewed(rx, 1, cmd) /\ Comes(rx[1].of, 0, Tail(rx), 1, cmd)
<1>1. InChecksum(c, m) /\ Comes(c, m, rx, 1, cmd)
  BY DEF Automaton, InData, InNone
<1>2. cur_packet = Data(c) /\ cur_checksum = Data(c) /\ rx \in Seq(Received)
  BY <1>1, SequenceTypes DEF InChecksum
<1>3. \/ digits = <<>> /\ m = DataLen(c) + 1
      \/ digits = <<Sum(c)>> /\ m = DataLen(c) + 2
  BY <1>1 DEF InChecksum
<1>4. m < RestLen(c) /\ m # RestLen(c) /\ Rest(c)[m + 1] = Sum(c)
  BY <1>3, Lengths, RestFacts
<1>5. \/ rx[1] = Sum(c) /\ Comes(c, m + 1, Tail(rx), 1, cmd)
      \/ rx[1] = Plus /\ Renewed(rx, 1, cmd) /\ Renewed(Tail(rx), 1, cmd)
      \/ IsQuery(rx[1]) /\ Renewed(rx, 1, cmd) /\ Comes(rx[1].of, 0, Tail(rx), 1, cmd)
  BY <1>1, <1>2, <1>4, NextChar
<1>. QED  BY <1>2, <1>3, <1>5

LEMMA ReadsNone ==
  ASSUME TypeOK, Grammar(rx, cmd), NEW c \in Real, NEW m \in 0 .. RestLen(c),
         Automaton(c, m), packet_phase = "NONE", rx # <<>>
  PROVE  \/ /\ c.kind = "query" /\ m < RestLen(c) /\ rx[1] = Rest(c)[m + 1]
            /\ rx[1].is \in {"data", "#", "sum"} /\ Comes(c, m + 1, Tail(rx), 1, cmd)
         \/ /\ c.kind = "query" /\ m < RestLen(c) /\ rx[1] = Plus
            /\ Renewed(Tail(rx), 1, cmd)
         \/ m = RestLen(c) /\ rx[1] \in Signs /\ Comes(c, m, Tail(rx), 1, cmd)
         \/ Opens(rx[1]) /\ Comes(rx[1].of, 0, Tail(rx), 1, cmd)
<1>1. InNone(c, m) /\ Comes(c, m, rx, 1, cmd) /\ rx \in Seq(Received)
  BY SequenceTypes DEF Automaton, InData, InChecksum
<1>2. m < RestLen(c) => c.kind = "query"
  BY <1>1, Lengths DEF InNone
<1>3. ASSUME c.kind = "query", m < RestLen(c)
      PROVE  Rest(c)[m + 1].is \in {"data", "#", "sum"}
  <2>1. m + 1 \in 1 .. RestLen(c) /\ DataLen(c) # 2
    BY <1>3, Lengths
  <2>. QED  BY <2>1, RestChars
<1>. QED  BY <1>1, <1>2, <1>3, NextChar DEF IsQuery

-----------------------------------------------------------------------------
(* Types and bounds.                                                       *)

LEMMA Bounds ==
  ASSUME GdbPacketAssumption
  PROVE  /\ MaxLen \in Nat /\ MaxTries \in Nat /\ MaxClients \in Nat /\ MaxCommands \in Nat
         /\ MaxTimeouts \in Nat /\ MaxSlow \in Nat /\ MaxInterrupts \in Nat
         /\ MaxLen > 2 /\ MaxSent \in Nat /\ MaxSent = MaxClients + MaxCommands
  BY DEF GdbPacketAssumption, MaxSent

\* The commands are numbered from 1.
LEMMA CommandTypes ==
  /\ None \in Commands
  /\ \A c \in Commands \ {None} : c \in Real /\ c.n \in 1 .. MaxSent /\ c.kind \in Kinds
  /\ \A n \in 1 .. MaxSent, kind \in Kinds :
       /\ Command(n, kind) \in Commands /\ Command(n, kind) # None
       /\ Command(n, kind) \in Real
       /\ Command(n, kind).n = n /\ Command(n, kind).kind = kind
<1>1. ASSUME NEW c \in Commands, c # None
      PROVE  c \in Real /\ c.n \in 1 .. MaxSent /\ c.kind \in Kinds
  <2>1. PICK n \in 1 .. MaxSent, kind \in Kinds : c = Command(n, kind)
    BY <1>1 DEF Commands
  <2>. QED  BY <2>1 DEF Command, Real
<1>2. ASSUME NEW n \in 1 .. MaxSent, NEW kind \in Kinds
      PROVE  /\ Command(n, kind) \in Commands /\ Command(n, kind) # None
             /\ Command(n, kind) \in Real
             /\ Command(n, kind).n = n /\ Command(n, kind).kind = kind
  <2>1. Command(n, kind).kind # None.kind
    BY DEF Command, None, Kinds
  <2>. QED  BY <2>1 DEF Command, Commands, Real
<1>3. None \in Commands
  BY DEF Commands
<1>. QED  BY <1>1, <1>2, <1>3

LEMMA CharTypes ==
  ASSUME NEW c \in Commands
  PROVE  /\ \A is \in {"$", "#", "data", "sum", "+", "-", "^C"} :
              Char(is, c) \in Received /\ Plain(is) \in Received
         /\ \A is \in {"+", "-", "reply", "stop"} :
              Char(is, c) \in Answers /\ Plain(is) \in Answers
<1>1. None \in Commands
  BY CommandTypes
<1>. QED  BY <1>1 DEF Char, Plain, Received, Answers

LEMMA PacketType ==
  ASSUME NEW c \in Commands
  PROVE  Packet(c) \in Seq(Received) /\ Data(c) \in Seq(Received)
<1>1. \A is \in {"$", "#", "data", "sum", "^C"} : Char(is, c) \in Received
  BY CharTypes
<1>2. Data(c) \in Seq(Received)
  <2>1. CASE c.kind = "X"
    BY <1>1, <2>1 DEF Data
  <2>2. CASE c.kind # "X"
    BY <1>1, <2>2 DEF Data
  <2>. QED  BY <2>1, <2>2
<1>3. <<Char("$", c)>> \in Seq(Received)
      /\ <<Char("#", c), Char("sum", c), Char("sum", c)>> \in Seq(Received)
  BY <1>1
<1>. QED  BY <1>2, <1>3 DEF Packet

\* What the automaton executes is a whole packet.
LEMMA WholePacket ==
  ASSUME TypeOK, NEW c \in Real, cur_packet = Data(c)
  PROVE  cur_packet[1] = Char("data", c) /\ cur_packet[1].of = c /\ c \in Commands
         /\ c.n \in 1 .. MaxSent
<1>1. cur_packet \in Seq(Received) /\ c # None
  BY SequenceTypes, Lengths
<1>2. Data(c)[1] = Char("data", c) /\ Len(Data(c)) >= 1
  <2>1. CASE c.kind = "X"
    BY <2>1 DEF Data
  <2>2. CASE c.kind # "X"
    BY <2>2 DEF Data
  <2>. QED  BY <2>1, <2>2
<1>3. cur_packet[1] \in Received
  BY <1>1, <1>2
<1>4. c \in Commands
  BY <1>2, <1>3 DEF Char, Received
<1>. QED  BY <1>1, <1>2, <1>4, CommandTypes DEF Char

LEMMA ReadTypes ==
  ASSUME TypeOK, NEW chars, GetChar(chars)
  PROVE  /\ rx \in Seq(Received) /\ rx' \in Seq(Received) /\ Head(rx) \in Received
         /\ Head(rx) = rx[1] /\ rx' = Tail(rx) /\ rx # <<>>
         /\ loop' = "poll"
         /\ gdb' = gdb /\ cmd' = cmd /\ tries' = tries /\ clean' = clean /\ wrong' = wrong
         /\ sent' = sent /\ clients' = clients /\ timeouts' = timeouts /\ slow' = slow
         /\ interrupts' = interrupts /\ token' \in BOOLEAN
<1>1. rx \in Seq(Received)
  BY SequenceTypes
<1>2. /\ rx' = Tail(rx) /\ rx # <<>> /\ loop' = "poll" /\ UNCHANGED <<gdbVars, boundVars>>
  BY DEF GetChar
<1>3. token' \in BOOLEAN
  <2>1. token' = (rx' # <<>>)
    BY DEF GetChar
  <2>. QED  BY <2>1, Zenon
<1>. QED  BY <1>1, <1>2, <1>3, TailFacts DEF gdbVars, boundVars

LEMMA TransmitTypes ==
  ASSUME TypeOK, NEW s \in Seq(Answers), Transmit(s)
  PROVE  tx' \in Seq(Answers) /\ awaiting_ack' = TRUE
  BY SequenceTypes DEF Transmit

LEMMA ReadingTypes ==
  ASSUME GdbPacketAssumption, TypeOK, ProcessChar,
         NEW c \in Real, packet_phase = "CHECKSUM" => cur_packet = Data(c)
  PROVE  TypeOK'
<1>1. /\ MaxLen \in Nat /\ MaxLen > 2 /\ MaxSent \in Nat
      /\ None \in Commands /\ <<>> \in Seq(Received)
      /\ Len(<<>>) < MaxLen /\ Len(<<>>) < 2
  <2>1. MaxLen \in Nat /\ MaxLen > 2 /\ MaxSent \in Nat
    BY Bounds
  <2>2. None \in Commands
    BY CommandTypes
  <2>3. <<>> \in Seq(Received) /\ Len(<<>>) = 0
    OBVIOUS
  <2>. QED  BY <2>1, <2>2, <2>3
<1> USE DEF TypeOK, Silently, ResetError, phaseVars, sendVars, cpuVars
<1>2. Plain("+") \in Answers /\ Plain("-") \in Answers /\ Plain("stop") \in Answers
      /\ \A d \in Commands : Char("reply", d) \in Answers
  BY <1>1, CharTypes
<1>3. CASE DataOpen
  BY <1>1, <1>3, ReadTypes DEF DataOpen
<1>4. CASE DataEnd
  BY <1>1, <1>4, ReadTypes DEF DataEnd
<1>5. CASE DataChar
  <2>1. /\ Head(rx) \in Received /\ Append(cur_packet, Head(rx)) \in Seq(Received)
        /\ Append(cur_checksum, Head(rx)) \in Seq(Received)
        /\ Len(Append(cur_packet, Head(rx))) = Len(cur_packet) + 1 /\ Len(cur_packet) \in Nat
    BY <1>5, ReadTypes, SequenceTypes DEF DataChar
  <2>2. CASE Len(cur_packet) >= MaxLen - 1
    BY <1>1, <1>5, <2>2, ReadTypes DEF DataChar
  <2>3. CASE ~(Len(cur_packet) >= MaxLen - 1)
    <3>1. /\ cur_packet' = Append(cur_packet, Head(rx))
          /\ cur_checksum' = Append(cur_checksum, Head(rx))
          /\ UNCHANGED <<packet_phase, digits, awaiting_ack>> /\ Silently
      BY <1>5, <2>3 DEF DataChar
    <3>2. cur_packet' \in Seq(Received) /\ cur_checksum' \in Seq(Received)
      BY <2>1, <3>1, Zenon
    <3>3. Len(cur_packet') < MaxLen
      <4>1. Len(cur_packet') = Len(cur_packet) + 1
        BY <2>1, <3>1, Zenon
      <4>. HIDE DEF TypeOK, Silently, ResetError, phaseVars, sendVars, cpuVars
      <4>. QED  BY <1>1, <2>1, <2>3, <4>1
    <3>. QED  BY <1>5, <3>1, <3>2, <3>3, ReadTypes DEF DataChar
  <2>. QED  BY <2>2, <2>3
<1>6. CASE Nack
  <2>1. <<Char("reply", tx_packet)>> \in Seq(Answers)
    BY <1>2
  <2>2. tx' \in Seq(Answers) /\ awaiting_ack' \in BOOLEAN
    BY <1>6, <2>1, TransmitTypes DEF Nack
  <2>. QED  BY <1>6, <2>2, ReadTypes DEF Nack
<1>7. CASE Ack
  BY <1>7, ReadTypes DEF Ack
<1>8. CASE Open
  BY <1>1, <1>8, ReadTypes DEF Open
<1>9. CASE Interrupt
  <2>1. <<Plain("stop")>> \in Seq(Answers)
    BY <1>2
  <2>2. tx' \in Seq(Answers) /\ awaiting_ack' \in BOOLEAN
    BY <1>9, <2>1, TransmitTypes DEF Interrupt
  <2>. QED  BY <1>9, <2>2, ReadTypes DEF Interrupt
<1>10. CASE Junk
  BY <1>10, ReadTypes DEF Junk
<1>11. CASE FirstDigit
  <2>1. <<Head(rx)>> \in Seq(Received) /\ Len(<<Head(rx)>>) < 2
    BY <1>11, ReadTypes DEF FirstDigit
  <2>2. CASE Head(rx).is = "sum"
    BY <1>11, <2>1, <2>2, ReadTypes DEF FirstDigit
  <2>3. CASE Head(rx).is # "sum"
    BY <1>1, <1>11, <2>3, ReadTypes DEF FirstDigit
  <2>. QED  BY <2>2, <2>3
<1>12. CASE LastDigit
  <2>1. cur_packet[1].of = c /\ c \in Commands /\ c.n \in 1 .. MaxSent /\ cur_packet = Data(c)
    BY <1>12, WholePacket DEF LastDigit
  <2>2. CASE Head(rx).is = "sum" /\ \A d \in {digits[1], Head(rx)} : cur_checksum = Data(d.of)
    <3>1. /\ packet_phase' = "NONE" /\ digits' = <<>> /\ UNCHANGED <<cur_packet, cur_checksum>>
          /\ Execute(c) /\ ran' = Append(ran, c.n)
      BY <1>12, <2>1, <2>2 DEF LastDigit
    <3>2. ran' \in Seq(1 .. MaxSent)
      BY <2>1, <3>1, SequenceTypes
    <3>3. Acked(<<Char("reply", c)>>) \in Seq(Answers) /\ Acked(<<>>) \in Seq(Answers)
      BY <1>2, <2>1 DEF Acked
    <3>4. /\ tx_packet' \in Commands /\ tx' \in Seq(Answers) /\ awaiting_ack' \in BOOLEAN
          /\ halted' \in BOOLEAN /\ stopped' \in BOOLEAN
      <4>1. CASE c.kind = "m"
        BY <2>1, <3>1, <3>3, <4>1, TransmitTypes DEF Execute
      <4>2. CASE c.kind = "c"
        <5>1. /\ tx' = tx \o Acked(<<>>) /\ UNCHANGED <<tx_packet, awaiting_ack>>
              /\ halted' = FALSE /\ stopped' = (stopped /\ ~halted)
          BY <3>1, <4>2 DEF Execute
        <5>2. tx' \in Seq(Answers)
          BY <3>3, <5>1, SequenceTypes
        <5>3. halted' \in BOOLEAN /\ stopped' \in BOOLEAN
          BY <5>1, Zenon
        <5>. QED  BY <5>1, <5>2, <5>3
      <4>3. CASE c.kind # "m" /\ c.kind # "c"
        BY <3>1, <3>3, <4>3, TransmitTypes DEF Execute
      <4>. QED  BY <4>1, <4>2, <4>3
    <3>. QED  BY <1>1, <1>12, <3>1, <3>2, <3>4, ReadTypes DEF LastDigit
  <2>3. CASE ~(Head(rx).is = "sum" /\ \A d \in {digits[1], Head(rx)} : cur_checksum = Data(d.of))
    <3>1. /\ ResetError /\ UNCHANGED <<tx_packet, cpuVars, ran>>
          /\ tx' = IF Head(rx).is = "sum" THEN Append(tx, Plain("-")) ELSE tx
      BY <1>12, <2>3 DEF LastDigit
    <3>2. tx' \in Seq(Answers)
      BY <1>2, <3>1, SequenceTypes
    <3>. QED  BY <1>1, <1>12, <3>1, <3>2, ReadTypes DEF LastDigit
  <2>. QED  BY <2>2, <2>3
<1>. QED  BY <1>3, <1>4, <1>5, <1>6, <1>7, <1>8, <1>9, <1>10, <1>11, <1>12 DEF ProcessChar

LEMMA ServerTypes ==
  ASSUME TypeOK, PollTarget \/ NoChar \/ TargetStop
  PROVE  TypeOK'
<1> USE DEF TypeOK, phaseVars, sendVars, cpuVars, gdbVars, boundVars, serverVars
<1>1. CASE PollTarget
  <2>1. <<Plain("stop")>> \in Seq(Answers)
    BY CommandTypes, CharTypes
  <2>2. CASE ~halted /\ stopped
    <3>1. Transmit(<<Plain("stop")>>) /\ halted' = TRUE
      BY <1>1, <2>2 DEF PollTarget
    <3>2. tx' \in Seq(Answers) /\ awaiting_ack' \in BOOLEAN
      BY <2>1, <3>1, TransmitTypes
    <3>. QED  BY <1>1, <3>1, <3>2 DEF PollTarget
  <2>3. CASE ~(~halted /\ stopped)
    BY <1>1, <2>3 DEF PollTarget
  <2>. QED  BY <2>2, <2>3
<1>2. CASE NoChar
  BY <1>2 DEF NoChar
<1>3. CASE TargetStop
  BY <1>3 DEF TargetStop
<1>. QED  BY <1>1, <1>2, <1>3

LEMMA SaysTypes ==
  ASSUME TypeOK, NEW t \in Seq(Received), Says(t)
  PROVE  rx' \in Seq(Received) /\ token' \in BOOLEAN
<1>1. rx' \in Seq(Received)
  BY SequenceTypes DEF Says
<1>2. token' \in BOOLEAN
  BY Zenon DEF Says
<1>. QED  BY <1>1, <1>2

LEMMA SignTypes ==
  /\ <<Plain("+")>> \in Seq(Received) /\ <<Plain("-")>> \in Seq(Received)
  /\ <<Plain("^C")>> \in Seq(Received)
  BY CommandTypes, CharTypes

LEMMA RepeatTypes ==
  ASSUME GdbPacketAssumption, TypeOK, Repeat, gdb = "acking"
  PROVE  /\ gdb' \in {"acking", "failed"} /\ tries' \in 0 .. MaxTries
         /\ rx' \in Seq(Received) /\ token' \in BOOLEAN
<1>1. cmd \in Commands /\ tries \in 0 .. MaxTries /\ MaxTries \in Nat
  BY Bounds DEF TypeOK
<1>2. CASE tries < MaxTries
  <2>1. rx' \in Seq(Received) /\ token' \in BOOLEAN
    BY <1>1, <1>2, PacketType, SaysTypes DEF Repeat
  <2>. QED  BY <1>1, <1>2, <2>1 DEF Repeat
<1>3. CASE ~(tries < MaxTries)
  BY <1>1, <1>3, SequenceTypes DEF Repeat, TypeOK
<1>. QED  BY <1>2, <1>3

\* How many packets the clients can have thought of.
LEMMA NextCommand ==
  ASSUME GdbPacketAssumption, TypeOK, Session, GdbCommand
  PROVE  \E kind \in Kinds :
           /\ cmd' = Command(sent + 1, kind) /\ rx' = rx \o Packet(cmd')
           /\ token' \in BOOLEAN
           /\ cmd = None => kind = "query"
           /\ sent < clients + MaxCommands /\ sent + 1 \in 1 .. MaxSent
<1>1. gdb = "idle" /\ (cmd = None \/ sent < clients + MaxCommands)
  BY DEF GdbCommand
<1>2. sent < clients + MaxCommands
  BY <1>1 DEF Session
<1>3. sent + 1 \in 1 .. MaxSent
  <2>1. sent \in 0 .. MaxSent /\ clients \in 0 .. MaxClients
    BY DEF TypeOK
  <2>. QED  BY <1>2, <2>1, Bounds
<1>4. PICK kind \in IF cmd = None THEN {"query"} ELSE {"m", "X", "c"} :
        cmd' = Command(sent + 1, kind) /\ Says(Packet(cmd'))
  BY DEF GdbCommand
<1>5. kind \in Kinds /\ (cmd = None => kind = "query")
  BY <1>4 DEF Kinds
<1>6. token' \in BOOLEAN
  BY <1>4, Zenon DEF Says
<1>. QED  BY <1>2, <1>3, <1>4, <1>5, <1>6 DEF Says

LEMMA ClientTypes ==
  ASSUME GdbPacketAssumption, TypeOK, Session, GdbStep
  PROVE  TypeOK'
<1> USE DEF TypeOK, Keep, phaseVars, sendVars, cpuVars, gdbVars, boundVars, serverVars
<1>1. /\ MaxClients \in Nat /\ MaxCommands \in Nat /\ MaxSent \in Nat
      /\ MaxTimeouts \in Nat /\ MaxSlow \in Nat /\ MaxInterrupts \in Nat /\ MaxTries \in Nat
      /\ rx \in Seq(Received) /\ tx \in Seq(Answers) /\ None \in Commands
  BY Bounds, CommandTypes
<1>2. CASE GdbConnect
  <2>1. rx' \in Seq(Received) /\ token' \in BOOLEAN
    BY <1>2, SaysTypes, SignTypes DEF GdbConnect
  <2>2. clean' \in BOOLEAN
    <3>1. clean' = (rx = <<>> /\ tx = <<>> /\ packet_phase = "NONE")
      BY <1>2 DEF GdbConnect
    <3>. QED  BY <3>1, Zenon
  <2>. QED  BY <1>1, <1>2, <2>1, <2>2 DEF GdbConnect
<1>3. CASE GdbLeave
  <2>1. rx' \in Seq(Received) /\ token' \in BOOLEAN
    <3>1. rx' \in Seq(Received)
      <4>1. rx' \in Prefixes(rx)
        BY <1>3 DEF GdbLeave
      <4>. HIDE DEF TypeOK, Keep
      <4>2. ASSUME NEW l \in 0 .. Len(rx)
            PROVE  SubSeq(rx, 1, l) \in Seq(Received)
        BY <1>1
      <4>. QED  BY <4>1, <4>2 DEF Prefixes
    <3>2. token' \in BOOLEAN
      <4>1. token' \in BOOLEAN /\ (rx' = <<>> => ~token')
        BY <1>3 DEF GdbLeave
      <4>. QED  BY <4>1, Zenon
    <3>. QED  BY <3>1, <3>2
  <2>2. tx' \in Seq(Answers)
    <3>1. \A l \in 1 .. Len(tx) : SubSeq(tx, l, Len(tx)) \in Seq(Answers)
      BY <1>1
    <3>2. <<>> \in Seq(Answers) /\ tx' \in Suffixes(tx)
      BY <1>3 DEF GdbLeave
    <3>. QED  BY <3>1, <3>2 DEF Suffixes
  <2>3. /\ gdb' = "gone" /\ cmd' = None /\ tries' = 0 /\ clean' \in BOOLEAN /\ wrong' \in BOOLEAN
        /\ Keep /\ UNCHANGED boundVars
    BY <1>3 DEF GdbLeave
  <2>. QED  BY <1>1, <2>1, <2>2, <2>3
<1>4. CASE GdbCommand
  <2>1. PICK kind \in Kinds :
          /\ cmd' = Command(sent + 1, kind) /\ rx' = rx \o Packet(cmd')
          /\ token' \in BOOLEAN /\ sent + 1 \in 1 .. MaxSent
    BY <1>4, NextCommand
  <2>2. cmd' \in Commands
    BY <2>1, CommandTypes
  <2>3. rx' \in Seq(Received) /\ token' \in BOOLEAN
    BY <1>1, <2>1, <2>2, PacketType
  <2>. QED  BY <1>1, <1>4, <2>1, <2>2, <2>3 DEF GdbCommand
<1>5. CASE GdbReadAck
  <2>1. tx' \in Seq(Answers) /\ gdb = "acking"
    BY <1>1, <1>5, TailFacts DEF GdbReadAck
  <2>2. CASE Head(tx).is = "+"
    <3>1. gdb' \in {"running", "reading"} /\ tries' = 0 /\ UNCHANGED <<rx, token>>
      BY <1>5, <2>2 DEF GdbReadAck
    <3>. QED  BY <1>1, <1>5, <2>1, <3>1 DEF GdbReadAck
  <2>3. CASE Head(tx).is = "-"
    <3>1. Repeat
      BY <1>5, <2>3 DEF GdbReadAck
    <3>. QED  BY <1>5, <2>1, <3>1, RepeatTypes DEF GdbReadAck
  <2>4. CASE Head(tx).is # "+" /\ Head(tx).is # "-"
    <3>1. Says(<<Plain("+")>>) /\ UNCHANGED <<gdb, tries>>
      BY <1>5, <2>4 DEF GdbReadAck
    <3>2. rx' \in Seq(Received) /\ token' \in BOOLEAN
      BY <3>1, SaysTypes, SignTypes
    <3>. QED  BY <1>5, <2>1, <3>1, <3>2 DEF GdbReadAck
  <2>. QED  BY <2>2, <2>3, <2>4
<1>6. CASE GdbAckTimeout
  BY <1>6, RepeatTypes DEF GdbAckTimeout
<1>7. CASE GdbAckSlow
  <2>1. gdb' \in {"acking", "failed"} /\ tries' \in 0 .. MaxTries
        /\ rx' \in Seq(Received) /\ token' \in BOOLEAN
    BY <1>7, RepeatTypes DEF GdbAckSlow
  <2>2. /\ slow < MaxSlow /\ slow' = slow + 1 /\ clean' \in BOOLEAN
        /\ Keep /\ UNCHANGED <<tx, cmd, wrong, sent, clients, timeouts, interrupts>>
    BY <1>7 DEF GdbAckSlow
  <2>. QED  BY <1>1, <2>1, <2>2
<1>8. CASE GdbRead
  <2>1. tx' \in Seq(Answers)
    BY <1>1, <1>8, TailFacts DEF GdbRead
  <2>2. CASE Head(tx).is \in {"reply", "stop"}
    <3>1. rx' \in Seq(Received) /\ token' \in BOOLEAN
      BY <1>8, <2>2, SaysTypes, SignTypes DEF GdbRead
    <3>2. wrong' \in BOOLEAN
      <4>1. wrong' = (wrong \/ Head(tx) # Char("reply", cmd))
        BY <1>8, <2>2 DEF GdbRead
      <4>. QED  BY <4>1, Zenon
    <3>. QED  BY <1>8, <2>1, <2>2, <3>1, <3>2 DEF GdbRead
  <2>3. CASE Head(tx).is \notin {"reply", "stop"}
    BY <1>8, <2>1, <2>3 DEF GdbRead
  <2>. QED  BY <2>2, <2>3
<1>9. CASE GdbReadTimeout
  <2>1. rx' \in Seq(Received) /\ token' \in BOOLEAN
    BY <1>9, SaysTypes, SignTypes DEF GdbReadTimeout
  <2>. QED  BY <1>1, <1>9, <2>1 DEF GdbReadTimeout
<1>10. CASE GdbWait
  <2>1. tx' \in Seq(Answers)
    BY <1>1, <1>10, TailFacts DEF GdbWait
  <2>2. rx' \in Seq(Received) /\ token' \in BOOLEAN
    BY <1>10, SaysTypes, SignTypes, SequenceTypes DEF GdbWait
  <2>3. gdb' \in {"idle", "running"}
    BY <1>10 DEF GdbWait
  <2>. QED  BY <1>10, <2>1, <2>2, <2>3 DEF GdbWait
<1>11. CASE GdbInterrupt
  <2>1. rx' \in Seq(Received) /\ token' \in BOOLEAN
    BY <1>11, SaysTypes, SignTypes DEF GdbInterrupt
  <2>. QED  BY <1>1, <1>11, <2>1 DEF GdbInterrupt
<1>. QED
  BY <1>2, <1>3, <1>4, <1>5, <1>6, <1>7, <1>8, <1>9, <1>10, <1>11 DEF GdbStep, GdbReceive

LEMMA SessionStep ==
  ASSUME GdbPacketAssumption, TypeOK, Session, Next
  PROVE  Session'
<1> USE DEF Session
<1>1. /\ sent \in Nat /\ clients \in Nat /\ MaxCommands \in Nat /\ cmd \in Commands
  BY Bounds DEF TypeOK
<1>2. CASE ServerStep \/ TargetStop
  <2>1. UNCHANGED <<gdbVars, boundVars>>
    BY <1>2 DEF ServerStep, PollTarget, NoChar, TargetStop, ProcessChar, GetChar, DataOpen,
         DataEnd, DataChar, Nack, Ack, Open, Interrupt, Junk, FirstDigit, LastDigit
  <2>. QED  BY <2>1 DEF gdbVars, boundVars
<1>3. CASE GdbConnect
  BY <1>1, <1>3 DEF GdbConnect
<1>4. CASE GdbLeave
  BY <1>1, <1>4 DEF GdbLeave, boundVars
<1>5. CASE GdbCommand
  <2>1. PICK kind \in Kinds :
          /\ cmd' = Command(sent + 1, kind)
          /\ sent < clients + MaxCommands /\ sent + 1 \in 1 .. MaxSent
    BY <1>5, NextCommand
  <2>2. cmd' # None /\ cmd'.n = sent + 1
    BY <2>1, CommandTypes
  <2>3. sent' = sent + 1 /\ clients' = clients /\ gdb' = "acking"
    BY <1>5 DEF GdbCommand
  <2>. QED  BY <1>1, <2>1, <2>2, <2>3
<1>6. CASE GdbReadAck
  BY <1>1, <1>6 DEF GdbReadAck, Repeat, boundVars
<1>7. CASE GdbAckTimeout
  BY <1>1, <1>7 DEF GdbAckTimeout, Repeat, boundVars
<1>8. CASE GdbAckSlow
  BY <1>1, <1>8 DEF GdbAckSlow, Repeat
<1>9. CASE GdbRead
  BY <1>1, <1>9 DEF GdbRead, boundVars
<1>10. CASE GdbReadTimeout
  BY <1>1, <1>10 DEF GdbReadTimeout, gdbVars
<1>11. CASE GdbWait
  BY <1>1, <1>11 DEF GdbWait, boundVars
<1>12. CASE GdbInterrupt
  BY <1>1, <1>12 DEF GdbInterrupt, gdbVars
<1>. QED
  BY <1>2, <1>3, <1>4, <1>5, <1>6, <1>7, <1>8, <1>9, <1>10, <1>11, <1>12
     DEF Next, GdbStep, GdbReceive

-----------------------------------------------------------------------------
(* What a client says goes on where it left off, or where its predecessor  *)
(* was cut off; the automaton does not notice.                             *)

Speaks(t) ==
  rx' = rx \o t /\ t \in Seq(Received) /\ Saying(t) /\ Continues(t, cmd, cmd')

LEMMA SignSpeaks ==
  ASSUME NEW x \in Signs, rx' = rx \o <<x>>,
         IF cmd = None THEN x = Plus /\ cmd' = None ELSE cmd' = cmd
  PROVE  Speaks(<<x>>)
<1>1. <<x>> \in Seq(Received)
  BY SignTypes DEF Signs, Plus
<1>2. Saying(<<x>>) /\ Starts(x) /\ <<x>> # <<>> /\ <<x>>[1] = x
  BY DEF Saying, Starts
<1>3. Continues(<<x>>, cmd, cmd')
  BY <1>2 DEF Continues
<1>. QED  BY <1>1, <1>2, <1>3 DEF Speaks

LEMMA PacketSpeaks ==
  ASSUME NEW c \in Commands, c # None, rx' = rx \o Packet(c), cmd' = c,
         cmd = None => c.kind = "query"
  PROVE  Speaks(Packet(c))
<1>1. c \in Real /\ Packet(c) \in Seq(Received)
  BY CommandTypes, PacketType
<1>2. Saying(Packet(c))
  BY <1>1 DEF Saying
<1>3. Packet(c) # <<>> /\ Starts(Packet(c)[1])
  BY <1>2, SayingFacts
<1>4. Opens(Packet(c)[1]) /\ Packet(c)[1] = Char("$", c)
  BY <1>1, PacketFacts
<1>5. cmd = None => IsQuery(Packet(c)[1])
  BY <1>4 DEF IsQuery, Char
<1>6. Continues(Packet(c), cmd, cmd')
  BY <1>3, <1>5 DEF Continues
<1>. QED  BY <1>1, <1>2, <1>6 DEF Speaks

LEMMA RepeatSpeaks ==
  ASSUME TypeOK, Session, Repeat, gdb = "acking", cmd' = cmd
  PROVE  rx' = rx \/ (rx' = rx \o Packet(cmd) /\ Speaks(Packet(cmd)))
<1>1. cmd \in Commands /\ cmd # None
  BY DEF TypeOK, Session
<1>2. rx' = rx \/ rx' = rx \o Packet(cmd)
  BY DEF Repeat, Says
<1>. QED  BY <1>1, <1>2, PacketSpeaks

LEMMA ReadAckMarks ==
  ASSUME TypeOK, NoNack, tx # <<>>
  PROVE  Head(tx) = tx[1] /\ Head(tx).is # "-" /\ tx \in Seq(Answers)
<1>1. tx \in Seq(Answers) /\ 1 \in 1 .. Len(tx) /\ Head(tx) = tx[1]
  BY SequenceTypes, TailFacts
<1>. QED  BY <1>1 DEF NoNack

LEMMA Speaking ==
  ASSUME GdbPacketAssumption, TypeOK, Session, NoNack, GdbStep
  PROVE  \/ GdbLeave
         \/ rx' = rx /\ cmd' = cmd
         \/ \E t : Speaks(t)
<1>1. Plus \in Signs /\ Plain("-") \in Signs /\ Plain("^C") \in Signs
  BY DEF Signs
<1>2. CASE GdbConnect
  <2>1. cmd = None /\ cmd' = cmd /\ rx' = rx \o <<Plus>>
    BY <1>2 DEF GdbConnect, Session, Says, Plus
  <2>. QED  BY <1>1, <2>1, SignSpeaks
<1>3. CASE GdbCommand
  <2>1. PICK kind \in Kinds :
          /\ cmd' = Command(sent + 1, kind) /\ rx' = rx \o Packet(cmd')
          /\ cmd = None => kind = "query"
          /\ sent + 1 \in 1 .. MaxSent
    BY <1>3, NextCommand
  <2>2. /\ Command(sent + 1, kind) \in Commands /\ Command(sent + 1, kind) # None
        /\ Command(sent + 1, kind).kind = kind
    BY <2>1, CommandTypes
  <2>3. Speaks(Packet(Command(sent + 1, kind)))
    BY <2>1, <2>2, PacketSpeaks
  <2>. QED  BY <2>3
<1>4. CASE GdbReadAck
  <2>1. gdb = "acking" /\ cmd' = cmd /\ Head(tx).is # "-" /\ cmd # None
    BY <1>4, ReadAckMarks DEF GdbReadAck, Session
  <2>2. rx' = rx \/ rx' = rx \o <<Plus>>
    BY <1>4, <2>1 DEF GdbReadAck, Says, Plus
  <2>. QED  BY <1>1, <2>1, <2>2, SignSpeaks
<1>5. CASE GdbAckTimeout
  BY <1>5, RepeatSpeaks DEF GdbAckTimeout
<1>6. CASE GdbAckSlow
  BY <1>6, RepeatSpeaks DEF GdbAckSlow
<1>7. CASE GdbRead
  <2>1. cmd' = cmd /\ cmd # None /\ (rx' = rx \/ rx' = rx \o <<Plus>>)
    BY <1>7 DEF GdbRead, Session, Says, Plus
  <2>. QED  BY <1>1, <2>1, SignSpeaks
<1>8. CASE GdbReadTimeout
  <2>1. cmd' = cmd /\ cmd # None /\ rx' = rx \o <<Plain("-")>>
    BY <1>8 DEF GdbReadTimeout, Session, Says, gdbVars
  <2>. QED  BY <1>1, <2>1, SignSpeaks
<1>9. CASE GdbWait
  <2>1. cmd' = cmd /\ cmd # None /\ (rx' = rx \/ rx' = rx \o <<Plus>>)
    BY <1>9 DEF GdbWait, Session, Says, Plus
  <2>. QED  BY <1>1, <2>1, SignSpeaks
<1>10. CASE GdbInterrupt
  <2>1. cmd' = cmd /\ cmd # None /\ rx' = rx \o <<Plain("^C")>>
    BY <1>10 DEF GdbInterrupt, Session, Says, gdbVars
  <2>. QED  BY <1>1, <2>1, SignSpeaks
<1>. QED
  BY <1>2, <1>3, <1>4, <1>5, <1>6, <1>7, <1>8, <1>9, <1>10 DEF GdbStep, GdbReceive

LEMMA AutomatonKept ==
  ASSUME NEW c \in Real, NEW m \in 0 .. RestLen(c), Automaton(c, m), UNCHANGED phaseVars,
         Comes(c, m, rx, 1, cmd)', Renewed(rx, 1, cmd) => Renewed(rx, 1, cmd)'
  PROVE  Automaton(c, m)'
<1>1. UNCHANGED <<packet_phase, cur_packet, cur_checksum, digits>>
  BY DEF phaseVars
<1>. QED  BY <1>1 DEF Automaton, InData, InChecksum, InNone

LEMMA ClientGrammar ==
  ASSUME GdbPacketAssumption, TypeOK, Session, NoNack, Grammar(rx, cmd), GdbStep,
         NEW c \in Real, NEW m \in 0 .. RestLen(c), Automaton(c, m)
  PROVE  Grammar(rx, cmd)' /\ Automaton(c, m)'
<1>1. rx \in Seq(Received) /\ Comes(c, m, rx, 1, cmd)
  BY SequenceTypes DEF Automaton
<1>2. UNCHANGED phaseVars
  BY DEF GdbStep, GdbReceive, GdbConnect, GdbLeave, GdbCommand, GdbReadAck, GdbAckTimeout,
     GdbAckSlow, GdbRead, GdbReadTimeout, GdbWait, GdbInterrupt, Keep, serverVars
<1>3. CASE GdbLeave
  <2>1. cmd' = None /\ rx' \in Prefixes(rx)
    BY <1>3 DEF GdbLeave
  <2>2. PICK l \in 0 .. Len(rx) : rx' = SubSeq(rx, 1, l)
    BY <2>1 DEF Prefixes
  <2>3. 1 <= l + 1 /\ 1 \in Nat /\ 1 >= 1
    BY <1>1
  <2>4. Grammar(SubSeq(rx, 1, l), None)
    BY <1>1, GrammarCut
  <2>5. Comes(c, m, SubSeq(rx, 1, l), 1, None)
    BY <1>1, <2>3, ComesCut
  <2>6. Renewed(rx, 1, cmd) => Renewed(SubSeq(rx, 1, l), 1, None)
    BY <1>1, <2>3, RenewedCut
  <2>. QED  BY <1>2, <2>1, <2>2, <2>4, <2>5, <2>6, AutomatonKept
<1>4. CASE rx' = rx /\ cmd' = cmd
  BY <1>1, <1>2, <1>4, AutomatonKept
<1>5. CASE \E t : Speaks(t)
  <2>1. PICK t : Speaks(t)
    BY <1>5
  <2>2. /\ rx' = rx \o t /\ t \in Seq(Received) /\ Saying(t)
        /\ Continues(t, cmd, cmd')
    BY <2>1 DEF Speaks
  <2>3. Grammar(rx \o t, cmd')
    BY <1>1, <2>2, GrammarJoin
  <2>4. Comes(c, m, rx \o t, 1, cmd')
    BY <1>1, <2>2, ComesJoin
  <2>5. Renewed(rx, 1, cmd) => Renewed(rx \o t, 1, cmd')
    BY <1>1, <2>2, RenewedJoin
  <2>. QED  BY <1>2, <2>2, <2>3, <2>4, <2>5, AutomatonKept
<1>. QED  BY <1>3, <1>4, <1>5, Speaking

-----------------------------------------------------------------------------
(* The order, and the exchange, while the server reads.                    *)

\* The server may add a character to what it sends, but no acknowledgement.
Adds(x) == tx' = tx \o <<x>> /\ x \in Answers /\ x.is \notin {"+", "-"}
Silent == tx' = tx \/ \E x : Adds(x)

LEMMA SilentFacts ==
  ASSUME TypeOK, Silent
  PROVE  /\ Len(tx) \in Nat /\ Len(tx') \in Nat /\ Len(tx) <= Len(tx')
         /\ \A i \in 1 .. Len(tx) : tx'[i] = tx[i]
         /\ \A i \in 1 .. Len(tx') : i > Len(tx) => tx'[i].is \notin {"+", "-"}
         /\ Acks(tx') = Acks(tx)
         /\ NoNack => NoNack'
<1>1. tx \in Seq(Answers)
  BY SequenceTypes
<1>2. /\ Len(tx) \in Nat /\ Len(tx') \in Nat /\ Len(tx) <= Len(tx')
      /\ \A i \in 1 .. Len(tx) : tx'[i] = tx[i]
      /\ \A i \in 1 .. Len(tx') : i > Len(tx) => tx'[i].is \notin {"+", "-"}
  <2>1. CASE tx' = tx
    BY <1>1, <2>1
  <2>2. CASE \E x : Adds(x)
    <3>1. PICK x : Adds(x)
      BY <2>2
    <3>2. /\ tx' = tx \o <<x>> /\ x \in Answers /\ x.is \notin {"+", "-"}
          /\ <<x>> \in Seq(Answers) /\ Len(<<x>>) = 1 /\ <<x>>[1] = x
      BY <3>1 DEF Adds
    <3>3. /\ Len(tx') = Len(tx) + 1 /\ tx'[Len(tx) + 1] = x
          /\ \A i \in 1 .. Len(tx) : tx'[i] = tx[i]
      BY <1>1, <3>2, JoinFacts
    <3>4. \A i \in 1 .. Len(tx') : i > Len(tx) => i = Len(tx) + 1
      BY <1>1, <3>3
    <3>. QED  BY <1>1, <3>2, <3>3, <3>4
  <2>. QED  BY <2>1, <2>2 DEF Silent
<1>3. Acks(tx') = Acks(tx)
  BY <1>2 DEF Acks
<1>4. NoNack => NoNack'
  BY <1>2 DEF NoNack
<1>. QED  BY <1>2, <1>3, <1>4

LEMMA TailOpens ==
  ASSUME TypeOK, rx # <<>>, rx' = Tail(rx)
  PROVE  /\ Len(rx) \in Nat /\ Len(rx') \in Nat
         /\ \A i \in 1 .. Len(rx') : i + 1 \in 1 .. Len(rx) /\ rx'[i] = rx[i + 1]
         /\ \A i \in 1 .. Len(rx) : i # 1 => i - 1 \in 1 .. Len(rx') /\ rx'[i - 1] = rx[i]
         /\ 1 \in 1 .. Len(rx) /\ rx[1] \in Received
<1>1. rx \in Seq(Received)
  BY SequenceTypes
<1>2. /\ Len(rx) \in Nat /\ Len(rx) >= 1 /\ Len(rx') = Len(rx) - 1
      /\ \A i \in 1 .. Len(rx) - 1 : rx'[i] = rx[i + 1]
      /\ rx[1] \in Received
  BY <1>1, TailFacts
<1>3. ASSUME NEW i \in 1 .. Len(rx), i # 1
      PROVE  i - 1 \in 1 .. Len(rx') /\ rx'[i - 1] = rx[i]
  <2>1. i - 1 \in 1 .. Len(rx) - 1 /\ (i - 1) + 1 = i
    BY <1>2, <1>3
  <2>2. rx'[i - 1] = rx[(i - 1) + 1]
    BY <1>2, <2>1
  <2>. QED  BY <1>2, <2>1, <2>2
<1>. QED  BY <1>2, <1>3

LEMMA RanTypes ==
  ASSUME GdbPacketAssumption, TypeOK
  PROVE  Len(ran) \in Nat /\ \A i \in 1 .. Len(ran) : ran[i] \in Nat
<1>1. ran \in Seq(1 .. MaxSent) /\ MaxSent \in Nat
  BY SequenceTypes, Bounds
<1>. QED  BY <1>1

LEMMA OrderReads ==
  ASSUME TypeOK, Order, rx # <<>>, rx' = Tail(rx), Silent, UNCHANGED <<gdb, cmd, sent, ran>>
  PROVE  Order'
<1>1. /\ \A i \in 1 .. Len(rx') : i + 1 \in 1 .. Len(rx) /\ rx'[i] = rx[i + 1]
      /\ Len(rx') \in Nat /\ Acks(tx') = Acks(tx)
  BY TailOpens, SilentFacts
<1>2. \A i \in 1 .. Len(rx') : rx'[i].is = "$" => rx'[i].of.n <= sent
  BY <1>1 DEF Order
<1>3. \A i, j \in 1 .. Len(rx') :
        i < j /\ rx'[i].is = "$" /\ rx'[j].is = "$" => rx'[i].of.n < rx'[j].of.n
  <2> SUFFICES ASSUME NEW i \in 1 .. Len(rx'), NEW j \in 1 .. Len(rx'), i < j,
                      rx'[i].is = "$", rx'[j].is = "$"
               PROVE  rx'[i].of.n < rx'[j].of.n
    OBVIOUS
  <2>1. i + 1 \in 1 .. Len(rx) /\ j + 1 \in 1 .. Len(rx) /\ i + 1 < j + 1
        /\ rx'[i] = rx[i + 1] /\ rx'[j] = rx[j + 1]
    BY <1>1
  <2>. QED  BY <2>1 DEF Order
<1>4. \A i \in 1 .. Len(rx'), j \in 1 .. Len(ran) : rx'[i].is = "$" => ran[j] < rx'[i].of.n
  BY <1>1 DEF Order
<1>. QED  BY <1>1, <1>2, <1>3, <1>4 DEF Order

LEMMA OrderInReads ==
  ASSUME TypeOK, NEW c, OrderIn(c), rx # <<>>, rx' = Tail(rx), UNCHANGED <<sent, ran>>,
         packet_phase' # "NONE" => packet_phase # "NONE"
  PROVE  OrderIn(c)'
<1>1. \A i \in 1 .. Len(rx') : i + 1 \in 1 .. Len(rx) /\ rx'[i] = rx[i + 1]
  BY TailOpens
<1>. QED  BY <1>1 DEF OrderIn

LEMMA OrderInOpens ==
  ASSUME TypeOK, Order, rx # <<>>, rx' = Tail(rx), UNCHANGED <<sent, ran>>,
         NEW d, rx[1].is = "$", rx[1].of = d
  PROVE  OrderIn(d)'
<1>1. /\ \A i \in 1 .. Len(rx') : i + 1 \in 1 .. Len(rx) /\ rx'[i] = rx[i + 1] /\ 1 < i + 1
      /\ 1 \in 1 .. Len(rx) /\ Len(rx') \in Nat
  BY TailOpens
<1>2. d.n <= sent /\ \A j \in 1 .. Len(ran) : ran[j] < d.n
  BY <1>1 DEF Order
<1>3. \A i \in 1 .. Len(rx') : rx'[i].is = "$" => d.n < rx'[i].of.n
  BY <1>1 DEF Order
<1>. QED  BY <1>2, <1>3 DEF OrderIn

\* A client that is on its own and whose packet is being read: nothing follows it.
LEMMA AloneReads ==
  ASSUME TypeOK, Session, NEW c, Exchange(c), Alone, packet_phase # "NONE"
  PROVE  /\ gdb = "acking" /\ Arriving(c) /\ ~wrong /\ NoOpening /\ ~Renewed(rx, 1, cmd)
         /\ rx # <<>> => rx[1].is # "$"
<1>1. gdb = "acking" /\ Arriving(c) /\ ~wrong /\ NoOpening
  BY DEF Exchange, OnItsWay, Arriving, Answered, Resting
<1>2. cmd # None
  BY <1>1 DEF Session
<1>3. \A i \in 1 .. Len(rx) : rx[i].is # "$"
  BY <1>1 DEF NoOpening, Opening
<1>4. ~Renewed(rx, 1, cmd)
  BY <1>2, <1>3 DEF Renewed, IsQuery, Opens
<1>5. rx # <<>> => rx[1].is # "$"
  BY <1>3, SequenceTypes, TailFacts
<1>. QED  BY <1>1, <1>4, <1>5

LEMMA NoOpeningReads ==
  ASSUME TypeOK, rx # <<>>, rx' = Tail(rx), NoOpening
  PROVE  NoOpening'
<1>1. \A i \in 1 .. Len(rx') : i + 1 \in 1 .. Len(rx) /\ rx'[i] = rx[i + 1]
  BY TailOpens
<1>. QED  BY <1>1 DEF NoOpening, Opening

\* Within a packet.
LEMMA ExchangeReads ==
  ASSUME TypeOK, Session, NEW c, Exchange(c), rx # <<>>, rx' = Tail(rx), tx' = tx,
         packet_phase # "NONE", packet_phase' # "NONE", UNCHANGED gdbVars
  PROVE  Exchange(c)'
<1> SUFFICES ASSUME Alone'
             PROVE  ~wrong' /\ gdb' = "acking" /\ Arriving(c)'
  BY DEF Exchange
<1>1. UNCHANGED <<gdb, cmd, clean, wrong>>
  BY DEF gdbVars
<1>2. Alone
  BY <1>1 DEF Alone
<1>3. gdb = "acking" /\ Arriving(c) /\ ~wrong /\ NoOpening
  BY <1>2, AloneReads
<1>4. NoOpening'
  BY <1>3, NoOpeningReads
<1>. QED  BY <1>1, <1>3, <1>4 DEF Arriving

\* Whoever is not on its own stays so.
LEMMA ExchangeElse ==
  ASSUME ~Alone, UNCHANGED gdbVars, NEW d
  PROVE  Exchange(d)'
<1>1. UNCHANGED <<gdb, clean>>
  BY DEF gdbVars
<1>. QED  BY <1>1 DEF Exchange, Alone

\* Between packets, whatever is read but the beginning of one.
LEMMA ExchangeNone ==
  ASSUME TypeOK, NEW c, Exchange(c), packet_phase = "NONE", packet_phase' = "NONE",
         rx' = rx \/ (rx # <<>> /\ rx[1].is # "$" /\ rx' = Tail(rx)),
         Silent, UNCHANGED gdbVars, NEW d
  PROVE  Exchange(d)'
<1> SUFFICES ASSUME Alone'
             PROVE  ~wrong' /\ IF gdb' = "acking" THEN OnItsWay' \/ Arriving(d)' \/ Answered'
                                                  ELSE Resting'
  BY DEF Exchange
<1>1. UNCHANGED <<gdb, cmd, clean, wrong>>
  BY DEF gdbVars
<1>2. Alone
  BY <1>1 DEF Alone
<1>3. ~wrong /\ IF gdb = "acking" THEN OnItsWay \/ Answered ELSE Resting
  BY <1>2 DEF Exchange, Arriving
<1>4. /\ Len(tx) \in Nat /\ Len(tx') \in Nat /\ Len(tx) <= Len(tx')
      /\ \A i \in 1 .. Len(tx) : tx'[i] = tx[i]
      /\ Acks(tx') = Acks(tx)
  BY SilentFacts
<1>5. CASE NoOpening
  <2>1. NoOpening'
    <3>1. CASE rx' = rx
      BY <1>5, <3>1 DEF NoOpening, Opening
    <3>2. CASE rx' # rx
      BY <1>5, <3>2, NoOpeningReads
    <3>. QED  BY <3>1, <3>2
  <2>2. ~OnItsWay
    <3>1. Char("$", cmd).is = "$"
      BY DEF Char
    <3>. QED  BY <1>5, <3>1 DEF OnItsWay, NoOpening, Opening
  <2>3. CASE gdb = "acking"
    <3>1. PICK k \in 1 .. Len(tx) :
            /\ tx[k].is = "+" /\ \A j \in Acks(tx) : j = k
            /\ cmd.kind # "c" => k < Len(tx) /\ tx[k + 1] = Reply
      BY <1>3, <2>2, <2>3 DEF Answered
    <3>2. k \in 1 .. Len(tx') /\ tx'[k].is = "+"
      BY <1>4, <3>1
    <3>3. cmd.kind # "c" => k < Len(tx') /\ tx'[k + 1] = Reply
      BY <1>4, <3>1
    <3>4. Reply' = Reply
      BY <1>1 DEF Reply
    <3>5. Answered'
      BY <1>1, <1>4, <2>1, <3>1, <3>2, <3>3, <3>4 DEF Answered
    <3>. QED  BY <1>1, <1>3, <2>3, <3>5
  <2>4. CASE gdb # "acking"
    <3>1. Resting
      BY <1>3, <2>4
    <3>2. gdb = "reading" => 1 \in 1 .. Len(tx) /\ tx[1] = Reply
      <4>1. tx \in Seq(Answers)
        BY SequenceTypes
      <4>. QED  BY <3>1, <4>1, TailFacts DEF Resting
    <3>3. gdb' = "reading" => tx' # <<>> /\ tx'[1] = Reply'
      BY <1>1, <1>4, <3>2 DEF Reply
    <3>4. Resting'
      BY <1>4, <2>1, <3>1, <3>3 DEF Resting
    <3>. QED  BY <1>1, <1>3, <2>4, <3>4
  <2>. QED  BY <2>3, <2>4
<1>6. CASE ~NoOpening
  <2>1. OnItsWay /\ gdb = "acking"
    BY <1>3, <1>6 DEF Answered, Resting
  <2>2. PICK k \in 1 .. Len(rx) : rx[k] = Char("$", cmd) /\ \A j \in Opening(rx) : j = k
    BY <2>1 DEF OnItsWay
  <2>3. CASE rx' = rx
    BY <1>1, <1>3, <1>4, <2>1, <2>3 DEF OnItsWay
  <2>4. CASE rx' # rx
    <3>1. /\ \A i \in 1 .. Len(rx') : i + 1 \in 1 .. Len(rx) /\ rx'[i] = rx[i + 1]
          /\ \A i \in 1 .. Len(rx) : i # 1 => i - 1 \in 1 .. Len(rx') /\ rx'[i - 1] = rx[i]
          /\ Len(rx) \in Nat /\ Len(rx') \in Nat /\ rx[1].is # "$"
      BY <2>4, TailOpens
    <3>2. k # 1
      BY <2>2, <3>1 DEF Char
    <3>3. k - 1 \in 1 .. Len(rx') /\ rx'[k - 1] = Char("$", cmd')
      BY <1>1, <2>2, <3>1, <3>2
    <3>4. \A j \in Opening(rx') : j = k - 1
      <4> SUFFICES ASSUME NEW j \in Opening(rx') PROVE j = k - 1
        OBVIOUS
      <4>1. j \in 1 .. Len(rx') /\ rx'[j].is = "$"
        BY DEF Opening
      <4>2. j + 1 \in Opening(rx)
        BY <3>1, <4>1 DEF Opening
      <4>3. j + 1 = k
        BY <2>2, <4>2
      <4>. QED  BY <4>1, <4>3
    <3>5. Acks(tx') = {}
      BY <1>4, <2>1 DEF OnItsWay
    <3>6. OnItsWay'
      BY <3>3, <3>4, <3>5 DEF OnItsWay
    <3>. QED  BY <1>1, <1>3, <2>1, <3>6
  <2>. QED  BY <2>3, <2>4
<1>. QED  BY <1>5, <1>6

-----------------------------------------------------------------------------
(* The server's steps.                                                     *)

\* What a step of the server starts from, when the automaton is m characters into
\* c's packet.
From(c, m) ==
  /\ GdbPacketAssumption /\ Base /\ NoNack /\ (slow = 0 => Order)
  /\ c \in Real /\ m \in 0 .. RestLen(c) /\ Tracks(c, m)

\* It takes a character, and executes nothing.
Takes ==
  /\ rx # <<>> /\ rx' = Tail(rx) /\ UNCHANGED <<gdbVars, boundVars, ran>> /\ Silent

LEMMA TakesFacts ==
  ASSUME NEW chars, TypeOK, GetChar(chars)
  PROVE  /\ rx # <<>> /\ rx' = Tail(rx) /\ Head(rx) = rx[1] /\ rx[1].is \in chars
         /\ UNCHANGED <<gdbVars, boundVars>>
         /\ ran' = ran /\ Silent => Takes
<1>1. /\ rx # <<>> /\ rx' = Tail(rx) /\ Head(rx).is \in chars
      /\ UNCHANGED <<gdbVars, boundVars>>
  BY DEF GetChar
<1>2. Head(rx) = rx[1]
  BY <1>1, SequenceTypes, TailFacts
<1>. QED  BY <1>1, <1>2 DEF Takes

LEMMA TakesKept ==
  ASSUME NEW c, NEW m, From(c, m), Takes, NEW d \in Real, NEW l \in 0 .. RestLen(d),
         Automaton(d, l)', (slow = 0 => OrderIn(d))', Exchange(d)'
  PROVE  Kept'
<1>1. TypeOK /\ NoNack /\ (slow = 0 => Order)
  BY DEF From, Base
<1>2. rx # <<>> /\ rx' = Tail(rx) /\ Silent /\ UNCHANGED <<gdb, cmd, sent, ran, slow>>
  BY DEF Takes, gdbVars, boundVars
<1>3. NoNack'
  BY <1>1, <1>2, SilentFacts
<1>4. slow' = 0 => Order'
  BY <1>1, <1>2, OrderReads
<1>5. Tracks(d, l)'
  BY DEF Tracks
<1>. QED  BY <1>3, <1>4, <1>5 DEF Kept

\* The same packet goes on.
LEMMA TakesOn ==
  ASSUME NEW c, NEW m, From(c, m), Takes, tx' = tx, NEW l \in 0 .. RestLen(c), Automaton(c, l)',
         packet_phase # "NONE", packet_phase' # "NONE"
  PROVE  Kept'
<1>1. /\ TypeOK /\ Session /\ c \in Real /\ Exchange(c) /\ (slow = 0 => OrderIn(c))
  BY DEF From, Base, Tracks
<1>2. rx # <<>> /\ rx' = Tail(rx) /\ UNCHANGED gdbVars /\ UNCHANGED <<sent, ran, slow>>
  BY DEF Takes, boundVars
<1>3. Exchange(c)'
  BY <1>1, <1>2, ExchangeReads
<1>4. slow' = 0 => OrderIn(c)'
  BY <1>1, <1>2, OrderInReads
<1>. QED  BY <1>1, <1>3, <1>4, TakesKept

\* The packet comes to nothing: what comes is passed over up to a query, or is one.
LEMMA TakesError ==
  ASSUME NEW c, NEW m, From(c, m), Takes, packet_phase # "NONE", packet_phase' = "NONE",
         Renewed(rx, 1, cmd)
  PROVE  Kept'
<1>1. /\ TypeOK /\ Session /\ Exchange(c) /\ Grammar(rx, cmd) /\ rx \in Seq(Received)
  BY SequenceTypes DEF From, Base, Tracks
<1>2. rx # <<>> /\ rx' = Tail(rx) /\ UNCHANGED gdbVars /\ cmd' = cmd
  BY DEF Takes, gdbVars
<1>3. ~Alone
  BY <1>1, AloneReads
<1>4. PICK d \in Real : d.kind = "query" /\ Comes(d, 0, rx', 1, cmd')
  <2>1. CASE IsQuery(rx[1])
    <3>1. Comes(rx[1].of, 0, rx', 1, cmd') /\ rx[1].of \in Real /\ rx[1].of.kind = "query"
      BY <1>1, <1>2, <2>1, OpensNext DEF IsQuery, Opens
    <3>. QED  BY <3>1
  <2>2. CASE ~IsQuery(rx[1])
    <3> DEFINE d == [n |-> 0, kind |-> "query"]
    <3>1. MaxSent \in Nat
      BY Bounds DEF From
    <3>2. d \in Real /\ d.kind = "query"
      BY <3>1 DEF Real, Kinds
    <3> HIDE DEF d
    <3>3. Renewed(rx', 1, cmd') /\ rx' \in Seq(Received)
      BY <1>1, <1>2, <2>2, RenewedHead, TailFacts
    <3>4. 0 \in 0 .. RestLen(d) /\ 0 < RestLen(d)
      BY <3>2, Lengths
    <3>5. Comes(d, 0, rx', 1, cmd')
      BY <3>2, <3>3, <3>4, RenewedComes
    <3>. QED  BY <3>2, <3>5
  <2>. QED  BY <2>1, <2>2
<1>5. 0 \in 0 .. RestLen(d) /\ 0 <= RestLen(d)
  BY Lengths
<1>6. Automaton(d, 0)'
  BY <1>4, <1>5 DEF Automaton, InNone
<1>7. (slow = 0 => OrderIn(d))' /\ Exchange(d)'
  BY <1>2, <1>3, ExchangeElse DEF OrderIn
<1>. QED  BY <1>5, <1>6, <1>7, TakesKept

\* Between packets, anything but the beginning of one.
LEMMA TakesNone ==
  ASSUME NEW c, NEW m, From(c, m), Takes, packet_phase = "NONE", packet_phase' = "NONE",
         rx[1].is # "$"
  PROVE  Kept'
<1>1. /\ TypeOK /\ Grammar(rx, cmd) /\ c \in Real /\ m \in 0 .. RestLen(c) /\ m \in Nat
      /\ Automaton(c, m) /\ Exchange(c) /\ rx \in Seq(Received)
  BY SequenceTypes DEF From, Base, Tracks
<1>2. rx # <<>> /\ rx' = Tail(rx) /\ UNCHANGED gdbVars /\ cmd' = cmd /\ Silent
  BY DEF Takes, gdbVars
<1>3. PICK l \in 0 .. RestLen(c) :
        (l = RestLen(c) \/ c.kind = "query") /\ Comes(c, l, rx', 1, cmd')
  <2>1. ~Opens(rx[1])
    BY DEF Opens
  <2>2. CASE c.kind = "query" /\ m < RestLen(c) /\ Comes(c, m + 1, Tail(rx), 1, cmd)
    <3>1. m + 1 \in 0 .. RestLen(c)
      BY <1>1, <2>2, Lengths
    <3>. QED  BY <1>2, <2>2, <3>1
  <2>3. CASE c.kind = "query" /\ m < RestLen(c) /\ Renewed(Tail(rx), 1, cmd)
    <3>1. Tail(rx) \in Seq(Received)
      BY <1>1, <1>2, TailFacts
    <3>2. Comes(c, m, Tail(rx), 1, cmd)
      BY <1>1, <2>3, <3>1, RenewedComes
    <3>. QED  BY <1>1, <1>2, <2>3, <3>2
  <2>4. CASE m = RestLen(c) /\ Comes(c, m, Tail(rx), 1, cmd)
    BY <1>1, <1>2, <2>4
  <2>. QED  BY <1>1, <1>2, <2>1, <2>2, <2>3, <2>4, ReadsNone
<1>4. l <= RestLen(c)
  BY <1>1, Lengths
<1>5. Automaton(c, l)'
  BY <1>3, <1>4 DEF Automaton, InNone
<1>6. Exchange(c)'
  BY <1>1, <1>2, ExchangeNone
<1>. QED  BY <1>1, <1>5, <1>6, TakesKept DEF OrderIn

LEMMA DataFacts ==
  ASSUME NEW c \in Real, NEW S, NEW s \in Seq(S), Len(s) = DataLen(c),
         \A i \in 1 .. DataLen(c) : s[i] = Rest(c)[i]
  PROVE  s = Data(c)
<1>1. CASE c.kind = "X"
  <2>1. Len(s) = 2 /\ s[1] = Char("data", c) /\ s[2] = Char("^C", c)
    BY <1>1, RestFacts DEF DataLen, RestLen
  <2>2. Data(c) = <<Char("data", c), Char("^C", c)>>
    <3>1. Data(c) = <<Char("data", c)>> \o <<Char("^C", c)>>
      BY <1>1 DEF Data
    <3>2. ASSUME NEW a, NEW b
          PROVE  <<a>> \o <<b>> = <<a, b>>
      <4>1. <<a>> \in Seq({a, b}) /\ <<b>> \in Seq({a, b})
        OBVIOUS
      <4> DEFINE t == <<a>> \o <<b>>
      <4>2. t \in Seq({a, b}) /\ Len(t) = 2 /\ t[1] = a /\ t[2] = b
        BY <4>1
      <4> HIDE DEF t
      <4>3. t = <<t[1], t[2]>>
        BY <4>2
      <4>. QED  BY <4>2, <4>3 DEF t
    <3>. QED  BY <3>1, <3>2
  <2>3. s = <<s[1], s[2]>>
    BY <2>1
  <2>. QED  BY <2>1, <2>2, <2>3
<1>2. CASE c.kind # "X"
  <2>1. Len(s) = 1 /\ s[1] = Char("data", c)
    BY <1>2, RestFacts DEF DataLen, RestLen
  <2>2. Data(c) = <<Char("data", c)>>
    BY <1>2 DEF Data
  <2>3. s = <<s[1]>>
    BY <2>1
  <2>. QED  BY <2>1, <2>2, <2>3
<1>. QED  BY <1>1, <1>2

\* The kinds of characters do not get confused.
LEMMA Marks ==
  /\ Plus.is = "+" /\ \A x : IsQuery(x) => x.is = "$"
  /\ \A x \in Signs : x.is \in {"+", "-", "^C"} /\ x.of = None
  /\ \A c : Char("#", c).is = "#" /\ Sum(c).is = "sum" /\ Sum(c).of = c
  BY DEF Plus, Plain, Char, IsQuery, Opens, Signs, Sum

LEMMA DataMarks ==
  ASSUME NEW c \in Real, NEW m \in 0 .. RestLen(c), m < DataLen(c)
  PROVE  Rest(c)[m + 1].is \in {"data", "^C"}
<1>1. CASE m + 1 = 1
  <2>1. Rest(c)[m + 1] = Char("data", c)
    BY <1>1, RestFacts
  <2>. QED  BY <2>1 DEF Char
<1>2. CASE m + 1 = 2 /\ DataLen(c) = 2
  <2>1. Rest(c)[m + 1] = Char("^C", c)
    BY <1>2, RestFacts
  <2>. QED  BY <2>1 DEF Char
<1>3. m + 1 = 1 \/ (m + 1 = 2 /\ DataLen(c) = 2)
  BY Lengths
<1>. QED  BY <1>1, <1>2, <1>3

\* What From says, spelt out.
LEMMA FromFacts ==
  ASSUME NEW c, NEW m, From(c, m)
  PROVE  /\ GdbPacketAssumption /\ TypeOK /\ Session /\ Grammar(rx, cmd) /\ NoNack
         /\ slow = 0 => Order
         /\ c \in Real /\ m \in 0 .. RestLen(c) /\ Automaton(c, m)
         /\ slow = 0 => OrderIn(c)
         /\ Exchange(c) /\ rx \in Seq(Received)
  BY SequenceTypes DEF From, Base, Tracks

LEMMA QuietFacts ==
  ASSUME Silently
  PROVE  tx' = tx /\ ran' = ran /\ Silent
  BY DEF Silently, Silent

LEMMA DataOpenKept ==
  ASSUME NEW c, NEW m, From(c, m), DataOpen
  PROVE  Kept'
<1>1. packet_phase = "DATA" /\ GetChar({"$"}) /\ packet_phase' = "NONE" /\ Silently
  BY DEF DataOpen, ResetError
<1>2. Takes /\ rx[1].is = "$" /\ rx # <<>>
  BY <1>1, FromFacts, TakesFacts, QuietFacts
<1>3. IsQuery(rx[1]) /\ Renewed(rx, 1, cmd)
  <2>1. m < DataLen(c) => Rest(c)[m + 1].is \in {"data", "^C"}
    BY FromFacts, DataMarks
  <2>. QED  BY <1>1, <1>2, <2>1, FromFacts, ReadsData, Marks
<1>. QED  BY <1>1, <1>2, <1>3, TakesError

LEMMA DataEndKept ==
  ASSUME NEW c, NEW m, From(c, m), DataEnd
  PROVE  Kept'
<1>1. /\ packet_phase = "DATA" /\ GetChar({"#"}) /\ packet_phase' = "CHECKSUM"
      /\ digits' = <<>> /\ UNCHANGED <<cur_packet, cur_checksum>> /\ Silently
  BY DEF DataEnd
<1>2. Takes /\ rx[1].is = "#" /\ rx # <<>> /\ rx' = Tail(rx) /\ cmd' = cmd /\ tx' = tx
  BY <1>1, FromFacts, TakesFacts, QuietFacts DEF gdbVars
<1>3. /\ m = DataLen(c) /\ Len(cur_packet) = m /\ cur_checksum = cur_packet
      /\ \A i \in 1 .. m : cur_packet[i] = Rest(c)[i]
      /\ Comes(c, m + 1, Tail(rx), 1, cmd)
  <2>1. m < DataLen(c) => Rest(c)[m + 1].is \in {"data", "^C"}
    BY FromFacts, DataMarks
  <2>. QED  BY <1>1, <1>2, <2>1, FromFacts, ReadsData, Marks
<1>4. cur_packet = Data(c)
  BY <1>3, FromFacts, SequenceTypes, DataFacts
<1>5. m + 1 \in 0 .. RestLen(c) /\ m + 1 <= RestLen(c)
  BY <1>3, FromFacts, Lengths
<1>6. Automaton(c, m + 1)'
  BY <1>1, <1>2, <1>3, <1>4, <1>5 DEF Automaton, InChecksum
<1>. QED  BY <1>1, <1>2, <1>5, <1>6, TakesOn

LEMMA DataCharKept ==
  ASSUME NEW c, NEW m, From(c, m), DataChar
  PROVE  Kept'
<1>1. /\ packet_phase = "DATA" /\ GetChar({"data", "sum", "+", "-", "^C"})
      /\ Silently
  BY DEF DataChar
<1>2. /\ Takes /\ rx[1].is \in {"data", "sum", "+", "-", "^C"} /\ rx # <<>> /\ rx' = Tail(rx)
      /\ cmd' = cmd /\ tx' = tx /\ Head(rx) = rx[1]
  BY <1>1, FromFacts, TakesFacts, QuietFacts DEF gdbVars
<1>3. \/ /\ m < DataLen(c) /\ rx[1] = Rest(c)[m + 1]
         /\ Len(cur_packet) = m /\ cur_checksum = cur_packet
         /\ \A i \in 1 .. m : cur_packet[i] = Rest(c)[i]
         /\ Comes(c, m + 1, Tail(rx), 1, cmd)
      \/ rx[1] = Plus /\ Renewed(rx, 1, cmd) /\ Renewed(Tail(rx), 1, cmd) /\ m < RestLen(c)
  BY <1>1, <1>2, FromFacts, ReadsData, Marks
<1>4. CASE Renewed(rx, 1, cmd) /\ Renewed(Tail(rx), 1, cmd) /\ m < RestLen(c)
  <2>1. CASE packet_phase' = "NONE"
    BY <1>1, <1>2, <1>4, <2>1, TakesError
  <2>2. CASE packet_phase' # "NONE"
    <3>1. packet_phase' = "DATA"
      BY <1>1, <2>2 DEF DataChar, ResetError
    <3>2. m <= DataLen(c) /\ m <= RestLen(c)
      BY <1>1, FromFacts DEF Automaton, InData, InChecksum, InNone
    <3>3. Comes(c, m, rx', 1, cmd') /\ Renewed(rx', 1, cmd')
      <4>1. Tail(rx) \in Seq(Received)
        BY <1>2, FromFacts, TailFacts
      <4>2. Comes(c, m, Tail(rx), 1, cmd)
        BY <1>4, <4>1, FromFacts, RenewedComes
      <4>. QED  BY <1>2, <1>4, <4>2
    <3>4. Automaton(c, m)'
      BY <3>1, <3>2, <3>3 DEF Automaton, InData
    <3>. QED  BY <1>1, <1>2, <2>2, <3>4, FromFacts, TakesOn
  <2>. QED  BY <2>1, <2>2
<1>5. CASE /\ m < DataLen(c) /\ rx[1] = Rest(c)[m + 1]
           /\ Len(cur_packet) = m /\ cur_checksum = cur_packet
           /\ \A i \in 1 .. m : cur_packet[i] = Rest(c)[i]
           /\ Comes(c, m + 1, Tail(rx), 1, cmd)
  <2>1. m + 1 \in 0 .. RestLen(c) /\ m + 1 <= RestLen(c) /\ m + 1 <= DataLen(c) /\ m < 2
        /\ m \in Nat
    <3>1. c \in Real /\ m \in 0 .. RestLen(c) /\ m < DataLen(c)
      BY <1>5, FromFacts
    <3>2. DataLen(c) \in {1, 2} /\ RestLen(c) = DataLen(c) + 3
      BY <3>1, Lengths
    <3>. QED  BY <3>1, <3>2
  <2>2. ~(Len(cur_packet) >= MaxLen - 1)
    <3>1. MaxLen \in Nat /\ MaxLen > 2
      BY FromFacts, Bounds
    <3>. QED  BY <1>5, <2>1, <3>1
  <2>3. /\ cur_packet' = Append(cur_packet, rx[1]) /\ cur_checksum' = Append(cur_checksum, rx[1])
        /\ packet_phase' = "DATA"
    BY <1>1, <1>2, <2>2 DEF DataChar
  <2>4. cur_packet \in Seq(Received) /\ rx[1] \in Received
    BY <1>2, FromFacts, SequenceTypes, TailFacts
  <2>5. Len(cur_packet') = m + 1 /\ \A i \in 1 .. m + 1 : cur_packet'[i] = Rest(c)[i]
    <3>1. /\ Len(cur_packet') = m + 1 /\ cur_packet'[m + 1] = rx[1]
          /\ \A i \in 1 .. m : cur_packet'[i] = cur_packet[i]
      BY <1>5, <2>1, <2>3, <2>4
    <3>2. \A i \in 1 .. m + 1 : i \in 1 .. m \/ i = m + 1
      BY <2>1
    <3>. QED  BY <1>5, <3>1, <3>2
  <2>6. InData(c, m + 1)'
    BY <1>5, <2>1, <2>3, <2>5 DEF InData
  <2>7. Automaton(c, m + 1)'
    BY <1>2, <1>5, <2>1, <2>6 DEF Automaton
  <2>. QED  BY <1>1, <1>2, <2>1, <2>3, <2>7, TakesOn
<1>. QED  BY <1>3, <1>4, <1>5

LEMMA TransmitSilent ==
  ASSUME TypeOK, NEW x \in Answers, x.is \notin {"+", "-"}, Transmit(<<x>>)
  PROVE  Silent
<1>1. Adds(x)
  BY DEF Transmit, Adds
<1>. QED  BY <1>1 DEF Silent

LEMMA StopMark == Plain("stop") \in Answers /\ Plain("stop").is \notin {"+", "-"}
  BY CommandTypes, CharTypes DEF Plain, Char

\* A character the automaton passes over between packets.
LEMMA NackKept ==
  ASSUME NEW c, NEW m, From(c, m), Nack
  PROVE  Kept'
<1>1. packet_phase # "DATA" /\ GetChar({"-"}) /\ packet_phase' = packet_phase /\ ran' = ran
  BY DEF Nack, phaseVars
<1>2. Silent
  <2>1. Char("reply", tx_packet) \in Answers /\ Char("reply", tx_packet).is = "reply"
    BY FromFacts, CharTypes DEF TypeOK, Char
  <2>2. CASE awaiting_ack
    BY <2>1, <2>2, FromFacts, TransmitSilent DEF Nack
  <2>3. CASE ~awaiting_ack
    BY <2>3 DEF Nack, Silent
  <2>. QED  BY <2>2, <2>3
<1>3. Takes /\ rx[1].is = "-" /\ rx # <<>>
  BY <1>1, <1>2, FromFacts, TakesFacts
<1>4. packet_phase # "CHECKSUM"
  BY <1>3, FromFacts, ReadsChecksum, Marks
<1>5. packet_phase = "NONE"
  BY <1>1, <1>4, FromFacts DEF TypeOK
<1>. QED  BY <1>1, <1>3, <1>5, TakesNone

LEMMA InterruptKept ==
  ASSUME NEW c, NEW m, From(c, m), Interrupt
  PROVE  Kept'
<1>1. packet_phase # "DATA" /\ GetChar({"^C"}) /\ packet_phase' = packet_phase /\ ran' = ran
  BY DEF Interrupt, phaseVars
<1>2. Silent
  BY FromFacts, StopMark, TransmitSilent DEF Interrupt
<1>3. Takes /\ rx[1].is = "^C" /\ rx # <<>>
  BY <1>1, <1>2, FromFacts, TakesFacts
<1>4. packet_phase # "CHECKSUM"
  BY <1>3, FromFacts, ReadsChecksum, Marks
<1>5. packet_phase = "NONE"
  BY <1>1, <1>4, FromFacts DEF TypeOK
<1>. QED  BY <1>1, <1>3, <1>5, TakesNone

LEMMA AckKept ==
  ASSUME NEW c, NEW m, From(c, m), Ack
  PROVE  Kept'
<1>1. /\ packet_phase # "DATA" /\ GetChar({"+"}) /\ Silently
      /\ UNCHANGED <<packet_phase, cur_packet, cur_checksum, digits>>
  BY DEF Ack, phaseVars
<1>2. Takes /\ rx[1].is = "+" /\ rx # <<>> /\ rx' = Tail(rx) /\ cmd' = cmd /\ tx' = tx
  BY <1>1, FromFacts, TakesFacts, QuietFacts DEF gdbVars
<1>3. CASE packet_phase = "NONE"
  BY <1>1, <1>2, <1>3, TakesNone
<1>4. CASE packet_phase = "CHECKSUM"
  <2>1. Renewed(Tail(rx), 1, cmd)
    BY <1>2, <1>4, FromFacts, ReadsChecksum, Marks
  <2>2. InChecksum(c, m) /\ m < RestLen(c) /\ m <= RestLen(c)
    <3>1. InChecksum(c, m)
      BY <1>4, FromFacts DEF Automaton, InData, InNone
    <3>. QED  BY <3>1, FromFacts, Lengths DEF InChecksum
  <2>3. Comes(c, m, Tail(rx), 1, cmd)
    <3>1. Tail(rx) \in Seq(Received)
      BY <1>2, FromFacts, TailFacts
    <3>. QED  BY <2>1, <2>2, <3>1, FromFacts, RenewedComes
  <2>4. Automaton(c, m)'
    BY <1>1, <1>2, <2>2, <2>3 DEF Automaton, InChecksum
  <2>. QED  BY <1>1, <1>2, <1>4, <2>4, FromFacts, TakesOn
<1>5. packet_phase \in {"NONE", "CHECKSUM"}
  BY <1>1, FromFacts DEF TypeOK
<1>. QED  BY <1>3, <1>4, <1>5

LEMMA JunkKept ==
  ASSUME NEW c, NEW m, From(c, m), Junk
  PROVE  Kept'
<1>1. /\ packet_phase = "NONE" /\ GetChar({"data", "#", "sum"}) /\ Silently
      /\ packet_phase' = packet_phase
  BY DEF Junk, phaseVars
<1>2. TypeOK /\ Silent /\ ran' = ran
  BY <1>1, FromFacts, QuietFacts
<1>3. Takes /\ rx[1].is \in {"data", "#", "sum"}
  BY <1>1, <1>2, TakesFacts
<1>4. rx[1].is # "$"
  BY <1>3
<1>. QED  BY <1>1, <1>3, <1>4, TakesNone

\* The packet of a client on its own begins: it is that of its command.
LEMMA ExchangeOpens ==
  ASSUME TypeOK, Session, NEW c, Exchange(c), packet_phase = "NONE", packet_phase' # "NONE",
         rx # <<>>, rx' = Tail(rx), tx' = tx, UNCHANGED gdbVars,
         NEW d, rx[1].is = "$", rx[1].of = d
  PROVE  Exchange(d)'
<1> SUFFICES ASSUME Alone'
             PROVE  ~wrong' /\ gdb' = "acking" /\ Arriving(d)'
  BY DEF Exchange
<1>1. UNCHANGED <<gdb, cmd, clean, wrong>>
  BY DEF gdbVars
<1>2. Alone
  BY <1>1 DEF Alone
<1>3. 1 \in Opening(rx)
  BY TailOpens DEF Opening
<1>4. gdb = "acking" /\ OnItsWay /\ ~wrong
  BY <1>2, <1>3 DEF Exchange, Arriving, Answered, Resting, NoOpening
<1>5. rx[1] = Char("$", cmd) /\ \A j \in Opening(rx) : j = 1
  BY <1>3, <1>4 DEF OnItsWay
<1>6. d = cmd
  BY <1>5 DEF Char
<1>7. NoOpening'
  <2>1. \A i \in 1 .. Len(rx') : i + 1 \in 1 .. Len(rx) /\ rx'[i] = rx[i + 1] /\ i + 1 # 1
    BY TailOpens
  <2>2. \A i \in 1 .. Len(rx') : rx'[i].is # "$"
    BY <1>5, <2>1 DEF Opening
  <2>. QED  BY <2>2 DEF NoOpening, Opening
<1>. QED  BY <1>1, <1>4, <1>6, <1>7 DEF Arriving, OnItsWay

LEMMA OpenKept ==
  ASSUME NEW c, NEW m, From(c, m), Open
  PROVE  Kept'
<1>1. packet_phase # "DATA" /\ GetChar({"$"}) /\ Silently
  BY DEF Open
<1>2. /\ Takes /\ rx[1].is = "$" /\ rx # <<>> /\ rx' = Tail(rx) /\ UNCHANGED gdbVars /\ cmd' = cmd
      /\ tx' = tx /\ UNCHANGED <<sent, ran, slow>>
  BY <1>1, FromFacts, TakesFacts, QuietFacts DEF gdbVars, boundVars
<1>3. CASE packet_phase = "CHECKSUM"
  <2>1. Renewed(rx, 1, cmd)
    BY <1>2, <1>3, FromFacts, ReadsChecksum, Marks
  <2>2. packet_phase' = "NONE"
    BY <1>3 DEF Open, ResetError
  <2>. QED  BY <1>2, <1>3, <2>1, <2>2, TakesError
<1>4. CASE packet_phase = "NONE"
  <2>1. /\ packet_phase' = "DATA" /\ cur_packet' = <<>> /\ cur_checksum' = <<>>
    BY <1>4 DEF Open
  <2>2. Opens(rx[1]) /\ Comes(rx[1].of, 0, Tail(rx), 1, cmd)
    <3>1. \A i \in 1 .. RestLen(c) : Rest(c)[i].is # "$"
      BY FromFacts, RestChars
    <3>2. ASSUME m < RestLen(c)
          PROVE  m + 1 \in 1 .. RestLen(c)
      BY <3>2, FromFacts, Lengths
    <3>. QED  BY <1>2, <1>4, <3>1, <3>2, FromFacts, ReadsNone, Marks
  <2>3. PICK d \in Real : rx[1].of = d
    BY <2>2 DEF Opens
  <2>4. 0 \in 0 .. RestLen(d) /\ 0 <= RestLen(d) /\ 0 <= DataLen(d) /\ 1 .. 0 = {}
    BY Lengths
  <2>5. Automaton(d, 0)'
    BY <1>2, <2>1, <2>2, <2>3, <2>4 DEF Automaton, InData
  <2>6. slow' = 0 => OrderIn(d)'
    BY <1>2, <2>3, FromFacts, OrderInOpens
  <2>7. Exchange(d)'
    BY <1>2, <1>4, <2>1, <2>3, FromFacts, ExchangeOpens
  <2>. QED  BY <1>2, <2>4, <2>5, <2>6, <2>7, TakesKept
<1>5. packet_phase \in {"NONE", "CHECKSUM"}
  BY <1>1, FromFacts DEF TypeOK
<1>. QED  BY <1>3, <1>4, <1>5

LEMMA FirstDigitKept ==
  ASSUME NEW c, NEW m, From(c, m), FirstDigit
  PROVE  Kept'
<1>1. packet_phase = "CHECKSUM" /\ digits = <<>> /\ GetChar({"data", "#", "sum"}) /\ Silently
  BY DEF FirstDigit
<1>2. /\ Takes /\ rx[1].is \in {"data", "#", "sum"} /\ rx # <<>> /\ rx' = Tail(rx)
      /\ cmd' = cmd /\ tx' = tx /\ Head(rx) = rx[1]
  BY <1>1, FromFacts, TakesFacts, QuietFacts DEF gdbVars
<1>3. <<>> # <<Sum(c)>>
  OBVIOUS
<1>4. /\ rx[1] = Sum(c) /\ m = DataLen(c) + 1 /\ Comes(c, m + 1, Tail(rx), 1, cmd)
      /\ cur_packet = Data(c) /\ cur_checksum = Data(c)
  BY <1>1, <1>2, <1>3, FromFacts, ReadsChecksum, Marks
<1>5. /\ digits' = <<Sum(c)>> /\ UNCHANGED <<packet_phase, cur_packet, cur_checksum>>
  BY <1>2, <1>4, Marks DEF FirstDigit
<1>6. m + 1 \in 0 .. RestLen(c) /\ m + 1 <= RestLen(c) /\ m + 1 = DataLen(c) + 2
  <2>1. c \in Real /\ m = DataLen(c) + 1
    BY <1>4, FromFacts
  <2>2. DataLen(c) \in {1, 2} /\ RestLen(c) = DataLen(c) + 3
    BY <2>1, Lengths
  <2>. QED  BY <2>1, <2>2
<1>7. Automaton(c, m + 1)'
  BY <1>1, <1>2, <1>4, <1>5, <1>6 DEF Automaton, InChecksum
<1>. QED  BY <1>1, <1>2, <1>5, <1>6, <1>7, TakesOn

\* Executed, a packet is acknowledged, and answered next but for 'c'.
LEMMA ExecuteSends ==
  ASSUME NEW c \in Commands, Execute(c)
  PROVE  \E u \in Seq(Answers) :
           /\ tx' = tx \o u /\ Len(u) >= 1 /\ u[1].is = "+"
           /\ \A i \in 2 .. Len(u) : u[i].is = "reply"
           /\ c.kind # "c" => Len(u) = 2 /\ u[2] = Char("reply", c)
<1>1. /\ Plain("+") \in Answers /\ Char("reply", c) \in Answers
      /\ Plain("+").is = "+" /\ Char("reply", c).is = "reply"
  BY CharTypes DEF Plain, Char
<1>2. CASE c.kind = "c"
  <2> DEFINE u == Acked(<<>>)
  <2>1. tx' = tx \o u
    BY <1>2 DEF Execute
  <2>2. u \in Seq(Answers) /\ Len(u) = 1 /\ u[1] = Plain("+")
    BY <1>1 DEF Acked
  <2> HIDE DEF u
  <2>3. Len(u) >= 1 /\ u[1].is = "+" /\ \A i \in 2 .. Len(u) : u[i].is = "reply"
    BY <1>1, <2>2
  <2>. QED  BY <1>2, <2>1, <2>2, <2>3
<1>3. CASE c.kind # "c"
  <2> DEFINE u == Acked(<<Char("reply", c)>>)
  <2>1. tx' = tx \o u
    BY <1>3 DEF Execute, Transmit
  <2>2. u \in Seq(Answers) /\ Len(u) = 2 /\ u[1] = Plain("+") /\ u[2] = Char("reply", c)
    BY <1>1 DEF Acked
  <2> HIDE DEF u
  <2>3. \A i \in 2 .. Len(u) : u[i].is = "reply"
    <3>1. \A i \in 2 .. 2 : i = 2
      OBVIOUS
    <3>. QED  BY <1>1, <2>2, <3>1
  <2>4. Len(u) >= 1 /\ u[1].is = "+"
    BY <1>1, <2>2
  <2>. QED  BY <2>1, <2>2, <2>3, <2>4, Zenon
<1>. QED  BY <1>2, <1>3

LEMMA LastDigitKept ==
  ASSUME NEW c, NEW m, From(c, m), LastDigit
  PROVE  Kept'
<1>1. packet_phase = "CHECKSUM" /\ digits # <<>> /\ GetChar({"data", "#", "sum"})
  BY DEF LastDigit
<1>2. /\ rx[1].is \in {"data", "#", "sum"} /\ rx # <<>> /\ rx' = Tail(rx)
      /\ UNCHANGED <<gdb, cmd, clean, wrong, sent, slow>> /\ Head(rx) = rx[1]
  BY <1>1, FromFacts, TakesFacts DEF gdbVars, boundVars
<1>3. /\ rx[1] = Sum(c) /\ digits = <<Sum(c)>> /\ m = DataLen(c) + 2
      /\ Comes(c, m + 1, Tail(rx), 1, cmd) /\ cur_packet = Data(c) /\ cur_checksum = Data(c)
  BY <1>1, <1>2, FromFacts, ReadsChecksum, Marks
<1>4. cur_packet[1].of = c /\ c \in Commands /\ c.n \in 1 .. MaxSent
  BY <1>3, FromFacts, WholePacket
<1>5. /\ packet_phase' = "NONE" /\ Execute(c) /\ ran' = Append(ran, c.n)
  <2>1. Head(rx).is = "sum" /\ \A d \in {digits[1], Head(rx)} : cur_checksum = Data(d.of)
    BY <1>2, <1>3, Marks
  <2>. QED  BY <1>4, <2>1 DEF LastDigit
<1>6. PICK u \in Seq(Answers) :
        /\ tx' = tx \o u /\ Len(u) >= 1 /\ u[1].is = "+"
        /\ \A i \in 2 .. Len(u) : u[i].is = "reply"
        /\ c.kind # "c" => Len(u) = 2 /\ u[2] = Char("reply", c)
  BY <1>4, <1>5, ExecuteSends
<1>7. /\ Len(tx) \in Nat /\ Len(u) \in Nat /\ Len(tx') = Len(tx) + Len(u)
      /\ \A i \in 1 .. Len(tx) : tx'[i] = tx[i]
      /\ \A i \in 1 .. Len(u) : tx'[Len(tx) + i] = u[i]
  <2>1. tx \in Seq(Answers)
    BY FromFacts, SequenceTypes
  <2>. QED  BY <1>6, <2>1, JoinFacts
<1>8. \A i \in 1 .. Len(tx') : i \in 1 .. Len(tx) \/ i = Len(tx) + 1
                              \/ (i - Len(tx) \in 2 .. Len(u) /\ i = Len(tx) + (i - Len(tx)))
  BY <1>7
<1>9. \A i \in 1 .. Len(tx') : i > Len(tx) + 1 => tx'[i].is = "reply"
  <2> SUFFICES ASSUME NEW i \in 1 .. Len(tx'), i > Len(tx) + 1
               PROVE  tx'[i].is = "reply"
    OBVIOUS
  <2>1. i - Len(tx) \in 2 .. Len(u) /\ i - Len(tx) \in 1 .. Len(u) /\ Len(tx) + (i - Len(tx)) = i
    BY <1>7
  <2>2. tx'[Len(tx) + (i - Len(tx))] = u[i - Len(tx)]
    BY <1>7, <2>1
  <2>. QED  BY <1>6, <2>1, <2>2
<1>10. Len(tx) + 1 \in 1 .. Len(tx') /\ tx'[Len(tx) + 1].is = "+"
  <2>1. 1 \in 1 .. Len(u)
    BY <1>6, <1>7
  <2>2. tx'[Len(tx) + 1] = u[1]
    BY <1>7, <2>1
  <2>. QED  BY <1>6, <1>7, <2>2
<1>11. NoNack'
  <2>1. \A i \in 1 .. Len(tx) : tx[i].is # "-"
    BY FromFacts DEF NoNack
  <2>2. \A i \in 1 .. Len(tx') : i \in 1 .. Len(tx) \/ i = Len(tx) + 1 \/ i > Len(tx) + 1
    BY <1>7
  <2>3. \A i \in 1 .. Len(tx') : tx'[i].is # "-"
    BY <1>7, <1>9, <1>10, <2>1, <2>2
  <2>. QED  BY <2>3 DEF NoNack
<1>12. slow' = 0 => Order'
  <2> SUFFICES ASSUME slow' = 0
               PROVE  Order'
    OBVIOUS
  <2>1. /\ Order /\ OrderIn(c) /\ c.n <= sent
        /\ \A i \in 1 .. Len(rx) : rx[i].is = "$" => c.n < rx[i].of.n
        /\ \A j \in 1 .. Len(ran) : ran[j] < c.n
    BY <1>1, <1>2, FromFacts DEF OrderIn
  <2>2. /\ Len(ran) \in Nat /\ Len(ran') = Len(ran) + 1 /\ ran'[Len(ran) + 1] = c.n
        /\ \A j \in 1 .. Len(ran) : ran'[j] = ran[j]
    <3>1. ran \in Seq(1 .. MaxSent)
      BY FromFacts, SequenceTypes
    <3>. QED  BY <1>4, <1>5, <3>1
  <2>3. \A j \in 1 .. Len(ran') : j \in 1 .. Len(ran) \/ j = Len(ran) + 1
    BY <2>2
  <2>4. /\ \A i \in 1 .. Len(rx') : i + 1 \in 1 .. Len(rx) /\ rx'[i] = rx[i + 1]
        /\ Len(rx') \in Nat
    BY <1>2, FromFacts, TailOpens
  <2>5. \A i \in 1 .. Len(rx') : rx'[i].is = "$" => rx'[i].of.n <= sent'
    BY <1>2, <2>1, <2>4 DEF Order
  <2>6. \A i, j \in 1 .. Len(rx') :
          i < j /\ rx'[i].is = "$" /\ rx'[j].is = "$" => rx'[i].of.n < rx'[j].of.n
    <3> SUFFICES ASSUME NEW i \in 1 .. Len(rx'), NEW j \in 1 .. Len(rx'), i < j,
                        rx'[i].is = "$", rx'[j].is = "$"
                 PROVE  rx'[i].of.n < rx'[j].of.n
      OBVIOUS
    <3>1. i + 1 \in 1 .. Len(rx) /\ j + 1 \in 1 .. Len(rx) /\ i + 1 < j + 1
          /\ rx'[i] = rx[i + 1] /\ rx'[j] = rx[j + 1]
      BY <2>4
    <3>. QED  BY <2>1, <3>1 DEF Order
  <2>7. \A i \in 1 .. Len(rx'), j \in 1 .. Len(ran') :
          rx'[i].is = "$" => ran'[j] < rx'[i].of.n
    <3> SUFFICES ASSUME NEW i \in 1 .. Len(rx'), NEW j \in 1 .. Len(ran'), rx'[i].is = "$"
                 PROVE  ran'[j] < rx'[i].of.n
      OBVIOUS
    <3>1. i + 1 \in 1 .. Len(rx) /\ rx'[i] = rx[i + 1]
      BY <2>4
    <3>2. CASE j \in 1 .. Len(ran)
      BY <2>1, <2>2, <3>1, <3>2 DEF Order
    <3>3. CASE j = Len(ran) + 1
      BY <2>1, <2>2, <3>1, <3>3
    <3>. QED  BY <2>3, <3>2, <3>3
  <2>8. \A i, j \in 1 .. Len(ran') : i < j => ran'[i] < ran'[j]
    <3> SUFFICES ASSUME NEW i \in 1 .. Len(ran'), NEW j \in 1 .. Len(ran'), i < j
                 PROVE  ran'[i] < ran'[j]
      OBVIOUS
    <3>1. i \in 1 .. Len(ran)
      BY <2>2, <2>3
    <3>2. CASE j \in 1 .. Len(ran)
      BY <2>1, <2>2, <3>1, <3>2 DEF Order
    <3>3. CASE j = Len(ran) + 1
      BY <2>1, <2>2, <3>1, <3>3
    <3>. QED  BY <2>3, <3>2, <3>3
  <2>9. \A j \in 1 .. Len(ran') : ran'[j] <= sent'
    BY <1>2, <2>1, <2>2, <2>3 DEF Order
  <2>10. Acks(tx') # {}
    BY <1>10 DEF Acks
  <2>. QED  BY <2>5, <2>6, <2>7, <2>8, <2>9, <2>10 DEF Order
<1>13. Exchange(c)'
  <2> SUFFICES ASSUME Alone'
               PROVE  ~wrong' /\ gdb' = "acking" /\ Answered'
    BY DEF Exchange
  <2>1. Alone
    BY <1>2 DEF Alone
  <2>2. gdb = "acking" /\ Arriving(c) /\ ~wrong /\ NoOpening
    BY <1>1, <2>1, FromFacts, AloneReads
  <2>3. NoOpening'
    BY <1>2, <2>2, FromFacts, NoOpeningReads
  <2>4. Acks(tx) = {} /\ c = cmd
    BY <2>2 DEF Arriving
  <2>5. \A j \in Acks(tx') : j = Len(tx) + 1
    <3> SUFFICES ASSUME NEW j \in Acks(tx') PROVE j = Len(tx) + 1
      OBVIOUS
    <3>1. j \in 1 .. Len(tx') /\ tx'[j].is = "+"
      BY DEF Acks
    <3>2. j \in 1 .. Len(tx) => tx'[j] = tx[j] /\ j \in Acks(tx)
      BY <1>7, <3>1 DEF Acks
    <3>3. ~(j > Len(tx) + 1)
      BY <1>9, <3>1
    <3>. QED  BY <1>7, <2>4, <3>1, <3>2, <3>3
  <2>6. cmd'.kind # "c" => Len(tx) + 1 < Len(tx') /\ tx'[(Len(tx) + 1) + 1] = Reply'
    <3> SUFFICES ASSUME c.kind # "c"
                 PROVE  Len(tx) + 1 < Len(tx') /\ tx'[(Len(tx) + 1) + 1] = Char("reply", c)
      BY <1>2, <2>4 DEF Reply
    <3>0. Len(u) = 2 /\ u[2] = Char("reply", c)
      BY <1>6
    <3>1. Len(u) = 2 /\ u[2] = Char("reply", c) /\ 2 \in 1 .. Len(u)
      BY <3>0
    <3>2. tx'[Len(tx) + 2] = u[2]
      BY <1>7, <3>1
    <3>3. Len(tx) + 1 < Len(tx') /\ (Len(tx) + 1) + 1 = Len(tx) + 2
      BY <1>7, <3>1
    <3>. QED  BY <3>1, <3>2, <3>3
  <2>7. Answered'
    BY <1>5, <1>10, <2>3, <2>5, <2>6 DEF Answered
  <2>. QED  BY <1>2, <2>2, <2>7
<1>14. m + 1 \in 0 .. RestLen(c) /\ m + 1 = RestLen(c)
  <2>1. RestLen(c) = DataLen(c) + 3 /\ DataLen(c) \in {1, 2}
    BY FromFacts, Lengths
  <2>. QED  BY <1>3, <2>1
<1>15. Automaton(c, m + 1)'
  BY <1>2, <1>3, <1>5, <1>14, FromFacts, Lengths DEF Automaton, InNone
<1>16. Tracks(c, m + 1)'
  BY <1>5, <1>13, <1>15 DEF Tracks, OrderIn
<1>. QED  BY <1>11, <1>12, <1>14, <1>16, FromFacts DEF Kept

\* The steps that read nothing.
LEMMA PollTargetKept ==
  ASSUME NEW c, NEW m, From(c, m), PollTarget
  PROVE  Kept'
<1>1. /\ packet_phase = "NONE" /\ UNCHANGED <<phaseVars, rx, gdbVars, boundVars, ran>>
  BY DEF PollTarget
<1>2. /\ UNCHANGED <<packet_phase, cur_packet, cur_checksum, digits>>
      /\ UNCHANGED <<gdb, cmd, clean, wrong, sent, slow, rx, ran>>
  BY <1>1 DEF phaseVars, gdbVars, boundVars
<1>3. Silent
  <2>1. CASE ~halted /\ stopped
    BY <2>1, FromFacts, StopMark, TransmitSilent DEF PollTarget
  <2>2. CASE ~(~halted /\ stopped)
    BY <2>2 DEF PollTarget, Silent
  <2>. QED  BY <2>1, <2>2
<1>4. Acks(tx') = Acks(tx) /\ NoNack'
  BY <1>3, FromFacts, SilentFacts
<1>5. slow' = 0 => Order'
  BY <1>2, <1>4, FromFacts DEF Order
<1>6. Automaton(c, m)'
  BY <1>2, FromFacts DEF Automaton, InData, InChecksum, InNone
<1>7. Exchange(c)'
  BY <1>1, <1>2, <1>3, FromFacts, ExchangeNone
<1>8. Tracks(c, m)'
  BY <1>1, <1>2, <1>6, <1>7 DEF Tracks, OrderIn
<1>. QED  BY <1>4, <1>5, <1>8, FromFacts DEF Kept

LEMMA StillKept ==
  ASSUME NEW c, NEW m, From(c, m), UNCHANGED <<phaseVars, rx, tx, gdbVars, boundVars, ran>>
  PROVE  Kept'
<1>1. /\ UNCHANGED <<packet_phase, cur_packet, cur_checksum, digits>>
      /\ UNCHANGED <<gdb, cmd, clean, wrong, sent, slow, rx, tx, ran>>
  BY DEF phaseVars, gdbVars, boundVars
<1>2. NoNack' /\ (slow' = 0 => Order')
  BY <1>1, FromFacts DEF NoNack, Order
<1>3. Automaton(c, m)' /\ (slow' = 0 => OrderIn(c)')
  BY <1>1, FromFacts DEF Automaton, InData, InChecksum, InNone, OrderIn
<1>4. Exchange(c)'
  BY <1>1, FromFacts DEF Exchange, Alone, OnItsWay, Arriving, Answered, Resting, NoOpening, Reply
<1>5. Tracks(c, m)'
  BY <1>3, <1>4 DEF Tracks
<1>. QED  BY <1>2, <1>5, FromFacts DEF Kept

LEMMA ServerKept ==
  ASSUME NEW c, NEW m, From(c, m), ServerStep \/ TargetStop
  PROVE  Kept'
<1>1. CASE NoChar
  BY <1>1, StillKept DEF NoChar
<1>2. CASE TargetStop
  <2>1. UNCHANGED <<phaseVars, rx, tx, gdbVars, boundVars, ran>>
    BY <1>2 DEF TargetStop, serverVars
  <2>. QED  BY <2>1, StillKept
<1>3. CASE ProcessChar
  BY <1>3, DataOpenKept, DataEndKept, DataCharKept, NackKept, AckKept, OpenKept, InterruptKept,
     JunkKept, FirstDigitKept, LastDigitKept DEF ProcessChar
<1>. QED  BY <1>1, <1>2, <1>3, PollTargetKept DEF ServerStep

-----------------------------------------------------------------------------
(* The clients' steps.                                                     *)

\* It says at most a sign.
SaysSign == rx' = rx \/ \E x \in Signs : rx' = rx \o <<x>>

LEMMA SignFacts ==
  ASSUME TypeOK, SaysSign
  PROVE  /\ Len(rx) \in Nat /\ Len(rx') \in Nat /\ Len(rx) <= Len(rx')
         /\ \A i \in 1 .. Len(rx) : rx'[i] = rx[i]
         /\ Opening(rx') = Opening(rx)
<1>1. rx \in Seq(Received)
  BY SequenceTypes
<1>2. CASE rx' = rx
  BY <1>1, <1>2
<1>3. CASE \E x \in Signs : rx' = rx \o <<x>>
  <2>1. PICK x \in Signs : rx' = rx \o <<x>>
    BY <1>3
  <2>2. x.is # "$" /\ <<x>> \in Seq(Received) /\ Len(<<x>>) = 1 /\ <<x>>[1] = x
    BY Marks, SignTypes DEF Signs, Plus
  <2>3. /\ Len(rx') = Len(rx) + 1 /\ Len(rx) \in Nat /\ rx'[Len(rx) + 1] = x
        /\ \A i \in 1 .. Len(rx) : rx'[i] = rx[i]
    BY <1>1, <2>1, <2>2, JoinFacts
  <2>4. \A i \in 1 .. Len(rx') : i \in 1 .. Len(rx) \/ i = Len(rx) + 1
    BY <2>3
  <2>5. \A i \in 1 .. Len(rx) : i \in 1 .. Len(rx')
    BY <2>3
  <2>6. Opening(rx') = Opening(rx)
    BY <2>2, <2>3, <2>4, <2>5 DEF Opening
  <2>. QED  BY <2>3, <2>6
<1>. QED  BY <1>2, <1>3 DEF SaysSign

\* It says a packet.
LEMMA PacketOpens ==
  ASSUME TypeOK, NEW d \in Real, d \in Commands, rx' = rx \o Packet(d)
  PROVE  /\ Len(rx) \in Nat /\ Len(rx) + 1 \in 1 .. Len(rx') /\ rx'[Len(rx) + 1] = Char("$", d)
         /\ \A i \in 1 .. Len(rx) : rx'[i] = rx[i]
         /\ \A i \in 1 .. Len(rx') : rx'[i].is = "$" => i \in 1 .. Len(rx) \/ i = Len(rx) + 1
<1> DEFINE t == Packet(d)
<1>1. rx \in Seq(Received) /\ t \in Seq(Received) /\ Saying(t) /\ t[1] = Char("$", d)
  BY SequenceTypes, PacketType, PacketFacts DEF Saying
<1> HIDE DEF t
<1>2. Len(t) \in Nat /\ Len(t) >= 1 /\ \A i \in 2 .. Len(t) : t[i].is # "$"
  BY <1>1, SayingFacts
<1>3. /\ Len(rx') = Len(rx) + Len(t) /\ Len(rx) \in Nat
      /\ \A i \in 1 .. Len(rx) : rx'[i] = rx[i]
      /\ \A i \in 1 .. Len(t) : rx'[Len(rx) + i] = t[i]
  BY <1>1, JoinFacts DEF t
<1>4. ASSUME NEW i \in 1 .. Len(rx'), rx'[i].is = "$"
      PROVE  i \in 1 .. Len(rx) \/ i = Len(rx) + 1
  <2> SUFFICES ASSUME i > Len(rx) + 1
               PROVE  FALSE
    BY <1>2, <1>3
  <2>1. i - Len(rx) \in 2 .. Len(t) /\ i - Len(rx) \in 1 .. Len(t) /\ Len(rx) + (i - Len(rx)) = i
    BY <1>2, <1>3
  <2>2. rx'[Len(rx) + (i - Len(rx))] = t[i - Len(rx)]
    BY <1>3, <2>1
  <2>. QED  BY <1>2, <1>4, <2>1, <2>2
<1>. QED  BY <1>1, <1>2, <1>3, <1>4

\* It takes the first of the answers, or none.
LEMMA TakenFacts ==
  ASSUME TypeOK, tx # <<>>, tx' = Tail(tx)
  PROVE  /\ Len(tx) \in Nat /\ Len(tx') \in Nat /\ Len(tx) = Len(tx') + 1
         /\ Head(tx) = tx[1] /\ 1 \in 1 .. Len(tx)
         /\ \A i \in 1 .. Len(tx') : i + 1 \in 1 .. Len(tx) /\ tx'[i] = tx[i + 1]
         /\ \A i \in 1 .. Len(tx) : i # 1 => i - 1 \in 1 .. Len(tx') /\ tx'[i - 1] = tx[i]
         /\ \A i \in Acks(tx') : i + 1 \in Acks(tx)
         /\ tx[1].is # "+" /\ Acks(tx') = {} => Acks(tx) = {}
         /\ NoNack => NoNack'
<1>1. tx \in Seq(Answers)
  BY SequenceTypes
<1>2. /\ Len(tx) \in Nat /\ Len(tx) >= 1 /\ Len(tx') = Len(tx) - 1
      /\ \A i \in 1 .. Len(tx) - 1 : tx'[i] = tx[i + 1]
      /\ Head(tx) = tx[1]
  BY <1>1, TailFacts
<1>3. \A i \in 1 .. Len(tx') : i + 1 \in 1 .. Len(tx) /\ tx'[i] = tx[i + 1]
  BY <1>2
<1>4. ASSUME NEW i \in 1 .. Len(tx), i # 1
      PROVE  i - 1 \in 1 .. Len(tx') /\ tx'[i - 1] = tx[i]
  <2>1. i - 1 \in 1 .. Len(tx) - 1 /\ (i - 1) + 1 = i
    BY <1>2, <1>4
  <2>2. tx'[i - 1] = tx[(i - 1) + 1]
    BY <1>2, <2>1
  <2>. QED  BY <1>2, <2>1, <2>2
<1>5. \A i \in Acks(tx') : i + 1 \in Acks(tx)
  BY <1>3 DEF Acks
<1>6. ASSUME tx[1].is # "+", Acks(tx') = {}
      PROVE  Acks(tx) = {}
  BY <1>4, <1>6 DEF Acks
<1>7. NoNack => NoNack'
  BY <1>3 DEF NoNack
<1>. QED  BY <1>2, <1>3, <1>4, <1>5, <1>6, <1>7

LEMMA OrderSigns ==
  ASSUME TypeOK, Order,
         \A i \in 1 .. Len(rx') : rx'[i].is = "$" => i \in 1 .. Len(rx) /\ rx'[i] = rx[i],
         UNCHANGED <<sent, ran>>,
         gdb' = "acking" /\ Acks(tx') = {} => gdb = "acking" /\ Acks(tx) = {} /\ cmd' = cmd
  PROVE  Order'
<1>1. \A i \in 1 .. Len(rx') : rx'[i].is = "$" => rx'[i].of.n <= sent
  BY DEF Order
<1>2. \A i, j \in 1 .. Len(rx') :
        i < j /\ rx'[i].is = "$" /\ rx'[j].is = "$" => rx'[i].of.n < rx'[j].of.n
  BY DEF Order
<1>3. \A i \in 1 .. Len(rx'), j \in 1 .. Len(ran) : rx'[i].is = "$" => ran[j] < rx'[i].of.n
  BY DEF Order
<1>. QED  BY <1>1, <1>2, <1>3 DEF Order

LEMMA OrderInSigns ==
  ASSUME NEW c, OrderIn(c), UNCHANGED <<packet_phase, sent, ran>>,
         \A i \in 1 .. Len(rx') : rx'[i].is = "$" => i \in 1 .. Len(rx) /\ rx'[i] = rx[i]
  PROVE  OrderIn(c)'
  BY DEF OrderIn

\* A packet may follow if its command is later than all there are.
LEMMA OrderPacket ==
  ASSUME TypeOK, Order, NEW d \in Real, d \in Commands, rx' = rx \o Packet(d), cmd' = d,
         ran' = ran, sent' \in Nat, sent \in Nat, sent <= sent', d.n \in Nat, d.n <= sent',
         \A i \in 1 .. Len(rx) : rx[i].is = "$" => rx[i].of.n < d.n,
         \A i \in 1 .. Len(rx) : rx[i].is = "$" => rx[i].of.n \in Nat,
         \A j \in 1 .. Len(ran) : ran[j] < d.n,
         \A j \in 1 .. Len(ran) : ran[j] \in Nat
  PROVE  Order'
<1>1. /\ Len(rx) \in Nat /\ Len(rx) + 1 \in 1 .. Len(rx') /\ rx'[Len(rx) + 1] = Char("$", d)
      /\ \A i \in 1 .. Len(rx) : rx'[i] = rx[i]
      /\ \A i \in 1 .. Len(rx') : rx'[i].is = "$" => i \in 1 .. Len(rx) \/ i = Len(rx) + 1
  BY PacketOpens
<1>2. rx'[Len(rx) + 1].of = d
  BY <1>1 DEF Char
<1>3. ASSUME NEW i \in 1 .. Len(rx'), rx'[i].is = "$"
      PROVE  /\ rx'[i].of.n <= sent'
             /\ \A j \in 1 .. Len(ran) : ran[j] < rx'[i].of.n
  <2>1. CASE i \in 1 .. Len(rx)
    BY <1>1, <1>3, <2>1 DEF Order
  <2>2. CASE i = Len(rx) + 1
    BY <1>2, <2>2
  <2>. QED  BY <1>1, <1>3, <2>1, <2>2
<1>4. ASSUME NEW i \in 1 .. Len(rx'), NEW j \in 1 .. Len(rx'), i < j,
             rx'[i].is = "$", rx'[j].is = "$"
      PROVE  rx'[i].of.n < rx'[j].of.n
  <2>1. i \in 1 .. Len(rx)
    <3>1. (i \in 1 .. Len(rx) \/ i = Len(rx) + 1) /\ (j \in 1 .. Len(rx) \/ j = Len(rx) + 1)
      BY <1>1, <1>4
    <3>. QED  BY <1>1, <1>4, <3>1
  <2>2. CASE j \in 1 .. Len(rx)
    BY <1>1, <1>4, <2>1, <2>2 DEF Order
  <2>3. CASE j = Len(rx) + 1
    BY <1>1, <1>2, <1>4, <2>1, <2>3
  <2>. QED  BY <1>1, <1>4, <2>2, <2>3
<1>5. \A i, j \in 1 .. Len(ran) : i < j => ran[i] < ran[j]
  BY DEF Order
<1>6. \A j \in 1 .. Len(ran) : ran[j] <= sent'
  BY DEF Order
<1>. QED  BY <1>3, <1>4, <1>5, <1>6 DEF Order

\* Nothing of a client's packet is still to come when nothing is on its way.
LEMMA EmptyNone ==
  ASSUME TypeOK, NEW c \in Real, NEW m \in 0 .. RestLen(c), Automaton(c, m),
         rx = <<>>, cmd # None
  PROVE  packet_phase = "NONE"
<1>1. PICK n \in 0 .. RestLen(c) - m :
        /\ 1 + n <= Len(rx) + 1
        /\ IF n = RestLen(c) - m THEN TRUE ELSE Renewed(rx, 1 + n, cmd)
  BY DEF Automaton, Comes
<1>2. Len(rx) = 0 /\ m \in Nat /\ RestLen(c) \in Nat /\ RestLen(c) = DataLen(c) + 3
      /\ DataLen(c) \in Nat
  BY Lengths
<1>3. n = 0
  BY <1>1, <1>2
<1>4. ~Renewed(rx, 1, cmd)
  BY <1>2 DEF Renewed
<1>5. m = RestLen(c)
  BY <1>1, <1>2, <1>3, <1>4
<1>6. ~InData(c, m)
  BY <1>2, <1>5 DEF InData
<1>7. ~InChecksum(c, m)
  BY <1>2, <1>5 DEF InChecksum
<1>. QED  BY <1>6, <1>7 DEF Automaton, InNone

\* What all the steps of a client leave alone, and what they make of the rest.
LEMMA ClientKept ==
  ASSUME NEW c, NEW m, From(c, m), GdbStep, NoNack',
         slow' = 0 => Order' /\ OrderIn(c)', Exchange(c)'
  PROVE  Kept'
<1>1. Automaton(c, m)'
  BY FromFacts, ClientGrammar
<1>2. Tracks(c, m)'
  BY <1>1 DEF Tracks
<1>. QED  BY <1>2, FromFacts DEF Kept

LEMMA KeepFacts ==
  ASSUME Keep
  PROVE  UNCHANGED <<packet_phase, ran>>
  BY DEF Keep, serverVars, phaseVars

LEMMA GdbConnectKept ==
  ASSUME NEW c, NEW m, From(c, m), GdbConnect
  PROVE  Kept'
<1>1. /\ gdb' = "idle" /\ rx' = rx \o <<Plus>> /\ UNCHANGED <<tx, cmd, wrong, sent, slow>>
      /\ UNCHANGED <<packet_phase, ran>>
      /\ clean' => rx = <<>> /\ tx = <<>> /\ packet_phase = "NONE"
      /\ gdb = "gone"
  BY KeepFacts DEF GdbConnect, Says, Plus
<1>2. SaysSign
  BY <1>1 DEF SaysSign, Signs
<1>3. /\ Opening(rx') = Opening(rx) /\ \A i \in 1 .. Len(rx) : rx'[i] = rx[i]
  BY <1>2, FromFacts, SignFacts
<1>4. \A i \in 1 .. Len(rx') : rx'[i].is = "$" => i \in 1 .. Len(rx) /\ rx'[i] = rx[i]
  BY <1>3 DEF Opening
<1>5. slow' = 0 => Order' /\ OrderIn(c)'
  BY <1>1, <1>4, FromFacts, OrderSigns, OrderInSigns
<1>6. Exchange(c)'
  <2> SUFFICES ASSUME Alone'
               PROVE  ~wrong' /\ Resting'
    BY <1>1 DEF Exchange
  <2>1. rx = <<>> /\ tx = <<>> /\ packet_phase = "NONE" /\ ~wrong
    BY <1>1, FromFacts DEF Alone, Session
  <2>2. NoOpening'
    BY <1>3, <2>1 DEF NoOpening, Opening
  <2>3. Acks(tx') = {}
    BY <1>1, <2>1 DEF Acks
  <2>. QED  BY <1>1, <2>1, <2>2, <2>3 DEF Resting
<1>7. NoNack' /\ GdbStep
  BY <1>1, FromFacts DEF NoNack, GdbStep
<1>. QED  BY <1>5, <1>6, <1>7, ClientKept

LEMMA GdbLeaveKept ==
  ASSUME NEW c, NEW m, From(c, m), GdbLeave
  PROVE  Kept'
<1>1. /\ gdb' = "gone" /\ rx' \in Prefixes(rx) /\ tx' \in Suffixes(tx)
      /\ UNCHANGED <<sent, slow, packet_phase, ran>>
  BY KeepFacts DEF GdbLeave, boundVars
<1>2. \A i \in 1 .. Len(rx') : rx'[i].is = "$" => i \in 1 .. Len(rx) /\ rx'[i] = rx[i]
  <2>1. PICK l \in 0 .. Len(rx) : rx' = SubSeq(rx, 1, l)
    BY <1>1 DEF Prefixes
  <2>. QED  BY <2>1, FromFacts
<1>3. NoNack'
  <2>1. tx \in Seq(Answers)
    BY FromFacts, SequenceTypes
  <2>2. CASE tx' = <<>>
    BY <2>2 DEF NoNack
  <2>3. ASSUME NEW l \in 1 .. Len(tx), tx' = SubSeq(tx, l, Len(tx))
        PROVE  NoNack'
    <3>1. \A i \in 1 .. Len(tx') : tx'[i] = tx[l + i - 1] /\ l + i - 1 \in 1 .. Len(tx)
      BY <2>1, <2>3
    <3>. QED  BY <3>1, FromFacts DEF NoNack
  <2>. QED  BY <1>1, <2>2, <2>3 DEF Suffixes
<1>4. slow' = 0 => Order' /\ OrderIn(c)'
  BY <1>1, <1>2, FromFacts, OrderSigns, OrderInSigns
<1>5. Exchange(c)' /\ GdbStep
  BY <1>1 DEF Exchange, Alone, GdbStep
<1>. QED  BY <1>3, <1>4, <1>5, ClientKept

LEMMA GdbCommandKept ==
  ASSUME NEW c, NEW m, From(c, m), GdbCommand
  PROVE  Kept'
<1>1. /\ gdb = "idle" /\ gdb' = "acking" /\ sent' = sent + 1 /\ UNCHANGED <<tx, clean, wrong, slow>>
      /\ UNCHANGED <<packet_phase, ran>>
  BY KeepFacts DEF GdbCommand
<1>2. PICK d : /\ d \in Commands /\ d \in Real /\ d.n = sent + 1
               /\ cmd' = d /\ rx' = rx \o Packet(d)
  <2>1. PICK kind \in Kinds :
          /\ cmd' = Command(sent + 1, kind) /\ rx' = rx \o Packet(cmd')
          /\ sent + 1 \in 1 .. MaxSent
    BY FromFacts, NextCommand
  <2>. QED  BY <2>1, CommandTypes
<1>3. /\ Len(rx) \in Nat /\ Len(rx) + 1 \in 1 .. Len(rx') /\ rx'[Len(rx) + 1] = Char("$", d)
      /\ \A i \in 1 .. Len(rx) : rx'[i] = rx[i]
      /\ \A i \in 1 .. Len(rx') : rx'[i].is = "$" => i \in 1 .. Len(rx) \/ i = Len(rx) + 1
  BY <1>2, FromFacts, PacketOpens
<1>4. sent \in Nat
  BY FromFacts, Bounds DEF TypeOK
<1>5. \A i \in 1 .. Len(rx) : rx[i].is = "$" => rx[i].of.n \in Nat
  <2>1. \A i \in 1 .. Len(rx) : rx[i].is = "$" => rx[i].of \in Real
    BY FromFacts DEF Grammar
  <2>2. \A x \in Real : x.n \in Nat
    BY FromFacts, Bounds, Lengths
  <2>. QED  BY <2>1, <2>2
<1>6. slow' = 0 => Order' /\ OrderIn(c)'
  <2> SUFFICES ASSUME slow' = 0
               PROVE  Order' /\ OrderIn(c)'
    OBVIOUS
  <2>1. Order /\ OrderIn(c)
    BY <1>1, FromFacts
  <2>2. \A j \in 1 .. Len(ran) : ran[j] \in Nat
    BY FromFacts, RanTypes
  <2>3. /\ \A i \in 1 .. Len(rx) : rx[i].is = "$" => rx[i].of.n < d.n
        /\ \A j \in 1 .. Len(ran) : ran[j] < d.n
    BY <1>2, <1>4, <1>5, <2>1, <2>2 DEF Order
  <2>4. Order'
    <3>1. sent' \in Nat /\ sent <= sent' /\ d.n \in Nat /\ d.n <= sent' /\ TypeOK
      BY <1>1, <1>2, <1>4, FromFacts
    <3>. QED  BY <1>1, <1>2, <1>4, <1>5, <2>1, <2>2, <2>3, <3>1, OrderPacket
  <2>5. OrderIn(c)'
    <3>1. ASSUME packet_phase # "NONE"
          PROVE  /\ c.n <= sent'
                 /\ \A i \in 1 .. Len(rx') : rx'[i].is = "$" => c.n < rx'[i].of.n
                 /\ \A j \in 1 .. Len(ran) : ran[j] < c.n
      <4>1. /\ c.n <= sent /\ c.n \in Nat
            /\ \A i \in 1 .. Len(rx) : rx[i].is = "$" => c.n < rx[i].of.n
            /\ \A j \in 1 .. Len(ran) : ran[j] < c.n
        BY <2>1, <3>1, FromFacts, Bounds, Lengths DEF OrderIn
      <4>2. c.n < rx'[Len(rx) + 1].of.n /\ c.n <= sent'
        BY <1>1, <1>2, <1>3, <1>4, <4>1 DEF Char
      <4>. QED  BY <1>3, <4>1, <4>2
    <3>. QED  BY <1>1, <3>1 DEF OrderIn
  <2>. QED  BY <2>4, <2>5
<1>7. Exchange(c)'
  <2> SUFFICES ASSUME Alone'
               PROVE  ~wrong' /\ OnItsWay'
    BY <1>1 DEF Exchange
  <2>1. Resting /\ ~wrong
    BY <1>1, FromFacts DEF Alone, Exchange
  <2>2. \A j \in Opening(rx') : j = Len(rx) + 1
    <3>1. \A i \in 1 .. Len(rx) : rx[i].is # "$"
      BY <2>1 DEF Resting, NoOpening, Opening
    <3>. QED  BY <1>3, <3>1 DEF Opening
  <2>3. packet_phase' = "NONE" /\ Acks(tx') = {}
    BY <1>1, <2>1 DEF Resting
  <2>. QED  BY <1>1, <1>2, <1>3, <2>1, <2>2, <2>3 DEF OnItsWay
<1>8. NoNack' /\ GdbStep
  BY <1>1, FromFacts DEF NoNack, GdbStep
<1>. QED  BY <1>6, <1>7, <1>8, ClientKept

\* The steps that say at most a sign keep the order.
LEMMA SignsKeepOrder ==
  ASSUME NEW c, NEW m, From(c, m), SaysSign, Keep, UNCHANGED <<sent, slow>>,
         gdb' = "acking" /\ Acks(tx') = {} => gdb = "acking" /\ Acks(tx) = {} /\ cmd' = cmd
  PROVE  slow' = 0 => Order' /\ OrderIn(c)'
<1>1. /\ Opening(rx') = Opening(rx) /\ \A i \in 1 .. Len(rx) : rx'[i] = rx[i]
  BY FromFacts, SignFacts
<1>2. \A i \in 1 .. Len(rx') : rx'[i].is = "$" => i \in 1 .. Len(rx) /\ rx'[i] = rx[i]
  BY <1>1 DEF Opening
<1>. QED  BY <1>2, FromFacts, KeepFacts, OrderSigns, OrderInSigns

LEMMA SignsKeepOpening ==
  ASSUME TypeOK, SaysSign, NoOpening
  PROVE  NoOpening'
  BY SignFacts DEF NoOpening

\* Outside of "acking": between commands, reading, or waiting for a stop.
LEMMA RestingKept ==
  ASSUME NEW c, NEW m, From(c, m), SaysSign, Keep, UNCHANGED cmd, gdb # "acking",
         clean' = clean, gdb # "gone", gdb' \notin {"gone", "acking"},
         tx' = tx \/ (tx # <<>> /\ tx' = Tail(tx)),
         Alone => ~wrong' /\ (gdb' = "reading" => gdb = "reading" /\ tx' = tx)
  PROVE  Exchange(c)'
<1> SUFFICES ASSUME Alone'
             PROVE  ~wrong' /\ Resting'
  BY DEF Exchange
<1>1. Alone
  BY DEF Alone
<1>2. Resting
  BY <1>1, FromFacts DEF Exchange
<1>3. NoOpening'
  BY <1>2, FromFacts, SignsKeepOpening DEF Resting
<1>4. Acks(tx') = {}
  <2>1. CASE tx' = tx
    BY <1>2, <2>1 DEF Resting
  <2>2. CASE tx # <<>> /\ tx' = Tail(tx)
    BY <1>2, <2>2, FromFacts, TakenFacts DEF Resting
  <2>. QED  BY <2>1, <2>2
<1>5. gdb' = "reading" => tx' # <<>> /\ tx'[1] = Reply'
  BY <1>1, <1>2 DEF Resting, Reply
<1>6. packet_phase' = "NONE"
  BY <1>2, KeepFacts DEF Resting
<1>. QED  BY <1>1, <1>3, <1>4, <1>5, <1>6 DEF Resting

LEMMA GdbInterruptKept ==
  ASSUME NEW c, NEW m, From(c, m), GdbInterrupt
  PROVE  Kept'
<1>1. /\ gdb = "running" /\ rx' = rx \o <<Plain("^C")>> /\ UNCHANGED <<tx, gdb, cmd, clean, wrong>>
      /\ UNCHANGED <<sent, slow>> /\ Keep
  BY DEF GdbInterrupt, Says, gdbVars
<1>2. SaysSign
  BY <1>1 DEF SaysSign, Signs
<1>3. slow' = 0 => Order' /\ OrderIn(c)'
  BY <1>1, <1>2, SignsKeepOrder
<1>4. Exchange(c)'
  <2>1. Alone => ~wrong
    BY FromFacts DEF Exchange
  <2>. QED  BY <1>1, <1>2, <2>1, RestingKept
<1>5. NoNack' /\ GdbStep
  BY <1>1, FromFacts DEF NoNack, GdbStep
<1>. QED  BY <1>3, <1>4, <1>5, ClientKept

LEMMA GdbReadTimeoutKept ==
  ASSUME NEW c, NEW m, From(c, m), GdbReadTimeout
  PROVE  Kept'
<1>1. /\ gdb = "reading" /\ rx' = rx \o <<Plain("-")>> /\ UNCHANGED <<tx, gdb, cmd, clean, wrong>>
      /\ UNCHANGED <<sent, slow>> /\ Keep
  BY DEF GdbReadTimeout, Says, gdbVars
<1>2. SaysSign
  BY <1>1 DEF SaysSign, Signs
<1>3. slow' = 0 => Order' /\ OrderIn(c)'
  BY <1>1, <1>2, SignsKeepOrder
<1>4. Exchange(c)'
  <2>1. Alone => ~wrong
    BY FromFacts DEF Exchange
  <2>. QED  BY <1>1, <1>2, <2>1, RestingKept
<1>5. NoNack' /\ GdbStep
  BY <1>1, FromFacts DEF NoNack, GdbStep
<1>. QED  BY <1>3, <1>4, <1>5, ClientKept

LEMMA GdbWaitKept ==
  ASSUME NEW c, NEW m, From(c, m), GdbWait
  PROVE  Kept'
<1>1. /\ gdb = "running" /\ gdb' \in {"running", "idle"} /\ UNCHANGED <<cmd, clean, wrong>>
      /\ tx # <<>> /\ tx' = Tail(tx) /\ UNCHANGED <<sent, slow>> /\ Keep
      /\ rx' = rx \/ rx' = rx \o <<Plus>>
  BY DEF GdbWait, Says, boundVars, Plus
<1>2. SaysSign
  BY <1>1 DEF SaysSign, Signs
<1>3. slow' = 0 => Order' /\ OrderIn(c)'
  BY <1>1, <1>2, SignsKeepOrder
<1>4. Exchange(c)'
  <2>1. Alone => ~wrong
    BY FromFacts DEF Exchange
  <2>. QED  BY <1>1, <1>2, <2>1, RestingKept
<1>5. NoNack' /\ GdbStep
  BY <1>1, FromFacts, TakenFacts DEF GdbStep, GdbReceive
<1>. QED  BY <1>3, <1>4, <1>5, ClientKept

\* On its own, the client finds the answer at the head of what comes.
LEMMA GdbReadKept ==
  ASSUME NEW c, NEW m, From(c, m), GdbRead
  PROVE  Kept'
<1>1. /\ gdb = "reading" /\ gdb' \in {"reading", "idle"} /\ UNCHANGED <<cmd, clean>>
      /\ tx # <<>> /\ tx' = Tail(tx) /\ UNCHANGED <<sent, slow>> /\ Keep
      /\ rx' = rx \/ rx' = rx \o <<Plus>>
  BY DEF GdbRead, Says, boundVars, Plus
<1>2. SaysSign
  BY <1>1 DEF SaysSign, Signs
<1>3. slow' = 0 => Order' /\ OrderIn(c)'
  BY <1>1, <1>2, SignsKeepOrder
<1>4. ASSUME Alone
      PROVE  ~wrong' /\ gdb' = "idle"
  <2>1. ~wrong /\ tx[1] = Reply
    BY <1>1, <1>4, FromFacts DEF Exchange, Resting
  <2>2. Head(tx) = Char("reply", cmd)
    BY <1>1, <2>1, FromFacts, TakenFacts DEF Reply
  <2>3. Head(tx).is \in {"reply", "stop"}
    BY <2>2 DEF Char
  <2>4. gdb' = "idle" /\ wrong' = (wrong \/ Head(tx) # Char("reply", cmd))
    BY <2>3 DEF GdbRead
  <2>. QED  BY <2>1, <2>2, <2>4, Zenon
<1>5. Exchange(c)'
  BY <1>1, <1>2, <1>4, RestingKept
<1>6. NoNack' /\ GdbStep
  BY <1>1, FromFacts, TakenFacts DEF GdbStep, GdbReceive
<1>. QED  BY <1>3, <1>5, <1>6, ClientKept

\* The acknowledgement it waits for is that of its command, and the answer is next.
LEMMA AcknowledgedExchange ==
  ASSUME NEW c, NEW m, From(c, m), gdb = "acking", tx # <<>>, tx' = Tail(tx), tx[1].is = "+",
         rx' = rx, Keep, UNCHANGED <<cmd, clean, wrong>>,
         gdb' = IF cmd.kind = "c" THEN "running" ELSE "reading"
  PROVE  Exchange(c)'
<1> SUFFICES ASSUME Alone'
             PROVE  ~wrong' /\ Resting'
  BY DEF Exchange
<1>1. Alone
  BY DEF Alone
<1>2. /\ Len(tx) \in Nat /\ 1 \in 1 .. Len(tx) /\ Len(tx) = Len(tx') + 1 /\ Len(tx') \in Nat
      /\ \A i \in 1 .. Len(tx') : i + 1 \in 1 .. Len(tx) /\ tx'[i] = tx[i + 1]
      /\ \A i \in Acks(tx') : i + 1 \in Acks(tx)
  BY FromFacts, TakenFacts
<1>3. 1 \in Acks(tx)
  BY <1>2 DEF Acks
<1>4. Answered /\ ~wrong
  BY <1>1, <1>3, FromFacts DEF Exchange, OnItsWay, Arriving
<1>5. /\ \A j \in Acks(tx) : j = 1
      /\ cmd.kind # "c" => 1 < Len(tx) /\ tx[1 + 1] = Reply
  BY <1>3, <1>4 DEF Answered
<1>6. Acks(tx') = {}
  <2> SUFFICES ASSUME NEW i \in Acks(tx') PROVE FALSE
    OBVIOUS
  <2>1. i + 1 = 1 /\ i \in 1 .. Len(tx')
    BY <1>2, <1>5 DEF Acks
  <2>. QED  BY <2>1
<1>7. NoOpening' /\ packet_phase' = "NONE"
  BY <1>4, KeepFacts DEF Answered, NoOpening
<1>8. gdb' = "reading" => tx' # <<>> /\ tx'[1] = Reply'
  <2> SUFFICES ASSUME cmd.kind # "c"
               PROVE  tx' # <<>> /\ tx'[1] = Reply
    BY DEF Reply
  <2>1. 1 \in 1 .. Len(tx') /\ tx[1 + 1] = Reply
    BY <1>2, <1>5
  <2>2. tx'[1] = tx[1 + 1]
    BY <1>2, <2>1
  <2>3. tx' # <<>>
    BY <2>1
  <2>. QED  BY <2>1, <2>2, <2>3
<1>. QED  BY <1>4, <1>6, <1>7, <1>8 DEF Resting

\* Whatever comes before it is dropped.
LEMMA DroppedExchange ==
  ASSUME NEW c, NEW m, From(c, m), gdb = "acking", tx # <<>>, tx' = Tail(tx), tx[1].is # "+",
         SaysSign, Keep, UNCHANGED <<gdb, cmd, clean, wrong>>
  PROVE  Exchange(c)'
<1> SUFFICES ASSUME Alone'
             PROVE  ~wrong' /\ (OnItsWay' \/ Arriving(c)' \/ Answered')
  BY DEF Exchange
<1>1. Alone
  BY DEF Alone
<1>2. /\ Len(tx) \in Nat /\ 1 \in 1 .. Len(tx) /\ Len(tx) = Len(tx') + 1 /\ Len(tx') \in Nat
      /\ \A i \in 1 .. Len(tx) : i # 1 => i - 1 \in 1 .. Len(tx') /\ tx'[i - 1] = tx[i]
      /\ \A i \in Acks(tx') : i + 1 \in Acks(tx)
  BY FromFacts, TakenFacts
<1>3. /\ Len(rx) \in Nat /\ Len(rx') \in Nat /\ Len(rx) <= Len(rx')
      /\ Opening(rx') = Opening(rx) /\ \A i \in 1 .. Len(rx) : rx'[i] = rx[i]
  BY FromFacts, SignFacts
<1>4. ~wrong /\ (OnItsWay \/ Arriving(c) \/ Answered)
  BY <1>1, FromFacts DEF Exchange
<1>5. packet_phase' = packet_phase
  BY KeepFacts
<1>6. ASSUME Acks(tx) = {}
      PROVE  Acks(tx') = {}
  BY <1>2, <1>6
<1>7. CASE OnItsWay
  <2>1. PICK k \in 1 .. Len(rx) : rx[k] = Char("$", cmd) /\ \A j \in Opening(rx) : j = k
    BY <1>7 DEF OnItsWay
  <2>2. k \in 1 .. Len(rx') /\ rx'[k] = Char("$", cmd')
    BY <1>3, <2>1
  <2>3. OnItsWay'
    BY <1>3, <1>5, <1>6, <1>7, <2>1, <2>2 DEF OnItsWay
  <2>. QED  BY <1>4, <2>3
<1>8. CASE Arriving(c)
  <2>1. NoOpening'
    BY <1>3, <1>8 DEF Arriving, NoOpening
  <2>2. Arriving(c)'
    BY <1>5, <1>6, <1>8, <2>1 DEF Arriving
  <2>. QED  BY <1>4, <2>2
<1>9. CASE Answered
  <2>1. PICK k \in 1 .. Len(tx) :
          /\ tx[k].is = "+" /\ \A j \in Acks(tx) : j = k
          /\ cmd.kind # "c" => k < Len(tx) /\ tx[k + 1] = Reply
    BY <1>9 DEF Answered
  <2>2. k # 1
    BY <2>1
  <2>3. k - 1 \in 1 .. Len(tx') /\ tx'[k - 1].is = "+"
    BY <1>2, <2>1, <2>2
  <2>4. \A j \in Acks(tx') : j = k - 1
    <3> SUFFICES ASSUME NEW j \in Acks(tx') PROVE j = k - 1
      OBVIOUS
    <3>1. j + 1 = k /\ j \in 1 .. Len(tx')
      BY <1>2, <2>1 DEF Acks
    <3>. QED  BY <3>1
  <2>5. cmd'.kind # "c" => k - 1 < Len(tx') /\ tx'[(k - 1) + 1] = Reply'
    <3> SUFFICES ASSUME cmd.kind # "c"
                 PROVE  k - 1 < Len(tx') /\ tx'[(k - 1) + 1] = Reply
      BY DEF Reply
    <3>1. k < Len(tx) /\ tx[k + 1] = Reply
      BY <2>1
    <3>2. /\ k + 1 \in 1 .. Len(tx) /\ k + 1 # 1 /\ (k + 1) - 1 = (k - 1) + 1
          /\ k - 1 < Len(tx')
      BY <1>2, <2>2, <3>1
    <3>3. tx'[(k + 1) - 1] = tx[k + 1]
      BY <1>2, <3>2
    <3>. QED  BY <3>1, <3>2, <3>3
  <2>6. NoOpening' /\ packet_phase' = "NONE"
    BY <1>3, <1>5, <1>9 DEF Answered, NoOpening
  <2>7. Answered'
    BY <2>3, <2>4, <2>5, <2>6 DEF Answered
  <2>. QED  BY <1>4, <2>7
<1>. QED  BY <1>4, <1>7, <1>8, <1>9

LEMMA GdbReadAckKept ==
  ASSUME NEW c, NEW m, From(c, m), GdbReadAck
  PROVE  Kept'
<1>1. /\ gdb = "acking" /\ tx # <<>> /\ tx' = Tail(tx) /\ UNCHANGED <<cmd, clean, wrong>>
      /\ UNCHANGED <<sent, slow>> /\ Keep
  BY DEF GdbReadAck, boundVars
<1>2. Head(tx) = tx[1] /\ Head(tx).is # "-"
  BY <1>1, FromFacts, ReadAckMarks
<1>3. NoNack' /\ GdbStep
  BY <1>1, FromFacts, TakenFacts DEF GdbStep, GdbReceive
<1>4. CASE tx[1].is = "+"
  <2>1. gdb' = (IF cmd.kind = "c" THEN "running" ELSE "reading") /\ rx' = rx
    BY <1>2, <1>4 DEF GdbReadAck
  <2>2. SaysSign
    BY <2>1 DEF SaysSign
  <2>3. slow' = 0 => Order' /\ OrderIn(c)'
    BY <1>1, <2>1, <2>2, SignsKeepOrder
  <2>4. Exchange(c)'
    BY <1>1, <1>4, <2>1, AcknowledgedExchange
  <2>. QED  BY <1>3, <2>3, <2>4, ClientKept
<1>5. CASE tx[1].is # "+"
  <2>1. rx' = rx \o <<Plus>> /\ gdb' = gdb
    BY <1>2, <1>5 DEF GdbReadAck, Says, Plus
  <2>2. SaysSign
    BY <2>1 DEF SaysSign, Signs
  <2>3. slow' = 0 => Order' /\ OrderIn(c)'
    BY <1>1, <1>5, <2>1, <2>2, FromFacts, TakenFacts, SignsKeepOrder
  <2>4. Exchange(c)'
    BY <1>1, <1>5, <2>1, <2>2, DroppedExchange
  <2>. QED  BY <1>3, <2>3, <2>4, ClientKept
<1>. QED  BY <1>4, <1>5

\* When there is nothing on its way, no packet is half read, and none was executed
\* whose acknowledgement GDB still waits for.
LEMMA GdbAckTimeoutKept ==
  ASSUME NEW c, NEW m, From(c, m), GdbAckTimeout
  PROVE  Kept'
<1>1. /\ gdb = "acking" /\ tx = <<>> /\ rx = <<>> /\ Repeat /\ UNCHANGED <<tx, cmd, clean, wrong>>
      /\ UNCHANGED <<sent, slow>> /\ Keep /\ UNCHANGED <<packet_phase, ran>>
  BY KeepFacts DEF GdbAckTimeout, boundVars
<1>2. cmd # None /\ cmd \in Commands /\ cmd.n <= sent /\ sent \in Nat
  <2>1. cmd # None /\ cmd.n <= sent
    BY <1>1, FromFacts DEF Session
  <2>2. cmd \in Commands /\ sent \in Nat
    BY FromFacts, Bounds DEF TypeOK
  <2>. QED  BY <2>1, <2>2
<1>3. packet_phase = "NONE"
  BY <1>1, <1>2, FromFacts, EmptyNone
<1>4. Len(rx) = 0 /\ Len(tx) = 0 /\ Acks(tx) = {}
  BY <1>1 DEF Acks
<1>5. NoNack' /\ GdbStep
  BY <1>1, FromFacts DEF NoNack, GdbStep, GdbReceive
<1>6. slow' = 0 => Order' /\ OrderIn(c)'
  <2> SUFFICES ASSUME slow' = 0
               PROVE  Order'
    BY <1>1, <1>3 DEF OrderIn
  <2>1. Order /\ \A j \in 1 .. Len(ran) : ran[j] < cmd.n
    BY <1>1, <1>4, FromFacts DEF Order
  <2>2. CASE rx' = rx
    BY <1>1, <2>1, <2>2 DEF Order, Repeat
  <2>3. CASE rx' # rx
    <3>1. rx' = rx \o Packet(cmd)
      BY <1>1, <2>3, FromFacts, RepeatSpeaks
    <3>2. cmd \in Real /\ cmd.n \in Nat
      BY <1>2, FromFacts, CommandTypes
    <3>3. \A j \in 1 .. Len(ran) : ran[j] \in Nat
      BY FromFacts, RanTypes
    <3>4. /\ \A i \in 1 .. Len(rx) : rx[i].is = "$" => rx[i].of.n < cmd.n
          /\ \A i \in 1 .. Len(rx) : rx[i].is = "$" => rx[i].of.n \in Nat
          /\ sent' \in Nat /\ sent <= sent' /\ cmd.n <= sent' /\ TypeOK
      BY <1>1, <1>2, <1>4, FromFacts
    <3>. QED  BY <1>1, <1>2, <2>1, <3>1, <3>2, <3>3, <3>4, OrderPacket
  <2>. QED  BY <2>2, <2>3
<1>7. Exchange(c)'
  <2>1. ~(Alone /\ (OnItsWay \/ Arriving(c) \/ Answered))
    BY <1>3, <1>4 DEF OnItsWay, Arriving, Answered
  <2>2. ~Alone
    BY <1>1, <2>1, FromFacts DEF Exchange
  <2>3. ~Alone'
    BY <1>1, <2>2 DEF Alone
  <2>. QED  BY <2>3 DEF Exchange
<1>. QED  BY <1>5, <1>6, <1>7, ClientKept

LEMMA GdbAckSlowKept ==
  ASSUME NEW c, NEW m, From(c, m), GdbAckSlow
  PROVE  Kept'
<1>1. tx' = tx /\ slow' = slow + 1 /\ clean' = FALSE
  BY DEF GdbAckSlow
<1>2. slow \in Nat
  BY FromFacts, Bounds DEF TypeOK
<1>3. NoNack' /\ GdbStep
  BY <1>1, FromFacts DEF NoNack, GdbStep
<1>4. slow' # 0
  BY <1>1, <1>2
<1>5. Exchange(c)'
  BY <1>1 DEF Exchange, Alone
<1>. QED  BY <1>3, <1>4, <1>5, ClientKept

LEMMA ClientStepKept ==
  ASSUME NEW c, NEW m, From(c, m), GdbStep
  PROVE  Kept'
  BY GdbConnectKept, GdbLeaveKept, GdbCommandKept, GdbReadAckKept, GdbAckTimeoutKept,
     GdbReadKept, GdbWaitKept, GdbAckSlowKept, GdbReadTimeoutKept, GdbInterruptKept
     DEF GdbStep, GdbReceive

-----------------------------------------------------------------------------
(* The invariant.                                                          *)

LEMMA Initially ==
  ASSUME GdbPacketAssumption, Init
  PROVE  Inv
<1> USE DEF Init
<1>1. /\ MaxLen \in Nat /\ MaxLen > 2 /\ MaxTries \in Nat /\ MaxClients \in Nat
      /\ MaxCommands \in Nat /\ MaxTimeouts \in Nat /\ MaxSlow \in Nat /\ MaxInterrupts \in Nat
      /\ MaxSent \in Nat /\ None \in Commands
  BY Bounds, CommandTypes
<1>2. TypeOK
  <2>1. /\ <<>> \in Seq(Received) /\ <<>> \in Seq(Answers) /\ <<>> \in Seq(1 .. MaxSent)
        /\ Len(<<>>) < MaxLen /\ Len(<<>>) < 2
    BY <1>1
  <2>2. /\ awaiting_ack \in BOOLEAN /\ halted \in BOOLEAN /\ stopped \in BOOLEAN
        /\ clean \in BOOLEAN /\ wrong \in BOOLEAN /\ token \in BOOLEAN
    OBVIOUS
  <2>. QED  BY <1>1, <2>1, <2>2 DEF TypeOK
<1>3. Session
  BY <1>1 DEF Session
<1>4. Grammar(rx, cmd)
  BY DEF Grammar
<1>5. NoNack
  BY DEF NoNack
<1>6. Order
  BY DEF Order
<1>7. PICK d \in Real : d.kind = "query"
  <2> DEFINE d == [n |-> 0, kind |-> "query"]
  <2>1. d \in Real /\ d.kind = "query"
    BY <1>1 DEF Real, Kinds
  <2>. QED  BY <2>1
<1>8. Renewed(rx, 1, cmd)
  <2>1. 1 \in 1 .. Len(rx) + 1 /\ ~(1 <= Len(rx)) /\ 1 .. 1 - 1 = {} /\ cmd = None
    OBVIOUS
  <2>. QED  BY <2>1 DEF Renewed
<1>9. 0 \in 0 .. RestLen(d) /\ 0 < RestLen(d) /\ 0 <= RestLen(d)
  BY Lengths
<1>10. Comes(d, 0, rx, 1, cmd)
  BY <1>2, <1>8, <1>9, SequenceTypes, RenewedComes
<1>11. Automaton(d, 0)
  BY <1>7, <1>9, <1>10 DEF Automaton, InNone
<1>12. Tracks(d, 0)
  BY <1>11 DEF Tracks, OrderIn, Exchange, Alone
<1>. QED  BY <1>2, <1>3, <1>4, <1>5, <1>6, <1>9, <1>12 DEF Inv, Base, Kept

LEMMA InvStep ==
  ASSUME GdbPacketAssumption, Inv, [Next]_vars
  PROVE  Inv'
<1>1. PICK c \in Real : \E m \in 0 .. RestLen(c) : Tracks(c, m)
  BY DEF Inv, Kept
<1>2. PICK m \in 0 .. RestLen(c) : Tracks(c, m)
  BY <1>1
<1>3. From(c, m)
  BY <1>2 DEF From, Inv, Kept
<1>4. CASE Next
  <2>1. Session'
    BY <1>3, <1>4, FromFacts, SessionStep
  <2>2. Kept'
    BY <1>3, <1>4, ServerKept, ClientStepKept DEF Next
  <2>3. CASE ServerStep \/ TargetStop
    <3>1. Grammar(rx, cmd)'
      <4>1. CASE ProcessChar
        <5>1. rx # <<>> /\ rx' = Tail(rx) /\ cmd' = cmd
          BY <4>1 DEF ProcessChar, GetChar, gdbVars, DataOpen, DataEnd, DataChar, Nack, Ack,
             Open, Interrupt, Junk, FirstDigit, LastDigit
        <5>. QED  BY <1>3, <5>1, FromFacts, GrammarTail
      <4>2. CASE PollTarget \/ NoChar \/ TargetStop
        <5>1. rx' = rx /\ cmd' = cmd
          BY <4>2 DEF PollTarget, NoChar, TargetStop, gdbVars
        <5>. QED  BY <1>3, <5>1, FromFacts
      <4>. QED  BY <2>3, <4>1, <4>2 DEF ServerStep
    <3>2. TypeOK'
      <4>1. packet_phase = "CHECKSUM" => cur_packet = Data(c)
        BY <1>3, FromFacts DEF Automaton, InData, InChecksum, InNone
      <4>. QED  BY <1>3, <2>3, <4>1, FromFacts, ReadingTypes, ServerTypes DEF ServerStep
    <3>. QED  BY <2>1, <2>2, <3>1, <3>2 DEF Inv, Base
  <2>4. CASE GdbStep
    <3>1. Grammar(rx, cmd)'
      BY <1>3, <2>4, FromFacts, ClientGrammar
    <3>2. TypeOK'
      BY <1>3, <2>4, FromFacts, ClientTypes
    <3>. QED  BY <2>1, <2>2, <3>1, <3>2 DEF Inv, Base
  <2>. QED  BY <1>4, <2>3, <2>4 DEF Next
<1>5. CASE UNCHANGED vars
  <2>1. /\ UNCHANGED <<serverVars, stopped, rx, token, tx, gdbVars, boundVars>>
    BY <1>5 DEF vars
  <2>2. UNCHANGED <<phaseVars, rx, tx, gdbVars, boundVars, ran>>
    BY <2>1 DEF serverVars
  <2>3. Kept'
    BY <1>3, <2>2, StillKept
  <2>4. Base'
    BY <1>3, <2>1, FromFacts
       DEF Base, TypeOK, Session, serverVars, phaseVars, sendVars, gdbVars, boundVars
  <2>. QED  BY <2>3, <2>4 DEF Inv
<1>. QED  BY <1>4, <1>5

\* What is on its way, how far the automaton is in it and where each command or its
\* answer is fit together, at every moment of gdbserver_processChar.
THEOREM InvHolds == Spec => []Inv
<1>1. Init => Inv
  BY GdbPacketAssumption, Initially
<1>2. Inv /\ [Next]_vars => Inv'
  BY GdbPacketAssumption, InvStep
<1>. QED  BY <1>1, <1>2, PTL DEF Spec

\* Every variable has its type, whatever the bounds.
THEOREM TypeCorrect == Spec => []TypeOK
<1>1. Inv => TypeOK
  BY DEF Inv, Base
<1>. QED  BY <1>1, InvHolds, PTL

\* What gets as far as its checksum is the whole payload of one packet.
THEOREM WholePacketsCorrect == Spec => []WholePackets
<1>1. Inv => WholePackets
  <2> SUFFICES ASSUME Inv, packet_phase = "CHECKSUM"
               PROVE  \E c \in Commands : cur_packet = Data(c) /\ cur_checksum = Data(c)
    BY DEF WholePackets
  <2>1. PICK c \in Real : \E m \in 0 .. RestLen(c) : Tracks(c, m)
    BY DEF Inv, Kept
  <2>2. PICK m \in 0 .. RestLen(c) : Tracks(c, m)
    BY <2>1
  <2>3. cur_packet = Data(c) /\ cur_checksum = Data(c)
    BY <2>2 DEF Tracks, Automaton, InData, InChecksum, InNone
  <2>4. c \in Commands
    BY <2>3, WholePacket DEF Inv, Base
  <2>. QED  BY <2>3, <2>4
<1>. QED  BY <1>1, InvHolds, PTL

\* A 0x03 within a packet is never read as a Ctrl-C, nor a Ctrl-C as data.
THEOREM InterruptsCorrect == Spec => []InterruptsRead
<1>1. Inv => InterruptsRead
  <2> SUFFICES ASSUME Inv, rx # <<>>, Head(rx).is = "^C"
               PROVE  packet_phase = "DATA" <=> Head(rx).of # None
    BY DEF InterruptsRead
  <2>1. PICK c \in Real : \E m \in 0 .. RestLen(c) : Tracks(c, m)
    BY DEF Inv, Kept
  <2>2. PICK m \in 0 .. RestLen(c) : Tracks(c, m)
    BY <2>1
  <2>3. From(c, m)
    BY <2>2, GdbPacketAssumption DEF From, Inv, Kept
  <2>4. Head(rx) = rx[1] /\ rx[1].is = "^C"
    BY <2>3, FromFacts, TailFacts
  <2>5. CASE packet_phase = "DATA"
    <3>1. m < DataLen(c) /\ rx[1] = Rest(c)[m + 1]
      BY <2>3, <2>4, <2>5, FromFacts, ReadsData, Marks
    <3>2. m + 1 \in 1 .. RestLen(c) /\ c # None
      BY <2>3, <3>1, FromFacts, Lengths
    <3>3. Rest(c)[m + 1].of = c
      BY <3>2, RestChars
    <3>. QED  BY <2>4, <2>5, <3>1, <3>2, <3>3
  <2>6. CASE packet_phase = "CHECKSUM"
    BY <2>3, <2>4, <2>6, FromFacts, ReadsChecksum, Marks
  <2>7. CASE packet_phase = "NONE"
    <3>1. rx[1] \in Signs
      BY <2>3, <2>4, <2>7, FromFacts, ReadsNone, Marks DEF Opens
    <3>. QED  BY <2>4, <2>7, <3>1, Marks
  <2>8. packet_phase \in {"NONE", "DATA", "CHECKSUM"}
    BY <2>3, FromFacts DEF TypeOK
  <2>. QED  BY <2>5, <2>6, <2>7, <2>8
<1>. QED  BY <1>1, InvHolds, PTL

\* Commands are executed in the order in which they were sent, each at most once.
THEOREM OrderCorrect == Spec => []ExecutedInOrder
<1>1. Inv => ExecutedInOrder
  <2> SUFFICES ASSUME Inv, slow = 0, NEW i \in DOMAIN ran, NEW j \in DOMAIN ran, i < j
               PROVE  ran[i] < ran[j]
    BY DEF ExecutedInOrder
  <2>1. ran \in Seq(1 .. MaxSent)
    BY SequenceTypes DEF Inv, Base
  <2>2. i \in 1 .. Len(ran) /\ j \in 1 .. Len(ran)
    BY <2>1
  <2>. QED  BY <2>2 DEF Inv, Kept, Order
<1>. QED  BY <1>1, InvHolds, PTL

\* A client that found nothing of another's takes nothing but the answer to its command
\* for it.
THEOREM AnswerCorrect == Spec => []AnswerIsOwn
<1>1. Inv => AnswerIsOwn
  <2> SUFFICES ASSUME Inv, clean
               PROVE  ~wrong
    BY DEF AnswerIsOwn
  <2>1. PICK c \in Real : \E m \in 0 .. RestLen(c) : Tracks(c, m)
    BY DEF Inv, Kept
  <2>2. Exchange(c) /\ Session
    BY <2>1 DEF Tracks, Inv, Base
  <2>. QED  BY <2>2 DEF Exchange, Alone, Session
<1>. QED  BY <1>1, InvHolds, PTL
=============================================================================
