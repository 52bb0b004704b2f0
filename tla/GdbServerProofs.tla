--------------------------- MODULE GdbServerProofs ---------------------------
(***************************************************************************)
(* For any program, breakpoints and number of Ctrl-C and kills: the server *)
(* never takes a running target for halted, and as long as no access fails *)
(* and GDB is sent no answer it did not wait for, GDB, server and target   *)
(* agree on who has stopped, and console requests are served once.         *)
(***************************************************************************)
EXTENDS GdbServer, FiniteSetTheorems, SequenceTheorems, TLAPS

-----------------------------------------------------------------------------
(* What is on its way to the server.                                       *)

\* Only Ctrl-C.
Ints(s) == \A i \in 1..Len(s) : s[i] = "int"
\* Ctrl-C, then one of C.
Ends(s, C) == Len(s) > 0 /\ s[Len(s)] \in C /\ \A i \in 1 .. Len(s) - 1 : s[i] = "int"
\* One of C among Ctrl-C.
Among(s, C) == \E i \in 1..Len(s) : s[i] \in C /\ \A j \in 1..Len(s) : j # i => s[j] = "int"

-----------------------------------------------------------------------------
(* The inductive invariant: the stages of a session.                       *)

Connecting ==
  /\ loop = "connect" /\ ~halted /\ tx = <<>> /\ performed = 0
  /\ \/ gdb = "gone" /\ rx = <<>>
     \/ gdb = "waiting" /\ rx = <<"?">>

\* No GDB, though its kill may be on its way.
Gone ==
  /\ gdb = "gone" /\ tx = <<>> /\ performed = 0
  /\ \/ rx = <<>>
     \/ halted /\ Ends(rx, {"k"})

Prompt == gdb = "stopped" /\ halted /\ tx = <<>> /\ Ints(rx) /\ performed = 0

\* A new GDB's first query, perhaps right behind a kill; or a query of a stopped GDB.
AfterKill == \E s \in Seq(Commands) : rx = Append(s, "?") /\ Ends(s, {"k"})
Asked ==
  /\ gdb = "waiting" /\ tx = <<>> /\ performed = 0
  /\ \/ rx = <<"?">>
     \/ halted /\ (AfterKill \/ Ends(rx, {"data"}))

Answered ==
  /\ gdb = "waiting" /\ halted /\ Ints(rx) /\ performed = 0
  /\ \E x \in {"OK", "E00", "S02"} : tx = <<x>>

\* '?' is not answered while the target runs.
Unanswered == gdb = "waiting" /\ tx = <<>> /\ rx = <<>> /\ ~halted /\ performed = 0

\* GDB lets the program run, and the server has not yet.
Resuming ==
  /\ gdb = "running" /\ halted /\ tx = <<>>
  /\ \/ Among(rx, {"c", "s"}) /\ performed = 0
     \/ Among(rx, {"F", "FC"}) /\ performed = 1 /\ opcode \in {"write", "read"}

\* The text that is sent with the first continue.
Info == {<<>>, <<"O">>}

Running == gdb = "running" /\ ~halted /\ Ints(rx) /\ tx \in Info /\ performed = 0

Reported ==
  /\ gdb = "running" /\ halted /\ Ints(rx) /\ performed = 0
  /\ \E x \in {"S02", "S05", "F"} :
       /\ tx = <<x>> \/ tx = <<"O", x>>
       /\ x = "F" => opcode \in {"write", "read"}

\* The program has stopped for something that nobody handles.
Unreported == gdb = "running" /\ halted /\ Ints(rx) /\ tx \in Info /\ performed = 0

Requested ==
  /\ gdb = "io" /\ halted /\ tx = <<>> /\ Ints(rx) /\ performed = 0
  /\ opcode \in {"write", "read"}

Stage ==
  \/ Connecting
  \/ /\ loop # "connect"
     /\ \/ Gone \/ Prompt \/ Asked \/ Answered \/ Unanswered
        \/ Resuming \/ Running \/ Reported \/ Unreported \/ Requested

Session == ~astray /\ ~failed => Stage

\* What the server and the core's driver take the target for.
Known ==
  loop # "connect" /\ ~failed =>
    /\ halted => cpu = "halted" /\ core_halted
    /\ loop = "char" /\ core_halted => halted

IInv == TypeOK /\ Known /\ Session

-----------------------------------------------------------------------------
(* Queues of packets.                                                      *)

\* Taking the first packet: a Ctrl-C, or the one command.
LEMMA TakeFirst ==
  ASSUME NEW s \in Seq(Commands), s # <<>>, NEW C
  PROVE  /\ Ints(s) => Head(s) = "int" /\ Ints(Tail(s))
         /\ Ends(s, C) => Head(s) = "int" \/ (Head(s) \in C /\ Tail(s) = <<>>)
         /\ Among(s, C) => Head(s) = "int" \/ (Head(s) \in C /\ Ints(Tail(s)))
<1>1. /\ Len(s) \in Nat /\ Len(s) > 0 /\ Head(s) = s[1] /\ Tail(s) \in Seq(Commands)
      /\ Len(Tail(s)) = Len(s) - 1 /\ \A i \in 1..Len(Tail(s)) : Tail(s)[i] = s[i + 1]
  OBVIOUS
<1>2. Ints(s) => Head(s) = "int" /\ Ints(Tail(s))
  BY <1>1 DEF Ints
<1>3. ASSUME Ends(s, C), Head(s) # "int" PROVE Head(s) \in C /\ Tail(s) = <<>>
  <2>1. Len(s) = 1
    BY <1>1, <1>3 DEF Ends
  <2>2. Tail(s) = <<>>
    <3>1. \A t \in Seq(Commands) : t # <<>> => Len(t) # 0
      BY EmptySeq
    <3>2. Len(Tail(s)) = 0
      BY <1>1, <2>1
    <3>3. QED
      BY <1>1, <3>1, <3>2, Zenon
  <2>3. QED
    BY <1>1, <1>3, <2>1, <2>2 DEF Ends
<1>4. ASSUME Among(s, C), Head(s) # "int" PROVE Head(s) \in C /\ Ints(Tail(s))
  <2>1. PICK i \in 1..Len(s) : s[i] \in C /\ \A j \in 1..Len(s) : j # i => s[j] = "int"
    BY <1>4 DEF Among
  <2>2. i = 1
    BY <1>1, <1>4, <2>1
  <2>3. QED
    BY <1>1, <2>1, <2>2 DEF Ints
<1>5. QED
  BY <1>2, <1>3, <1>4

\* Adding a packet.
LEMMA AddLast ==
  ASSUME NEW s \in Seq(Commands), NEW c \in Commands, NEW C, c \in C
  PROVE  /\ Ints(s) => /\ Ints(Append(s, "int"))
                       /\ Ends(Append(s, c), C)
                       /\ Among(Append(s, c), C)
<1>1. ASSUME NEW d
      PROVE  /\ Len(Append(s, d)) = Len(s) + 1 /\ Append(s, d)[Len(s) + 1] = d
             /\ \A i \in 1..Len(s) : Append(s, d)[i] = s[i]
  OBVIOUS
<1>2. Len(s) \in Nat
  OBVIOUS
<1>3. ASSUME Ints(s) PROVE Ints(Append(s, "int"))
  BY <1>1, <1>2, <1>3 DEF Ints
<1>4. ASSUME Ints(s) PROVE Ends(Append(s, c), C)
  BY <1>1, <1>2, <1>4 DEF Ints, Ends
<1>5. ASSUME Ints(s) PROVE Among(Append(s, c), C)
  <2>1. Len(s) + 1 \in 1..Len(Append(s, c))
    BY <1>1, <1>2
  <2>2. \A j \in 1..Len(Append(s, c)) : j # Len(s) + 1 => Append(s, c)[j] = "int"
    BY <1>1, <1>2, <1>5 DEF Ints
  <2>3. QED
    BY <1>1, <2>1, <2>2 DEF Among
<1>6. QED
  BY <1>3, <1>4, <1>5

LEMMA AddInt ==
  ASSUME NEW s \in Seq(Commands), NEW C, Among(s, C) PROVE Among(Append(s, "int"), C)
<1>1. /\ Len(s) \in Nat /\ Len(Append(s, "int")) = Len(s) + 1 /\ Append(s, "int")[Len(s) + 1] = "int"
      /\ \A i \in 1..Len(s) : Append(s, "int")[i] = s[i]
  OBVIOUS
<1>2. PICK i \in 1..Len(s) : s[i] \in C /\ \A j \in 1..Len(s) : j # i => s[j] = "int"
  BY DEF Among
<1>3. \A j \in 1..Len(Append(s, "int")) : j # i => Append(s, "int")[j] = "int"
  BY <1>1, <1>2
<1>4. QED
  BY <1>1, <1>2, <1>3 DEF Among

\* A new GDB's query behind a kill: the kill is taken first.
LEMMA TakeKill ==
  ASSUME NEW s \in Seq(Commands), Ends(s, {"k"})
  PROVE  LET q == Append(s, "?")
         IN q # <<>> /\ (Head(q) = "int" \/ (Head(q) = "k" /\ Tail(q) = <<"?">>))
<1>1. s # <<>> /\ (Head(s) = "int" \/ (Head(s) = "k" /\ Tail(s) = <<>>))
  BY TakeFirst DEF Ends
<1>2. /\ Head(Append(s, "?")) = Head(s) /\ Tail(Append(s, "?")) = Append(Tail(s), "?")
      /\ Append(s, "?") # <<>>
  BY <1>1, HeadTailAppend
<1>3. Append(<<>>, "?") = <<"?">>
  OBVIOUS
<1>4. CASE Head(s) = "k" /\ Tail(s) = <<>>
  <2>1. Head(Append(s, "?")) = "k" /\ Tail(Append(s, "?")) = <<"?">>
    BY <1>2, <1>3, <1>4, Zenon
  <2>2. QED
    BY <1>2, <2>1, Zenon
<1>5. QED
  BY <1>1, <1>2, <1>4, Zenon

-----------------------------------------------------------------------------
(* Type correctness.                                                       *)

LEMMA AfterType == ASSUME NEW p \in Addresses PROVE After(p) \in Addresses
  BY GdbServerAssumption DEF Addresses, After

\* What a step of the server may send.
Replies == {<<>>, <<"S02">>, <<"S05">>, <<"F">>, <<"O">>, <<"OK">>, <<"E00">>, <<"O", "S02">>,
            <<"O", "E00">>, <<"E00", "S05">>}

LEMMA SendType == ASSUME TypeOK, NEW q \in Replies, Send(q) PROVE tx' \in Seq(Packets)
<1>1. q = <<>> \/ (\E x \in Packets : q = <<x>>) \/ \E x, y \in Packets : q = <<x, y>>
  BY DEF Replies, Packets
<1>2. q \in Seq(Packets)
  <2>1. <<>> \in Seq(Packets)
    OBVIOUS
  <2>2. \A x \in Packets : <<x>> \in Seq(Packets)
    OBVIOUS
  <2>3. \A x, y \in Packets : <<x, y>> \in Seq(Packets)
    OBVIOUS
  <2>4. QED
    BY <1>1, <2>1, <2>2, <2>3, Zenon
<1>3. QED
  BY <1>2 DEF TypeOK, Send

LEMMA ContinueType ==
  ASSUME TypeOK, NEW p \in Addresses, Continue(p)
  PROVE  /\ at' \in Addresses /\ tx' \in Seq(Packets) /\ cpu' \in {"running", "halted"}
         /\ core_halted' \in BOOLEAN /\ halted' \in BOOLEAN /\ gave_info' \in BOOLEAN
         /\ failed' \in BOOLEAN
<1>1. /\ <<>> \o <<"E00">> = <<"E00">> /\ <<"O">> \o <<"E00">> = <<"O", "E00">>
      /\ {<<>>, <<"O">>, <<"E00">>, <<"O", "E00">>} \subseteq Replies
  <2>1. <<>> \o <<"E00">> = <<"E00">>
    OBVIOUS
  <2>2. <<"O">> \o <<"E00">> = <<"O", "E00">>
    <3> DEFINE s == <<"O">> \o <<"E00">>
    <3>1. s \in Seq(Packets) /\ <<"O", "E00">> \in Seq(Packets)
      BY DEF Packets
    <3>2. Len(s) = 2 /\ s[1] = "O" /\ s[2] = "E00"
      OBVIOUS
    <3> HIDE DEF s
    <3>3. s = <<"O", "E00">>
      BY <3>1, <3>2, SeqEqual
    <3>4. QED
      BY <3>3 DEF s
  <2>3. QED
    BY <2>1, <2>2 DEF Replies
<1>2. tx' = tx \/ \E q \in Replies : Send(q)
  BY <1>1 DEF Continue
<1>3. tx' \in Seq(Packets)
  BY <1>2, SendType DEF TypeOK
<1>4. QED
  BY <1>3 DEF Continue, TypeOK

\* The variables that taking a packet leaves to its handler.
HandlerType ==
  /\ cpu \in {"running", "halted"} /\ at \in Addresses /\ core_halted \in BOOLEAN
  /\ halted \in BOOLEAN /\ gave_info \in BOOLEAN
  /\ stop_reason \in {"unknown", "breakpoint", "semihosting", "interrupt"}
  /\ fileio_waiting \in BOOLEAN /\ opcode \in {"nop", "write", "read", "other"}
  /\ tx \in Seq(Packets) /\ performed \in Int /\ astray \in BOOLEAN /\ failed \in BOOLEAN

LEMMA PacketType == ASSUME TypeOK, ProcessPacket PROVE TypeOK'
<1> USE DEF historyVars, haltVars, targetVars, fileioVars
<1>1. /\ 1 \in Addresses /\ After(at) \in Addresses
      /\ {<<>>, <<"S02">>, <<"S05">>, <<"OK">>, <<"E00">>, <<"O", "S02">>, <<"E00", "S05">>}
           \subseteq Replies
  BY AfterType, GdbServerAssumption DEF Addresses, Replies, TypeOK
<1>2. ASSUME NEW p, Process(p), HandlerType' PROVE TypeOK'
  BY <1>2, HeadTailProperties DEF Process, TypeOK, HandlerType, userVars
<1>3. HandlerType
  BY DEF TypeOK, HandlerType
<1>4. CASE ProcessQuery
  <2>1. \E q \in Replies : Send(q)
    BY <1>1, <1>4 DEF ProcessQuery
  <2>2. QED
    BY <1>2, <1>3, <1>4, <2>1, SendType DEF ProcessQuery, HandlerType
<1>5. CASE ProcessData
  <2>1. \E q \in Replies : Send(q)
    BY <1>1, <1>5 DEF ProcessData
  <2>2. QED
    BY <1>2, <1>3, <1>5, <2>1, SendType DEF ProcessData, HandlerType
<1>6. CASE ProcessContinue
  <2>1. HandlerType'
    BY <1>3, <1>6, ContinueType DEF ProcessContinue, HandlerType
  <2>2. QED
    BY <1>2, <1>6, <2>1 DEF ProcessContinue
<1>7. CASE ProcessStep
  <2>1. \E q \in Replies : Send(q)
    BY <1>1, <1>7 DEF ProcessStep
  <2>2. tx' \in Seq(Packets)
    BY <2>1, SendType
  <2>3. HandlerType'
    BY <1>1, <1>3, <1>7, <2>2 DEF ProcessStep, HandlerType
  <2>4. QED
    BY <1>2, <1>7, <2>3 DEF ProcessStep
<1>8. CASE ProcessKill
  <2>1. HandlerType'
    BY <1>1, <1>3, <1>8 DEF ProcessKill, HandlerType
  <2>2. QED
    BY <1>2, <1>8, <2>1 DEF ProcessKill
<1>9. CASE ProcessInterrupt
  <2>1. \E q \in Replies : Send(q)
    BY <1>1, <1>9 DEF ProcessInterrupt
  <2>2. tx' \in Seq(Packets)
    BY <2>1, SendType
  <2>3. HandlerType'
    BY <1>3, <1>9, <2>2 DEF ProcessInterrupt, HandlerType, Outcome
  <2>4. QED
    BY <1>2, <1>9, <2>3 DEF ProcessInterrupt
<1>10. ASSUME NEW p \in {"F", "FC"}, ProcessFileIO(p) PROVE TypeOK'
  <2>1. /\ at' \in Addresses /\ tx' \in Seq(Packets) /\ cpu' \in {"running", "halted"}
        /\ core_halted' \in BOOLEAN /\ halted' \in BOOLEAN /\ gave_info' \in BOOLEAN
        /\ failed' \in BOOLEAN
    <3>1. CASE Continue(After(at))
      BY <1>1, <3>1, ContinueType
    <3>2. CASE Send(<<"S02">>) /\ at' = After(at)
               /\ UNCHANGED <<cpu, core_halted, halted, gave_info, failed>>
      BY <1>1, <1>3, <3>2, SendType DEF HandlerType
    <3>3. CASE UNCHANGED <<targetVars, halted, gave_info, tx>> /\ failed' \in {failed, TRUE}
      BY <1>3, <3>3 DEF HandlerType
    <3>4. QED
      BY <1>10, <3>1, <3>2, <3>3 DEF ProcessFileIO
  <2>2. performed' \in Int
    BY <1>3, <1>10 DEF ProcessFileIO, HandlerType
  <2>3. QED
    BY <1>2, <1>3, <1>10, <2>1, <2>2 DEF ProcessFileIO, HandlerType
<1>11. QED
  BY <1>4, <1>5, <1>6, <1>7, <1>8, <1>9, <1>10 DEF ProcessPacket

LEMMA TypeStep == TypeOK /\ [Next]_vars => TypeOK'
<1> SUFFICES ASSUME TypeOK, [Next]_vars PROVE TypeOK'
  OBVIOUS
<1> USE DEF historyVars, userVars, haltVars, targetVars, fileioVars
<1>1. CASE CpuRun \/ CpuTrap
  BY <1>1, AfterType DEF CpuRun, CpuTrap, TypeOK
<1>2. CASE Connect \/ CharNothing \/ PollNothing
  <2>1. 1 \in Addresses
    BY GdbServerAssumption DEF Addresses
  <2>2. CASE Connect
    BY <2>1, <2>2 DEF Connect, TypeOK
  <2>3. CASE CharNothing \/ PollNothing
    <3>1. CASE CharNothing
      BY <3>1 DEF CharNothing, TypeOK
    <3>2. CASE PollNothing
      <4>1. core_halted' \in BOOLEAN /\ failed' \in BOOLEAN /\ loop' \in {"connect", "poll", "char"}
        BY <3>2, Zenon DEF PollNothing, TypeOK
      <4>2. QED
        BY <3>2, <4>1 DEF PollNothing, TypeOK
    <3>3. QED
      BY <2>3, <3>1, <3>2
  <2>4. QED
    BY <1>2, <2>2, <2>3
<1>3. CASE PollHalt
  <2>1. tx' = tx \/ \E q \in Replies : Send(q)
    BY <1>3 DEF PollHalt, Semihosting, Replies
  <2>2. tx' \in Seq(Packets)
    BY <2>1, SendType DEF TypeOK
  <2>3. fileio_waiting' \in BOOLEAN /\ opcode' \in {"nop", "write", "read", "other"}
    <3>1. Code[at] \in {"nop", "write", "read", "other"}
      BY GdbServerAssumption DEF TypeOK, Addresses
    <3>2. QED
      BY <1>3, <3>1 DEF PollHalt, Semihosting, TypeOK
  <2>4. stop_reason' \in {"unknown", "breakpoint", "semihosting", "interrupt"}
    BY <1>3 DEF PollHalt, StopReason, TypeOK
  <2>5. QED
    BY <1>3, <2>2, <2>3, <2>4 DEF PollHalt, TypeOK
<1>4. CASE GdbCommand \/ GdbKill \/ GdbInterrupt \/ GdbServe
  <2>1. \E c \in Commands, g \in {"gone", "running", "waiting", "io", "stopped"} : Say(c, g)
    BY <1>4 DEF GdbCommand, GdbKill, GdbInterrupt, GdbServe, Commands
  <2>2. /\ rx' \in Seq(Commands) /\ lost' \in BOOLEAN
        /\ gdb' \in {"gone", "running", "waiting", "io", "stopped"}
    <3>1. PICK c \in Commands, g \in {"gone", "running", "waiting", "io", "stopped"} : Say(c, g)
      BY <2>1
    <3>2. lost' \in BOOLEAN
      <4>1. Arrives(c = "int")
        BY <3>1, Zenon DEF Say
      <4>2. QED
        BY <4>1, Zenon DEF Arrives
    <3>3. QED
      BY <3>1, <3>2 DEF Say, TypeOK
  <2>3. interrupts' \in 0..MaxInterrupts /\ kills' \in 0..MaxKills
    BY <1>4, GdbServerAssumption DEF GdbCommand, GdbKill, GdbInterrupt, GdbServe, TypeOK
  <2>4. QED
    BY <1>4, <2>2, <2>3 DEF GdbCommand, GdbKill, GdbInterrupt, GdbServe, TypeOK
<1>5. CASE GdbReceive
  <2>1. tx' \in Seq(Packets)
    BY <1>5, HeadTailProperties DEF GdbReceive, TypeOK
  <2>2. lost' \in BOOLEAN
    BY <1>5 DEF GdbReceive, Arrives
  <2>3. QED
    BY <1>5, <2>1, <2>2 DEF GdbReceive, TypeOK
<1>6. CASE UNCHANGED vars
  BY <1>6 DEF vars, TypeOK
<1>7. QED
  BY <1>1, <1>2, <1>3, <1>4, <1>5, <1>6, PacketType DEF Next, ServerStep, Poll, GdbStep

\* The server's, the target's and GDB's variables keep to their types.
THEOREM TypeCorrect == Spec => []TypeOK
<1>1. Init => TypeOK
  <2>1. 1 \in Addresses /\ 0 \in 0..MaxInterrupts /\ 0 \in 0..MaxKills
    BY GdbServerAssumption DEF Addresses
  <2>2. <<>> \in Seq(Commands) /\ <<>> \in Seq(Packets) /\ 0 \in Int
    OBVIOUS
  <2>3. QED
    BY <2>1, <2>2, Zenon DEF Init, TypeOK
<1>2. QED
  BY <1>1, TypeStep, PTL DEF Spec

-----------------------------------------------------------------------------
(* What the server knows of the target.                                    *)

LEMMA KnownStep == TypeOK /\ Known /\ [Next]_vars => Known'
<1> SUFFICES ASSUME TypeOK, Known, [Next]_vars, loop' # "connect", ~failed' PROVE Known'
  BY DEF Known
<1> USE DEF Known, TypeOK, historyVars, userVars, haltVars, targetVars, fileioVars, Process, Outcome
<1>1. CASE CpuRun \/ CpuTrap
  BY <1>1 DEF CpuRun, CpuTrap
<1>2. CASE Connect \/ CharNothing \/ PollNothing
  BY <1>2 DEF Connect, CharNothing, PollNothing
<1>3. CASE PollHalt
  BY <1>3 DEF PollHalt
<1>4. CASE ProcessQuery \/ ProcessData
  BY <1>4 DEF ProcessQuery, ProcessData
<1>5. CASE ProcessContinue
  BY <1>5 DEF ProcessContinue, Continue
<1>6. CASE ProcessStep
  BY <1>6 DEF ProcessStep
<1>7. CASE ProcessKill
  BY <1>7 DEF ProcessKill
<1>8. CASE ProcessInterrupt
  BY <1>8 DEF ProcessInterrupt
<1>9. ASSUME NEW p \in {"F", "FC"}, ProcessFileIO(p) PROVE Known'
  BY <1>9 DEF ProcessFileIO, Continue
<1>10. CASE GdbStep
  BY <1>10 DEF GdbStep, GdbCommand, GdbKill, GdbInterrupt, GdbServe, GdbReceive, Say
<1>11. CASE UNCHANGED vars
  BY <1>11 DEF vars
<1>12. QED
  BY <1>1, <1>2, <1>3, <1>4, <1>5, <1>6, <1>7, <1>8, <1>9, <1>10, <1>11
  DEF Next, ServerStep, Poll, ProcessPacket

\* A target that runs is polled, so that its next stop is noticed: the server takes
\* it to be halted only when it is.
THEOREM HaltedCorrect == Spec => []HaltedIsTrue
<1>1. Init => Known
  BY DEF Init, Known
<1>2. Known => HaltedIsTrue
  BY DEF Known, HaltedIsTrue
<1>3. QED
  BY <1>1, <1>2, TypeCorrect, KnownStep, PTL DEF Spec

-----------------------------------------------------------------------------
(* The stages of a session.                                                *)

LEMMA Replied ==
  ASSUME NEW x
  PROVE  /\ <<x>> # <<>> /\ Head(<<x>>) = x /\ Tail(<<x>>) = <<>>
         /\ <<"O", x>> # <<>> /\ Head(<<"O", x>>) = "O" /\ Tail(<<"O", x>>) = <<x>>
         /\ <<>> \o <<x>> = <<x>> /\ <<"O">> \o <<x>> = <<"O", x>>
<1>1. <<x>> # <<>> /\ Head(<<x>>) = x /\ Tail(<<x>>) = <<>>
  OBVIOUS
<1>2. <<"O", x>> # <<>> /\ Head(<<"O", x>>) = "O" /\ Tail(<<"O", x>>) = <<x>>
  OBVIOUS
<1>3. <<>> \o <<x>> = <<x>>
  OBVIOUS
<1>4. <<"O">> \o <<x>> = <<"O", x>>
  <2> DEFINE s == <<"O">> \o <<x>>
  <2>1. s \in Seq({"O", x}) /\ <<"O", x>> \in Seq({"O", x})
    OBVIOUS
  <2>2. Len(s) = 2 /\ s[1] = "O" /\ s[2] = x
    OBVIOUS
  <2> HIDE DEF s
  <2>3. s = <<"O", x>>
    BY <2>1, <2>2, SeqEqual
  <2>4. QED
    BY <2>3 DEF s
<1>5. QED
  BY <1>1, <1>2, <1>3, <1>4

\* The first packet tells the stage, and what is behind it.
FirstPacket ==
  \/ Head(rx) = "int" /\ (halted \/ (Running /\ Ints(Tail(rx))))
  \/ /\ Head(rx) = "?" /\ gdb = "waiting" /\ tx = <<>> /\ Tail(rx) = <<>> /\ performed = 0
  \/ /\ Head(rx) = "data" /\ gdb = "waiting" /\ halted /\ tx = <<>> /\ Tail(rx) = <<>>
     /\ performed = 0
  \/ /\ Head(rx) = "k" /\ tx = <<>> /\ performed = 0
     /\ \/ gdb = "gone" /\ Tail(rx) = <<>>
        \/ gdb = "waiting" /\ Tail(rx) = <<"?">>
  \/ /\ Head(rx) \in {"c", "s"} /\ gdb = "running" /\ halted /\ tx = <<>> /\ Ints(Tail(rx))
     /\ performed = 0
  \/ /\ Head(rx) \in {"F", "FC"} /\ gdb = "running" /\ halted /\ tx = <<>> /\ Ints(Tail(rx))
     /\ performed = 1 /\ opcode \in {"write", "read"}

LEMMA First == ASSUME TypeOK, Stage, loop = "char", rx # <<>> PROVE FirstPacket
<1>1. rx \in Seq(Commands)
  BY DEF TypeOK
<1>2. CASE Gone
  <2>1. halted /\ (Head(rx) = "int" \/ (Head(rx) = "k" /\ Tail(rx) = <<>>))
    BY <1>1, <1>2, TakeFirst DEF Gone
  <2>2. QED
    BY <1>2, <2>1 DEF Gone, FirstPacket
<1>3. CASE Asked
  <2>1. CASE rx = <<"?">>
    BY <1>3, <2>1, Replied DEF Asked, FirstPacket
  <2>2. CASE halted /\ AfterKill
    <3>1. PICK s \in Seq(Commands) : rx = Append(s, "?") /\ Ends(s, {"k"})
      BY <2>2 DEF AfterKill
    <3>2. Head(rx) = "int" \/ (Head(rx) = "k" /\ Tail(rx) = <<"?">>)
      BY <3>1, TakeKill
    <3>3. QED
      BY <1>3, <2>2, <3>2 DEF Asked, FirstPacket
  <2>3. CASE halted /\ Ends(rx, {"data"})
    <3>1. Head(rx) = "int" \/ (Head(rx) = "data" /\ Tail(rx) = <<>>)
      BY <1>1, <2>3, TakeFirst
    <3>2. QED
      BY <1>3, <2>3, <3>1 DEF Asked, FirstPacket
  <2>4. QED
    BY <1>3, <2>1, <2>2, <2>3 DEF Asked
<1>4. CASE Prompt \/ Answered \/ Reported \/ Unreported \/ Requested
  <2>1. halted /\ Head(rx) = "int"
    BY <1>1, <1>4, TakeFirst DEF Prompt, Answered, Reported, Unreported, Requested
  <2>2. QED
    BY <2>1 DEF FirstPacket
<1>5. CASE Running
  BY <1>1, <1>5, TakeFirst DEF Running, FirstPacket
<1>6. CASE Resuming
  <2>1. CASE Among(rx, {"c", "s"}) /\ performed = 0
    <3>1. Head(rx) = "int" \/ (Head(rx) \in {"c", "s"} /\ Ints(Tail(rx)))
      BY <1>1, <2>1, TakeFirst
    <3>2. QED
      BY <1>6, <2>1, <3>1 DEF Resuming, FirstPacket
  <2>2. CASE Among(rx, {"F", "FC"}) /\ performed = 1 /\ opcode \in {"write", "read"}
    <3>1. Head(rx) = "int" \/ (Head(rx) \in {"F", "FC"} /\ Ints(Tail(rx)))
      BY <1>1, <2>2, TakeFirst
    <3>2. QED
      BY <1>6, <2>2, <3>1 DEF Resuming, FirstPacket
  <2>3. QED
    BY <1>6, <2>1, <2>2 DEF Resuming
<1>7. QED
  BY <1>2, <1>3, <1>4, <1>5, <1>6 DEF Stage, Connecting, Unanswered

\* Stages in which nothing GDB has sent waits for the server.
LEMMA Polled ==
  ASSUME TypeOK, Known, Stage, PollHalt, ~astray', ~failed' PROVE Stage'
<1>1. Running /\ loop' # "connect"
  BY DEF PollHalt, Stage, Connecting, Gone, Prompt, Asked, Answered, Unanswered, Resuming,
    Running, Reported, Unreported, Requested
<1>2. gdb' = "running" /\ halted' /\ Ints(rx)' /\ performed' = 0
  BY <1>1 DEF PollHalt, Running, Ints
<1>3. \/ tx' = tx
      \/ Send(<<"F">>) /\ opcode' \in {"write", "read"}
      \/ Send(<<"S05">>) \/ Send(<<"S02">>)
  BY DEF PollHalt, Semihosting
<1>4. CASE tx' = tx
  BY <1>1, <1>2, <1>4 DEF Stage, Unreported, Running
<1>5. ASSUME NEW x \in {"S02", "S05", "F"}, Send(<<x>>), x = "F" => opcode' \in {"write", "read"}
      PROVE  Reported'
  <2>1. tx' = <<x>> \/ tx' = <<"O", x>>
    BY <1>1, <1>5, Replied DEF Running, Info, Send
  <2>2. QED
    BY <1>2, <1>5, <2>1 DEF Reported
<1>6. QED
  BY <1>1, <1>3, <1>4, <1>5 DEF Stage

\* Continuing a halted program, on behalf of a command that was the only one.
LEMMA Continued ==
  ASSUME TypeOK, Known, NEW p, Continue(p), gdb = "running", gdb' = gdb, halted, tx = <<>>,
         Ints(rx'), loop = "char", loop' = "poll", performed' = 0, ~failed'
  PROVE  Stage'
<1>1. ~failed /\ core_halted
  BY DEF Known, Continue
<1>2. ~halted' /\ (Send(<<>>) \/ Send(<<"O">>))
  BY <1>1 DEF Continue, TypeOK
<1>3. <<>> \o <<>> = <<>>
  OBVIOUS
<1>4. tx' \in Info
  BY <1>2, <1>3, Replied DEF Send, Info
<1>5. Running'
  BY <1>2, <1>4 DEF Running, Ints
<1>6. QED
  BY <1>5 DEF Stage

LEMMA Processed ==
  ASSUME TypeOK, Known, Stage, ProcessPacket, ~astray', ~failed'
  PROVE  Stage'
<1> USE DEF historyVars, haltVars, targetVars, fileioVars
<1>1. loop = "char" /\ rx # <<>> /\ rx' = Tail(rx) /\ loop' = "poll" /\ gdb' = gdb
  BY DEF ProcessPacket, ProcessQuery, ProcessData, ProcessContinue, ProcessStep, ProcessKill,
    ProcessInterrupt, ProcessFileIO, Process
<1>2. FirstPacket
  BY <1>1, First
<1>3. CASE ProcessQuery
  <2>1. gdb = "waiting" /\ tx = <<>> /\ rx' = <<>> /\ performed = 0
    BY <1>1, <1>2, <1>3 DEF FirstPacket, ProcessQuery, Process
  <2>2. CASE halted
    <3>1. tx' = <<"S02">>
      BY <1>3, <2>1, <2>2, Replied DEF ProcessQuery, Send
    <3>2. Ints(<<>>)
      BY DEF Ints
    <3>3. Answered'
      BY <1>1, <1>3, <2>1, <2>2, <3>1, <3>2 DEF ProcessQuery, Answered, Ints
    <3>4. QED
      BY <1>1, <3>3 DEF Stage
  <2>3. CASE ~halted
    <3>1. tx' = <<>>
      BY <1>3, <2>1, <2>3 DEF ProcessQuery, Send
    <3>2. Unanswered'
      BY <1>1, <1>3, <2>1, <2>3, <3>1 DEF ProcessQuery, Unanswered
    <3>3. QED
      BY <1>1, <3>2 DEF Stage
  <2>4. QED
    BY <2>2, <2>3
<1>4. CASE ProcessData
  <2>1. gdb = "waiting" /\ halted /\ tx = <<>> /\ rx' = <<>> /\ performed = 0
    BY <1>1, <1>2, <1>4 DEF FirstPacket, ProcessData, Process
  <2>2. tx' = <<"OK">> \/ tx' = <<"E00">>
    BY <1>4, <2>1, Replied DEF ProcessData, Send
  <2>3. Ints(<<>>)
    BY DEF Ints
  <2>4. Answered'
    BY <1>1, <1>4, <2>1, <2>2, <2>3 DEF ProcessData, Answered, Ints
  <2>5. QED
    BY <1>1, <2>4 DEF Stage
<1>5. CASE ProcessContinue
  <2>1. gdb = "running" /\ halted /\ tx = <<>> /\ Ints(rx') /\ performed = 0
    BY <1>1, <1>2, <1>5 DEF FirstPacket, ProcessContinue, Process, Ints
  <2>2. performed' = 0 /\ Continue(at)
    BY <1>5, <2>1 DEF ProcessContinue
  <2>3. QED
    BY <1>1, <2>1, <2>2, Continued
<1>6. CASE ProcessStep
  <2>1. gdb = "running" /\ halted /\ tx = <<>> /\ Ints(rx)' /\ performed = 0
    BY <1>1, <1>2, <1>6 DEF FirstPacket, ProcessStep, Process, Ints
  <2>2. tx' = <<"S05">> /\ halted' /\ performed' = 0
    BY <1>6, <2>1, Replied DEF ProcessStep, Send
  <2>3. Reported'
    BY <1>1, <2>1, <2>2 DEF Reported
  <2>4. QED
    BY <1>1, <2>3 DEF Stage
<1>7. CASE ProcessKill
  <2>1. /\ tx = <<>> /\ performed = 0 /\ ~halted' /\ tx' = tx /\ performed' = performed
        /\ (gdb = "gone" /\ rx' = <<>>) \/ (gdb = "waiting" /\ rx' = <<"?">>)
    BY <1>1, <1>2, <1>7 DEF FirstPacket, ProcessKill, Process
  <2>2. Gone' \/ Asked'
    BY <1>1, <2>1 DEF Gone, Asked
  <2>3. QED
    BY <1>1, <2>2 DEF Stage
<1>8. CASE ProcessInterrupt
  <2>1. ~halted
    BY <1>8 DEF ProcessInterrupt, TypeOK
  <2>2. Running /\ Ints(rx)'
    BY <1>1, <1>2, <1>8, <2>1 DEF FirstPacket, ProcessInterrupt, Process, Ints
  <2>3. halted' /\ Send(<<"S02">>) /\ performed' = performed
    BY <1>8 DEF ProcessInterrupt, Outcome
  <2>4. tx' = <<"S02">> \/ tx' = <<"O", "S02">>
    BY <2>2, <2>3, Replied DEF Running, Info, Send
  <2>5. Reported'
    BY <1>1, <2>2, <2>3, <2>4 DEF Running, Reported
  <2>6. QED
    BY <1>1, <2>5 DEF Stage
<1>9. ASSUME NEW p \in {"F", "FC"}, ProcessFileIO(p) PROVE Stage'
  <2>1. /\ gdb = "running" /\ halted /\ tx = <<>> /\ Ints(rx') /\ performed = 1
        /\ opcode \in {"write", "read"}
    BY <1>1, <1>2, <1>9 DEF FirstPacket, ProcessFileIO, Process, Ints
  <2>2. core_halted /\ ~failed
    BY <1>1, <1>9, <2>1 DEF Known, ProcessFileIO, Continue, Process
  <2>3. performed' = 0
    <3>1. performed' = performed - 1
      BY <1>9, <2>1, <2>2, Zenon DEF ProcessFileIO
    <3>2. QED
      BY <2>1, <3>1
  <2>4. CASE p = "F"
    BY <1>1, <1>9, <2>1, <2>2, <2>3, <2>4, Continued DEF ProcessFileIO
  <2>5. CASE p = "FC"
    <3>1. Send(<<"S02">>) /\ halted' = halted
      BY <1>9, <2>1, <2>2, <2>5 DEF ProcessFileIO
    <3>2. tx' = <<"S02">>
      BY <2>1, <3>1, Replied DEF Send
    <3>3. Reported'
      BY <1>1, <2>1, <2>3, <3>1, <3>2 DEF Reported, Ints
    <3>4. QED
      BY <1>1, <3>3 DEF Stage
  <2>6. QED
    BY <2>4, <2>5
<1>10. QED
  BY <1>3, <1>4, <1>5, <1>6, <1>7, <1>8, <1>9 DEF ProcessPacket

LEMMA Said ==
  ASSUME TypeOK, Stage, GdbCommand \/ GdbKill \/ GdbInterrupt \/ GdbServe
  PROVE  Stage'
<1> USE DEF historyVars, haltVars, targetVars, fileioVars, userVars
<1>1. rx \in Seq(Commands) /\ UNCHANGED <<loop, halted, opcode, tx>>
  BY DEF TypeOK, GdbCommand, GdbKill, GdbInterrupt, GdbServe
<1>2. CASE gdb = "gone" /\ Say("?", "waiting") /\ performed' = performed
  <2>1. tx = <<>> /\ performed = 0
    BY <1>2 DEF Stage, Connecting, Gone, Prompt, Asked, Answered, Unanswered, Resuming, Running,
      Reported, Unreported, Requested
  <2>2. CASE rx = <<>>
    <3>1. rx' = <<"?">>
      BY <1>2, <2>2 DEF Say
    <3>2. QED
      BY <1>1, <1>2, <2>1, <3>1 DEF Stage, Connecting, Gone, Prompt, Asked, Answered, Unanswered,
        Resuming, Running, Reported, Unreported, Requested, Say
  <2>3. CASE rx # <<>>
    <3>1. Gone /\ halted /\ Ends(rx, {"k"}) /\ loop # "connect"
      BY <1>2, <2>3 DEF Stage, Connecting, Gone, Prompt, Asked, Answered, Unanswered, Resuming,
        Running, Reported, Unreported, Requested
    <3>2. AfterKill'
      BY <1>1, <1>2, <3>1 DEF AfterKill, Say
    <3>3. QED
      BY <1>1, <1>2, <2>1, <3>1, <3>2 DEF Stage, Asked, Say
  <2>4. QED
    BY <2>2, <2>3
<1>3. CASE gdb = "stopped" /\ performed' = performed
  <2>1. Prompt /\ loop # "connect"
    BY <1>3 DEF Stage, Connecting, Gone, Prompt, Asked, Answered, Unanswered, Resuming, Running,
      Reported, Unreported, Requested
  <2>2. CASE Say("data", "waiting")
    <3>1. Ends(rx, {"data"})'
      BY <1>1, <2>1, <2>2, AddLast DEF Prompt, Say, Commands
    <3>2. QED
      BY <1>1, <1>3, <2>1, <2>2, <3>1 DEF Stage, Prompt, Asked, Say
  <2>3. CASE Say("k", "gone")
    <3>1. Ends(rx, {"k"})'
      BY <1>1, <2>1, <2>3, AddLast DEF Prompt, Say, Commands
    <3>2. QED
      BY <1>1, <1>3, <2>1, <2>3, <3>1 DEF Stage, Prompt, Gone, Say
  <2>4. CASE Say("s", "running") \/ Say("c", "running")
    <3>1. Among(rx, {"c", "s"})'
      BY <1>1, <2>1, <2>4, AddLast DEF Prompt, Say, Commands
    <3>2. QED
      BY <1>1, <1>3, <2>1, <2>4, <3>1 DEF Stage, Prompt, Resuming, Say
  <2>5. QED
    BY <1>3, <2>2, <2>3, <2>4 DEF GdbCommand, GdbKill, GdbInterrupt, GdbServe
<1>4. CASE GdbInterrupt
  <2>1. rx' = Append(rx, "int") /\ gdb = "running" /\ gdb' = gdb /\ performed' = performed
    BY <1>4 DEF GdbInterrupt, Say
  <2>2. loop # "connect" /\ (Resuming \/ Running \/ Reported \/ Unreported)
    BY <2>1 DEF Stage, Connecting, Gone, Prompt, Asked, Answered, Unanswered, Requested
  <2>3. CASE Resuming
    <3>1. \A C : Among(rx, C) => Among(rx', C)
      BY <1>1, <2>1, AddInt
    <3>2. QED
      BY <1>1, <2>1, <2>2, <2>3, <3>1 DEF Stage, Resuming
  <2>4. CASE Running \/ Reported \/ Unreported
    <3>1. Ints(rx)'
      BY <1>1, <2>1, <2>4, AddLast DEF Running, Reported, Unreported, Commands
    <3>2. QED
      BY <1>1, <2>1, <2>2, <2>4, <3>1 DEF Stage, Running, Reported, Unreported
  <2>5. QED
    BY <2>2, <2>3, <2>4
<1>5. CASE GdbServe
  <2>1. Requested /\ loop # "connect"
    BY <1>5 DEF GdbServe, Stage, Connecting, Gone, Prompt, Asked, Answered, Unanswered, Resuming,
      Running, Reported, Unreported, Requested
  <2>2. Say("F", "running") \/ Say("FC", "running")
    BY <1>5 DEF GdbServe
  <2>3. Among(rx, {"F", "FC"})'
    BY <1>1, <2>1, <2>2, AddLast DEF Requested, Say, Commands
  <2>4. performed' = 1
    BY <1>5, <2>1 DEF GdbServe, Requested
  <2>5. QED
    BY <1>1, <2>1, <2>2, <2>3, <2>4 DEF Stage, Requested, Resuming, Say
<1>6. QED
  BY <1>2, <1>3, <1>4, <1>5 DEF GdbCommand, GdbKill

LEMMA Heard ==
  ASSUME TypeOK, Stage, GdbReceive PROVE Stage'
<1> USE DEF historyVars, haltVars, targetVars, fileioVars, userVars
<1>1. /\ UNCHANGED <<loop, halted, opcode, rx, performed>> /\ tx # <<>> /\ tx' = Tail(tx)
      /\ Ints(rx)' = Ints(rx)
  BY DEF GdbReceive, Ints
<1>2. loop # "connect" /\ (Answered \/ Running \/ Reported \/ Unreported)
  BY DEF GdbReceive, Stage, Connecting, Gone, Prompt, Asked, Unanswered, Resuming, Requested
<1>3. CASE Answered
  <2>1. tx' = <<>> /\ gdb' = "stopped"
    BY <1>1, <1>3, Replied DEF Answered, GdbReceive
  <2>2. QED
    BY <1>1, <1>2, <1>3, <2>1 DEF Answered, Prompt, Stage
<1>4. CASE Running \/ Unreported
  <2>1. tx = <<"O">>
    BY <1>1, <1>4 DEF Running, Unreported, Info
  <2>2. tx' = <<>> /\ gdb' = "running"
    BY <1>1, <1>4, <2>1, Replied DEF Running, Unreported, GdbReceive
  <2>3. QED
    BY <1>1, <1>2, <1>4, <2>2 DEF Running, Unreported, Info, Stage
<1>5. CASE Reported
  <2>1. PICK x \in {"S02", "S05", "F"} :
          (tx = <<x>> \/ tx = <<"O", x>>) /\ (x = "F" => opcode \in {"write", "read"})
    BY <1>5 DEF Reported
  <2>2. CASE tx = <<"O", x>>
    <3>1. tx' = <<x>> /\ gdb' = "running"
      BY <1>1, <1>5, <2>2, Replied DEF Reported, GdbReceive
    <3>2. QED
      BY <1>1, <1>2, <1>5, <2>1, <3>1 DEF Reported, Stage
  <2>3. CASE tx = <<x>>
    <3>1. tx' = <<>> /\ gdb' = IF x = "F" THEN "io" ELSE "stopped"
      BY <1>1, <1>5, <2>3, Replied DEF Reported, GdbReceive
    <3>2. QED
      BY <1>1, <1>2, <1>5, <2>1, <3>1 DEF Reported, Prompt, Requested, Stage
  <2>4. QED
    BY <2>1, <2>2, <2>3
<1>6. QED
  BY <1>2, <1>3, <1>4, <1>5

LEMMA SessionStep == TypeOK /\ Known /\ Session /\ [Next]_vars => Session'
<1> SUFFICES ASSUME TypeOK, Known, Session, [Next]_vars, ~astray', ~failed' PROVE Stage'
  BY DEF Session
<1> USE DEF historyVars, haltVars, targetVars, fileioVars, userVars
<1>1. ~astray /\ ~failed
  BY DEF TypeOK, Next, ServerStep, Poll, ProcessPacket, GdbStep, CpuRun, CpuTrap, Connect,
    PollNothing, PollHalt, CharNothing, ProcessQuery, ProcessData, ProcessContinue, Continue,
    ProcessStep, ProcessKill, ProcessInterrupt, ProcessFileIO, GdbCommand, GdbKill,
    GdbInterrupt, GdbServe, GdbReceive, vars
<1>2. Stage
  BY <1>1 DEF Session
<1>3. CASE CpuRun \/ CpuTrap \/ PollNothing \/ CharNothing \/ UNCHANGED vars
  <2>1. /\ UNCHANGED <<halted, tx, rx, gdb, performed, opcode>>
        /\ loop' = "connect" <=> loop = "connect"
    BY <1>3 DEF CpuRun, CpuTrap, PollNothing, CharNothing, vars
  <2>2. QED
    BY <1>2, <2>1 DEF Stage, Connecting, Gone, Prompt, Asked, Answered, Unanswered, Resuming,
      Running, Reported, Unreported, Requested, Ints, AfterKill
<1>4. CASE Connect
  <2>1. Connecting
    BY <1>2, <1>4 DEF Connect, Stage
  <2>2. QED
    BY <1>4, <2>1 DEF Connect, Connecting, Stage, Gone, Asked
<1>5. QED
  BY <1>2, <1>3, <1>4, Polled, Processed, Said, Heard
  DEF Next, ServerStep, Poll, GdbStep

\* As long as no access fails and nothing reaches GDB that it did not wait for: the
\* session is in one of its stages, as GDB, the server and the target see it.
LEMMA Invariance == Spec => []IInv
<1>1. Init => Known /\ Session
  BY DEF Init, Known, Session, Stage, Connecting
<1>2. QED
  BY <1>1, TypeCorrect, KnownStep, SessionStep, PTL DEF Spec, IInv

\* When GDB has its prompt the program has stopped, the server and its driver know it,
\* and no answer is left that GDB would take for that to its next command.
THEOREM StoppedCorrect == Spec => []StoppedMeansHalted
<1>1. IInv => StoppedMeansHalted
  <2> SUFFICES ASSUME IInv, gdb = "stopped", ~astray, ~failed
               PROVE  cpu = "halted" /\ halted /\ core_halted /\ tx = <<>>
    BY DEF StoppedMeansHalted
  <2>1. Prompt /\ loop # "connect"
    BY DEF IInv, Session, Stage, Connecting, Gone, Prompt, Asked, Answered, Unanswered,
      Resuming, Running, Reported, Unreported, Requested
  <2>2. QED
    BY <2>1 DEF IInv, Known, Prompt
<1>2. QED
  BY <1>1, Invariance, PTL

\* The answers to console requests that the server has not taken yet.
Answers(s) == {i \in 1..Len(s) : s[i] \in {"F", "FC"}}

LEMMA NoAnswer ==
  ASSUME NEW s \in Seq(Commands), \A i \in 1..Len(s) : s[i] \notin {"F", "FC"}
  PROVE  Cardinality(Answers(s)) = 0
<1>1. Answers(s) = {}
  BY DEF Answers
<1>2. QED
  BY <1>1, FS_EmptySet

LEMMA OneAnswer ==
  ASSUME NEW s \in Seq(Commands), Among(s, {"F", "FC"})
  PROVE  Cardinality(Answers(s)) = 1
<1>1. PICK i \in 1..Len(s) : s[i] \in {"F", "FC"} /\ \A j \in 1..Len(s) : j # i => s[j] = "int"
  BY DEF Among
<1>2. Answers(s) = {i}
  BY <1>1 DEF Answers
<1>3. QED
  BY <1>2, FS_Singleton

\* The program gets past a console request once for each time GDB served it.
THEOREM ConsoleCorrect == Spec => []ConsoleOnce
<1>1. IInv => ConsoleOnce
  <2> SUFFICES ASSUME IInv, ~astray, ~failed PROVE performed = Cardinality(Answers(rx))
    BY DEF ConsoleOnce, Answers
  <2>1. Stage /\ rx \in Seq(Commands)
    BY DEF IInv, Session, TypeOK
  <2>2. CASE Resuming /\ performed = 1
    BY <2>1, <2>2, OneAnswer DEF Resuming
  <2>3. CASE ~(Resuming /\ performed = 1)
    <3>1. performed = 0
      BY <2>1, <2>3 DEF Stage, Connecting, Gone, Prompt, Asked, Answered, Unanswered, Resuming,
        Running, Reported, Unreported, Requested
    <3>2. \A i \in 1..Len(rx) : rx[i] \notin {"F", "FC"}
      <4>1. CASE rx = <<>> \/ rx = <<"?">>
        BY <4>1
      <4>2. CASE Ints(rx)
        BY <4>2 DEF Ints
      <4>3. CASE Ends(rx, {"k"}) \/ Ends(rx, {"data"})
        BY <2>1, <4>3 DEF Ends
      <4>4. CASE AfterKill
        <5>1. PICK s \in Seq(Commands) : rx = Append(s, "?") /\ Ends(s, {"k"})
          BY <4>4 DEF AfterKill
        <5>2. /\ Len(s) \in Nat /\ Len(rx) = Len(s) + 1 /\ rx[Len(s) + 1] = "?"
              /\ \A i \in 1..Len(s) : rx[i] = s[i]
          BY <5>1
        <5>3. QED
          BY <5>1, <5>2 DEF Ends
      <4>5. CASE Among(rx, {"c", "s"})
        BY <4>5 DEF Among
      <4>6. QED
        BY <2>1, <2>3, <3>1, <4>1, <4>2, <4>3, <4>4, <4>5
        DEF Stage, Connecting, Gone, Prompt, Asked, Answered, Unanswered, Resuming, Running,
          Reported, Unreported, Requested
    <3>3. QED
      BY <2>1, <3>1, <3>2, NoAnswer
  <2>4. QED
    BY <2>2, <2>3
<1>2. QED
  BY <1>1, Invariance, PTL
=============================================================================
