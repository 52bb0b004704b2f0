----------------------------- MODULE GdbPacket -----------------------------
(***************************************************************************)
(* The packet layer below GdbServer (gdbserver/gdbserver.c: the receiving  *)
(* automaton, acknowledgements, retransmission), character by character    *)
(* where framing is concerned.  Packets of GDB are numbered; the payload   *)
(* is one character, followed in a binary packet by a raw 0x03.  The       *)
(* network is TCP: in order, nothing corrupted; but a client may go at any *)
(* time and leave what had arrived.  The processor is reduced to whether   *)
(* it is stopped.                                                          *)
(***************************************************************************)
EXTENDS Naturals, Sequences, SequencesExt

CONSTANTS
  MaxLen,        \* GDBSERVER_MAX_PACKET_LEN_RX
  MaxTries,      \* how often GDB repeats a packet that is not acknowledged
  MaxClients,    \* bound: clients that connect one after another
  MaxCommands,   \* bound: packets the clients think of, besides each one's first
  MaxTimeouts,   \* bound: answers that take GDB too long
  MaxSlow,       \* bound: acknowledgements that take GDB too long
  MaxInterrupts  \* bound: how often the user presses Ctrl-C

ASSUME GdbPacketAssumption ==
  /\ {MaxLen, MaxTries, MaxClients, MaxCommands, MaxTimeouts, MaxSlow, MaxInterrupts} \subseteq Nat
  /\ MaxLen > 2

VARIABLES
  loop,           \* the task's loop: "poll" or "char"
  packet_phase, awaiting_ack,
  tx_packet,      \* the command whose answer tx_packet holds
  cur_packet,     \* the characters before cur_packet_index
  cur_checksum,   \* the characters it is the sum of
  digits,         \* cur_checksum_chars, as far as received
  halted,         \* gdbserver_state.halted
  stopped,        \* the processor is
  rx, tx,         \* what is on its way from and to the client
  token,          \* the semaphore rx_buf_empty of its socket can be taken
  gdb,            \* "gone", "idle", "acking", "reading", "running" or "failed"
  cmd, tries,     \* its command, and how often it repeated it
  sent,           \* packets the clients thought of
  clients, timeouts, slow, interrupts,
  ran,            \* history: the commands executed, in order
  clean,          \* history: this client found nothing of another's, and was never too hasty
  wrong           \* history: it took something for the answer to its command that is not

phaseVars == <<packet_phase, cur_packet, cur_checksum, digits>>
sendVars  == <<tx_packet, awaiting_ack>>
cpuVars   == <<halted, stopped>>
boundVars == <<sent, clients, timeouts, slow, interrupts>>
gdbVars   == <<gdb, cmd, tries, clean, wrong>>
serverVars == <<loop, phaseVars, sendVars, halted, ran>>
vars == <<serverVars, stopped, rx, token, tx, gdbVars, boundVars>>

Kinds == {"query", "m", "X", "c"}
Command(n, kind) == [n |-> n, kind |-> kind]
None == Command(0, "none")
Char(is, of) == [is |-> is, of |-> of]
Plain(is) == Char(is, None)

\* The payload of a packet, and the packet.
Data(c) == <<Char("data", c)>> \o IF c.kind = "X" THEN <<Char("^C", c)>> ELSE <<>>
Packet(c) == <<Char("$", c)>> \o Data(c) \o <<Char("#", c), Char("sum", c), Char("sum", c)>>

Init ==
  /\ loop = "poll" /\ packet_phase = "NONE" /\ awaiting_ack = FALSE /\ tx_packet = None
  /\ cur_packet = <<>> /\ cur_checksum = <<>> /\ digits = <<>>
  /\ halted = TRUE /\ stopped = TRUE /\ rx = <<>> /\ token = FALSE /\ tx = <<>>
  /\ gdb = "gone" /\ cmd = None /\ tries = 0
  /\ sent = 0 /\ clients = 0 /\ timeouts = 0 /\ slow = 0 /\ interrupts = 0
  /\ ran = <<>> /\ clean = TRUE /\ wrong = FALSE

-----------------------------------------------------------------------------
(* The server's task.                                                      *)

\* gdbserver_TransmitPacket: the last of these characters and packets is a packet.
Transmit(s) == tx' = tx \o s /\ awaiting_ack' = TRUE

\* gdbserver_pollTarget: a halt is reported.
PollTarget ==
  /\ loop = "poll" /\ packet_phase = "NONE" /\ loop' = "char"
  /\ IF ~halted /\ stopped
       THEN halted' = TRUE /\ Transmit(<<Plain("stop")>>)
       ELSE UNCHANGED <<halted, tx, awaiting_ack>>
  /\ UNCHANGED <<phaseVars, tx_packet, stopped, rx, token, gdbVars, boundVars, ran>>

NoChar ==
  /\ loop = "char" /\ rx = <<>> /\ loop' = "poll"
  /\ UNCHANGED <<phaseVars, sendVars, cpuVars, rx, token, tx, gdbVars, boundVars, ran>>

\* It is in gdb_helpers_GetChar without the semaphore; with characters in the ring
\* when the receive that brought the last of them took it (serialsock.c:401).
Waits == ~token /\ (packet_phase # "NONE" \/ (loop = "char" /\ rx # <<>>))
TokenLost == Waits /\ rx # <<>>

\* gdb_helpers_GetChar: take a character if it is one of chars, and give the semaphore
\* back while there are more; the task stays with the connection until the phase is
\* PACKET_NONE again.
GetChar(chars) ==
  /\ loop = "char" \/ packet_phase # "NONE"
  /\ rx # <<>> /\ token /\ Head(rx).is \in chars
  /\ rx' = Tail(rx) /\ token' = (rx' # <<>>)
  /\ loop' = "poll"
  /\ UNCHANGED <<gdbVars, boundVars>>

ResetError ==
  /\ packet_phase' = "NONE" /\ cur_packet' = <<>> /\ digits' = <<>> /\ awaiting_ack' = FALSE
  /\ UNCHANGED cur_checksum

Silently == UNCHANGED <<tx_packet, cpuVars, tx, ran>>

\* Slip: a '$' among the data is passed over.
DataOpenIgnored ==
  /\ packet_phase = "DATA" /\ GetChar({"$"})
  /\ UNCHANGED <<phaseVars, awaiting_ack>> /\ Silently

DataOpen ==
  /\ packet_phase = "DATA" /\ GetChar({"$"})
  /\ ResetError /\ Silently

DataEnd ==
  /\ packet_phase = "DATA" /\ GetChar({"#"})
  /\ packet_phase' = "CHECKSUM" /\ digits' = <<>>
  /\ UNCHANGED <<cur_packet, cur_checksum, awaiting_ack>> /\ Silently

\* Any other character is data, also '+', '-' and Ctrl-C.
DataChar ==
  /\ packet_phase = "DATA" /\ GetChar({"data", "sum", "+", "-", "^C"})
  /\ IF Len(cur_packet) >= MaxLen - 1
       THEN ResetError
       ELSE /\ cur_packet' = Append(cur_packet, Head(rx))
            /\ cur_checksum' = Append(cur_checksum, Head(rx))
            /\ UNCHANGED <<packet_phase, digits, awaiting_ack>>
  /\ Silently

\* '-': transmit tx_packet, whatever was transmitted last.
Nack ==
  /\ packet_phase # "DATA" /\ GetChar({"-"})
  /\ IF awaiting_ack THEN Transmit(<<Char("reply", tx_packet)>>)
                     ELSE UNCHANGED <<tx, awaiting_ack>>
  /\ UNCHANGED <<phaseVars, tx_packet, cpuVars, ran>>

Ack ==
  /\ packet_phase # "DATA" /\ GetChar({"+"})
  /\ awaiting_ack' = FALSE
  /\ UNCHANGED phaseVars /\ Silently

\* Slip: the data goes on from what there was.
OpenKeepsPacket ==
  /\ packet_phase # "DATA" /\ GetChar({"$"})
  /\ IF packet_phase = "CHECKSUM" THEN ResetError
     ELSE /\ packet_phase' = "DATA" /\ cur_checksum' = <<>>
          /\ UNCHANGED <<digits, awaiting_ack, cur_packet>>
  /\ Silently

\* Slip: the checksum goes on from what there was.
OpenKeepsChecksum ==
  /\ packet_phase # "DATA" /\ GetChar({"$"})
  /\ IF packet_phase = "CHECKSUM" THEN ResetError
     ELSE /\ packet_phase' = "DATA" /\ cur_packet' = <<>>
          /\ UNCHANGED <<digits, awaiting_ack, cur_checksum>>
  /\ Silently

Open ==
  /\ packet_phase # "DATA" /\ GetChar({"$"})
  /\ IF packet_phase = "CHECKSUM" THEN ResetError
     ELSE /\ packet_phase' = "DATA" /\ cur_packet' = <<>> /\ cur_checksum' = <<>>
          /\ UNCHANGED <<digits, awaiting_ack>>
  /\ Silently

\* Ctrl-C, gdbserver_Interrupt; the target interface is taken to work.
Interrupt ==
  /\ packet_phase # "DATA" /\ GetChar({"^C"})
  /\ halted' = TRUE /\ stopped' = TRUE
  /\ Transmit(<<Plain("stop")>>)
  /\ UNCHANGED <<phaseVars, tx_packet, ran>>

Junk ==
  /\ packet_phase = "NONE" /\ GetChar({"data", "#", "sum"})
  /\ UNCHANGED <<phaseVars, awaiting_ack>> /\ Silently

\* The checksum's first digit; any other character is an error.
FirstDigit ==
  /\ packet_phase = "CHECKSUM" /\ digits = <<>> /\ GetChar({"data", "#", "sum"})
  /\ IF Head(rx).is = "sum"
       THEN /\ digits' = <<Head(rx)>>
            /\ UNCHANGED <<packet_phase, cur_packet, cur_checksum, awaiting_ack>>
       ELSE ResetError
  /\ Silently

\* Slip: packets are executed without a word.
AckedNot(s) == s
\* Slip: the acknowledgement follows the answer.
AckedLast(s) == s \o <<Plain("+")>>
Acked(s) == <<Plain("+")>> \o s

\* gdbserver_processPacket, acknowledgement first: 'm' and 'g' leave the answer in
\* tx_packet, 'c' answers with a stop later, the others are answered from literals.
Execute(c) ==
  CASE c.kind = "m" ->
         tx_packet' = c /\ Transmit(Acked(<<Char("reply", c)>>)) /\ UNCHANGED cpuVars
    [] c.kind = "c" ->
         /\ tx' = tx \o Acked(<<>>)
         /\ halted' = FALSE /\ stopped' = (stopped /\ ~halted)
         /\ UNCHANGED <<tx_packet, awaiting_ack>>
    [] OTHER ->
         Transmit(Acked(<<Char("reply", c)>>)) /\ UNCHANGED <<tx_packet, cpuVars>>

\* Slip: the phase is left as it is until the next packet.
LastDigitKeepsPhase ==
  /\ packet_phase = "CHECKSUM" /\ digits # <<>> /\ GetChar({"data", "#", "sum"})
  /\ packet_phase' = "CHECKSUM" /\ digits' = <<>> /\ UNCHANGED <<cur_packet, cur_checksum>>
  /\ Execute(cur_packet[1].of) /\ ran' = Append(ran, cur_packet[1].of.n)

\* The second digit: the packet is refused or executed.
LastDigit ==
  /\ packet_phase = "CHECKSUM" /\ digits # <<>> /\ GetChar({"data", "#", "sum"})
  /\ IF Head(rx).is = "sum" /\ \A d \in {digits[1], Head(rx)} : cur_checksum = Data(d.of)
       THEN /\ packet_phase' = "NONE" /\ digits' = <<>> /\ UNCHANGED <<cur_packet, cur_checksum>>
            /\ Execute(cur_packet[1].of) /\ ran' = Append(ran, cur_packet[1].of.n)
       ELSE /\ ResetError /\ UNCHANGED <<tx_packet, cpuVars, ran>>
            /\ tx' = IF Head(rx).is = "sum" THEN Append(tx, Plain("-")) ELSE tx

ProcessChar ==
  \/ DataOpen \/ DataEnd \/ DataChar \/ Nack \/ Ack \/ Open \/ Interrupt \/ Junk
  \/ FirstDigit \/ LastDigit

ServerStep == PollTarget \/ NoChar \/ ProcessChar

\* The processor comes to a breakpoint.
TargetStop ==
  /\ ~stopped /\ stopped' = TRUE
  /\ UNCHANGED <<serverVars, rx, token, tx, gdbVars, boundVars>>

-----------------------------------------------------------------------------
(* GDB, external.  It repeats a packet that is refused or not acknowledged *)
(* in time, and drops a packet that comes instead; waiting for an answer   *)
(* it passes over anything else, and asks for the answer again when it     *)
(* takes long; waiting for the program to stop it waits for ever.          *)

Keep == UNCHANGED <<serverVars, stopped>>
\* What GDB says arrives.  A receive gives the semaphore, or takes it when it finds it
\* given: in several receives, or after something unread, it may leave it either way.
Says(chars) ==
  /\ rx' = rx \o chars /\ token' \in BOOLEAN
  /\ (Len(chars) = 1 /\ (Waits \/ rx = <<>>)) => token'

\* A new client acknowledges whatever came before it.
GdbConnect ==
  /\ gdb = "gone" /\ clients < MaxClients
  /\ gdb' = "idle" /\ clients' = clients + 1
  /\ clean' = (rx = <<>> /\ tx = <<>> /\ packet_phase = "NONE")
  /\ Says(<<Plain("+")>>)
  /\ Keep /\ UNCHANGED <<tx, cmd, tries, wrong, sent, timeouts, slow, interrupts>>

\* It leaves: what has not arrived never does, what has not been sent stays.  The
\* last client stays, which is a bound.
GdbLeave ==
  /\ gdb # "gone" /\ clients < MaxClients
  /\ gdb' = "gone" /\ cmd' = None /\ tries' = 0 /\ clean' = TRUE /\ wrong' = FALSE
  /\ rx' \in Prefixes(rx) /\ tx' \in Suffixes(tx)
  /\ token' \in BOOLEAN /\ (rx' = <<>> => ~token')
  /\ Keep /\ UNCHANGED boundVars

\* Its first packet is a query, to which any answer will do.
GdbCommand ==
  /\ gdb = "idle" /\ (cmd = None \/ sent < clients + MaxCommands)
  /\ \E kind \in IF cmd = None THEN {"query"} ELSE {"m", "X", "c"} :
       cmd' = Command(sent + 1, kind) /\ Says(Packet(cmd'))
  /\ gdb' = "acking" /\ tries' = 0 /\ sent' = sent + 1
  /\ Keep /\ UNCHANGED <<tx, clean, wrong, clients, timeouts, slow, interrupts>>

\* Once more, or never more.
Repeat ==
  IF tries < MaxTries
    THEN gdb' = gdb /\ tries' = tries + 1 /\ Says(Packet(cmd))
    ELSE gdb' = "failed" /\ UNCHANGED <<tries, rx, token>>

\* What it is waiting for comes, is refused, or something else comes first.
GdbReadAck ==
  /\ gdb = "acking" /\ tx # <<>> /\ tx' = Tail(tx)
  /\ CASE Head(tx).is = "+" ->
            /\ gdb' = IF cmd.kind = "c" THEN "running" ELSE "reading"
            /\ tries' = 0 /\ UNCHANGED <<rx, token>>
       [] Head(tx).is = "-" -> Repeat
       [] OTHER -> Says(<<Plain("+")>>) /\ UNCHANGED <<gdb, tries>>
  /\ Keep /\ UNCHANGED <<cmd, clean, wrong, boundVars>>

\* Nothing comes, because there is nothing on its way; or it is too slow.
GdbAckTimeout ==
  /\ gdb = "acking" /\ tx = <<>> /\ rx = <<>>
  /\ Repeat
  /\ Keep /\ UNCHANGED <<tx, cmd, clean, wrong, boundVars>>

GdbAckSlow ==
  /\ gdb = "acking" /\ rx # <<>> /\ slow < MaxSlow
  /\ Repeat /\ slow' = slow + 1 /\ clean' = FALSE
  /\ Keep /\ UNCHANGED <<tx, cmd, wrong, sent, clients, timeouts, interrupts>>

GdbRead ==
  /\ gdb = "reading" /\ tx # <<>> /\ tx' = Tail(tx)
  /\ IF Head(tx).is \in {"reply", "stop"}
       THEN /\ gdb' = "idle" /\ Says(<<Plain("+")>>)
            /\ wrong' = (wrong \/ Head(tx) # Char("reply", cmd))
       ELSE UNCHANGED <<gdb, rx, token, wrong>>
  /\ Keep /\ UNCHANGED <<cmd, tries, clean, boundVars>>

GdbReadTimeout ==
  /\ gdb = "reading" /\ timeouts < MaxTimeouts
  /\ Says(<<Plain("-")>>) /\ timeouts' = timeouts + 1
  /\ Keep /\ UNCHANGED <<tx, gdbVars, sent, clients, slow, interrupts>>

GdbWait ==
  /\ gdb = "running" /\ tx # <<>> /\ tx' = Tail(tx)
  /\ gdb' = IF Head(tx).is = "stop" THEN "idle" ELSE gdb
  /\ IF Head(tx).is \in {"reply", "stop"} THEN Says(<<Plain("+")>>)
                                         ELSE UNCHANGED <<rx, token>>
  /\ Keep /\ UNCHANGED <<cmd, tries, clean, wrong, boundVars>>

GdbInterrupt ==
  /\ gdb = "running" /\ interrupts < MaxInterrupts
  /\ Says(<<Plain("^C")>>) /\ interrupts' = interrupts + 1
  /\ Keep /\ UNCHANGED <<tx, gdbVars, sent, clients, timeouts, slow>>

GdbReceive == GdbReadAck \/ GdbAckTimeout \/ GdbRead \/ GdbWait
GdbStep ==
  \/ GdbConnect \/ GdbLeave \/ GdbCommand \/ GdbReceive \/ GdbAckSlow \/ GdbReadTimeout
  \/ GdbInterrupt

-----------------------------------------------------------------------------
Next == ServerStep \/ TargetStop \/ GdbStep

Spec == Init /\ [][Next]_vars

\* The server's task polls every tick; GDB takes what it is sent, repeats what is
\* not acknowledged, and introduces itself.  Nothing else must happen.
FairSpec ==
  /\ Spec /\ WF_vars(ServerStep) /\ WF_vars(GdbReceive)
  /\ WF_vars(GdbCommand /\ cmd = None)

-----------------------------------------------------------------------------
MaxSent == MaxClients + MaxCommands
Commands == {Command(n, kind) : n \in 1..MaxSent, kind \in Kinds} \cup {None}
Received == [is : {"$", "#", "data", "sum", "+", "-", "^C"}, of : Commands]
Answers == [is : {"+", "-", "reply", "stop"}, of : Commands]

TypeOK ==
  /\ loop \in {"poll", "char"} /\ packet_phase \in {"NONE", "DATA", "CHECKSUM"}
  /\ packet_phase # "NONE" => loop = "poll"
  /\ awaiting_ack \in BOOLEAN /\ token \in BOOLEAN /\ halted \in BOOLEAN /\ stopped \in BOOLEAN
  /\ tx_packet \in Commands /\ cmd \in Commands
  /\ cur_packet \in Seq(Received) /\ Len(cur_packet) < MaxLen
  /\ cur_checksum \in Seq(Received) /\ digits \in Seq(Received) /\ Len(digits) < 2
  /\ rx \in Seq(Received) /\ tx \in Seq(Answers) /\ ran \in Seq(1..MaxSent)
  /\ gdb \in {"gone", "idle", "acking", "reading", "running", "failed"}
  /\ tries \in 0..MaxTries /\ sent \in 0..MaxSent /\ clients \in 0..MaxClients
  /\ timeouts \in 0..MaxTimeouts /\ slow \in 0..MaxSlow /\ interrupts \in 0..MaxInterrupts
  /\ clean \in BOOLEAN /\ wrong \in BOOLEAN

\* Whatever gets as far as its checksum is the whole payload of one packet that was
\* sent: what a client left of a packet is never run together with the next one's
\* packet (gdbserver.c:397), even if the sums should agree.
WholePackets ==
  packet_phase = "CHECKSUM" => \E c \in Commands : cur_packet = Data(c) /\ cur_checksum = Data(c)

\* A byte 0x03 within a packet is never read as a Ctrl-C, nor a Ctrl-C as data, also
\* when the rest of a packet is skipped (gdbserver.c:427).
InterruptsRead ==
  rx # <<>> /\ Head(rx).is = "^C" => (packet_phase = "DATA" <=> Head(rx).of # None)

\* Commands are executed in the order in which they were sent and each at most once,
\* although packets are repeated; only a GDB that repeats too early can break it.
ExecutedInOrder ==
  slow = 0 => \A i, j \in DOMAIN ran : i < j => ran[i] < ran[j]

\* GDB never takes anything else for the answer to its command: not a retransmission
\* of tx_packet, nor a stop that crossed its Ctrl-C (gdbserver.c:414).
AnswerIsOwn == clean => ~wrong

\* A client's packets are acknowledged before it gives up, whatever its predecessor
\* left in the channel and in the automaton; unless the server waits for ever for the
\* semaphore a receive took from it.
Heard == gdb = "acking" ~> gdb \in {"reading", "running", "gone"} \/ []TokenLost

\* A stop of the target is noticed while there is a client: the loop that does not
\* poll before a packet is complete (gdbserver.c:1138) does not last; with the same
\* exception.
StopNoticed ==
  stopped /\ ~halted /\ gdb # "gone" ~> halted \/ gdb = "gone" \/ []TokenLost
=============================================================================
