----------------------------- MODULE GdbServer -----------------------------
(***************************************************************************)
(* One debugging session: the GDB server task (gdbserver/gdbserver.c), the *)
(* target it runs and stops over JTAG, and GDB at the other end of the     *)
(* socket.  A packet is one message: the checksum is taken to match, and   *)
(* acknowledgements are left out.  The target's program is a loop of       *)
(* instructions; some ask GDB for console input or output (semihosting).   *)
(***************************************************************************)
EXTENDS Integers, Sequences, FiniteSets

CONSTANTS
  Code,           \* the program: a sequence of "nop", "write", "read", "other"
  Breakpoints,    \* where GDB has put breakpoints, while the program runs
  JtagFails,      \* TRUE iff a call of the target interface may fail
  MaxInterrupts,  \* bound: how often the user presses Ctrl-C
  MaxKills        \* bound: how often the user kills the program

ASSUME GdbServerAssumption ==
  /\ Code \in Seq({"nop", "write", "read", "other"}) /\ Len(Code) > 0
  /\ Breakpoints \subseteq 1..Len(Code) /\ JtagFails \in BOOLEAN
  /\ MaxInterrupts \in Nat /\ MaxKills \in Nat

VARIABLES
  cpu, at,        \* the target: "running" or "halted"; where its program is
  core_halted,    \* cc3200_core_state.halted
  loop,           \* the task's loop: "connect", "poll" or "char"
  halted, stop_reason, gave_info,   \* gdbserver_state
  fileio_waiting, opcode,           \* gdbserver_state.fileio_state
  rx, tx,         \* packets on their way to and from the server
  lost,           \* the receive of what is unread took the semaphore rx_buf_empty
  gdb,            \* what GDB is doing
  performed,      \* history: console requests GDB served that the program is not past
  astray,         \* history: GDB was sent an answer that it did not wait for
  failed,         \* history: a call of the target interface failed
  interrupts, kills

targetVars == <<cpu, at, core_halted>>
fileioVars == <<fileio_waiting, opcode>>
haltVars   == <<halted, stop_reason>>
userVars   == <<interrupts, kills>>
historyVars == <<performed, astray, failed>>
vars == <<targetVars, loop, haltVars, gave_info, fileioVars, rx, lost, tx, gdb, historyVars, userVars>>

Addresses == 1..Len(Code)
\* Slip: the last instruction does not branch back.
AfterNoBranch(p) == p + 1
After(p) == (p % Len(Code)) + 1
Stops == Breakpoints \cup {p \in Addresses : Code[p] # "nop"}
\* How a call of the target interface may turn out.
Outcome == IF JtagFails THEN BOOLEAN ELSE {TRUE}

Init ==
  /\ cpu = "running" /\ at = 1 /\ core_halted = FALSE
  /\ loop = "connect" /\ halted = FALSE /\ stop_reason = "unknown" /\ gave_info = FALSE
  /\ fileio_waiting = FALSE /\ opcode = "nop"
  /\ rx = <<>> /\ lost = FALSE /\ tx = <<>> /\ gdb = "gone" /\ performed = 0
  /\ astray = FALSE /\ failed = FALSE /\ interrupts = 0 /\ kills = 0

Send(packets) == tx' = tx \o packets

-----------------------------------------------------------------------------
(* The target.  A BKPT instruction halts it where it is.                   *)

CpuRun ==
  /\ cpu = "running" /\ loop # "connect" /\ at \notin Stops
  /\ at' = After(at)
  /\ UNCHANGED <<cpu, core_halted, loop, haltVars, gave_info, fileioVars, rx, lost, tx, gdb,
                 historyVars, userVars>>

CpuTrap ==
  /\ cpu = "running" /\ loop # "connect" /\ at \in Stops
  /\ cpu' = "halted"
  /\ UNCHANGED <<at, core_halted, loop, haltVars, gave_info, fileioVars, rx, lost, tx, gdb,
                 historyVars, userVars>>

\* cc3200_handleHalt: a BKPT instruction at the PC, and which, or not.
StopReason == IF at \in Breakpoints THEN "breakpoint"
              ELSE IF Code[at] # "nop" THEN "semihosting" ELSE "interrupt"

-----------------------------------------------------------------------------
(* The task's loop: connect to the target; then poll it, then process what *)
(* came from GDB: one packet to its end, or one Ctrl-C.                    *)

\* gdbserver_connectTarget: target_init resets the target and halts it.
Connect ==
  /\ loop = "connect" /\ loop' = "poll"
  /\ cpu' = "halted" /\ at' = 1 /\ core_halted' = TRUE
  /\ halted' = TRUE /\ gave_info' = FALSE /\ fileio_waiting' = FALSE
  /\ UNCHANGED <<stop_reason, opcode, rx, lost, tx, gdb, historyVars, userVars>>

PollNothing ==
  /\ loop = "poll" /\ loop' = "char"
  /\ \/ halted /\ UNCHANGED <<core_halted, failed>>
     \/ ~halted /\ cpu = "running" /\ core_halted' = FALSE /\ failed' = failed
     \/ ~halted /\ JtagFails /\ core_halted' = core_halted /\ failed' = TRUE
  /\ UNCHANGED <<cpu, at, haltVars, gave_info, fileioVars, rx, lost, tx, gdb, performed, astray,
                 userVars>>

\* gdbserver_handleSemiHosting: ask GDB to do it, unless it still owes an answer.
\* An operation that is not supported is not answered.
Semihosting ==
  /\ opcode' = Code[at]
  /\ IF Code[at] \in {"write", "read"} /\ ~fileio_waiting
       THEN Send(<<"F">>) /\ fileio_waiting' = TRUE
       ELSE UNCHANGED <<tx, fileio_waiting>>

\* gdbserver_pollTarget finds that the target has halted.  halted is set before
\* anything that can still fail; DFSR.BKPT is never cleared, so that away from a
\* BKPT instruction cc3200_handleHalt fails once there has been one.
PollHalt ==
  /\ loop = "poll" /\ ~halted /\ cpu = "halted"
  /\ loop' = "char" /\ halted' = TRUE /\ core_halted' = TRUE
  /\ \E handled \in Outcome \cup (IF at \in Stops THEN {} ELSE {FALSE}), queried \in Outcome :
       /\ stop_reason' = IF handled THEN StopReason ELSE stop_reason
       /\ failed' = (failed \/ ~handled \/ ~queried)
       /\ CASE handled /\ StopReason = "semihosting" /\ queried -> Semihosting
            [] handled /\ StopReason = "breakpoint" -> Send(<<"S05">>) /\ UNCHANGED fileioVars
            [] handled /\ StopReason = "interrupt" -> Send(<<"S02">>) /\ UNCHANGED fileioVars
            [] OTHER -> UNCHANGED <<tx, fileioVars>>
  /\ astray' = (astray \/ gdb # "running")
  /\ UNCHANGED <<cpu, at, gave_info, rx, lost, gdb, performed, userVars>>

CharNothing ==
  /\ loop = "char" /\ rx = <<>> /\ ~lost /\ loop' = "poll"
  /\ UNCHANGED <<targetVars, haltVars, gave_info, fileioVars, rx, lost, tx, gdb, historyVars, userVars>>

\* It waits in gdb_helpers_GetChar, although there are characters.
Waits == loop = "char" /\ lost

\* Take the next packet, if it is p.
Process(p) ==
  /\ loop = "char" /\ ~lost /\ rx # <<>> /\ Head(rx) = p
  /\ rx' = Tail(rx) /\ loop' = "poll"
  /\ UNCHANGED <<lost, gdb, userVars>>

-----------------------------------------------------------------------------
(* The packets.                                                            *)

\* '?': always answered with a stop, unless the target runs.
ProcessQuery ==
  /\ Process("?")
  /\ Send(IF halted THEN <<"S02">> ELSE <<>>)
  /\ UNCHANGED <<targetVars, haltVars, gave_info, fileioVars, historyVars>>

\* Registers, memory, general queries and file operations: one answer each.
\* Registers are out of reach of a target the debugger does not know halted.
ProcessData ==
  /\ Process("data")
  /\ \E ok \in Outcome \cup (IF core_halted THEN {} ELSE {FALSE}) :
       Send(<<IF ok THEN "OK" ELSE "E00">>)
  /\ UNCHANGED <<targetVars, haltVars, gave_info, fileioVars, historyVars>>

\* Slip: halted is left set, so that polling never starts.
ContinueStillHalted(p) ==
  /\ at' = p /\ cpu' = "running" /\ core_halted' = FALSE
  /\ UNCHANGED <<halted, gave_info, tx, failed>>

\* gdbserver_continue, from address p, with what was sent before.
Continue(p) ==
  IF ~halted
    THEN at' = p /\ UNCHANGED <<cpu, core_halted, halted, gave_info, tx, failed>>
    ELSE /\ at' = p /\ gave_info' = TRUE
         /\ LET info == IF gave_info THEN <<>> ELSE <<"O">> IN
            \/ /\ core_halted
               /\ cpu' = "running" /\ core_halted' = FALSE /\ halted' = FALSE
               /\ Send(info) /\ failed' = failed
            \/ /\ ~core_halted \/ JtagFails
               /\ cpu' \in {cpu} \cup (IF core_halted THEN {"running"} ELSE {})
               /\ Send(info \o <<"E00">>) /\ failed' = TRUE
               /\ UNCHANGED <<core_halted, halted>>

\* 'c'.
ProcessContinue ==
  /\ Process("c")
  /\ Continue(at)
  /\ UNCHANGED <<stop_reason, fileioVars, performed, astray>>

\* 's': a failed step is answered twice, and the target taken to be halted.
ProcessStep ==
  /\ Process("s")
  /\ halted' = TRUE
  /\ \/ /\ core_halted
        /\ at' = IF Code[at] = "nop" THEN After(at) ELSE at
        /\ Send(<<"S05">>) /\ UNCHANGED <<astray, failed>>
     \/ /\ ~core_halted \/ JtagFails
        /\ at' \in {at} \cup (IF core_halted /\ Code[at] = "nop" THEN {After(at)} ELSE {})
        /\ Send(<<"E00", "S05">>) /\ astray' = TRUE /\ failed' = TRUE
  /\ UNCHANGED <<cpu, core_halted, stop_reason, gave_info, fileioVars, performed>>

\* Slip: the program is not taken past the request.
ProcessFileIONoSkip(p) ==
  /\ Process(p)
  /\ fileio_waiting' = FALSE
  /\ Continue(at) /\ performed' = performed
  /\ UNCHANGED <<stop_reason, opcode, astray>>

\* 'F', gdbserver_replyFileIO, p = "FC" when it carries the Ctrl-C flag: take the
\* program past the request, then let it run, or report a stop.
ProcessFileIO(p) ==
  /\ Process(p)
  /\ fileio_waiting' = FALSE
  /\ IF opcode \in {"write", "read"} /\ core_halted
       THEN \/ /\ performed' = performed - 1
               /\ IF p = "F" THEN Continue(After(at))
                  ELSE /\ at' = After(at) /\ Send(<<"S02">>)
                       /\ UNCHANGED <<cpu, core_halted, halted, gave_info, failed>>
            \/ /\ JtagFails /\ failed' = TRUE
               /\ UNCHANGED <<targetVars, halted, gave_info, tx, performed>>
       ELSE UNCHANGED <<targetVars, halted, gave_info, tx, performed, failed>>
  /\ UNCHANGED <<stop_reason, opcode, astray>>

\* Slip: the target is taken to be halted still.
ProcessKillStillHalted ==
  /\ Process("k")
  /\ at' = 1 /\ cpu' \in {"running", "halted"}
  /\ UNCHANGED <<core_halted, haltVars, gave_info, fileioVars, tx, historyVars>>

\* 'k': a system reset, after which the debugger takes the target to be running;
\* it does not answer.
ProcessKill ==
  /\ Process("k")
  /\ \/ at' = 1 /\ cpu' \in {"running", "halted"} /\ halted' = FALSE /\ failed' = failed
     \/ JtagFails /\ failed' = TRUE /\ UNCHANGED <<at, cpu, halted>>
  /\ UNCHANGED <<core_halted, stop_reason, gave_info, fileioVars, tx, performed, astray>>

\* Slip: the server does not look whether the target halted.
InterruptNoPoll ==
  /\ Process("int")
  /\ \E done \in Outcome :
       /\ cpu' = IF done THEN "halted" ELSE cpu
       /\ core_halted' = (core_halted \/ done)
       /\ Send(IF done THEN <<"S02">> ELSE <<"O", "S02">>) /\ failed' = (failed \/ ~done)
  /\ halted' = halted /\ stop_reason' = "interrupt" /\ astray' = (astray \/ halted)
  /\ UNCHANGED <<at, gave_info, fileioVars, performed>>

\* Slip: no stop is reported when the halt failed.
InterruptQuietly ==
  /\ Process("int")
  /\ \E done, seen \in Outcome :
       /\ cpu' = IF done THEN "halted" ELSE cpu
       /\ halted' = IF seen THEN cpu' = "halted" ELSE halted
       /\ core_halted' = IF seen THEN cpu' = "halted" ELSE core_halted \/ done
       /\ Send(IF done /\ halted' THEN <<"S02">> ELSE <<"O">>)
       /\ failed' = (failed \/ ~done \/ ~seen)
  /\ stop_reason' = "interrupt" /\ astray' = (astray \/ halted)
  /\ UNCHANGED <<at, gave_info, fileioVars, performed>>

\* Ctrl-C, gdbserver_Interrupt: halt the target, and report a stop whatever came
\* of it, and whatever the target was doing.
ProcessInterrupt ==
  /\ Process("int")
  /\ \E done, seen \in Outcome :
       /\ cpu' = IF done THEN "halted" ELSE cpu
       /\ halted' = IF seen THEN cpu' = "halted" ELSE halted
       /\ core_halted' = IF seen THEN cpu' = "halted" ELSE core_halted \/ done
       /\ Send(IF done /\ halted' THEN <<"S02">> ELSE <<"O", "S02">>)
       /\ failed' = (failed \/ ~done \/ ~seen)
  /\ stop_reason' = "interrupt" /\ astray' = (astray \/ halted)
  /\ UNCHANGED <<at, gave_info, fileioVars, performed>>

Poll == PollNothing \/ PollHalt
ProcessPacket ==
  \/ ProcessQuery \/ ProcessData \/ ProcessContinue \/ ProcessStep \/ ProcessKill
  \/ ProcessInterrupt \/ \E p \in {"F", "FC"} : ProcessFileIO(p)
ServerStep == Connect \/ Poll \/ CharNothing \/ ProcessPacket

-----------------------------------------------------------------------------
(* GDB, external: it sends one command at a time and waits for its answer, *)
(* or for a stop once it has let the program run; then it serves console   *)
(* requests and passes Ctrl-C on.  A Ctrl-C during a request goes with the *)
(* request's answer.  A session is followed to the first answer astray: what *)
(* GDB makes of it is not modelled.                                        *)

\* A packet or an acknowledgement arrives.  A receive gives the semaphore, or takes
\* it when it finds it given (serialsock.c:401): after something unread, or in
\* several receives, it may leave it either way.  A single character wakes a task
\* that waits.
Arrives(single) == lost' \in IF single /\ Waits THEN {FALSE} ELSE BOOLEAN

Say(p, next) == rx' = Append(rx, p) /\ gdb' = next /\ Arrives(p = "int")

GdbCommand ==
  /\ ~astray
  /\ \/ gdb = "gone" /\ Say("?", "waiting")
     \/ gdb = "stopped" /\ Say("data", "waiting")
     \/ gdb = "stopped" /\ Say("s", "running")
     \/ gdb = "stopped" /\ at \notin Breakpoints /\ Say("c", "running")
  /\ UNCHANGED <<targetVars, loop, haltVars, gave_info, fileioVars, tx, historyVars,
                 userVars>>

GdbKill ==
  /\ ~astray /\ gdb = "stopped" /\ kills < MaxKills /\ Say("k", "gone")
  /\ kills' = kills + 1
  /\ UNCHANGED <<targetVars, loop, haltVars, gave_info, fileioVars, tx, historyVars,
                 interrupts>>

GdbInterrupt ==
  /\ gdb = "running" /\ interrupts < MaxInterrupts /\ Say("int", "running")
  /\ interrupts' = interrupts + 1
  /\ UNCHANGED <<targetVars, loop, haltVars, gave_info, fileioVars, tx, historyVars,
                 kills>>

GdbServe ==
  /\ gdb = "io"
  /\ performed' = performed + 1
  /\ \/ Say("F", "running") /\ interrupts' = interrupts
     \/ interrupts < MaxInterrupts /\ Say("FC", "running") /\ interrupts' = interrupts + 1
  /\ UNCHANGED <<targetVars, loop, haltVars, gave_info, fileioVars, tx, astray, failed, kills>>

GdbReceive ==
  /\ gdb \in {"running", "waiting"} /\ tx # <<>>
  /\ tx' = Tail(tx) /\ Arrives(TRUE)
  /\ gdb' = CASE Head(tx) = "O" -> gdb
              [] gdb = "running" /\ Head(tx) = "F" -> "io"
              [] gdb = "running" /\ Head(tx) = "OK" -> gdb
              [] OTHER -> "stopped"
  /\ UNCHANGED <<targetVars, loop, haltVars, gave_info, fileioVars, rx, historyVars,
                 userVars>>

GdbStep == GdbCommand \/ GdbKill \/ GdbInterrupt \/ GdbServe \/ GdbReceive

-----------------------------------------------------------------------------
Next == CpuRun \/ CpuTrap \/ ServerStep \/ GdbStep

Spec == Init /\ [][Next]_vars

\* The server's task polls every tick; the target runs; GDB takes what it is
\* sent and serves console requests.  The user owes nothing.
FairSpec ==
  /\ Spec /\ WF_vars(CpuRun \/ CpuTrap) /\ WF_vars(ServerStep)
  /\ WF_vars(GdbServe) /\ WF_vars(GdbReceive)

-----------------------------------------------------------------------------
Packets == {"S02", "S05", "F", "E00", "O", "OK"}
Commands == {"?", "data", "c", "s", "k", "int", "F", "FC"}

TypeOK ==
  /\ cpu \in {"running", "halted"} /\ at \in Addresses /\ core_halted \in BOOLEAN
  /\ loop \in {"connect", "poll", "char"} /\ halted \in BOOLEAN /\ gave_info \in BOOLEAN
  /\ stop_reason \in {"unknown", "breakpoint", "semihosting", "interrupt"}
  /\ fileio_waiting \in BOOLEAN /\ opcode \in {"nop", "write", "read", "other"}
  /\ rx \in Seq(Commands) /\ tx \in Seq(Packets) /\ lost \in BOOLEAN
  /\ gdb \in {"gone", "running", "waiting", "io", "stopped"} /\ performed \in Int
  /\ astray \in BOOLEAN /\ failed \in BOOLEAN
  /\ interrupts \in 0..MaxInterrupts /\ kills \in 0..MaxKills

\* While GDB takes the program to be stopped, it is, and so does the server; and
\* nothing is on its way to GDB.  Only a Ctrl-C that crosses a stop, a stop that
\* finds no GDB, or a failing target interface can break it.
StoppedMeansHalted ==
  gdb = "stopped" /\ ~astray /\ ~failed =>
    /\ cpu = "halted" /\ halted /\ core_halted
    /\ tx = <<>>

\* The server never takes a running target to be halted: it would stop polling it
\* (gdbserver.c:1134) and its next stop would go unreported.
HaltedIsTrue == loop # "connect" /\ halted /\ ~failed => cpu = "halted"

\* The program gets past a console request once for each time GDB served it:
\* none is served twice, skipped or answered for another.
ConsoleOnce ==
  ~astray /\ ~failed =>
    performed = Cardinality({i \in 1..Len(rx) : rx[i] \in {"F", "FC"}})

\* Whenever the program stops while GDB waits for it, GDB hears of it: of a stop,
\* or of a request to serve; unless an access fails, or the server waits for ever for
\* the semaphore a receive took from it.
StopReported ==
  gdb = "running" /\ cpu = "halted" ~> gdb # "running" \/ failed \/ []Waits

\* A Ctrl-C is answered, though the target may not be: GDB gets its prompt
\* back, unless its user has killed the session meanwhile; with the same exception
\* of a server that waits for ever.
InterruptAnswered ==
  loop = "char" /\ rx # <<>> /\ Head(rx) = "int" ~>
    gdb \in {"stopped", "gone"} \/ []Waits
=============================================================================
