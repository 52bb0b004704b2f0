------------------------------- MODULE MemLog -------------------------------
(***************************************************************************)
(* The log, common/log.c, with the two tasks it hangs on: "Mem Log Put",   *)
(* which prints queued entries on the log socket, and the socket server,   *)
(* which carries those characters away, starts the printing when a client  *)
(* opens the log socket, and itself logs.                                  *)
(*                                                                         *)
(* LOG keeps a message in a table of the last Entries messages.  Once a    *)
(* client has opened the log socket it also queues the table entry for the *)
(* put task, and waits while that queue is full.  The log socket's send    *)
(* buffer is the bounded channel that SerialSock is shown to implement     *)
(* (module ByteChannel); here it is a count of characters.                 *)
(***************************************************************************)
EXTENDS Integers, Sequences, FiniteSets

CONSTANTS
  Entries,        \* MAX_MEM_LOG_ENTRIES: the table's size and the queue's length
  TxRoom,         \* characters the log socket's send buffer holds
  MsgLen,         \* characters of a message, with its newline
  Loggers,        \* the tasks that log, without the socket server
  Server,         \* Task_SocketServer
  PutLog,         \* Task_PutLogMessages
  Prio,           \* the FreeRTOS priority of each
  OverflowEntry,  \* the entry "Note: Mem log overflow. Message(s) dropped."
  Nobody,
  MaxLogs,        \* bound: messages logged in all
  MaxOpens,       \* bound: times a client opens the log socket
  MaxOthers,      \* bound: clients that come and go on the other sockets
  ClientLeaves,   \* whether the log socket's client may disconnect
  SockFails       \* whether a SimpleLink call of the server may fail, or hang

Callers == Loggers \cup {Server}
Threads == Callers \cup {PutLog}
Slots == 0..(Entries - 1)

ASSUME LogAssumption ==
  /\ Entries \in Nat \ {0} /\ TxRoom \in Nat \ {0} /\ MsgLen \in Nat \ {0}
  /\ OverflowEntry \notin -1..(Entries - 1) /\ IsFiniteSet(Loggers)
  /\ Server \notin Loggers /\ PutLog \notin Callers /\ Nobody \notin Threads
  /\ Prio \in [Threads -> Nat]
  /\ MaxLogs \in Nat /\ MaxOpens \in Nat /\ MaxOthers \in Nat
  /\ ClientLeaves \in BOOLEAN /\ SockFails \in BOOLEAN

VARIABLES
  putchar,        \* msg_putchar: "default" or "socket"
  cur_entry, overflow,
  text,           \* per entry: the number of the message in it
  flags,          \* per entry: a subset of {"VALID", "FLUSHED"}
  mutex,          \* who holds mem_log_state.mutex
  queue,          \* log_msg_put_queue
  pc,             \* per caller: where it is in log_put
  msg,            \* per caller: the message it logs
  entry,          \* per caller: the pointer mem_log_add returned
  put,            \* the put task: where it is, its entry, characters to go
  srv,            \* where the server is
  flush_i,        \* the loop variable of flush_log_messages
  tx,             \* characters in the log socket's send buffer
  client,         \* the log socket's client
  opens, others, logged,   \* counters behind the bounds
  printed,        \* history: the messages printed, in order
  overtaken       \* history: somebody else logged between a caller's give and its return

tableVars == <<cur_entry, overflow, text, flags>>
callVars  == <<pc, msg, entry, logged>>
srvVars   == <<srv, flush_i, client, opens, others>>
historyVars == <<printed, overtaken>>
vars == <<putchar, tableVars, mutex, queue, callVars, put, srvVars, tx, historyVars>>

Full == Len(queue) = Entries

-----------------------------------------------------------------------------
(* The scheduler: a task runs when every task of a higher priority waits.  *)

InLog(t) == pc[t] # "idle"

LogBlocked(t) ==
  \/ pc[t] = "take" /\ mutex # Nobody
  \/ pc[t] \in {"note", "send"} /\ Full

\* The server waits in LOG, for the log's mutex or queue, or in a SimpleLink
\* call or its delay of a tick.
SrvBlocked ==
  \/ InLog(Server) /\ LogBlocked(Server)
  \/ ~InLog(Server) /\ srv \in {"log", "others", "delay", "dead"}
  \/ ~InLog(Server) /\ srv = "start_putchar" /\ mutex # Nobody
  \/ srv = "flush" /\ Full /\ "VALID" \in flags[flush_i] /\ "FLUSHED" \notin flags[flush_i]

\* The log socket's buf_access is held while the server logs that the client is gone
\* or that the socket failed.
SrvHolds == srv \in {"gone", "sock_error"}

\* PutChar waits for room and for buf_access.
PutBlocked ==
  \/ put.at = "receive" /\ queue = <<>>
  \/ put.at = "char" /\ (tx = TxRoom \/ SrvHolds)

Blocked(t) ==
  CASE t = PutLog -> PutBlocked
    [] t = Server -> SrvBlocked
    [] OTHER      -> pc[t] = "idle" \/ LogBlocked(t)

\* Slip: every task runs whenever it can.
CanRunAnyTime(t) == t \in Threads

CanRun(t) == \A u \in Threads : Prio[u] > Prio[t] => Blocked(u)

-----------------------------------------------------------------------------
Init ==
  /\ putchar = "default"
  /\ cur_entry = 0 /\ overflow = FALSE
  /\ text = [i \in Slots |-> 0] /\ flags = [i \in Slots |-> {}]
  /\ mutex = Nobody /\ queue = <<>>
  /\ pc = [t \in Callers |-> "idle"] /\ msg = [t \in Callers |-> 0]
  /\ entry = [t \in Callers |-> 0]
  /\ put = [at |-> "receive", entry |-> 0, left |-> 0]
  /\ srv = "log" /\ flush_i = 0 /\ tx = 0 /\ client = "away"
  /\ opens = 0 /\ others = 0 /\ logged = 0
  /\ printed = <<>> /\ overtaken = FALSE

-----------------------------------------------------------------------------
(* log_put and mem_log_add, for any caller t.                              *)

Call(t) ==
  /\ logged' = logged + 1
  /\ msg' = [msg EXCEPT ![t] = logged + 1]
  /\ pc' = [pc EXCEPT ![t] = "take"]
  /\ UNCHANGED entry

Move(t, from, to) == pc[t] = from /\ pc' = [pc EXCEPT ![t] = to]

LogCall(t) ==
  /\ t \in Loggers /\ CanRun(t) /\ pc[t] = "idle" /\ logged < MaxLogs
  /\ Call(t)
  /\ UNCHANGED <<putchar, tableVars, mutex, queue, put, srvVars, tx, historyVars>>

\* The wraparound of cur_entry.
AddEntry == IF cur_entry >= Entries THEN 0 ELSE cur_entry

\* Slip: an entry about to be lost is not looked at.
LogTakeNoTest(t) ==
  LET over == overflow
  IN
  /\ CanRun(t) /\ mutex = Nobody
  /\ mutex' = t
  /\ cur_entry' = AddEntry
  /\ overflow' = over
  /\ Move(t, "take", IF over /\ putchar # "default" THEN "note" ELSE "write")
  /\ overtaken' = (overtaken \/ \E u \in Callers : pc[u] = "gave")
  /\ UNCHANGED <<putchar, text, flags, queue, msg, entry, logged, put, srvVars, tx, printed>>

LogTake(t) ==
  LET over == overflow \/ ("VALID" \in flags[AddEntry] /\ "FLUSHED" \notin flags[AddEntry])
  IN
  /\ CanRun(t) /\ mutex = Nobody
  /\ mutex' = t
  /\ cur_entry' = AddEntry
  /\ overflow' = over
  /\ Move(t, "take", IF over /\ putchar # "default" THEN "note" ELSE "write")
  /\ overtaken' = (overtaken \/ \E u \in Callers : pc[u] = "gave")
  /\ UNCHANGED <<putchar, text, flags, queue, msg, entry, logged, put, srvVars, tx, printed>>

\* xQueueSend of the overflow entry, the mutex held.
LogNote(t) ==
  /\ CanRun(t) /\ ~Full /\ Move(t, "note", "write")
  /\ queue' = Append(queue, OverflowEntry)
  /\ overflow' = FALSE
  /\ UNCHANGED <<putchar, cur_entry, text, flags, mutex, msg, entry, logged, put, srvVars,
                 tx, historyVars>>

\* Slip: the overflow is not seen.
LogWriteSilently(t) ==
  /\ CanRun(t) /\ Move(t, "write", "gave")
  /\ text' = [text EXCEPT ![cur_entry] = msg[t]]
  /\ flags' = [flags EXCEPT ![cur_entry] = {"VALID", "FLUSHED"}]
  /\ cur_entry' = cur_entry + 1
  /\ mutex' = Nobody
  /\ UNCHANGED <<putchar, overflow, queue, msg, entry, logged, put, srvVars, tx, historyVars>>

LogWrite(t) ==
  /\ CanRun(t) /\ Move(t, "write", "gave")
  /\ text' = [text EXCEPT ![cur_entry] = msg[t]]
  /\ flags' = [flags EXCEPT ![cur_entry] = {"VALID"}]
  /\ cur_entry' = cur_entry + 1
  /\ mutex' = Nobody
  /\ UNCHANGED <<putchar, overflow, queue, msg, entry, logged, put, srvVars, tx, historyVars>>

\* The address mem_log_add returns is worked out after the mutex is given.
LogReturn(t) ==
  /\ CanRun(t) /\ Move(t, "gave", "test")
  /\ entry' = [entry EXCEPT ![t] = cur_entry - 1]
  /\ UNCHANGED <<putchar, tableVars, mutex, queue, msg, logged, put, srvVars, tx, historyVars>>

LogTest(t) ==
  /\ CanRun(t)
  /\ Move(t, "test", IF putchar # "default" THEN "send" ELSE "idle")
  /\ UNCHANGED <<putchar, tableVars, mutex, queue, msg, entry, logged, put, srvVars, tx, historyVars>>

LogSend(t) ==
  /\ CanRun(t) /\ ~Full /\ Move(t, "send", "idle")
  /\ queue' = Append(queue, entry[t])
  /\ UNCHANGED <<putchar, tableVars, mutex, msg, entry, logged, put, srvVars, tx, historyVars>>

LogStep(t) ==
  LogTake(t) \/ LogNote(t) \/ LogWrite(t) \/ LogReturn(t) \/ LogTest(t) \/ LogSend(t)

-----------------------------------------------------------------------------
(* Task_PutLogMessages.                                                    *)

PutReceive ==
  /\ CanRun(PutLog) /\ put.at = "receive" /\ queue # <<>>
  /\ put' = [at |-> "char", entry |-> Head(queue), left |-> MsgLen]
  /\ queue' = Tail(queue)
  /\ UNCHANGED <<putchar, tableVars, mutex, callVars, srvVars, tx, historyVars>>

\* One ExtThread_SocketPutChar; the text of the entry is read as it goes, and
\* counted as printed with its first character.
PutChar ==
  /\ CanRun(PutLog) /\ put.at = "char" /\ tx < TxRoom /\ ~SrvHolds
  /\ tx' = tx + 1
  /\ put' = [put EXCEPT !.left = @ - 1, !.at = IF put.left = 1 THEN "mark" ELSE "char"]
  /\ printed' = IF put.left < MsgLen THEN printed
                ELSE Append(printed, IF put.entry \in Slots THEN text[put.entry] ELSE 0)
  /\ UNCHANGED <<putchar, tableVars, mutex, queue, callVars, srvVars, overtaken>>

PutMark ==
  /\ CanRun(PutLog) /\ put.at = "mark"
  /\ put' = [put EXCEPT !.at = "receive"]
  /\ flags' = [i \in Slots |-> IF i = put.entry THEN flags[i] \cup {"FLUSHED"} ELSE flags[i]]
  /\ UNCHANGED <<putchar, cur_entry, overflow, text, mutex, queue, callVars, srvVars, tx,
                 historyVars>>

PutStep == PutReceive \/ PutChar \/ PutMark

-----------------------------------------------------------------------------
(* The socket server, as far as the log can tell: in each round of         *)
(* UpdateSockets it visits the log socket, then the others.                *)

SrvReady(at) == CanRun(Server) /\ ~InLog(Server) /\ srv = at

\* SockAccept on the log socket: it logs, marks the slot connected, starts
\* the printing.
SrvLogOpened ==
  /\ SrvReady("log") /\ client = "knocking"
  /\ Call(Server) /\ srv' = "start_putchar" /\ client' = "open"
  /\ UNCHANGED <<putchar, tableVars, mutex, queue, put, flush_i, opens, others, tx, historyVars>>

SrvNoClient ==
  /\ SrvReady("log") /\ client = "away"
  /\ srv' = "others"
  /\ UNCHANGED <<putchar, tableVars, mutex, queue, callVars, put, flush_i, client, opens,
                 others, tx, historyVars>>

\* mem_log_start_putchar, up to the loop of flush_log_messages.
SrvStartPutchar ==
  /\ SrvReady("start_putchar") /\ mutex = Nobody
  /\ mutex' = Server
  /\ putchar' = "socket"
  /\ srv' = "flush" /\ flush_i' = 0
  /\ UNCHANGED <<tableVars, queue, callVars, put, client, opens, others, tx, historyVars>>

\* Where the loop of flush_log_messages ends.
LastEntry == Entries - 1


\* One turn of that loop; after the last the mutex is given.
SrvFlush ==
  LET fresh == "VALID" \in flags[flush_i] /\ "FLUSHED" \notin flags[flush_i]
      last == flush_i = LastEntry
  IN
  /\ SrvReady("flush")
  /\ fresh => ~Full
  /\ queue' = IF fresh THEN Append(queue, flush_i) ELSE queue
  /\ flags' = IF fresh THEN [flags EXCEPT ![flush_i] = @ \cup {"FLUSHED"}] ELSE flags
  /\ flush_i' = IF last THEN 0 ELSE flush_i + 1
  /\ srv' = IF last THEN "others" ELSE "flush"
  /\ mutex' = IF last THEN Nobody ELSE mutex
  /\ UNCHANGED <<putchar, cur_entry, overflow, text, callVars, put, client, opens, others, tx,
                 historyVars>>

\* A round with a client: sl_Send takes the characters up to the ring's
\* wraparound point, so not always all of them.
SrvCarry ==
  /\ SrvReady("log") /\ client = "open"
  /\ IF tx = 0 THEN tx' = 0 ELSE \E n \in 1..tx : tx' = tx - n
  /\ srv' = "others"
  /\ UNCHANGED <<putchar, tableVars, mutex, queue, callVars, put, flush_i, client, opens,
                 others, historyVars>>

\* ... and the client is found gone; LOG is called with buf_access held.
SrvLogGone ==
  /\ SrvReady("log") /\ client = "closing"
  /\ IF tx = 0 THEN tx' = 0 ELSE \E n \in 1..tx : tx' = tx - n
  /\ Call(Server) /\ srv' = "gone" /\ client' = "away"
  /\ UNCHANGED <<putchar, tableVars, mutex, queue, put, flush_i, opens, others, historyVars>>

SrvGoneDone ==
  /\ SrvReady("gone")
  /\ srv' = "others"
  /\ UNCHANGED <<putchar, tableVars, mutex, queue, callVars, put, flush_i, client, opens,
                 others, tx, historyVars>>

\* The other sockets: nothing to say, or a client that came or went.
SrvOthersQuiet ==
  /\ SrvReady("others")
  /\ srv' = "delay"
  /\ UNCHANGED <<putchar, tableVars, mutex, queue, callVars, put, flush_i, client, opens,
                 others, tx, historyVars>>

SrvOthersLog ==
  /\ SrvReady("others") /\ others < MaxOthers
  /\ Call(Server) /\ others' = others + 1 /\ srv' = "delay"
  /\ UNCHANGED <<putchar, tableVars, mutex, queue, put, flush_i, client, opens, tx, historyVars>>

SrvTick ==
  /\ SrvReady("delay")
  /\ srv' = "log"
  /\ UNCHANGED <<putchar, tableVars, mutex, queue, callVars, put, flush_i, client, opens,
                 others, tx, historyVars>>

\* LogSLError has a message for some errors and none for others.
LogSLError == Call(Server) \/ UNCHANGED callVars

\* A send or a receive on the log socket fails, with its buf_access held.
SrvLogError ==
  /\ SockFails /\ SrvReady("log") /\ client \in {"open", "closing"}
  /\ \E n \in 0..tx : tx' = tx - n
  /\ LogSLError /\ srv' = "sock_error"
  /\ UNCHANGED <<putchar, tableVars, mutex, queue, put, flush_i, client, opens, others, historyVars>>

\* An accept fails, what SockAccept does with the new client, or a call on another socket.
SrvOtherError ==
  /\ SockFails /\ srv \in {"log", "start_putchar", "others"} /\ SrvReady(srv)
  /\ srv = "log" => client \in {"away", "knocking"}
  /\ LogSLError /\ srv' = "error"
  /\ UNCHANGED <<putchar, tableVars, mutex, queue, put, flush_i, client, opens, others, tx,
                 historyVars>>

\* UpdateSockets and then the task return, each with a message of its own.
SrvReturnError ==
  /\ srv \in {"sock_error", "error", "update_error"} /\ SrvReady(srv)
  /\ Call(Server) /\ srv' = IF srv = "update_error" THEN "dead" ELSE "update_error"
  /\ UNCHANGED <<putchar, tableVars, mutex, queue, put, flush_i, client, opens, others, tx,
                 historyVars>>

\* A receive into a full ring, of this socket or another, does not come back and
\* keeps the processor (see SerialSock).
SrvHang ==
  /\ SockFails /\ srv \in {"log", "others"} /\ SrvReady(srv)
  /\ srv = "log" => client = "open"
  /\ srv' = "stuck"
  /\ UNCHANGED <<putchar, tableVars, mutex, queue, callVars, put, flush_i, client, opens,
                 others, tx, historyVars>>

SrvFails == SrvLogError \/ SrvOtherError \/ SrvReturnError \/ SrvHang

SrvStep ==
  \/ SrvLogOpened \/ SrvNoClient \/ SrvStartPutchar \/ SrvFlush \/ SrvCarry
  \/ SrvLogGone \/ SrvGoneDone \/ SrvOthersQuiet \/ SrvOthersLog \/ SrvTick
  \/ SrvFails

-----------------------------------------------------------------------------
(* The log socket's client.                                                *)

ClientOpen ==
  /\ client = "away" /\ opens < MaxOpens
  /\ client' = "knocking" /\ opens' = opens + 1
  /\ UNCHANGED <<putchar, tableVars, mutex, queue, callVars, put, srv, flush_i, others, tx,
                 historyVars>>

ClientClose ==
  /\ ClientLeaves /\ client = "open"
  /\ client' = "closing"
  /\ UNCHANGED <<putchar, tableVars, mutex, queue, callVars, put, srv, flush_i, opens, others,
                 tx, historyVars>>

-----------------------------------------------------------------------------
Next ==
  \/ \E t \in Loggers : LogCall(t)
  \/ \E t \in Callers : LogStep(t)
  \/ PutStep \/ SrvStep
  \/ ClientOpen \/ ClientClose

Spec == Init /\ [][Next]_vars

\* The scheduler runs each task that stays ready; no task here spins.
Fairness ==
  /\ \A t \in Callers : WF_vars(LogStep(t))
  /\ WF_vars(PutStep)
  /\ WF_vars(SrvStep)

FairSpec == Spec /\ Fairness

-----------------------------------------------------------------------------
Pointers == -1..(Entries - 1)

\* Type correctness of the log, its queue and the tasks.
TypeOK ==
  /\ putchar \in {"default", "socket"} /\ cur_entry \in 0..Entries /\ overflow \in BOOLEAN
  /\ text \in [Slots -> 0..logged] /\ flags \in [Slots -> SUBSET {"VALID", "FLUSHED"}]
  /\ mutex \in Callers \cup {Nobody}
  /\ queue \in Seq(Pointers \cup {OverflowEntry}) /\ Len(queue) <= Entries
  /\ pc \in [Callers -> {"idle", "take", "note", "write", "gave", "test", "send"}]
  /\ msg \in [Callers -> 0..logged] /\ entry \in [Callers -> Pointers]
  /\ put.at \in {"receive", "char", "mark"} /\ put.left \in 0..MsgLen
  /\ srv \in {"log", "start_putchar", "flush", "gone", "others", "delay", "sock_error",
             "error", "update_error", "dead", "stuck"}
  /\ flush_i \in Slots /\ tx \in 0..TxRoom
  /\ client \in {"away", "knocking", "open", "closing"}
  /\ logged \in Nat /\ opens \in Nat /\ others \in Nat
  /\ printed \in Seq(0..logged)

\* The debugger's tasks do not hang in LOG: a call that was made returns
\* (UserGuide.md:89: "using the log socket is not necessary").
LogReturns == \A t \in Callers : InLog(t) ~> ~InLog(t)

\* That much holds until a client has opened the log socket, whatever becomes of the
\* server; and then as long as the server runs and this first client has not left:
\* waiting for the mutex and for room in the queue comes to an end.
ServerGone == srv \in {"sock_error", "error", "update_error", "dead", "stuck"}
Served == putchar = "default" \/ (client = "open" /\ opens = 1 /\ ~ServerGone)

\* Unless everyone waits for everyone: the server, which alone empties the send buffer,
\* logs and waits for room in the queue; the put task, which alone empties the queue,
\* waits for room in the send buffer.
Jammed ==
  Full /\ put.at = "char" /\ tx = TxRoom /\ SrvBlocked /\ (InLog(Server) \/ srv = "flush")

\* Messages still on their way out: queued, or in the hands of the put task.
Waiting ==
  {text[queue[k]] : k \in {j \in 1..Len(queue) : queue[j] \in Slots}}
    \cup (IF put.at = "char" /\ put.entry \in Slots THEN {text[put.entry]} ELSE {})

NoteSent ==
  \/ \E k \in 1..Len(queue) : queue[k] = OverflowEntry
  \/ \E k \in 1..Len(printed) : printed[k] = 0
  \/ put.at # "receive" /\ put.entry = OverflowEntry

Printed(m) == \E k \in 1..Len(printed) : printed[k] = m

\* mem_log_add and the flush exclude each other: the mutex is held exactly by
\* the caller between its take and its give, or by the server while it flushes.
AddExclusive ==
  /\ \A t \in Loggers : mutex = t <=> pc[t] \in {"note", "write"}
  /\ mutex = Server <=> (pc[Server] \in {"note", "write"} \/ srv = "flush")

\* An entry nobody has flushed is overwritten only with the overflow recorded,
\* for a later client to see, or the note already sent to the present one.
DropIsNoted ==
  [][\A i \in Slots : (flags[i] = {"VALID"} /\ text'[i] # text[i]) => overflow \/ NoteSent]_vars

\* log.c:82 says of start_putchar that it flushes all past messages onto the
\* log channel (and UserGuide.md:89 that they appear upon the first connection).
\* So none disappears before the table has wrapped: it is printed, on its way out, in
\* the table for the next flush, or with its caller still; also when its caller is
\* overtaken, and queues the other's entry instead.
Wrapped == logged > Entries
NoneLostUntilWrap ==
  \A m \in 1..logged :
    \/ Wrapped \/ Printed(m) \/ m \in Waiting
    \/ \E t \in Callers : InLog(t) /\ msg[t] = m
    \/ \E i \in Slots : text[i] = m /\ flags[i] = {"VALID"}

\* With its first client on the log socket every message gets printed, those of before
\* the connection as well as those logged while the flush is going on; unless the
\* client leaves, the server fails or is jammed, there are more messages than the table
\* holds, or one overtook another.
EverythingPrinted ==
  client = "open" ~>
    (\A m \in 1..logged : Printed(m)) \/ ~Served \/ ServerGone \/ Jammed \/ Wrapped \/ overtaken

\* The first client sees no message twice, as long as the table has not wrapped and
\* nobody was overtaken: the flush does not send again what its logger is about to
\* queue.
PrintedOnce ==
  opens > 1 \/ Wrapped \/ overtaken
    \/ \A j, k \in 1..Len(printed) : j # k => printed[j] # printed[k]

\* What that takes: who logs runs before the socket server.
LoggersFirst == \A t \in Loggers : Prio[t] > Prio[Server]
=============================================================================
