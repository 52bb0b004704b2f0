---------------------------- MODULE MemLogProofs ----------------------------
(***************************************************************************)
(* For any number of callers and entries, whatever the priorities: callers *)
(* and the flush exclude each other, no message that nobody has seen is    *)
(* overwritten without a note, and none is lost until the table wraps.  If *)
(* who logs runs before the server, none is printed twice to the first     *)
(* client.                                                                 *)
(***************************************************************************)
EXTENDS MemLog, FiniteSetTheorems, TLAPS

-----------------------------------------------------------------------------
(* Types and the mutex, inductive together: that the entry to write is in  *)
(* the table rests on nobody else moving cur_entry between take and give.  *)

TableOK ==
  /\ putchar \in {"default", "socket"} /\ cur_entry \in 0..Entries /\ overflow \in BOOLEAN
  /\ text \in [Slots -> 0..logged] /\ flags \in [Slots -> SUBSET {"VALID", "FLUSHED"}]
  /\ mutex \in Callers \cup {Nobody}

Values == Pointers \cup {OverflowEntry}
QueueOK == queue \in Seq(Values) /\ Len(queue) <= Entries

CallOK ==
  /\ pc \in [Callers -> {"idle", "take", "note", "write", "gave", "test", "send"}]
  /\ msg \in [Callers -> 0..logged] /\ entry \in [Callers -> Pointers]

\* The put task counts down the characters of an entry it was given.
PutOK ==
  /\ put \in [at : {"receive", "char", "mark"}, entry : Values, left : 0..MsgLen]
  /\ put.at = "char" => put.left >= 1

SrvOK ==
  /\ srv \in {"log", "start_putchar", "flush", "gone", "others", "delay", "sock_error",
             "error", "update_error", "dead", "stuck"}
  /\ flush_i \in Slots /\ tx \in 0..TxRoom
  /\ client \in {"away", "knocking", "open", "closing"}
  /\ opens \in Nat /\ others \in Nat

PrintedOK == logged \in Nat /\ printed \in Seq(0..logged)

Holding(t) == pc[t] \in {"note", "write"}
LockOK ==
  /\ \A t \in Callers : Holding(t) => mutex = t /\ cur_entry < Entries
  /\ \A t \in Loggers : mutex = t => Holding(t)
  /\ mutex = Server => Holding(Server) \/ srv = "flush"
  /\ srv = "flush" => mutex = Server /\ pc[Server] = "idle"

TypeInv == TableOK /\ QueueOK /\ CallOK /\ PutOK /\ SrvOK /\ PrintedOK /\ LockOK

-----------------------------------------------------------------------------
LEMMA Widen ==
  ASSUME NEW n \in Nat, NEW s \in Seq(0..n)
  PROVE  s \in Seq(0..(n + 1))
<1>1. s \in [1..Len(s) -> 0..(n + 1)]
  OBVIOUS
<1> QED BY <1>1

\* What assumptions on constants come to.
LEMMA Consts ==
  ASSUME LogAssumption
  PROVE  /\ Entries \in Nat /\ Entries > 0 /\ TxRoom \in Nat /\ MsgLen \in Nat /\ MsgLen > 0
         /\ Slots = 0..(Entries - 1) /\ Pointers = -1..(Entries - 1) /\ Slots \subseteq Values
         /\ Pointers \subseteq Values /\ OverflowEntry \in Values /\ OverflowEntry \notin Pointers
         /\ OverflowEntry \notin Slots
         /\ Callers = Loggers \cup {Server} /\ Server \notin Loggers /\ Nobody \notin Callers
BY DEF LogAssumption, Slots, Pointers, Values, Callers, Threads

LEMMA TypeInit == ASSUME LogAssumption PROVE Init => TypeInv
<1> SUFFICES ASSUME Init PROVE TypeInv
  OBVIOUS
<1> USE DEF Init
<1>1. TableOK
  <2>1. text \in [Slots -> 0..logged]
    OBVIOUS
  <2>2. flags \in [Slots -> SUBSET {"VALID", "FLUSHED"}]
    OBVIOUS
  <2>3. cur_entry \in 0..Entries
    <3>1. cur_entry = 0
      OBVIOUS
    <3> QED BY <3>1, Consts
  <2>4. putchar \in {"default", "socket"} /\ overflow \in BOOLEAN /\ mutex \in Callers \cup {Nobody}
    OBVIOUS
  <2> HIDE DEF Init
  <2> QED BY <2>1, <2>2, <2>3, <2>4 DEF TableOK
<1>2. QueueOK
  <2>1. 0 <= Entries
    BY Consts
  <2>2. queue = <<>>
    OBVIOUS
  <2>3. queue \in Seq(Values) /\ Len(queue) = 0
    BY <2>2
  <2> QED BY <2>1, <2>3 DEF QueueOK
<1>3. CallOK
  BY Consts DEF CallOK
<1>4. PutOK
  BY Consts DEF PutOK
<1>5. SrvOK
  BY Consts DEF SrvOK
<1>6. PrintedOK
  BY DEF PrintedOK
<1>7. LockOK
  BY Consts DEF LockOK, Holding
<1> QED BY <1>1, <1>2, <1>3, <1>4, <1>5, <1>6, <1>7 DEF TypeInv

\* The tables and counters when t calls LOG.
LEMMA CallType ==
  ASSUME LogAssumption, TypeInv, NEW t \in Callers, Call(t), pc[t] = "idle",
         UNCHANGED <<putchar, cur_entry, overflow, text, flags, mutex, printed>>,
         srv # "flush" \/ t # Server, srv' = "flush" <=> srv = "flush"
  PROVE  TableOK' /\ CallOK' /\ PrintedOK' /\ LockOK'
<1>1. logged' = logged + 1 /\ logged \in Nat
  BY DEF Call, TypeInv, PrintedOK
<1>2. PrintedOK'
  BY <1>1, Widen DEF TypeInv, PrintedOK
<1>3. TableOK'
  BY <1>1 DEF TypeInv, TableOK
<1>4. CallOK'
  BY <1>1 DEF TypeInv, CallOK, Call
<1>5. LockOK'
  BY <1>1, Consts DEF TypeInv, CallOK, LockOK, Holding, Call
<1> QED BY <1>2, <1>3, <1>4, <1>5

LEMMA TypeCall ==
  ASSUME LogAssumption, TypeInv, NEW t \in Loggers, LogCall(t)
  PROVE  TypeInv'
<1>1. t \in Callers /\ t # Server /\ Call(t) /\ pc[t] = "idle"
  BY Consts DEF LogCall
<1>2. UNCHANGED <<putchar, cur_entry, overflow, text, flags, mutex, printed, queue, put, srv,
                  flush_i, tx, client, opens, others>>
  BY DEF LogCall, tableVars, srvVars, historyVars
<1>3. TableOK' /\ CallOK' /\ PrintedOK' /\ LockOK'
  BY <1>1, <1>2, CallType
<1>4. QueueOK' /\ PutOK' /\ SrvOK'
  BY <1>2 DEF TypeInv, QueueOK, PutOK, SrvOK
<1> QED BY <1>3, <1>4 DEF TypeInv

LEMMA TypeLog ==
  ASSUME LogAssumption, TypeInv, NEW t \in Callers, LogStep(t)
  PROVE  TypeInv'
<1> USE DEF TypeInv, Move
<1>0. UNCHANGED <<putchar, put, srv, flush_i, tx, client, opens, others, logged, msg, printed>>
  BY DEF LogStep, LogTake, LogNote, LogWrite, LogReturn, LogTest, LogSend, srvVars, historyVars,
         tableVars
<1>a. PutOK' /\ SrvOK' /\ PrintedOK'
  BY <1>0 DEF PutOK, SrvOK, PrintedOK
<1>b. cur_entry \in 0..Entries /\ Entries \in Nat /\ Entries > 0
  BY Consts DEF TableOK
<1>1. CASE LogTake(t)
  <2>1. AddEntry \in 0..(Entries - 1)
    BY <1>b DEF AddEntry
  <2>2. TableOK'
    BY <1>0, <1>1, <2>1, Consts DEF LogTake, TableOK
  <2>3. QueueOK' /\ CallOK'
    BY <1>0, <1>1 DEF LogTake, QueueOK, CallOK
  <2>4. LockOK'
    BY <1>0, <1>1, <2>1, <1>b, Consts DEF LogTake, LockOK, CallOK, Holding
  <2> QED BY <1>a, <2>2, <2>3, <2>4
<1>2. CASE LogNote(t)
  <2>1. QueueOK'
    <3>1. queue \in Seq(Values) /\ Len(queue) <= Entries /\ Len(queue) # Entries
          /\ queue' = Append(queue, OverflowEntry)
      BY <1>2 DEF LogNote, Full, QueueOK
    <3> QED BY <3>1, <1>b, Consts DEF QueueOK
  <2>2. TableOK' /\ CallOK'
    BY <1>0, <1>2 DEF LogNote, TableOK, CallOK
  <2>3. LockOK'
    BY <1>0, <1>2, Consts DEF LogNote, LockOK, CallOK, Holding
  <2> QED BY <1>a, <2>1, <2>2, <2>3
<1>3. CASE LogWrite(t)
  <2>1. Holding(t) /\ mutex = t /\ cur_entry < Entries /\ cur_entry \in Slots
    BY <1>3, <1>b, Consts DEF LogWrite, LockOK, Holding
  <2>2. TableOK'
    <3>1. text' \in [Slots -> 0..logged']
      BY <1>0, <1>3, <2>1 DEF LogWrite, TableOK, CallOK
    <3>2. flags' \in [Slots -> SUBSET {"VALID", "FLUSHED"}]
      BY <1>3, <2>1 DEF LogWrite, TableOK
    <3>3. cur_entry' \in 0..Entries
      BY <1>3, <2>1, <1>b DEF LogWrite
    <3> QED BY <1>0, <1>3, <3>1, <3>2, <3>3 DEF LogWrite, TableOK
  <2>3. QueueOK' /\ CallOK'
    BY <1>0, <1>3 DEF LogWrite, QueueOK, CallOK
  <2>4. LockOK'
    BY <1>0, <1>3, <2>1, Consts DEF LogWrite, LockOK, CallOK, Holding
  <2> QED BY <1>a, <2>2, <2>3, <2>4
<1>4. CASE LogReturn(t)
  <2>1. cur_entry - 1 \in Pointers
    BY <1>b, Consts
  <2>2. TableOK' /\ QueueOK'
    BY <1>0, <1>4 DEF LogReturn, TableOK, QueueOK, tableVars
  <2>3. CallOK'
    BY <1>0, <1>4, <2>1 DEF LogReturn, CallOK
  <2>4. LockOK'
    BY <1>0, <1>4, Consts DEF LogReturn, LockOK, CallOK, Holding, tableVars
  <2> QED BY <1>a, <2>2, <2>3, <2>4
<1>5. CASE LogTest(t)
  <2>1. TableOK' /\ QueueOK' /\ CallOK'
    BY <1>0, <1>5 DEF LogTest, TableOK, QueueOK, CallOK, tableVars
  <2>2. LockOK'
    BY <1>0, <1>5, Consts DEF LogTest, LockOK, CallOK, Holding, tableVars
  <2> QED BY <1>a, <2>1, <2>2
<1>6. CASE LogSend(t)
  <2>1. QueueOK'
    <3>1. queue \in Seq(Values) /\ Len(queue) <= Entries /\ Len(queue) # Entries
          /\ queue' = Append(queue, entry[t]) /\ entry[t] \in Values
      BY <1>6, Consts DEF LogSend, Full, QueueOK, CallOK
    <3> QED BY <3>1, <1>b DEF QueueOK
  <2>2. TableOK' /\ CallOK'
    BY <1>0, <1>6 DEF LogSend, TableOK, CallOK, tableVars
  <2>3. LockOK'
    BY <1>0, <1>6, Consts DEF LogSend, LockOK, CallOK, Holding, tableVars
  <2> QED BY <1>a, <2>1, <2>2, <2>3
<1> QED BY <1>1, <1>2, <1>3, <1>4, <1>5, <1>6 DEF LogStep

LEMMA TypePut ==
  ASSUME LogAssumption, TypeInv, PutStep
  PROVE  TypeInv'
<1> USE DEF TypeInv
<1>0. UNCHANGED <<putchar, cur_entry, overflow, text, mutex, pc, msg, entry, logged, srv,
                  flush_i, client, opens, others>>
  BY DEF PutStep, PutReceive, PutChar, PutMark, tableVars, callVars, srvVars
<1>a. CallOK' /\ LockOK'
  BY <1>0 DEF CallOK, LockOK, Holding
<1>1. CASE PutReceive
  <2>1. queue \in Seq(Values) /\ queue # <<>> /\ queue' = Tail(queue) /\ Len(queue) <= Entries
    BY <1>1 DEF PutReceive, QueueOK
  <2>2. QueueOK' /\ Head(queue) \in Values
    BY <2>1, Consts DEF QueueOK
  <2>3. PutOK'
    BY <1>1, <2>2, Consts DEF PutReceive, PutOK
  <2>4. TableOK' /\ SrvOK' /\ PrintedOK'
    BY <1>0, <1>1 DEF PutReceive, TableOK, SrvOK, PrintedOK, tableVars, historyVars
  <2> QED BY <1>a, <2>2, <2>3, <2>4
<1>2. CASE PutChar
  <2>1. put \in [at : {"receive", "char", "mark"}, entry : Values, left : 0..MsgLen]
        /\ put.left >= 1 /\ put.left \in Nat
        /\ put' = [put EXCEPT !.left = @ - 1, !.at = IF put.left = 1 THEN "mark" ELSE "char"]
    BY <1>2, Consts DEF PutChar, PutOK
  <2>2. PutOK'
    <3>1. put' = [at |-> IF put.left = 1 THEN "mark" ELSE "char", entry |-> put.entry,
                  left |-> put.left - 1]
      BY <2>1
    <3>2. put.left - 1 \in 0..MsgLen /\ put.entry \in Values
      BY <2>1, Consts
    <3>3. put.left # 1 => put.left - 1 >= 1
      BY <2>1
    <3> QED BY <3>1, <3>2, <3>3 DEF PutOK
  <2>3. tx' \in 0..TxRoom
    BY <1>2, Consts DEF PutChar, SrvOK
  <2>4. SrvOK'
    BY <1>0, <2>3 DEF SrvOK
  <2>5. \A e : e \in Slots => text[e] \in 0..logged
    BY DEF TableOK
  <2>6. logged \in Nat /\ printed \in Seq(0..logged) /\ 0 \in 0..logged
    BY DEF PrintedOK
  <2>7. PrintedOK'
    <3>1. printed' = printed \/ \E x \in 0..logged : printed' = Append(printed, x)
      BY <1>2, <2>5, <2>6 DEF PutChar
    <3>2. \A x \in 0..logged : Append(printed, x) \in Seq(0..logged)
      BY <2>6
    <3> QED BY <1>0, <2>6, <3>1, <3>2 DEF PrintedOK
  <2>8. TableOK' /\ QueueOK'
    BY <1>0, <1>2 DEF PutChar, TableOK, QueueOK, tableVars
  <2> QED BY <1>a, <2>2, <2>4, <2>7, <2>8
<1>3. CASE PutMark
  <2>1. PutOK'
    BY <1>3 DEF PutMark, PutOK
  <2>2. TableOK'
    BY <1>0, <1>3 DEF PutMark, TableOK
  <2>3. QueueOK' /\ SrvOK' /\ PrintedOK'
    BY <1>0, <1>3 DEF PutMark, QueueOK, SrvOK, PrintedOK, historyVars
  <2> QED BY <1>a, <2>1, <2>2, <2>3
<1> QED BY <1>1, <1>2, <1>3 DEF PutStep

\* A step on which the server fails calls LOG or does not.
SrvFailCall == (SrvLogError \/ SrvOtherError \/ SrvReturnError) /\ Call(Server)
SrvFailQuiet == ((SrvLogError \/ SrvOtherError) /\ UNCHANGED callVars) \/ SrvHang

LEMMA FailSplit ==
  ASSUME SrvFails
  PROVE  SrvFailCall \/ SrvFailQuiet
BY DEF SrvFails, SrvFailCall, SrvFailQuiet, SrvLogError, SrvOtherError, SrvReturnError, LogSLError

LEMMA FailCallKeeps ==
  ASSUME SrvFailCall
  PROVE  /\ Call(Server) /\ ~InLog(Server) /\ srv # "flush"
         /\ srv' \in {"sock_error", "error", "update_error", "dead"}
         /\ UNCHANGED <<putchar, cur_entry, overflow, text, flags, mutex, queue, put, flush_i,
                        client, opens, others, printed, overtaken>>
BY DEF SrvFailCall, SrvLogError, SrvOtherError, SrvReturnError, SrvReady, tableVars, historyVars

LEMMA FailCallTx ==
  ASSUME LogAssumption, SrvOK, SrvFailCall
  PROVE  tx' \in 0..TxRoom
BY Consts DEF SrvFailCall, SrvLogError, SrvOtherError, SrvReturnError, SrvOK

\* The server's steps that are calls of LOG.
LEMMA TypeSrvCall ==
  ASSUME LogAssumption, TypeInv, SrvLogOpened \/ SrvLogGone \/ SrvOthersLog \/ SrvFailCall
  PROVE  TypeInv'
<1> USE DEF TypeInv
<1>1. Server \in Callers /\ pc[Server] = "idle" /\ Call(Server) /\ srv # "flush" /\ srv' # "flush"
  BY Consts, FailCallKeeps DEF SrvLogOpened, SrvLogGone, SrvOthersLog, SrvReady, InLog
<1>2. UNCHANGED <<putchar, cur_entry, overflow, text, flags, mutex, printed, queue, put, flush_i>>
  BY FailCallKeeps DEF SrvLogOpened, SrvLogGone, SrvOthersLog, tableVars, historyVars
<1>3. TableOK' /\ CallOK' /\ PrintedOK' /\ LockOK'
  BY <1>1, <1>2, CallType
<1>4. tx' \in 0..TxRoom
  BY Consts, FailCallTx DEF SrvLogOpened, SrvLogGone, SrvOthersLog, SrvOK
<1>5. SrvOK'
  BY <1>2, <1>4, FailCallKeeps DEF SrvLogOpened, SrvLogGone, SrvOthersLog, SrvOK
<1>6. QueueOK' /\ PutOK'
  BY <1>2 DEF QueueOK, PutOK
<1> QED BY <1>3, <1>5, <1>6

\* Those that only move it on, or take characters away.
SrvIdle == SrvNoClient \/ SrvCarry \/ SrvGoneDone \/ SrvOthersQuiet \/ SrvTick \/ SrvFailQuiet

LEMMA SrvIdleKeeps ==
  ASSUME SrvIdle
  PROVE  /\ UNCHANGED <<putchar, cur_entry, overflow, text, flags, mutex, queue, pc, msg, entry,
                        logged, put, flush_i, client, opens, others, printed, overtaken>>
         /\ srv # "flush" /\ srv' \in {"log", "others", "delay", "sock_error", "error", "stuck"}
BY DEF SrvIdle, SrvNoClient, SrvCarry, SrvGoneDone, SrvOthersQuiet, SrvTick, SrvFailQuiet, SrvHang,
       SrvLogError, SrvOtherError, SrvReady, tableVars, callVars, historyVars

LEMMA TypeSrvIdle ==
  ASSUME LogAssumption, TypeInv, SrvIdle
  PROVE  TypeInv'
<1> USE DEF TypeInv
<1>1. tx' \in 0..TxRoom
  BY Consts DEF SrvIdle, SrvNoClient, SrvCarry, SrvGoneDone, SrvOthersQuiet, SrvTick, SrvFailQuiet,
            SrvHang, SrvLogError, SrvOtherError, SrvOK
<1>2. SrvOK'
  BY <1>1, SrvIdleKeeps DEF SrvOK
<1>3. TableOK' /\ QueueOK' /\ CallOK' /\ PutOK' /\ PrintedOK'
  BY SrvIdleKeeps DEF TableOK, QueueOK, CallOK, PutOK, PrintedOK
<1>4. LockOK'
  BY SrvIdleKeeps DEF LockOK, Holding
<1> QED BY <1>2, <1>3, <1>4

LEMMA TypeSrv ==
  ASSUME LogAssumption, TypeInv, SrvStep
  PROVE  TypeInv'
<1> USE DEF TypeInv
<1>1. CASE SrvStartPutchar
  <2>1. UNCHANGED <<cur_entry, overflow, text, flags, queue, pc, msg, entry, logged, put, client,
                    opens, others, tx, printed>>
    BY <1>1 DEF SrvStartPutchar, tableVars, callVars, historyVars
  <2>2. TableOK' /\ SrvOK'
    BY <1>1, <2>1, Consts DEF SrvStartPutchar, TableOK, SrvOK
  <2>3. QueueOK' /\ CallOK' /\ PutOK' /\ PrintedOK'
    BY <2>1 DEF QueueOK, CallOK, PutOK, PrintedOK
  <2>4. LockOK'
    BY <1>1, <2>1, Consts DEF SrvStartPutchar, SrvReady, InLog, LockOK, Holding
  <2> QED BY <2>2, <2>3, <2>4
<1>2. CASE SrvFlush
  <2>1. UNCHANGED <<putchar, cur_entry, overflow, text, pc, msg, entry, logged, put, client,
                    opens, others, tx, printed>>
    BY <1>2 DEF SrvFlush, callVars, historyVars
  <2>2. flags' \in [Slots -> SUBSET {"VALID", "FLUSHED"}]
    BY <1>2 DEF SrvFlush, TableOK, SrvOK
  <2>3. TableOK'
    BY <1>2, <2>1, <2>2 DEF SrvFlush, TableOK
  <2>4. SrvOK'
    BY <1>2, <2>1, Consts DEF SrvFlush, SrvOK, LastEntry
  <2>5. QueueOK'
    <3>1. queue \in Seq(Values) /\ Len(queue) <= Entries /\ flush_i \in Values
      BY Consts DEF QueueOK, SrvOK
    <3>2. queue' = queue \/ (Len(queue) # Entries /\ queue' = Append(queue, flush_i))
      BY <1>2 DEF SrvFlush, Full
    <3> QED BY <3>1, <3>2, Consts DEF QueueOK
  <2>6. CallOK' /\ PutOK' /\ PrintedOK'
    BY <2>1 DEF CallOK, PutOK, PrintedOK
  <2>7. LockOK'
    BY <1>2, <2>1, Consts DEF SrvFlush, SrvReady, LockOK, Holding
  <2> QED BY <2>3, <2>4, <2>5, <2>6, <2>7
<1> QED BY <1>1, <1>2, TypeSrvCall, TypeSrvIdle, FailSplit DEF SrvStep, SrvIdle

LEMMA TypeNext ==
  ASSUME LogAssumption, TypeInv, [Next]_vars
  PROVE  TypeInv'
<1>1. CASE ClientOpen \/ ClientClose
  <2>1. UNCHANGED <<putchar, cur_entry, overflow, text, flags, mutex, queue, pc, msg, entry,
                    logged, put, srv, flush_i, others, tx, printed>>
    BY <1>1 DEF ClientOpen, ClientClose, tableVars, callVars, historyVars
  <2>2. client' \in {"knocking", "closing"} /\ opens' \in Nat
    BY <1>1 DEF ClientOpen, ClientClose, TypeInv, SrvOK
  <2> QED BY <2>1, <2>2 DEF TypeInv, TableOK, QueueOK, CallOK, PutOK, SrvOK, PrintedOK, LockOK,
                            Holding
<1>2. CASE UNCHANGED vars
  BY <1>2 DEF vars, tableVars, callVars, srvVars, historyVars, TypeInv, TableOK, QueueOK, CallOK,
              PutOK, SrvOK, PrintedOK, LockOK, Holding
<1> QED BY <1>1, <1>2, TypeCall, TypeLog, TypePut, TypeSrv DEF Next

LEMMA TypeInvariant == Spec => []TypeInv
<1>1. Init => TypeInv
  BY LogAssumption, TypeInit
<1>2. TypeInv /\ [Next]_vars => TypeInv'
  BY LogAssumption, TypeNext
<1> QED BY <1>1, <1>2, PTL DEF Spec

\* Every variable of the log, its queue and its tasks keeps its type: the queue never
\* holds more than the table has entries, and no entry outside the table is written.
THEOREM TypeCorrect == Spec => []TypeOK
<1>1. TypeInv => TypeOK
  BY DEF TypeInv, TableOK, QueueOK, CallOK, PutOK, SrvOK, PrintedOK, TypeOK, Values
<1> QED BY <1>1, TypeInvariant, PTL

\* A message is added to the table by one caller at a time, and never while the
\* server flushes the table to a new client (mem_log_state.mutex).
THEOREM AddCorrect == Spec => []AddExclusive
<1>1. LogAssumption /\ TypeInv => AddExclusive
  BY Consts DEF TypeInv, LockOK, Holding, AddExclusive
<1> QED BY <1>1, TypeInvariant, LogAssumption, PTL

-----------------------------------------------------------------------------
(* The note of an overflow, once sent, is not lost.                        *)

\* The note was printed when the put task has sent its first character.
NoteOK ==
  put.entry = OverflowEntry /\ (put.at = "mark" \/ (put.at = "char" /\ put.left < MsgLen))
    => \E k \in 1..Len(printed) : printed[k] = 0

Noted == overflow \/ NoteSent
DropOK == \A t \in Callers : pc[t] = "write" /\ flags[cur_entry] = {"VALID"} => Noted

DropInv == NoteOK /\ DropOK

\* What has been printed stays printed.
LEMMA PrintedGrows ==
  ASSUME TypeInv, [Next]_vars
  PROVE  /\ Len(printed) \in Nat /\ Len(printed') \in Nat /\ Len(printed) <= Len(printed')
         /\ \A k \in 1..Len(printed) : printed'[k] = printed[k]
<1>1. printed \in Seq(0..logged)
  BY DEF TypeInv, PrintedOK
<1>2. printed' = printed \/ \E x \in 0..logged : printed' = Append(printed, x)
  <2>1. CASE PutChar
    <3>1. \A e \in Slots : text[e] \in 0..logged
      BY DEF TypeInv, TableOK
    <3>2. 0 \in 0..logged
      BY DEF TypeInv, PrintedOK
    <3> QED BY <2>1, <3>1, <3>2 DEF PutChar
  <2>2. CASE ~PutChar
    BY <2>2, SrvIdleKeeps, FailSplit, FailCallKeeps DEF Next, vars, LogCall, LogStep, LogTake, LogNote, LogWrite, LogReturn, LogTest,
       LogSend, PutStep, PutReceive, PutMark, SrvStep, SrvIdle, SrvLogOpened, SrvStartPutchar, SrvFlush,
       SrvLogGone, SrvOthersLog, ClientOpen, ClientClose, historyVars
  <2> QED BY <2>1, <2>2
<1> QED BY <1>1, <1>2

\* The queue changes at its ends.
LEMMA QueueStep ==
  ASSUME TypeInv, [Next]_vars
  PROVE  \/ queue' = queue
         \/ \E x \in Values : queue' = Append(queue, x) /\ UNCHANGED put
         \/ PutReceive
<1>1. \A t \in Callers : entry[t] \in Values /\ flush_i \in Values /\ OverflowEntry \in Values
  BY Consts, LogAssumption DEF TypeInv, CallOK, SrvOK
<1>2. ASSUME NEW t \in Callers, LogStep(t)
      PROVE  queue' = queue \/ \E x \in Values : queue' = Append(queue, x) /\ UNCHANGED put
  BY <1>1, <1>2 DEF LogStep, LogTake, LogNote, LogWrite, LogReturn, LogTest, LogSend
<1>3. CASE SrvFlush
  BY <1>1, <1>3, Consts, LogAssumption DEF SrvFlush
<1>4. CASE SrvStep /\ ~SrvFlush
  BY <1>4, SrvIdleKeeps, FailSplit, FailCallKeeps DEF SrvStep, SrvIdle, SrvLogOpened, SrvStartPutchar, SrvLogGone, SrvOthersLog
<1> QED
  BY <1>2, <1>3, <1>4 DEF Next, vars, LogCall, PutStep, PutChar, PutMark, ClientOpen, ClientClose

\* Only the put task's steps change what it has in hand.
LEMMA PutKept ==
  ASSUME [Next]_vars, ~PutStep
  PROVE  put' = put /\ printed' = printed
BY SrvIdleKeeps, FailSplit, FailCallKeeps DEF Next, vars, LogCall, LogStep, LogTake, LogNote, LogWrite, LogReturn, LogTest,
   LogSend, SrvStep, SrvIdle, SrvLogOpened, SrvStartPutchar, SrvFlush,
   SrvLogGone, SrvOthersLog, ClientOpen, ClientClose, historyVars

LEMMA NoteStays ==
  ASSUME LogAssumption, TypeInv, NoteOK, [Next]_vars, NoteSent
  PROVE  NoteSent'
<1>1. CASE \E k \in 1..Len(printed) : printed[k] = 0
  BY <1>1, PrintedGrows DEF NoteSent
<1>2. CASE \E k \in 1..Len(queue) : queue[k] = OverflowEntry
  <2>1. PICK k \in 1..Len(queue) : queue[k] = OverflowEntry
    BY <1>2
  <2>2. queue \in Seq(Values) /\ Len(queue) \in Nat
    BY DEF TypeInv, QueueOK
  <2>3. CASE queue' = queue
    BY <2>1, <2>3 DEF NoteSent
  <2>4. ASSUME NEW x \in Values, queue' = Append(queue, x) PROVE NoteSent'
    <3>1. Len(queue') = Len(queue) + 1 /\ queue'[k] = queue[k]
      BY <2>1, <2>2, <2>4
    <3>2. k \in 1..Len(queue')
      BY <2>1, <2>2, <3>1
    <3> QED BY <2>1, <3>1, <3>2 DEF NoteSent
  <2>5. CASE PutReceive
    <3>1. queue' = Tail(queue) /\ put'.at = "char" /\ put'.entry = Head(queue)
      BY <2>5 DEF PutReceive
    <3>2. CASE k = 1
      BY <2>1, <2>2, <3>1, <3>2 DEF NoteSent
    <3>3. CASE k # 1
      <4>1. k - 1 \in 1..Len(queue') /\ queue'[k - 1] = queue[k]
        BY <2>1, <2>2, <3>1, <3>3
      <4> QED BY <2>1, <4>1 DEF NoteSent
    <3> QED BY <3>2, <3>3
  <2> QED BY <2>3, <2>4, <2>5, QueueStep
<1>3. CASE put.at # "receive" /\ put.entry = OverflowEntry
  <2>1. CASE PutStep
    <3>1. CASE PutReceive
      BY <1>3, <3>1 DEF PutReceive
    <3>2. CASE PutChar
      BY <1>3, <3>2 DEF PutChar, NoteSent, TypeInv, PutOK
    <3>3. CASE PutMark
      <4>1. put.at = "mark" /\ put.entry = OverflowEntry
        BY <1>3, <3>3 DEF PutMark
      <4>2. \E k \in 1..Len(printed) : printed[k] = 0
        BY <4>1 DEF NoteOK
      <4> QED BY <4>2, PrintedGrows DEF NoteSent
    <3> QED BY <2>1, <3>1, <3>2, <3>3 DEF PutStep
  <2>2. CASE ~PutStep
    BY <1>3, <2>2, PutKept DEF NoteSent
  <2> QED BY <2>1, <2>2
<1> QED BY <1>1, <1>2, <1>3 DEF NoteSent

LEMMA NoteNext ==
  ASSUME LogAssumption, TypeInv, NoteOK, [Next]_vars
  PROVE  NoteOK'
<1>0. (\E k \in 1..Len(printed) : printed[k] = 0) => (\E k \in 1..Len(printed') : printed'[k] = 0)
  BY PrintedGrows
<1>1. CASE PutReceive
  BY <1>1, Consts DEF PutReceive, NoteOK
<1>2. CASE PutChar
  <2>1. put \in [at : {"receive", "char", "mark"}, entry : Values, left : 0..MsgLen]
        /\ put' = [put EXCEPT !.left = @ - 1, !.at = IF put.left = 1 THEN "mark" ELSE "char"]
    BY <1>2 DEF PutChar, TypeInv, PutOK
  <2>2. put'.entry = put.entry
    BY <2>1
  <2>3. CASE put.left < MsgLen
    BY <1>0, <1>2, <2>2, <2>3 DEF PutChar, NoteOK
  <2>4. CASE put.left >= MsgLen /\ put.entry = OverflowEntry
    <3>1. printed \in Seq(0..logged) /\ printed' = Append(printed, 0) /\ 0 \in 0..logged
      BY <1>2, <2>1, <2>4, Consts DEF PutChar, TypeInv, PrintedOK
    <3>2. Len(printed') \in 1..Len(printed') /\ printed'[Len(printed')] = 0
      BY <3>1
    <3> QED BY <3>2 DEF NoteOK
  <2>5. CASE put.entry # OverflowEntry
    BY <2>2, <2>5 DEF NoteOK
  <2> QED BY <2>1, <2>3, <2>4, <2>5, Consts
<1>3. CASE PutMark
  BY <1>3 DEF PutMark, NoteOK, TypeInv, PutOK
<1>4. CASE ~PutStep
  BY <1>0, <1>4, PutKept DEF NoteOK
<1> QED BY <1>1, <1>2, <1>3, <1>4 DEF PutStep

\* Flags are only added to, but by a caller that writes.
LEMMA FlagsStep ==
  ASSUME [Next]_vars, TypeInv, \A t \in Callers : ~LogWrite(t),
         NEW i \in Slots
  PROVE  /\ text' = text
         /\ flags'[i] = flags[i] \/ flags'[i] = flags[i] \cup {"FLUSHED"}
<1>1. CASE PutMark
  BY <1>1 DEF PutMark, TypeInv, TableOK
<1>2. CASE SrvFlush
  BY <1>2 DEF SrvFlush, TypeInv, TableOK
<1>3. CASE ~PutMark /\ ~SrvFlush
  <2>1. text' = text /\ flags' = flags
    BY <1>3, SrvIdleKeeps, FailSplit, FailCallKeeps DEF Next, vars, tableVars, LogCall, LogStep, LogTake, LogNote, LogReturn, LogTest,
       LogSend, PutStep, PutReceive, PutChar, SrvStep, SrvIdle, SrvLogOpened, SrvStartPutchar,
       SrvLogGone, SrvOthersLog, ClientOpen, ClientClose
  <2> QED BY <2>1
<1>4. SrvFlush => text' = text
  BY DEF SrvFlush
<1>5. PutMark => text' = text
  BY DEF PutMark
<1> QED BY <1>1, <1>2, <1>3, <1>4, <1>5

\* Somebody else than the caller with the mutex moves neither the place nor the note.
LEMMA WriterAlone ==
  ASSUME LogAssumption, TypeInv, [Next]_vars, NEW t \in Callers, pc[t] = "write",
         \A u \in Callers : ~LogWrite(u)
  PROVE  cur_entry' = cur_entry /\ overflow' = overflow
<1>1. mutex = t /\ mutex # Nobody
  BY Consts DEF TypeInv, LockOK, Holding
<1>2. ASSUME NEW u \in Callers, LogStep(u)
      PROVE  cur_entry' = cur_entry /\ overflow' = overflow
  <2>1. ~LogTake(u)
    BY <1>1 DEF LogTake
  <2>2. ~LogNote(u)
    BY <1>1 DEF LogNote, Move, TypeInv, LockOK, Holding
  <2> QED BY <1>2, <2>1, <2>2 DEF LogStep, LogReturn, LogTest, LogSend, tableVars
<1> QED BY <1>2, SrvIdleKeeps, FailSplit, FailCallKeeps DEF Next, vars, tableVars, LogCall, PutStep, PutReceive, PutChar, PutMark,
   SrvStep, SrvIdle, SrvLogOpened, SrvStartPutchar, SrvFlush, SrvLogGone, SrvOthersLog, ClientOpen,
   ClientClose

\* How a caller comes to write.
LEMMA ToWrite ==
  ASSUME LogAssumption, TypeInv, [Next]_vars, NEW t \in Callers, pc'[t] = "write"
  PROVE  pc[t] = "write" \/ LogTake(t) \/ LogNote(t)
<1>1. \A u \in Callers : LogCall(u) \/ SrvLogOpened \/ SrvLogGone \/ SrvOthersLog \/ SrvFailCall
          => \E v \in Callers : pc' = [pc EXCEPT ![v] = "take"]
  BY Consts, FailCallKeeps DEF LogCall, Call, SrvLogOpened, SrvLogGone, SrvOthersLog
<1>2. ASSUME NEW u \in Callers, LogStep(u)
      PROVE  pc[t] = "write" \/ LogTake(t) \/ LogNote(t)
  BY <1>2 DEF LogStep, LogTake, LogNote, LogWrite, LogReturn, LogTest, LogSend, Move, TypeInv, CallOK
<1>3. CASE \E v \in Callers : pc' = [pc EXCEPT ![v] = "take"]
  BY <1>3 DEF TypeInv, CallOK
<1>4. CASE UNCHANGED pc
  BY <1>4
<1> QED BY <1>1, <1>2, <1>3, <1>4, SrvIdleKeeps, Consts, FailSplit
  DEF Next, vars, callVars, PutStep, PutReceive, PutChar, PutMark, SrvStep, SrvIdle, SrvStartPutchar, SrvFlush, ClientOpen, ClientClose

LEMMA DropNext ==
  ASSUME LogAssumption, TypeInv, DropInv, [Next]_vars
  PROVE  DropInv'
<1>1. NoteOK'
  BY NoteNext DEF DropInv
<1>2. NoteSent => NoteSent'
  BY NoteStays DEF DropInv
<1>3. ASSUME NEW t \in Callers, pc'[t] = "write", flags'[cur_entry'] = {"VALID"}
      PROVE  Noted'
  <2>1. CASE LogTake(t)
    <3>1. cur_entry' = AddEntry /\ flags' = flags /\ pc[t] = "take"
      BY <2>1 DEF LogTake, Move
    <3>2. "VALID" \in flags[AddEntry] /\ "FLUSHED" \notin flags[AddEntry]
      BY <1>3, <3>1
    <3>3. overflow' = (overflow \/ ("VALID" \in flags[AddEntry] /\ "FLUSHED" \notin flags[AddEntry]))
      BY <2>1 DEF LogTake
    <3>4. overflow'
      BY <3>2, <3>3, Zenon
    <3> QED BY <3>4 DEF Noted
  <2>2. CASE LogNote(t)
    <3>1. queue \in Seq(Values) /\ queue' = Append(queue, OverflowEntry) /\ OverflowEntry \in Values
      BY <2>2, Consts DEF LogNote, TypeInv, QueueOK
    <3>2. Len(queue') \in 1..Len(queue') /\ queue'[Len(queue')] = OverflowEntry
      BY <3>1
    <3> QED BY <3>2 DEF Noted, NoteSent
  <2>3. CASE pc[t] = "write"
    <3>1. mutex = t
      BY <2>3 DEF TypeInv, LockOK, Holding
    <3>2. \A u \in Callers : ~LogWrite(u)
      <4>1. SUFFICES ASSUME NEW u \in Callers, LogWrite(u) PROVE FALSE
        OBVIOUS
      <4>2. pc[u] = "write" /\ pc' = [pc EXCEPT ![u] = "gave"]
        BY <4>1 DEF LogWrite, Move
      <4>3. u = t
        BY <3>1, <4>2 DEF TypeInv, LockOK, Holding
      <4> QED BY <1>3, <4>2, <4>3 DEF TypeInv, CallOK
    <3>3. cur_entry' = cur_entry /\ overflow' = overflow
      BY <2>3, <3>2, WriterAlone
    <3>4. cur_entry \in Slots
      BY <2>3, Consts DEF TypeInv, LockOK, Holding, TableOK
    <3>5. flags'[cur_entry] = flags[cur_entry] \/ flags'[cur_entry] = flags[cur_entry] \cup {"FLUSHED"}
      BY <3>2, <3>4, FlagsStep
    <3>6. flags[cur_entry] = {"VALID"}
      BY <1>3, <3>3, <3>5
    <3> QED BY <1>2, <2>3, <3>3, <3>6 DEF DropInv, DropOK, Noted
  <2> QED BY <1>3, <2>1, <2>2, <2>3, ToWrite
<1> QED BY <1>1, <1>3 DEF DropInv, DropOK

LEMMA DropStep ==
  ASSUME LogAssumption, TypeInv, DropInv, [Next]_vars, NEW i \in Slots,
         flags[i] = {"VALID"}, text'[i] # text[i]
  PROVE  overflow \/ NoteSent
<1>1. PICK t \in Callers : LogWrite(t)
  BY FlagsStep
<1>2. pc[t] = "write" /\ text' = [text EXCEPT ![cur_entry] = msg[t]]
  BY <1>1 DEF LogWrite, Move
<1>3. i = cur_entry
  BY <1>2 DEF TypeInv, TableOK
<1> QED BY <1>2, <1>3 DEF DropInv, DropOK, Noted

LEMMA DropInvariant == Spec => [](TypeInv /\ DropInv)
<1>1. Init => DropInv
  BY DEF Init, DropInv, NoteOK, DropOK
<1>2. TypeInv /\ DropInv /\ [Next]_vars => DropInv'
  BY LogAssumption, DropNext
<1> QED BY <1>1, <1>2, TypeInvariant, PTL DEF Spec

\* No message that nobody has seen is overwritten, but with the overflow recorded for
\* a later client, or the note sent to the present one (mem_log_add, log.c:205).
THEOREM DropCorrect == Spec => DropIsNoted
<1> DEFINE Dropped == \E i \in Slots : flags[i] = {"VALID"} /\ text'[i] # text[i]
<1>1. TypeInv /\ DropInv /\ [Next]_vars
        => [\A i \in Slots : (flags[i] = {"VALID"} /\ text'[i] # text[i]) => overflow \/ NoteSent]_vars
  BY LogAssumption, DropStep
<1> QED BY <1>1, DropInvariant, PTL DEF Spec, DropIsNoted

-----------------------------------------------------------------------------
(* Nothing is lost until the table wraps.  Until then the entries below    *)
(* cur_entry are written, once each, and there are as many as calls that   *)
(* got so far; each is in the table for the next flush, or on its way.     *)

Pending == {t \in Callers : pc[t] \in {"take", "note", "write"}}
Queued(i) == \E k \in 1..Len(queue) : queue[k] = i
InHand(i) == put.at = "char" /\ put.entry = i
\* Message x of entry i is on its way out, or there.
On(i, x) == Printed(x) \/ Queued(i) \/ InHand(i)

Counted == cur_entry + Cardinality(Pending) = logged
Fresh == \A i \in Slots : i >= cur_entry => flags[i] = {}
Kept == \A i \in Slots : i < cur_entry => flags[i] = {"VALID"} \/ On(i, text[i])
Stored ==
  \A m \in 1..logged :
    \/ \E t \in Pending : msg[t] = m
    \/ \E i \in Slots : i < cur_entry /\ text[i] = m
Below ==
  /\ \A i \in Slots : Queued(i) => i < cur_entry
  /\ put.at # "receive" /\ put.entry \in Slots => put.entry < cur_entry
  /\ \A t \in Callers : pc[t] \in {"test", "send"} => entry[t] < cur_entry
\* What the put task marks, it has printed.
MarkOK ==
  put.entry \in Slots /\ (put.at = "mark" \/ (put.at = "char" /\ put.left < MsgLen))
    => Printed(text[put.entry])

NotLost == Counted /\ Fresh /\ Kept /\ Stored /\ Below /\ MarkOK
LossInv == Wrapped \/ NotLost

LEMMA PendingFinite ==
  ASSUME LogAssumption
  PROVE  IsFiniteSet(Pending) /\ Cardinality(Pending) \in Nat
<1>1. IsFiniteSet(Callers)
  BY Consts, FS_AddElement DEF LogAssumption
<1>2. Pending \subseteq Callers
  BY DEF Pending
<1> QED BY <1>1, <1>2, FS_Subset, FS_CardinalityType

\* There is room while somebody is about to write.
LEMMA Room ==
  ASSUME LogAssumption, TypeInv, Counted, ~Wrapped, NEW t \in Pending
  PROVE  cur_entry < Entries
<1>1. Cardinality(Pending) # 0
  BY PendingFinite, FS_EmptySet
<1> QED BY <1>1, PendingFinite, Consts DEF Counted, Wrapped, TypeInv, TableOK, PrintedOK

LEMMA PrintedStays ==
  ASSUME TypeInv, [Next]_vars, NEW x, Printed(x)
  PROVE  Printed(x)'
BY PrintedGrows DEF Printed

LEMMA QueuedOn ==
  ASSUME LogAssumption, TypeInv, [Next]_vars, NEW i \in Slots, Queued(i)
  PROVE  Queued(i)' \/ InHand(i)'
<1>1. PICK k \in 1..Len(queue) : queue[k] = i
  BY DEF Queued
<1>2. queue \in Seq(Values) /\ Len(queue) \in Nat
  BY DEF TypeInv, QueueOK
<1>3. CASE queue' = queue
  BY <1>1, <1>3 DEF Queued
<1>4. ASSUME NEW x \in Values, queue' = Append(queue, x) PROVE Queued(i)'
  <2>1. Len(queue') = Len(queue) + 1 /\ queue'[k] = queue[k]
    BY <1>1, <1>2, <1>4
  <2>2. k \in 1..Len(queue')
    BY <1>1, <1>2, <2>1
  <2> QED BY <1>1, <2>1, <2>2 DEF Queued
<1>5. CASE PutReceive
  <2>1. queue' = Tail(queue) /\ put'.at = "char" /\ put'.entry = Head(queue)
    BY <1>5 DEF PutReceive
  <2>2. CASE k = 1
    BY <1>1, <1>2, <2>1, <2>2 DEF InHand
  <2>3. CASE k # 1
    <3>1. k - 1 \in 1..Len(queue') /\ queue'[k - 1] = queue[k]
      BY <1>1, <1>2, <2>1, <2>3
    <3> QED BY <1>1, <3>1 DEF Queued
  <2> QED BY <2>2, <2>3
<1> QED BY <1>3, <1>4, <1>5, QueueStep

\* The put task prints the message of the entry it has in hand.
LEMMA Prints ==
  ASSUME LogAssumption, TypeInv, PutChar, MarkOK, put.entry \in Slots, [Next]_vars
  PROVE  /\ put'.entry = put.entry
         /\ \E k \in 1..Len(printed') : printed'[k] = text[put.entry]
<1>1. put \in [at : {"receive", "char", "mark"}, entry : Values, left : 0..MsgLen]
      /\ put' = [put EXCEPT !.left = @ - 1, !.at = IF put.left = 1 THEN "mark" ELSE "char"]
      /\ put.at = "char"
  BY DEF PutChar, TypeInv, PutOK
<1>2. put'.entry = put.entry
  BY <1>1
<1>3. CASE put.left < MsgLen
  <2>1. Printed(text[put.entry])
    BY <1>1, <1>3 DEF MarkOK
  <2> QED BY <1>2, <2>1, PrintedGrows DEF Printed
<1>4. CASE put.left >= MsgLen
  <2>1. printed \in Seq(0..logged) /\ text[put.entry] \in 0..logged
    BY DEF TypeInv, PrintedOK, TableOK
  <2>2. printed' = Append(printed, text[put.entry])
    BY <1>1, <1>4, Consts DEF PutChar
  <2>3. Len(printed') \in 1..Len(printed') /\ printed'[Len(printed')] = text[put.entry]
    BY <2>1, <2>2
  <2> QED BY <1>2, <2>3
<1> QED BY <1>1, <1>3, <1>4, Consts

LEMMA OnStays ==
  ASSUME LogAssumption, TypeInv, [Next]_vars, MarkOK, NEW i \in Slots, NEW x, x = text[i],
         On(i, x)
  PROVE  On(i, x)'
<1>1. CASE Printed(x)
  BY <1>1, PrintedStays DEF On
<1>2. CASE Queued(i)
  BY <1>2, QueuedOn DEF On
<1>3. CASE InHand(i)
  <2>1. CASE PutStep
    <3>1. ~PutReceive /\ ~PutMark
      BY <1>3 DEF PutReceive, PutMark, InHand
    <3>2. PutChar
      BY <2>1, <3>1 DEF PutStep
    <3> QED BY <1>3, <3>2, Prints DEF InHand, On, Printed
  <2>2. CASE ~PutStep
    BY <1>3, <2>2, PutKept DEF InHand, On
  <2> QED BY <2>1, <2>2
<1> QED BY <1>1, <1>2, <1>3 DEF On

-----------------------------------------------------------------------------
LEMMA LossInit == ASSUME LogAssumption, Init PROVE LossInv
<1>1. Pending = {}
  BY DEF Init, Pending
<1>2. cur_entry = 0 /\ logged = 0 /\ queue = <<>> /\ put.at = "receive"
      /\ flags = [i \in Slots |-> {}] /\ \A t \in Callers : pc[t] = "idle"
  BY DEF Init
<1>3. Counted
  BY <1>1, <1>2, FS_EmptySet DEF Counted
<1>4. Fresh /\ Kept /\ Stored
  BY <1>2, Consts DEF Fresh, Kept, Stored
<1>5. Below /\ MarkOK
  BY <1>2 DEF Below, Queued, MarkOK
<1> QED BY <1>3, <1>4, <1>5 DEF LossInv, NotLost

\* A call of LOG: one more message, and one more to write it.
LEMMA LossCall ==
  ASSUME LogAssumption, TypeInv, NotLost, [Next]_vars, NEW t \in Callers, Call(t), pc[t] = "idle",
         UNCHANGED <<cur_entry, text, flags, queue, put, printed>>
  PROVE  NotLost'
<1>1. logged' = logged + 1 /\ logged \in Nat /\ cur_entry \in Nat
      /\ msg' = [msg EXCEPT ![t] = logged + 1] /\ pc' = [pc EXCEPT ![t] = "take"] /\ entry' = entry
      /\ pc \in [Callers -> {"idle", "take", "note", "write", "gave", "test", "send"}]
      /\ msg \in [Callers -> 0..logged]
  BY Consts DEF Call, TypeInv, PrintedOK, TableOK, CallOK
<1>2. Pending' = Pending \cup {t} /\ t \notin Pending
  BY <1>1 DEF Pending
<1>3. Counted'
  <2>1. Cardinality(Pending') = Cardinality(Pending) + 1
    BY <1>2, PendingFinite, FS_AddElement
  <2> QED BY <1>1, <2>1, PendingFinite DEF NotLost, Counted
<1>4. Fresh' /\ Kept' /\ MarkOK'
  BY DEF NotLost, Fresh, Kept, MarkOK, On, Printed, Queued, InHand
<1>5. Stored'
  <2>1. SUFFICES ASSUME NEW m \in 1..logged'
                 PROVE  (\E u \in Pending' : msg'[u] = m) \/ \E i \in Slots : i < cur_entry /\ text[i] = m
    BY DEF Stored
  <2>2. CASE m = logged + 1
    BY <1>1, <1>2, <2>2
  <2>3. CASE m \in 1..logged
    BY <1>1, <1>2, <2>3 DEF NotLost, Stored, Pending
  <2> QED BY <1>1, <2>2, <2>3
<1>6. Below'
  BY <1>1 DEF NotLost, Below, Queued
<1> QED BY <1>3, <1>4, <1>5, <1>6 DEF NotLost

\* A caller writes its message into the next entry.
LEMMA LossWrite ==
  ASSUME LogAssumption, TypeInv, NotLost, ~Wrapped, [Next]_vars, NEW t \in Callers, LogWrite(t)
  PROVE  NotLost'
<1>1. pc[t] = "write" /\ pc' = [pc EXCEPT ![t] = "gave"] /\ msg' = msg /\ entry' = entry
      /\ text' = [text EXCEPT ![cur_entry] = msg[t]]
      /\ flags' = [flags EXCEPT ![cur_entry] = {"VALID"}]
      /\ cur_entry' = cur_entry + 1 /\ UNCHANGED <<queue, put, printed, logged>>
  BY DEF LogWrite, Move, historyVars
<1>2. t \in Pending /\ cur_entry \in Slots /\ cur_entry \in Nat
  BY <1>1, Room, Consts DEF Pending, NotLost, TypeInv, TableOK
<1>3. /\ text \in [Slots -> 0..logged] /\ flags \in [Slots -> SUBSET {"VALID", "FLUSHED"}]
      /\ pc \in [Callers -> {"idle", "take", "note", "write", "gave", "test", "send"}]
      /\ entry \in [Callers -> Pointers] /\ logged \in Nat
  BY DEF TypeInv, TableOK, CallOK, PrintedOK
<1>4. Counted'
  <2>1. Pending' = Pending \ {t}
    BY <1>1, <1>3 DEF Pending
  <2>2. Cardinality(Pending') = Cardinality(Pending) - 1
    BY <1>2, <2>1, PendingFinite, FS_RemoveElement
  <2> QED BY <1>1, <1>2, <1>3, <2>2, PendingFinite DEF NotLost, Counted
<1>5. Fresh'
  BY <1>1, <1>2, <1>3, Consts DEF NotLost, Fresh
<1>6. Kept'
  <2>1. SUFFICES ASSUME NEW i \in Slots, i < cur_entry'
                 PROVE  flags'[i] = {"VALID"} \/ On(i, text[i])'
    BY DEF Kept
  <2>2. CASE i = cur_entry
    BY <1>1, <1>3, <2>2
  <2>3. CASE i < cur_entry
    BY <1>1, <1>2, <1>3, <2>3, Consts DEF NotLost, Kept, On, Printed, Queued, InHand
  <2> QED BY <1>1, <1>2, <2>1, <2>2, <2>3, Consts
<1>7. Stored'
  <2>1. SUFFICES ASSUME NEW m \in 1..logged
                 PROVE  \/ \E u \in Pending' : msg[u] = m
                        \/ \E i \in Slots : i < cur_entry' /\ text'[i] = m
    BY <1>1 DEF Stored
  <2>2. CASE m = msg[t]
    BY <1>1, <1>2, <1>3, <2>2
  <2>3. ASSUME NEW u \in Pending, msg[u] = m, m # msg[t]
        PROVE  \E v \in Pending' : msg[v] = m
    BY <1>1, <1>3, <2>3 DEF Pending
  <2>4. ASSUME NEW i \in Slots, i < cur_entry, text[i] = m
        PROVE  \E j \in Slots : j < cur_entry' /\ text'[j] = m
    BY <1>1, <1>2, <1>3, <2>4, Consts
  <2> QED BY <2>2, <2>3, <2>4 DEF NotLost, Stored
<1>8. Below'
  <2>1. \A i \in Slots : i < cur_entry => i < cur_entry'
    BY <1>1, <1>2, Consts
  <2>2. \A u \in Callers : entry[u] < cur_entry => entry[u] < cur_entry'
    BY <1>1, <1>2, <1>3, Consts
  <2>3. \A u \in Callers : pc'[u] \in {"test", "send"} => pc[u] \in {"test", "send"}
    BY <1>1, <1>3
  <2> QED BY <1>1, <2>1, <2>2, <2>3 DEF NotLost, Below, Queued
<1>9. MarkOK'
  <2>1. ASSUME put.entry \in Slots, put.at # "receive"
        PROVE  text'[put.entry] = text[put.entry]
    BY <1>1, <1>2, <1>3, <2>1, Consts DEF NotLost, Below
  <2> QED BY <1>1, <2>1 DEF NotLost, MarkOK, Printed
<1> QED BY <1>4, <1>5, <1>6, <1>7, <1>8, <1>9 DEF NotLost

\* Any other step: the table's entries stay, and so does who has to write.
LEMMA LossElse ==
  ASSUME LogAssumption, TypeInv, NotLost, [Next]_vars, \A t \in Callers : ~LogWrite(t),
         UNCHANGED <<cur_entry, msg, logged>>, Pending' = Pending,
         \A i \in Slots : flags'[i] = flags[i] \/ (i < cur_entry /\ On(i, text[i])')
  PROVE  Counted' /\ Fresh' /\ Kept' /\ Stored'
<1>1. text' = text
  <2>1. 0 \in Slots
    BY Consts
  <2> QED BY <2>1, FlagsStep
<1>2. Counted' /\ Stored'
  BY <1>1 DEF NotLost, Counted, Stored
<1>3. Fresh'
  BY Consts DEF NotLost, Fresh, TypeInv, TableOK
<1>4. Kept'
  <2>1. SUFFICES ASSUME NEW i \in Slots, i < cur_entry
                 PROVE  flags'[i] = {"VALID"} \/ On(i, text[i])'
    BY DEF Kept
  <2>2. CASE flags[i] = {"VALID"}
    BY <2>2
  <2>3. CASE On(i, text[i])
    <3>1. ASSUME NEW x, x = text[i] PROVE On(i, x)'
      <4>1. On(i, x)
        BY <2>3, <3>1
      <4> QED BY <3>1, <4>1, OnStays DEF NotLost
    <3>2. ASSUME NEW x, x = text[i], On(i, x)' PROVE On(i, text[i])'
      BY <1>1, <3>2 DEF On, Printed, Queued, InHand
    <3> QED BY <3>1, <3>2
  <2> QED BY <2>1, <2>2, <2>3 DEF NotLost, Kept
<1> QED BY <1>2, <1>3, <1>4

LEMMA LossLog ==
  ASSUME LogAssumption, TypeInv, NotLost, ~Wrapped, [Next]_vars, NEW t \in Callers, LogStep(t)
  PROVE  NotLost'
<1> SUFFICES ASSUME ~LogWrite(t) PROVE NotLost'
  BY LossWrite
<1>1. UNCHANGED <<text, flags, msg, logged, put, printed>>
  BY DEF LogStep, LogTake, LogNote, LogReturn, LogTest, LogSend, tableVars, historyVars
<1>2. cur_entry' = cur_entry
  <2>1. CASE LogTake(t)
    <3>1. t \in Pending
      BY <2>1 DEF LogTake, Move, Pending
    <3>2. cur_entry < Entries /\ cur_entry \in Nat
      BY <3>1, Room, Consts DEF NotLost, TypeInv, TableOK
    <3> QED BY <2>1, <3>2, Consts DEF LogTake, AddEntry
  <2>2. CASE ~LogTake(t)
    BY <2>2 DEF LogStep, LogNote, LogReturn, LogTest, LogSend, tableVars
  <2> QED BY <2>1, <2>2
<1>3. \A u \in Callers : ~LogWrite(u)
  <2>1. ASSUME NEW u \in Callers, LogWrite(u) PROVE FALSE
    BY <1>2, <2>1, Consts DEF LogWrite, TypeInv, TableOK
  <2> QED BY <2>1
<1>4. Pending' = Pending
  BY DEF LogStep, LogTake, LogNote, LogReturn, LogTest, LogSend, Move, Pending, TypeInv, CallOK
<1>5. Counted' /\ Fresh' /\ Kept' /\ Stored'
  BY <1>1, <1>2, <1>3, <1>4, LossElse
<1>6. MarkOK'
  BY <1>1 DEF NotLost, MarkOK, Printed
<1>7. Below'
  <2>1. \A u \in Callers : entry[u] \in Pointers /\ cur_entry \in 0..Entries
    BY DEF TypeInv, CallOK, TableOK
  <2>2. \A i \in Slots : Queued(i)' => Queued(i) \/ i < cur_entry
    <3>1. CASE LogSend(t)
      <4>1. queue \in Seq(Values) /\ entry[t] \in Values /\ queue' = Append(queue, entry[t])
            /\ pc[t] = "send"
        BY <3>1, <2>1, Consts DEF LogSend, Move, TypeInv, QueueOK
      <4>2. entry[t] < cur_entry
        BY <4>1 DEF NotLost, Below
      <4>3. \A i : Queued(i)' => Queued(i) \/ i = entry[t]
        BY <4>1 DEF Queued
      <4> QED BY <4>2, <4>3
    <3>2. CASE LogNote(t)
      <4>1. queue \in Seq(Values) /\ OverflowEntry \in Values /\ queue' = Append(queue, OverflowEntry)
        BY <3>2, Consts DEF LogNote, TypeInv, QueueOK
      <4>2. \A i : Queued(i)' => Queued(i) \/ i = OverflowEntry
        BY <4>1 DEF Queued
      <4> QED BY <4>2, Consts
    <3>3. CASE LogTake(t) \/ LogReturn(t) \/ LogTest(t)
      BY <3>3 DEF LogTake, LogReturn, LogTest, Queued
    <3> QED BY <3>1, <3>2, <3>3 DEF LogStep
  <2>3. ASSUME NEW u \in Callers, pc'[u] \in {"test", "send"}
        PROVE  entry'[u] < cur_entry
    <3>1. CASE LogReturn(t)
      <4>1. entry' = [entry EXCEPT ![t] = cur_entry - 1] /\ pc' = [pc EXCEPT ![t] = "test"]
        BY <3>1 DEF LogReturn, Move
      <4>2. CASE u = t
        BY <2>1, <4>1, <4>2, Consts DEF TypeInv, CallOK
      <4>3. CASE u # t
        BY <2>3, <4>1, <4>3 DEF TypeInv, CallOK, NotLost, Below
      <4> QED BY <4>2, <4>3
    <3>2. CASE ~LogReturn(t)
      <4>1. entry' = entry /\ (pc'[u] = pc[u] \/ pc[u] = "test")
        BY <2>3, <3>2 DEF LogStep, LogTake, LogNote, LogTest, LogSend, Move, TypeInv, CallOK
      <4> QED BY <2>3, <4>1 DEF NotLost, Below
    <3> QED BY <3>1, <3>2
  <2> QED BY <1>1, <1>2, <2>2, <2>3 DEF NotLost, Below
<1> QED BY <1>5, <1>6, <1>7 DEF NotLost

LEMMA LossPut ==
  ASSUME LogAssumption, TypeInv, NotLost, ~Wrapped, [Next]_vars, PutStep
  PROVE  NotLost'
<1>1. UNCHANGED <<cur_entry, text, pc, msg, entry, logged>>
  BY DEF PutStep, PutReceive, PutChar, PutMark, tableVars, callVars
<1>2. \A u \in Callers : ~LogWrite(u)
  <2>1. ASSUME NEW u \in Callers, LogWrite(u) PROVE FALSE
    BY <1>1, <2>1, Consts DEF LogWrite, TypeInv, TableOK
  <2> QED BY <2>1
<1>3. Pending' = Pending
  BY <1>1 DEF Pending
<1>4. ASSUME NEW i \in Slots
      PROVE  flags'[i] = flags[i] \/ (i < cur_entry /\ On(i, text[i])')
  <2>1. CASE PutMark /\ i = put.entry
    <3>1. put.at = "mark"
      BY <2>1 DEF PutMark
    <3>2. i < cur_entry /\ Printed(text[i])
      BY <2>1, <3>1 DEF NotLost, Below, MarkOK
    <3>3. printed' = printed
      BY <2>1 DEF PutMark, historyVars
    <3> QED BY <1>1, <3>2, <3>3 DEF On, Printed
  <2>2. CASE PutMark /\ i # put.entry
    BY <2>2 DEF PutMark
  <2>3. CASE ~PutMark
    BY <2>3 DEF PutStep, PutReceive, PutChar, tableVars
  <2> QED BY <2>1, <2>2, <2>3
<1>5. Counted' /\ Fresh' /\ Kept' /\ Stored'
  BY <1>1, <1>2, <1>3, <1>4, LossElse
<1>6. queue \in Seq(Values) /\ Len(queue) \in Nat
  BY DEF TypeInv, QueueOK
<1>7. Below' /\ MarkOK'
  <2>1. CASE PutReceive
    <3>1. queue # <<>> /\ queue' = Tail(queue)
          /\ put' = [at |-> "char", entry |-> Head(queue), left |-> MsgLen]
      BY <2>1 DEF PutReceive
    <3>2. \A i : Queued(i)' => Queued(i)
      <4>1. \A k \in 1..Len(queue') : k + 1 \in 1..Len(queue) /\ queue'[k] = queue[k + 1]
        BY <1>6, <3>1
      <4> QED BY <4>1 DEF Queued
    <3>3. Queued(Head(queue))
      BY <1>6, <3>1 DEF Queued
    <3>4. Below'
      BY <1>1, <3>1, <3>2, <3>3 DEF NotLost, Below
    <3>5. MarkOK'
      BY <3>1, Consts DEF MarkOK
    <3> QED BY <3>4, <3>5
  <2>2. CASE PutChar
    <3>1. queue' = queue /\ put.at = "char"
      BY <2>2 DEF PutChar
    <3>2. put'.entry = put.entry
      BY <2>2 DEF PutChar, TypeInv, PutOK
    <3>3. Below'
      BY <1>1, <3>1, <3>2 DEF NotLost, Below, Queued
    <3>4. MarkOK'
      BY <1>1, <2>2, <3>2, Prints DEF NotLost, MarkOK, Printed
    <3> QED BY <3>3, <3>4
  <2>3. CASE PutMark
    <3>1. queue' = queue /\ printed' = printed /\ put.at = "mark" /\ put' = [put EXCEPT !.at = "receive"]
      BY <2>3 DEF PutMark, historyVars
    <3>2. put'.at = "receive" /\ put'.entry = put.entry
      BY <3>1 DEF TypeInv, PutOK
    <3>3. Below'
      BY <1>1, <3>1, <3>2 DEF NotLost, Below, Queued
    <3>4. MarkOK'
      BY <3>2 DEF MarkOK
    <3> QED BY <3>3, <3>4
  <2> QED BY <2>1, <2>2, <2>3 DEF PutStep
<1> QED BY <1>5, <1>7 DEF NotLost

\* The flush queues what it marks.
LEMMA LossFlush ==
  ASSUME LogAssumption, TypeInv, NotLost, ~Wrapped, [Next]_vars, SrvFlush
  PROVE  NotLost'
<1>1. UNCHANGED <<cur_entry, text, pc, msg, entry, logged, put, printed>>
  BY DEF SrvFlush, callVars, historyVars
<1>2. \A u \in Callers : ~LogWrite(u)
  <2>1. ASSUME NEW u \in Callers, LogWrite(u) PROVE FALSE
    BY <1>1, <2>1, Consts DEF LogWrite, TypeInv, TableOK
  <2> QED BY <2>1
<1>3. Pending' = Pending
  BY <1>1 DEF Pending
<1>4. queue \in Seq(Values) /\ Len(queue) \in Nat /\ flush_i \in Slots /\ flush_i \in Values
  BY Consts DEF TypeInv, QueueOK, SrvOK
<1>5. \/ flags' = flags /\ queue' = queue
      \/ /\ "VALID" \in flags[flush_i] /\ queue' = Append(queue, flush_i)
         /\ flags' = [flags EXCEPT ![flush_i] = @ \cup {"FLUSHED"}]
  BY DEF SrvFlush
<1>6. CASE flags' = flags /\ queue' = queue
  BY <1>1, <1>2, <1>3, <1>6, LossElse DEF NotLost, Below, MarkOK, Printed, Queued
<1>7. CASE /\ "VALID" \in flags[flush_i] /\ queue' = Append(queue, flush_i)
           /\ flags' = [flags EXCEPT ![flush_i] = @ \cup {"FLUSHED"}]
  <2>1. flush_i < cur_entry
    <3>1. flush_i \in Int /\ cur_entry \in Int
      BY <1>4, Consts DEF TypeInv, TableOK, Slots
    <3>2. ~(flush_i >= cur_entry)
      BY <1>4, <1>7 DEF NotLost, Fresh
    <3> QED BY <3>1, <3>2
  <2>3. \A i \in Slots : flags'[i] = flags[i] \/ (i < cur_entry /\ On(i, text[i])')
    <3>1. Len(queue') \in 1..Len(queue') /\ queue'[Len(queue')] = flush_i
      BY <1>4, <1>7
    <3>2. ASSUME NEW i \in Slots, i # flush_i PROVE flags'[i] = flags[i]
      BY <1>7, <3>2 DEF TypeInv, TableOK
    <3>3. ASSUME NEW i \in Slots, i = flush_i PROVE On(i, text[i])'
      BY <3>1, <3>3 DEF On, Queued
    <3> QED BY <2>1, <3>2, <3>3
  <2>4. Counted' /\ Fresh' /\ Kept' /\ Stored'
    BY <1>1, <1>2, <1>3, <2>3, LossElse
  <2>5. \A k \in 1..Len(queue') : queue'[k] = flush_i \/ (k \in 1..Len(queue) /\ queue'[k] = queue[k])
    BY <1>4, <1>7
  <2>6. ASSUME NEW k \in 1..Len(queue'), queue'[k] \in Slots PROVE queue'[k] < cur_entry
    BY <2>1, <2>5, <2>6 DEF NotLost, Below, Queued
  <2>7. Below'
    BY <1>1, <2>6 DEF NotLost, Below, Queued
  <2>8. MarkOK'
    BY <1>1 DEF NotLost, MarkOK, Printed
  <2> QED BY <2>4, <2>7, <2>8 DEF NotLost
<1> QED BY <1>5, <1>6, <1>7

LEMMA LossSame ==
  ASSUME NotLost, UNCHANGED <<cur_entry, text, flags, queue, pc, msg, entry, put, printed, logged>>
  PROVE  NotLost'
BY DEF NotLost, Counted, Fresh, Kept, Stored, Below, MarkOK, Pending, On, Printed, Queued, InHand

LEMMA LossNext ==
  ASSUME LogAssumption, TypeInv, LossInv, [Next]_vars
  PROVE  LossInv'
<1>1. logged \in Nat
  BY DEF TypeInv, PrintedOK
<1>2. logged' = logged \/ logged' = logged + 1
  BY SrvIdleKeeps, FailSplit, FailCallKeeps DEF Next, vars, callVars, LogCall, Call, LogStep, LogTake, LogNote, LogWrite, LogReturn,
     LogTest, LogSend, PutStep, PutReceive, PutChar, PutMark, SrvStep, SrvIdle, SrvLogOpened,
     SrvStartPutchar, SrvFlush, SrvLogGone, SrvOthersLog, ClientOpen, ClientClose
<1>3. CASE Wrapped
  BY <1>1, <1>2, <1>3, Consts DEF Wrapped, LossInv
<1>4. CASE ~Wrapped
  <2>1. NotLost
    BY <1>4 DEF LossInv
  <2>2. ASSUME NEW t \in Loggers, LogCall(t) PROVE NotLost'
    <3>1. t \in Callers /\ Call(t) /\ pc[t] = "idle"
          /\ UNCHANGED <<cur_entry, text, flags, queue, put, printed>>
      BY <2>2, Consts DEF LogCall, tableVars, historyVars
    <3> QED BY <2>1, <3>1, LossCall
  <2>3. CASE SrvLogOpened \/ SrvLogGone \/ SrvOthersLog \/ SrvFailCall
    <3>1. Server \in Callers /\ Call(Server) /\ pc[Server] = "idle"
          /\ UNCHANGED <<cur_entry, text, flags, queue, put, printed>>
      BY <2>3, Consts, FailCallKeeps DEF SrvLogOpened, SrvLogGone, SrvOthersLog, SrvReady, InLog, tableVars, historyVars
    <3> QED BY <2>1, <3>1, LossCall DEF LossInv
  <2>4. CASE SrvIdle
    <3>1. UNCHANGED <<cur_entry, text, flags, queue, pc, msg, entry, put, printed, logged>>
      BY <2>4, SrvIdleKeeps
    <3> QED BY <2>1, <3>1, LossSame DEF LossInv
  <2>5. CASE SrvStartPutchar \/ ClientOpen \/ ClientClose \/ UNCHANGED vars
    <3>1. UNCHANGED <<cur_entry, text, flags, queue, pc, msg, entry, put, printed, logged>>
      BY <2>5 DEF SrvStartPutchar, ClientOpen, ClientClose, vars, tableVars, callVars, historyVars
    <3> QED BY <2>1, <3>1, LossSame DEF LossInv
  <2>6. CASE SrvFlush
    BY <1>4, <2>1, <2>6, LossFlush DEF LossInv
  <2>7. CASE PutStep \/ \E t \in Callers : LogStep(t)
    BY <1>4, <2>1, <2>7, LossLog, LossPut DEF LossInv
  <2> QED BY <2>2, <2>3, <2>4, <2>5, <2>6, <2>7, FailSplit DEF Next, SrvStep, SrvIdle, LossInv
<1> QED BY <1>3, <1>4

LEMMA LossCovers == ASSUME LogAssumption, TypeInv, LossInv PROVE NoneLostUntilWrap
<1>1. SUFFICES ASSUME ~Wrapped, NEW m \in 1..logged
               PROVE  \/ Printed(m) \/ m \in Waiting
                      \/ \E t \in Callers : InLog(t) /\ msg[t] = m
                      \/ \E i \in Slots : text[i] = m /\ flags[i] = {"VALID"}
  BY DEF NoneLostUntilWrap
<1>2. NotLost
  BY <1>1 DEF LossInv
<1>3. CASE \E t \in Pending : msg[t] = m
  BY <1>3 DEF Pending, InLog
<1>4. ASSUME NEW i \in Slots, i < cur_entry, text[i] = m, flags[i] # {"VALID"}
      PROVE  Printed(m) \/ m \in Waiting
  <2>1. On(i, m)
    BY <1>2, <1>4 DEF NotLost, Kept
  <2>2. CASE Queued(i)
    BY <1>4, <2>2 DEF Queued, Waiting
  <2>3. CASE InHand(i)
    BY <1>4, <2>3 DEF InHand, Waiting
  <2> QED BY <2>1, <2>2, <2>3 DEF On
<1> QED BY <1>2, <1>3, <1>4 DEF NotLost, Stored

\* Until the table wraps no message is lost, whatever the interleaving of callers, put
\* task and flush: it is printed, on its way out, in the table, or with its caller still.
THEOREM LossCorrect == Spec => []NoneLostUntilWrap
<1>1. Init => LossInv
  BY LogAssumption, LossInit
<1>2. TypeInv /\ LossInv /\ [Next]_vars => LossInv'
  BY LogAssumption, LossNext
<1>3. TypeInv /\ LossInv => NoneLostUntilWrap
  BY LogAssumption, LossCovers
<1> QED BY <1>1, <1>2, <1>3, TypeInvariant, PTL DEF Spec
-----------------------------------------------------------------------------
(* No message is printed twice to the first client.  The flush marks what  *)
(* it queues, but a caller does not: it queues its entry after the mutex   *)
(* is given, whatever the flush did to it meanwhile.  That it does nothing *)
(* rests on the scheduler: who logs runs before the server.                *)

Due(t) == pc[t] \in {"gave", "test", "send"}
Own(t) == IF pc[t] = "gave" THEN cur_entry - 1 ELSE entry[t]

\* The note of an overflow has no place yet: the next entry of the table is new.
NoNotes == ~overflow /\ \A t \in Callers : pc[t] # "note"

\* The flush has not been yet, it is going on, or it was; it comes once.
Opening ==
  /\ putchar = "default" =>
       queue = <<>> /\ printed = <<>> /\ put.at = "receive" /\ \A t \in Callers : pc[t] # "send"
  /\ srv = "flush" => putchar # "default" /\ \A t \in Callers : ~Due(t)
  /\ srv = "start_putchar" \/ client = "knocking" \/ opens = 0 => putchar = "default"
  /\ client = "knocking" \/ opens = 0 => srv # "start_putchar"
  /\ opens = 0 => client = "away"

\* Messages are told apart by their numbers, at their callers and in the table.
Numbered ==
  /\ \A t, u \in Callers : InLog(t) /\ InLog(u) /\ msg[t] = msg[u] => t = u
  /\ \A t \in Pending, i \in Slots : i < cur_entry => text[i] # msg[t]
  /\ \A i, j \in Slots : i < cur_entry /\ j < cur_entry /\ text[i] = text[j] => i = j

\* A caller that nobody overtook returns with the entry it wrote.
OwnEntry ==
  /\ \A t \in Callers : Due(t) => Own(t) \in Slots /\ Own(t) < cur_entry /\ text[Own(t)] = msg[t]
  /\ \A t, u \in Callers : pc[t] = "gave" => ~Holding(u)

\* What is queued, in hand or printed is there once.
InHandNew(i) == put.at = "char" /\ put.left = MsgLen /\ put.entry = i
Out(i) == Queued(i) \/ InHandNew(i) \/ Printed(text[i])
Written(i) == i \in Slots /\ i < cur_entry
OutOnce ==
  /\ \A j, k \in 1..Len(printed) : j # k => printed[j] # printed[k]
  /\ \A k \in 1..Len(printed) : \E i \in Slots : i < cur_entry /\ printed[k] = text[i]
  /\ \A j, k \in 1..Len(queue) : j # k => queue[j] # queue[k]
  /\ \A k \in 1..Len(queue) : Written(queue[k])
  /\ put.at = "char" => Written(put.entry)
  /\ \A i \in Slots : Queued(i) => ~InHandNew(i) /\ ~Printed(text[i])
  /\ \A i \in Slots : InHandNew(i) => ~Printed(text[i])

\* What has still to be sent is not out yet: by its caller, or by the flush.
ToCome ==
  /\ putchar # "default" => \A t \in Callers : Due(t) => ~Out(Own(t))
  /\ srv = "flush" => \A i \in Slots : i >= flush_i /\ i < cur_entry => ~Out(i)

Once == NoNotes /\ Opening /\ Numbered /\ OwnEntry /\ OutOnce /\ ToCome
OnceInv == opens > 1 \/ Wrapped \/ overtaken \/ Once

-----------------------------------------------------------------------------
(* The queue holds whose turn comes; the queue's changes, place by place.  *)

LEMMA AppendPlaces ==
  ASSUME NEW s \in Seq(Values), NEW x \in Values
  PROVE  /\ Append(s, x) \in Seq(Values) /\ Len(Append(s, x)) = Len(s) + 1 /\ Len(s) \in Nat
         /\ \A k \in 1..(Len(s) + 1) :
              (k \in 1..Len(s) /\ Append(s, x)[k] = s[k]) \/ (k = Len(s) + 1 /\ Append(s, x)[k] = x)
         /\ \A k \in 1..Len(s) : k \in 1..(Len(s) + 1) /\ Append(s, x)[k] = s[k]
         /\ Len(s) + 1 \in 1..(Len(s) + 1) /\ Append(s, x)[Len(s) + 1] = x
OBVIOUS

LEMMA TailPlaces ==
  ASSUME NEW s \in Seq(Values), s # <<>>
  PROVE  /\ Len(Tail(s)) = Len(s) - 1 /\ Len(s) \in Nat /\ Len(s) >= 1 /\ Head(s) = s[1]
         /\ \A k \in 1..(Len(s) - 1) : k + 1 \in 1..Len(s) /\ Tail(s)[k] = s[k + 1]
OBVIOUS

\* Who is queued when entry x is appended, and that none is there twice.
LEMMA QueueAppend ==
  ASSUME TypeInv, NEW x \in Values, queue' = Append(queue, x)
  PROVE  /\ \A i : Queued(i)' <=> Queued(i) \/ i = x
         /\ Written(x) /\ (\A k \in 1..Len(queue) : Written(queue[k]))
              => \A k \in 1..Len(queue') : Written(queue'[k])
         /\ ~Queued(x) /\ (\A j, k \in 1..Len(queue) : j # k => queue[j] # queue[k])
              => \A j, k \in 1..Len(queue') : j # k => queue'[j] # queue'[k]
<1>1. queue \in Seq(Values)
  BY DEF TypeInv, QueueOK
<1>2. /\ Len(queue') = Len(queue) + 1 /\ Len(queue) \in Nat
      /\ \A k \in 1..Len(queue') :
           (k \in 1..Len(queue) /\ queue'[k] = queue[k]) \/ (k = Len(queue) + 1 /\ queue'[k] = x)
      /\ \A k \in 1..Len(queue) : k \in 1..Len(queue') /\ queue'[k] = queue[k]
      /\ Len(queue) + 1 \in 1..Len(queue') /\ queue'[Len(queue) + 1] = x
  BY <1>1, AppendPlaces
<1>3. ASSUME NEW i PROVE Queued(i)' <=> Queued(i) \/ i = x
  BY <1>2 DEF Queued
<1>4. ASSUME Written(x), \A k \in 1..Len(queue) : Written(queue[k]),
             NEW k \in 1..Len(queue')
      PROVE  Written(queue'[k])
  BY <1>2, <1>4
<1>5. ASSUME ~Queued(x), \A j, k \in 1..Len(queue) : j # k => queue[j] # queue[k],
             NEW j \in 1..Len(queue'), NEW k \in 1..Len(queue'), j # k
      PROVE  queue'[j] # queue'[k]
  BY <1>2, <1>5 DEF Queued
<1> QED BY <1>3, <1>4, <1>5

\* The next entry of the table is empty while somebody is about to write.
LEMMA NextIsNew ==
  ASSUME LogAssumption, TypeInv, NotLost, ~Wrapped, NEW t \in Pending
  PROVE  cur_entry \in Slots /\ cur_entry \in Nat /\ AddEntry = cur_entry /\ flags[cur_entry] = {}
<1>1. cur_entry < Entries /\ cur_entry \in Nat
  BY Room, Consts DEF NotLost, TypeInv, TableOK
<1> QED BY <1>1, Consts DEF NotLost, Fresh, AddEntry

\* What keeps the parts of Once.
LEMMA OwnStays ==
  ASSUME TypeInv, OwnEntry, Numbered, UNCHANGED <<cur_entry, text, msg, entry>>,
         \A t \in Callers : (pc'[t] = "gave" <=> pc[t] = "gave") /\ (Holding(t)' => Holding(t))
                            /\ (Due(t)' => Due(t)) /\ (InLog(t)' => InLog(t)),
         Pending' \subseteq Pending
  PROVE  OwnEntry' /\ Numbered' /\ \A t \in Callers : Due(t)' => Own(t)' = Own(t)
<1>1. \A t \in Callers : Due(t)' => Own(t)' = Own(t) /\ Due(t)
  BY DEF Own
<1>2. OwnEntry'
  BY <1>1 DEF OwnEntry
<1>3. Numbered'
  BY DEF Numbered
<1> QED BY <1>1, <1>2, <1>3

\* Two callers that are due have entries of their own.
LEMMA OwnApart ==
  ASSUME OwnEntry, Numbered, NEW t \in Callers, NEW u \in Callers, Due(t), Due(u), t # u
  PROVE  Own(t) # Own(u)
<1>1. InLog(t) /\ InLog(u)
  BY DEF Due, InLog
<1> QED BY <1>1 DEF OwnEntry, Numbered

\* A caller's entry by another name.
LEMMA OutByName ==
  ASSUME NEW t \in Callers, NEW i, Own(t)' = i, ~Out(i)'
  PROVE  ~Out(Own(t))'
<1>1. ~Queued(i)' /\ ~InHandNew(i)' /\ ~Printed(text[i])'
  BY DEF Out
<1>2. ~Queued(Own(t))' /\ ~InHandNew(Own(t))' /\ ~Printed(text[Own(t)])'
  BY <1>1 DEF Queued, InHandNew, Printed
<1> QED BY <1>2 DEF Out

LEMMA OutStays ==
  ASSUME OutOnce, UNCHANGED <<cur_entry, text, queue, put, printed>>
  PROVE  OutOnce' /\ \A i \in Slots : Out(i)' = Out(i)
<1>1. \A i \in Slots : Queued(i)' = Queued(i) /\ InHandNew(i)' = InHandNew(i) /\ Written(i)' = Written(i)
  BY DEF Queued, InHandNew, Written
<1>2. \A i \in Slots : Printed(text[i])' = Printed(text[i])
  BY DEF Printed
<1>3. \A i \in Slots : Out(i)' = Out(i)
  BY <1>1, <1>2 DEF Out
<1>4. OutOnce'
  BY <1>1, <1>2 DEF OutOnce, Written
<1> QED BY <1>3, <1>4

LEMMA OnceInit == ASSUME LogAssumption, Init PROVE OnceInv
<1>1. /\ cur_entry = 0 /\ queue = <<>> /\ printed = <<>> /\ put.at = "receive" /\ putchar = "default"
      /\ srv = "log" /\ client = "away" /\ overflow = FALSE /\ \A t \in Callers : pc[t] = "idle"
  BY DEF Init
<1>2. NoNotes /\ Opening
  BY <1>1 DEF NoNotes, Opening, Due
<1>3. Numbered /\ OwnEntry
  BY <1>1, Consts DEF Numbered, OwnEntry, InLog, Pending, Due
<1>4. OutOnce /\ ToCome
  BY <1>1 DEF OutOnce, ToCome, Queued, InHandNew, Printed
<1> QED BY <1>2, <1>3, <1>4 DEF Once, OnceInv

\* A new call has a new number, and nothing to send yet.
LEMMA OnceCall ==
  ASSUME LogAssumption, TypeInv, Once, NEW t \in Callers, Call(t), pc[t] = "idle",
         UNCHANGED <<putchar, cur_entry, overflow, text, queue, put, printed, flush_i>>,
         srv' = "flush" => srv = "flush",
         srv' = "start_putchar" \/ client' = "knocking" \/ opens' = 0 => putchar = "default",
         client' = "knocking" \/ opens' = 0 => srv' # "start_putchar",
         opens' = 0 => client' = "away"
  PROVE  Once'
<1>1. /\ pc' = [pc EXCEPT ![t] = "take"] /\ msg' = [msg EXCEPT ![t] = logged + 1] /\ entry' = entry
      /\ pc \in [Callers -> {"idle", "take", "note", "write", "gave", "test", "send"}]
      /\ msg \in [Callers -> 0..logged] /\ text \in [Slots -> 0..logged] /\ logged \in Nat
  BY DEF Call, TypeInv, CallOK, TableOK, PrintedOK
<1>2. /\ pc'[t] = "take" /\ msg'[t] = logged + 1
      /\ \A u \in Callers : u # t => pc'[u] = pc[u] /\ msg'[u] = msg[u]
      /\ \A u \in Callers : msg[u] # logged + 1
      /\ \A i \in Slots : text[i] # logged + 1
  BY <1>1
<1>3. \A u \in Callers : Due(u)' => u # t /\ Due(u) /\ Own(u)' = Own(u)
  BY <1>1, <1>2 DEF Due, Own
<1>4. NoNotes' /\ Opening'
  BY <1>1, <1>2, <1>3 DEF Once, NoNotes, Opening
<1>5. Numbered'
  BY <1>2 DEF Once, Numbered, InLog, Pending
<1>6. OwnEntry'
  BY <1>2, <1>3 DEF Once, OwnEntry, Holding
<1>7. OutOnce' /\ \A i \in Slots : Out(i)' = Out(i)
  BY OutStays DEF Once
<1>8. ToCome'
  BY <1>3, <1>6, <1>7 DEF Once, OwnEntry, ToCome
<1> QED BY <1>4, <1>5, <1>6, <1>7, <1>8 DEF Once

\* A step of what is not a caller's or the put task's leaves that all as it is.
LEMMA OnceElse ==
  ASSUME TypeInv, Once,
         UNCHANGED <<putchar, cur_entry, overflow, text, queue, pc, msg, entry, put, printed>>,
         srv' = "flush" => srv = "flush" /\ flush_i' = flush_i,
         srv' = "start_putchar" \/ client' = "knocking" \/ opens' = 0 => putchar = "default",
         client' = "knocking" \/ opens' = 0 => srv' # "start_putchar",
         opens' = 0 => client' = "away"
  PROVE  Once'
<1>1. NoNotes' /\ Opening'
  BY DEF Once, NoNotes, Opening, Due
<1>2. OwnEntry' /\ Numbered' /\ \A t \in Callers : Due(t)' => Own(t)' = Own(t)
  BY OwnStays DEF Once, Holding, Due, InLog, Pending
<1>3. OutOnce' /\ \A i \in Slots : Out(i)' = Out(i)
  BY OutStays DEF Once
<1>4. ToCome'
  BY <1>2, <1>3 DEF Once, OwnEntry, ToCome, Due
<1> QED BY <1>1, <1>2, <1>3, <1>4 DEF Once

LEMMA OnceTake ==
  ASSUME LogAssumption, TypeInv, NotLost, Once, ~Wrapped, NEW t \in Callers, LogTake(t), ~overtaken'
  PROVE  Once'
<1>1. /\ pc[t] = "take" /\ UNCHANGED <<putchar, text, flags, queue, msg, entry, put, printed, srv, flush_i,
                                       client, opens>>
      /\ pc \in [Callers -> {"idle", "take", "note", "write", "gave", "test", "send"}]
  BY DEF LogTake, Move, srvVars, TypeInv, CallOK
<1>2. t \in Pending
  BY <1>1 DEF Pending
<1>3. AddEntry = cur_entry /\ flags[AddEntry] = {}
  BY <1>2, NextIsNew
<1>4. cur_entry' = cur_entry /\ ~overflow' /\ pc' = [pc EXCEPT ![t] = "write"]
  BY <1>3 DEF LogTake, Move, Once, NoNotes
<1>5. \A u \in Callers : pc[u] # "gave"
  BY DEF LogTake
<1>6. /\ pc'[t] = "write" /\ \A u \in Callers : u # t => pc'[u] = pc[u]
      /\ \A u \in Callers : Due(u)' => u # t /\ Due(u) /\ Own(u)' = Own(u)
  BY <1>1, <1>4 DEF Due, Own
<1>7. NoNotes' /\ Opening'
  BY <1>1, <1>4, <1>6 DEF Once, NoNotes, Opening
<1>8. Numbered'
  BY <1>1, <1>4, <1>6 DEF Once, Numbered, InLog, Pending
<1>9. OwnEntry'
  BY <1>1, <1>4, <1>5, <1>6 DEF Once, OwnEntry
<1>10. OutOnce' /\ \A i \in Slots : Out(i)' = Out(i)
  BY <1>1, <1>4, OutStays DEF Once
<1>11. ToCome'
  BY <1>1, <1>4, <1>6, <1>9, <1>10 DEF Once, OwnEntry, ToCome
<1> QED BY <1>7, <1>8, <1>9, <1>10, <1>11 DEF Once

LEMMA OnceWrite ==
  ASSUME LogAssumption, TypeInv, NotLost, Once, ~Wrapped, NEW t \in Callers, LogWrite(t)
  PROVE  Once'
<1>1. /\ pc[t] = "write" /\ pc' = [pc EXCEPT ![t] = "gave"] /\ cur_entry' = cur_entry + 1
      /\ text' = [text EXCEPT ![cur_entry] = msg[t]]
      /\ UNCHANGED <<putchar, overflow, queue, msg, entry, put, printed, srv, flush_i, client, opens>>
      /\ pc \in [Callers -> {"idle", "take", "note", "write", "gave", "test", "send"}]
      /\ text \in [Slots -> 0..logged]
  BY DEF LogWrite, Move, srvVars, historyVars, TypeInv, CallOK, TableOK
<1>2. t \in Pending /\ Holding(t)
  BY <1>1 DEF Pending, Holding
<1>3. cur_entry \in Slots /\ cur_entry \in Nat
  BY <1>2, NextIsNew
<1>4. srv # "flush" /\ \A u \in Callers : Holding(u) => u = t
  BY <1>2, Consts DEF TypeInv, LockOK, Holding
<1>5. /\ pc'[t] = "gave" /\ \A u \in Callers : u # t => pc'[u] = pc[u]
      /\ text'[cur_entry] = msg[t] /\ \A i \in Slots : i # cur_entry => text'[i] = text[i]
      /\ \A i \in Slots : i < cur_entry' <=> i < cur_entry \/ i = cur_entry
      /\ Own(t)' = cur_entry
  BY <1>1, <1>3, Consts DEF Own
<1>6. \A u \in Callers : Due(u)' /\ u # t => Due(u) /\ pc[u] # "gave" /\ Own(u)' = Own(u)
  BY <1>1, <1>2, <1>5 DEF Once, OwnEntry, Due, Own
<1>7. \A i \in Slots : i < cur_entry => i # cur_entry
  BY <1>3, Consts
<1>8. NoNotes' /\ Opening'
  BY <1>1, <1>4, <1>5 DEF Once, NoNotes, Opening
<1>9. Numbered'
  <2>1. \A u \in Callers : InLog(u)' => InLog(u)
    BY <1>1, <1>5 DEF InLog
  <2>2. \A u \in Callers : u \in Pending' => u \in Pending /\ u # t
    BY <1>5 DEF Pending
  <2>3. \A u \in Pending : u # t => msg[u] # msg[t]
    BY <1>2 DEF Once, Numbered, InLog, Pending
  <2>4. \A i \in Slots : i < cur_entry => text[i] # msg[t]
    BY <1>2 DEF Once, Numbered
  <2>5. ASSUME NEW u \in Callers, u \in Pending', NEW i \in Slots, i < cur_entry' PROVE text'[i] # msg[u]
    BY <1>5, <1>7, <2>2, <2>3, <2>5 DEF Once, Numbered
  <2>6. ASSUME NEW i \in Slots, NEW j \in Slots, i < cur_entry', j < cur_entry', text'[i] = text'[j]
        PROVE  i = j
    <3>1. CASE i < cur_entry /\ j < cur_entry
      BY <1>5, <1>7, <2>6, <3>1 DEF Once, Numbered
    <3>2. CASE i = cur_entry
      BY <1>5, <1>7, <2>4, <2>6, <3>2
    <3>3. CASE j = cur_entry
      BY <1>5, <1>7, <2>4, <2>6, <3>3
    <3> QED BY <1>5, <2>6, <3>1, <3>2, <3>3
  <2>7. \A u \in Pending' : u \in Callers
    BY DEF Pending
  <2> QED BY <1>1, <2>1, <2>5, <2>6, <2>7 DEF Once, Numbered
<1>10. OwnEntry'
  <2>1. ASSUME NEW u \in Callers, Due(u)'
        PROVE  (Own(u) \in Slots /\ Own(u) < cur_entry /\ text[Own(u)] = msg[u])'
    <3>1. CASE u = t
      BY <1>1, <1>3, <1>5, <3>1
    <3>2. CASE u # t
      <4>1. Own(u) \in Slots /\ Own(u) < cur_entry /\ text[Own(u)] = msg[u]
        BY <1>6, <2>1, <3>2 DEF Once, OwnEntry
      <4> QED BY <1>1, <1>5, <1>6, <1>7, <2>1, <3>2, <4>1
    <3> QED BY <3>1, <3>2
  <2>2. \A u \in Callers : ~Holding(u)'
    BY <1>4, <1>5 DEF Holding
  <2> QED BY <2>1, <2>2 DEF OwnEntry
<1>11. ~Printed(msg[t])
  BY <1>2 DEF Once, Numbered, OutOnce, Printed
<1>12. \A i \in Slots : i < cur_entry => Out(i)' = Out(i) /\ Printed(text[i])' = Printed(text[i])
  BY <1>1, <1>5, <1>7 DEF Out, Queued, InHandNew, Printed
<1>13. \A i \in Slots : (Queued(i)' = Queued(i)) /\ (InHandNew(i)' = InHandNew(i))
                       /\ (Queued(i) \/ InHandNew(i) => i < cur_entry)
  BY <1>1 DEF Queued, InHandNew, Once, OutOnce, Written
<1>14. OutOnce'
  <2>1. \A k \in 1..Len(printed) : \E i \in Slots : i < cur_entry' /\ printed[k] = text'[i]
    BY <1>5, <1>7 DEF Once, OutOnce
  <2>2. \A i : Written(i) => Written(i)'
    BY <1>5 DEF Written
  <2> QED BY <1>1, <1>12, <1>13, <2>1, <2>2 DEF Once, OutOnce
<1>15. ToCome'
  <2>1. ASSUME putchar # "default", NEW u \in Callers, Due(u)', u # t PROVE ~Out(Own(u))'
    <3>1. Own(u) \in Slots /\ Own(u) < cur_entry /\ ~Out(Own(u)) /\ Own(u)' = Own(u)
      BY <1>6, <2>1 DEF Once, OwnEntry, ToCome
    <3>2. PICK i \in Slots : i = Own(u)
      BY <3>1
    <3>3. ~Out(i)'
      BY <1>12, <3>1, <3>2
    <3> QED BY <3>1, <3>2, <3>3, OutByName
  <2>2. ~Out(Own(t))'
    <3>1. PICK i \in Slots : i = cur_entry
      BY <1>3
    <3>2. ~Out(i)'
      <4>1. ~Queued(i)' /\ ~InHandNew(i)'
        BY <1>7, <1>13, <3>1
      <4>2. ~Printed(text[i])'
        BY <1>1, <1>5, <1>11, <3>1 DEF Printed
      <4> QED BY <4>1, <4>2 DEF Out
    <3> QED BY <1>5, <3>1, <3>2, OutByName
  <2> QED BY <1>1, <1>4, <2>1, <2>2 DEF ToCome
<1> QED BY <1>8, <1>9, <1>10, <1>14, <1>15 DEF Once

LEMMA OnceReturn ==
  ASSUME LogAssumption, TypeInv, Once, NEW t \in Callers, LogReturn(t) \/ LogTest(t)
  PROVE  Once'
<1>1. /\ UNCHANGED <<putchar, cur_entry, overflow, text, queue, msg, put, printed, srv, flush_i, client, opens>>
      /\ pc \in [Callers -> {"idle", "take", "note", "write", "gave", "test", "send"}]
      /\ entry \in [Callers -> Pointers] /\ Due(t)
  BY DEF LogReturn, LogTest, Move, tableVars, srvVars, historyVars, TypeInv, CallOK, Due
<1>2. /\ pc'[t] \in {"test", "send", "idle"} /\ (pc'[t] = "send" => putchar # "default")
      /\ \A u \in Callers : u # t => pc'[u] = pc[u] /\ entry'[u] = entry[u]
      /\ Due(t)' => entry'[t] = Own(t)
  BY <1>1 DEF LogReturn, LogTest, Move, Own, Due
<1>3. \A u \in Callers : Due(u)' => Due(u) /\ Own(u)' = Own(u)
  BY <1>1, <1>2 DEF Due, Own
<1>4. NoNotes' /\ Opening'
  BY <1>1, <1>2, <1>3 DEF Once, NoNotes, Opening
<1>5. Numbered'
  <2>1. \A u \in Callers : (InLog(u)' => InLog(u)) /\ (u \in Pending' => u \in Pending)
    BY <1>1, <1>2 DEF InLog, Pending, Due
  <2>2. \A u \in Pending' : u \in Callers
    BY DEF Pending
  <2> QED BY <1>1, <2>1, <2>2 DEF Once, Numbered
<1>6. OwnEntry'
  <2>1. \A u \in Callers : (pc'[u] = "gave" => pc[u] = "gave") /\ (Holding(u)' => Holding(u))
    BY <1>1, <1>2 DEF Holding
  <2> QED BY <1>1, <1>3, <2>1 DEF Once, OwnEntry
<1>7. OutOnce' /\ \A i \in Slots : Out(i)' = Out(i)
  BY <1>1, OutStays DEF Once
<1>8. ToCome'
  BY <1>1, <1>3, <1>6, <1>7 DEF Once, OwnEntry, ToCome, Opening
<1> QED BY <1>4, <1>5, <1>6, <1>7, <1>8 DEF Once

\* A caller queues its entry.
LEMMA OnceSend ==
  ASSUME LogAssumption, TypeInv, Once, NEW t \in Callers, LogSend(t)
  PROVE  Once'
<1>1. /\ pc[t] = "send" /\ pc' = [pc EXCEPT ![t] = "idle"] /\ queue' = Append(queue, entry[t])
      /\ UNCHANGED <<putchar, cur_entry, overflow, text, msg, entry, put, printed, srv, flush_i, client, opens>>
      /\ pc \in [Callers -> {"idle", "take", "note", "write", "gave", "test", "send"}]
  BY DEF LogSend, Move, tableVars, srvVars, historyVars, TypeInv, CallOK
<1>2. /\ pc'[t] = "idle" /\ \A u \in Callers : u # t => pc'[u] = pc[u]
      /\ Due(t) /\ Own(t) = entry[t]
  BY <1>1 DEF Due, Own
<1>3. putchar # "default" /\ srv # "flush"
  BY <1>1, <1>2 DEF Once, Opening
<1>4. entry[t] \in Slots /\ entry[t] < cur_entry /\ ~Out(entry[t]) /\ entry[t] \in Values
  BY <1>2, <1>3, Consts DEF Once, OwnEntry, ToCome
<1>5. PICK x \in Slots : x = entry[t]
  BY <1>4
<1>6. x < cur_entry /\ ~Queued(x) /\ ~InHandNew(x) /\ ~Printed(text[x]) /\ x \in Values
  BY <1>4, <1>5 DEF Out
<1>7. /\ \A i : Queued(i)' <=> Queued(i) \/ i = x
      /\ Written(x) /\ (\A k \in 1..Len(queue) : Written(queue[k]))
           => \A k \in 1..Len(queue') : Written(queue'[k])
      /\ ~Queued(x) /\ (\A j, k \in 1..Len(queue) : j # k => queue[j] # queue[k])
           => \A j, k \in 1..Len(queue') : j # k => queue'[j] # queue'[k]
  <2>1. queue' = Append(queue, x)
    BY <1>1, <1>5
  <2> QED BY <1>6, <2>1, QueueAppend
<1>8. \A u \in Callers : Due(u)' => u # t /\ Due(u) /\ Own(u)' = Own(u)
  BY <1>1, <1>2 DEF Due, Own
<1>9. NoNotes' /\ Opening'
  BY <1>1, <1>2, <1>3 DEF Once, NoNotes, Opening
<1>10. OwnEntry' /\ Numbered'
  <2>1. \A u \in Callers : (pc'[u] = "gave" <=> pc[u] = "gave") /\ (Holding(u)' => Holding(u))
          /\ (InLog(u)' => InLog(u))
    BY <1>1, <1>2 DEF Holding, InLog
  <2>2. Pending' \subseteq Pending
    BY <1>1, <1>2 DEF Pending
  <2> QED BY <1>1, <1>8, <2>1, <2>2, OwnStays DEF Once
<1>11. /\ \A i : InHandNew(i)' = InHandNew(i)
       /\ \A i \in Slots : Printed(text[i])' = Printed(text[i])
  BY <1>1 DEF InHandNew, Printed
<1>12. OutOnce'
  <2>1. Written(x)
    BY <1>6 DEF Written
  <2>2. /\ \A k \in 1..Len(queue') : Written(queue'[k])
        /\ \A j, k \in 1..Len(queue') : j # k => queue'[j] # queue'[k]
    BY <1>6, <1>7, <2>1 DEF Once, OutOnce
  <2>3. \A i \in Slots : Queued(i)' => ~InHandNew(i)' /\ ~Printed(text[i])'
    BY <1>6, <1>7, <1>11 DEF Once, OutOnce
  <2>4. \A i \in Slots : InHandNew(i)' => ~Printed(text[i])'
    BY <1>11 DEF Once, OutOnce
  <2>5. \A i : Written(i)' = Written(i)
    BY <1>1 DEF Written
  <2> QED BY <1>1, <2>2, <2>3, <2>4, <2>5 DEF Once, OutOnce
<1>13. ToCome'
  <2>1. ASSUME NEW u \in Callers, Due(u)' PROVE ~Out(Own(u))'
    <3>1. u # t /\ Due(u) /\ Own(u)' = Own(u) /\ Own(u) # Own(t) /\ ~Out(Own(u)) /\ Own(u) \in Slots
      BY <1>2, <1>3, <1>8, <2>1, OwnApart DEF Once, OwnEntry, ToCome
    <3>2. PICK y \in Slots : y = Own(u)
      BY <3>1
    <3>3. ~Out(y) /\ y # x
      BY <1>2, <1>5, <3>1, <3>2
    <3>4. ~Out(y)'
      BY <1>7, <1>11, <3>3 DEF Out
    <3> QED BY <3>1, <3>2, <3>4, OutByName
  <2> QED BY <1>1, <1>3, <2>1 DEF ToCome
<1> QED BY <1>9, <1>10, <1>12, <1>13 DEF Once

\* What the put task does: no entry comes out that was not out.
LEMMA OncePutKeeps ==
  ASSUME LogAssumption, TypeInv, Once, PutStep, OutOnce', \A i \in Slots : Out(i)' => Out(i) \/ ~Written(i),
         put.at # "receive" \/ queue # <<>>
  PROVE  Once'
<1>1. UNCHANGED <<putchar, cur_entry, overflow, text, pc, msg, entry, srv, flush_i, client, opens>>
  BY DEF PutStep, PutReceive, PutChar, PutMark, tableVars, callVars, srvVars
<1>2. putchar # "default"
  BY DEF Once, Opening
<1>3. \A u \in Callers : Due(u)' = Due(u) /\ Own(u)' = Own(u)
  BY <1>1 DEF Due, Own
<1>4. NoNotes' /\ Opening'
  BY <1>1, <1>2, <1>3 DEF Once, NoNotes, Opening
<1>5. OwnEntry' /\ Numbered'
  BY <1>1, OwnStays DEF Once, Holding, Due, InLog, Pending
<1>6. ToCome'
  <2>1. ASSUME NEW u \in Callers, Due(u)' PROVE ~Out(Own(u))'
    <3>1. Own(u)' = Own(u) /\ Own(u) \in Slots /\ Own(u) < cur_entry /\ ~Out(Own(u))
      BY <1>2, <1>3, <2>1 DEF Once, OwnEntry, ToCome
    <3>2. PICK y \in Slots : y = Own(u)
      BY <3>1
    <3>3. ~Out(y)'
      BY <3>1, <3>2 DEF Written
    <3> QED BY <3>1, <3>2, <3>3, OutByName
  <2>2. srv' = "flush" => \A i \in Slots : i >= flush_i' /\ i < cur_entry' => ~Out(i)'
    BY <1>1 DEF Once, ToCome, Written
  <2> QED BY <2>1, <2>2 DEF ToCome
<1> QED BY <1>4, <1>5, <1>6 DEF Once

LEMMA OncePut ==
  ASSUME LogAssumption, TypeInv, Once, PutStep
  PROVE  Once'
<1>1. UNCHANGED <<cur_entry, text>>
  BY DEF PutStep, PutReceive, PutChar, PutMark, tableVars
<1>2. queue \in Seq(Values) /\ printed \in Seq(0..logged) /\ text \in [Slots -> 0..logged]
      /\ put \in [at : {"receive", "char", "mark"}, entry : Values, left : 0..MsgLen]
      /\ MsgLen \in Nat /\ MsgLen > 0
  BY Consts DEF TypeInv, QueueOK, PrintedOK, TableOK, PutOK
<1>3. CASE PutReceive
  <2>1. /\ put.at = "receive" /\ queue # <<>> /\ queue' = Tail(queue) /\ printed' = printed
        /\ put'.at = "char" /\ put'.entry = Head(queue) /\ put'.left = MsgLen
    BY <1>3 DEF PutReceive, historyVars
  <2>2. /\ Len(queue') = Len(queue) - 1 /\ Len(queue) \in Nat /\ Len(queue) >= 1 /\ Head(queue) = queue[1]
        /\ \A k \in 1..Len(queue') : k + 1 \in 1..Len(queue) /\ queue'[k] = queue[k + 1]
        /\ 1 \in 1..Len(queue)
    BY <1>2, <2>1, TailPlaces
  <2>3. \A i : Queued(i)' => Queued(i) /\ i # queue[1]
    BY <2>2 DEF Queued, Once, OutOnce
  <2>4. \A i : InHandNew(i)' <=> i = queue[1]
    BY <2>1, <2>2 DEF InHandNew
  <2>5. \A i \in Slots : Printed(text[i])' = Printed(text[i])
    BY <1>1, <2>1 DEF Printed
  <2>6. Queued(queue[1])
    BY <2>2 DEF Queued
  <2>7. Written(queue[1])
    BY <2>2 DEF Once, OutOnce
  <2>8. OutOnce'
    <3>1. \A j, k \in 1..Len(queue') : j # k => queue'[j] # queue'[k]
      BY <2>2 DEF Once, OutOnce
    <3>2. \A k \in 1..Len(queue') : Written(queue'[k])
      BY <2>2 DEF Once, OutOnce
    <3>3. \A i : Written(i)' = Written(i)
      BY <1>1 DEF Written
    <3>4. \A i \in Slots : Queued(i)' => ~InHandNew(i)' /\ ~Printed(text[i])'
      BY <2>3, <2>4, <2>5 DEF Once, OutOnce
    <3>5. \A i \in Slots : InHandNew(i)' => ~Printed(text[i])'
      BY <2>4, <2>5, <2>6 DEF Once, OutOnce
    <3>6. Written(put'.entry)
      BY <2>1, <2>2, <2>7
    <3> QED BY <1>1, <2>1, <3>1, <3>2, <3>3, <3>4, <3>5, <3>6 DEF Once, OutOnce
  <2>9. \A i \in Slots : Out(i)' => Out(i)
    BY <2>3, <2>4, <2>5, <2>6 DEF Out
  <2> QED BY <2>1, <2>8, <2>9, OncePutKeeps
<1>4. CASE PutChar
  <2>1. /\ put.at = "char" /\ queue' = queue /\ put'.entry = put.entry /\ put'.left = put.left - 1
        /\ printed' = IF put.left < MsgLen THEN printed
                      ELSE Append(printed, IF put.entry \in Slots THEN text[put.entry] ELSE 0)
    BY <1>2, <1>4 DEF PutChar
  <2>2. put.left \in 0..MsgLen /\ put'.left # MsgLen
    BY <1>2, <2>1
  <2>3. Written(put.entry)
    BY <2>1 DEF Once, OutOnce
  <2>4. PICK e \in Slots : e = put.entry /\ e < cur_entry
    BY <2>3 DEF Written
  <2>5. \A i \in Slots : (Queued(i)' = Queued(i)) /\ ~InHandNew(i)'
    BY <2>1, <2>2 DEF Queued, InHandNew
  <2>6. CASE put.left < MsgLen
    <3>1. \A i \in Slots : Printed(text[i])' = Printed(text[i])
      BY <1>1, <2>1, <2>6 DEF Printed
    <3>2. OutOnce'
      BY <1>1, <2>1, <2>3, <2>5, <2>6, <3>1 DEF Once, OutOnce, Written
    <3> QED BY <2>1, <2>5, <3>1, <3>2, OncePutKeeps DEF Out
  <2>7. CASE put.left = MsgLen
    <3>1. printed' = Append(printed, text[e]) /\ text[e] \in 0..logged
      BY <1>2, <2>1, <2>4, <2>7
    <3>2. /\ Len(printed') = Len(printed) + 1 /\ Len(printed) \in Nat
          /\ \A k \in 1..Len(printed') :
               (k \in 1..Len(printed) /\ printed'[k] = printed[k]) \/ (k = Len(printed) + 1 /\ printed'[k] = text[e])
          /\ \A k \in 1..Len(printed) : k \in 1..Len(printed') /\ printed'[k] = printed[k]
          /\ Len(printed) + 1 \in 1..Len(printed') /\ printed'[Len(printed) + 1] = text[e]
      BY <1>2, <3>1
    <3>3. InHandNew(e) /\ ~Printed(text[e])
      BY <2>1, <2>4, <2>7 DEF Once, OutOnce, InHandNew
    <3>4. ASSUME NEW i \in Slots PROVE Printed(text[i])' <=> Printed(text[i]) \/ text[i] = text[e]
      BY <1>1, <3>2 DEF Printed
    <3>5. ASSUME NEW i \in Slots, Printed(text[i])', i < cur_entry PROVE Printed(text[i]) \/ i = e
      BY <2>4, <3>4, <3>5 DEF Once, Numbered
    <3>6. \A j, k \in 1..Len(printed') : j # k => printed'[j] # printed'[k]
      BY <3>2, <3>3 DEF Once, OutOnce, Printed
    <3>7. \A k \in 1..Len(printed') : \E i \in Slots : i < cur_entry /\ printed'[k] = text[i]
      BY <2>4, <3>2 DEF Once, OutOnce
    <3>8. \A i \in Slots : Queued(i) => i # e /\ i < cur_entry /\ ~Printed(text[i])
      BY <3>3 DEF Once, OutOnce, Queued, Written
    <3>9. OutOnce'
      BY <1>1, <2>1, <2>3, <2>5, <3>5, <3>6, <3>7, <3>8 DEF Once, OutOnce, Written
    <3>10. \A i \in Slots : Out(i)' => Out(i) \/ ~Written(i)
      BY <2>5, <3>3, <3>5 DEF Out, Written
    <3> QED BY <2>1, <3>9, <3>10, OncePutKeeps
  <2> QED BY <2>2, <2>6, <2>7, <1>2
<1>5. CASE PutMark
  <2>1. put.at = "mark" /\ put'.at = "receive" /\ queue' = queue /\ printed' = printed
    BY <1>2, <1>5 DEF PutMark, historyVars
  <2>2. \A i \in Slots : (Queued(i)' = Queued(i)) /\ (Printed(text[i])' = Printed(text[i])) /\ ~InHandNew(i)'
    BY <1>1, <2>1 DEF Queued, Printed, InHandNew
  <2>3. OutOnce'
    BY <1>1, <2>1, <2>2 DEF Once, OutOnce, Written
  <2> QED BY <2>1, <2>2, <2>3, OncePutKeeps DEF Out
<1> QED BY <1>3, <1>4, <1>5 DEF PutStep

\* The server begins the flush: the mutex is free and the queue empty, so that no caller
\* waits in LOG, and those of a higher priority are not in it.
LEMMA OnceStart ==
  ASSUME LogAssumption, LoggersFirst, TypeInv, Once, SrvStartPutchar
  PROVE  Once'
<1>1. /\ srv = "start_putchar" /\ pc[Server] = "idle" /\ mutex = Nobody /\ CanRun(Server)
      /\ srv' = "flush" /\ flush_i' = 0 /\ putchar' = "socket"
      /\ UNCHANGED <<cur_entry, overflow, text, queue, pc, msg, entry, put, printed, client, opens>>
  BY DEF SrvStartPutchar, SrvReady, InLog, tableVars, callVars, historyVars
<1>2. putchar = "default" /\ queue = <<>> /\ printed = <<>> /\ put.at = "receive"
  BY <1>1 DEF Once, Opening
<1>3. \A t \in Callers : pc[t] = "idle"
  <2>1. ASSUME NEW t \in Loggers PROVE pc[t] = "idle"
    <3>1. t \in Threads /\ t # PutLog /\ t # Server /\ Prio[t] > Prio[Server]
      BY DEF LoggersFirst, LogAssumption, Threads, Callers
    <3>2. Blocked(t)
      BY <1>1, <3>1 DEF CanRun
    <3>3. ~Full
      BY <1>2, Consts DEF Full
    <3> QED BY <1>1, <3>1, <3>2, <3>3 DEF Blocked, LogBlocked
  <2> QED BY <1>1, <2>1, Consts
<1>4. \A t \in Callers : ~Due(t)' /\ ~Due(t)
  BY <1>1, <1>3 DEF Due
<1>5. NoNotes' /\ Opening'
  BY <1>1, <1>4 DEF Once, NoNotes, Opening
<1>6. OwnEntry' /\ Numbered'
  BY <1>1, OwnStays DEF Once, Holding, Due, InLog, Pending
<1>7. OutOnce' /\ \A i \in Slots : Out(i)' = Out(i)
  BY <1>1, OutStays DEF Once
<1>8. \A i \in Slots : ~Out(i)
  BY <1>2 DEF Out, Queued, InHandNew, Printed
<1>9. ToCome'
  BY <1>1, <1>4, <1>7, <1>8 DEF ToCome
<1> QED BY <1>5, <1>6, <1>7, <1>9 DEF Once

\* One turn of the flush: what it queues nobody else sends.
LEMMA OnceFlush ==
  ASSUME LogAssumption, TypeInv, NotLost, Once, SrvFlush
  PROVE  Once'
<1>1. /\ srv = "flush" /\ UNCHANGED <<putchar, cur_entry, overflow, text, pc, msg, entry, put, printed, client, opens>>
      /\ flush_i \in Slots /\ flush_i \in Values /\ flush_i \in Nat
  BY Consts DEF SrvFlush, SrvReady, callVars, historyVars, TypeInv, SrvOK
<1>2. srv' \in {"flush", "others"} /\ (srv' = "flush" => flush_i' = flush_i + 1)
  BY DEF SrvFlush
<1>3. putchar # "default" /\ \A t \in Callers : ~Due(t)
  BY <1>1 DEF Once, Opening
<1>4. NoNotes' /\ Opening'
  BY <1>1, <1>2, <1>3 DEF Once, NoNotes, Opening, Due
<1>5. OwnEntry' /\ Numbered'
  BY <1>1, OwnStays DEF Once, Holding, Due, InLog, Pending
<1>6. \A t \in Callers : ~Due(t)'
  BY <1>1, <1>3 DEF Due
<1>7. \A i \in Slots : i >= flush_i + 1 => i >= flush_i /\ i # flush_i
  BY <1>1, Consts
<1>8. CASE queue' = queue
  <2>1. OutOnce' /\ \A i \in Slots : Out(i)' = Out(i)
    BY <1>1, <1>8, OutStays DEF Once
  <2>2. ToCome'
    BY <1>1, <1>2, <1>6, <1>7, <2>1 DEF Once, ToCome
  <2> QED BY <1>4, <1>5, <2>1, <2>2 DEF Once
<1>9. CASE "VALID" \in flags[flush_i] /\ queue' = Append(queue, flush_i)
  <2>1. flush_i < cur_entry
    BY <1>1, <1>9, Consts DEF NotLost, Fresh, TypeInv, TableOK
  <2>2. PICK x \in Slots : x = flush_i
    BY <1>1
  <2>3. ~Queued(x) /\ ~InHandNew(x) /\ ~Printed(text[x]) /\ Written(x) /\ x \in Values
    BY <1>1, <2>1, <2>2 DEF Once, ToCome, Out, Written
  <2>4. /\ \A i : Queued(i)' <=> Queued(i) \/ i = x
        /\ \A k \in 1..Len(queue') : Written(queue'[k])
        /\ \A j, k \in 1..Len(queue') : j # k => queue'[j] # queue'[k]
    <3>1. queue' = Append(queue, x)
      BY <1>9, <2>2
    <3> QED BY <2>3, <3>1, QueueAppend DEF Once, OutOnce
  <2>5. /\ \A i : InHandNew(i)' = InHandNew(i) /\ Written(i)' = Written(i)
        /\ \A i \in Slots : Printed(text[i])' = Printed(text[i])
    BY <1>1 DEF InHandNew, Printed, Written
  <2>6. \A i \in Slots : Queued(i)' => ~InHandNew(i)' /\ ~Printed(text[i])'
    BY <2>3, <2>4, <2>5 DEF Once, OutOnce
  <2>7. OutOnce'
    BY <1>1, <2>4, <2>5, <2>6 DEF Once, OutOnce
  <2>8. \A i \in Slots : Out(i)' => Out(i) \/ i = x
    BY <2>4, <2>5 DEF Out
  <2>9. ToCome'
    BY <1>1, <1>2, <1>6, <1>7, <2>2, <2>8 DEF Once, ToCome
  <2> QED BY <1>4, <1>5, <2>7, <2>9 DEF Once
<1> QED BY <1>8, <1>9 DEF SrvFlush

LEMMA OnceNext ==
  ASSUME LogAssumption, LoggersFirst, TypeInv, LossInv, OnceInv, [Next]_vars
  PROVE  OnceInv'
<1>1. SUFFICES ASSUME ~(opens' > 1), ~Wrapped', ~overtaken'
               PROVE  Once'
  BY DEF OnceInv
<1>2. opens \in Nat /\ logged \in Nat
  BY DEF TypeInv, SrvOK, PrintedOK
<1>3. opens' = opens \/ opens' = opens + 1
  BY SrvIdleKeeps, FailSplit, FailCallKeeps DEF Next, vars, srvVars, LogCall, LogStep, LogTake, LogNote, LogWrite, LogReturn,
     LogTest, LogSend, PutStep, PutReceive, PutChar, PutMark, SrvStep, SrvIdle, SrvLogOpened,
     SrvStartPutchar, SrvFlush, SrvLogGone, SrvOthersLog, ClientOpen, ClientClose
<1>4. logged' = logged \/ logged' = logged + 1
  BY SrvIdleKeeps, FailSplit, FailCallKeeps DEF Next, vars, callVars, LogCall, Call, LogStep, LogTake, LogNote, LogWrite, LogReturn,
     LogTest, LogSend, PutStep, PutReceive, PutChar, PutMark, SrvStep, SrvIdle, SrvLogOpened,
     SrvStartPutchar, SrvFlush, SrvLogGone, SrvOthersLog, ClientOpen, ClientClose
<1>5. overtaken => overtaken'
  BY SrvIdleKeeps, FailSplit, FailCallKeeps DEF Next, vars, historyVars, LogCall, LogStep, LogTake, LogNote, LogWrite, LogReturn,
     LogTest, LogSend, PutStep, PutReceive, PutChar, PutMark, SrvStep, SrvIdle, SrvLogOpened,
     SrvStartPutchar, SrvFlush, SrvLogGone, SrvOthersLog, ClientOpen, ClientClose
<1>6. ~(opens > 1) /\ ~Wrapped /\ ~overtaken
  BY <1>1, <1>2, <1>3, <1>4, <1>5, Consts DEF Wrapped
<1>7. Once /\ NotLost
  BY <1>6 DEF OnceInv, LossInv
<1>8. ASSUME NEW t \in Loggers, LogCall(t) PROVE Once'
  <2>1. t \in Callers /\ Call(t) /\ pc[t] = "idle"
        /\ UNCHANGED <<putchar, cur_entry, overflow, text, queue, put, printed, srv, flush_i, client, opens>>
    BY <1>8, Consts DEF LogCall, tableVars, srvVars, historyVars
  <2> QED BY <1>7, <2>1, OnceCall DEF Once, Opening
<1>9. CASE SrvLogOpened \/ SrvLogGone \/ SrvOthersLog \/ SrvFailCall
  <2>1. Server \in Callers /\ Call(Server) /\ pc[Server] = "idle"
        /\ UNCHANGED <<putchar, cur_entry, overflow, text, queue, put, printed, flush_i, opens>>
    BY <1>9, Consts, FailCallKeeps DEF SrvLogOpened, SrvLogGone, SrvOthersLog, SrvReady, InLog, tableVars, historyVars
  <2>2. /\ srv' # "flush"
        /\ srv' = "start_putchar" => client = "knocking" /\ client' = "open"
        /\ client' = client \/ client' = "away" \/ (client = "knocking" /\ client' = "open")
    BY <1>9, FailCallKeeps DEF SrvLogOpened, SrvLogGone, SrvOthersLog
  <2> QED BY <1>7, <2>1, <2>2, OnceCall DEF Once, Opening
<1>10. ASSUME NEW t \in Callers, LogStep(t) PROVE Once'
  <2>1. ~LogNote(t)
    BY <1>7 DEF LogNote, Move, Once, NoNotes
  <2> QED BY <1>1, <1>6, <1>7, <1>10, <2>1, OnceTake, OnceWrite, OnceReturn, OnceSend DEF LogStep
<1>11. CASE PutStep
  BY <1>7, <1>11, OncePut
<1>12. CASE SrvStartPutchar
  BY <1>7, <1>12, OnceStart
<1>13. CASE SrvFlush
  BY <1>7, <1>13, OnceFlush
<1>14. CASE SrvIdle \/ ClientOpen \/ ClientClose \/ UNCHANGED vars
  <2>1. UNCHANGED <<putchar, cur_entry, overflow, text, queue, pc, msg, entry, put, printed, flush_i>>
    BY <1>14, SrvIdleKeeps DEF ClientOpen, ClientClose, vars, tableVars, callVars, srvVars, historyVars
  <2>2. CASE SrvIdle
    BY <1>7, <2>1, <2>2, SrvIdleKeeps, OnceElse DEF Once, Opening
  <2>3. CASE ClientOpen
    <3>1. client = "away" /\ client' = "knocking" /\ opens' = opens + 1 /\ srv' = srv
      BY <2>3 DEF ClientOpen
    <3>2. opens = 0
      BY <1>1, <1>2, <3>1
    <3> QED BY <1>2, <1>7, <2>1, <3>1, <3>2, OnceElse DEF Once, Opening
  <2>4. CASE ClientClose
    <3>1. client = "open" /\ client' = "closing" /\ opens' = opens /\ srv' = srv
      BY <2>4 DEF ClientClose
    <3> QED BY <1>7, <2>1, <3>1, OnceElse DEF Once, Opening
  <2>5. CASE UNCHANGED vars
    <3>1. client' = client /\ opens' = opens /\ srv' = srv
      BY <2>5 DEF vars, srvVars
    <3> QED BY <1>7, <2>1, <3>1, OnceElse DEF Once, Opening
  <2> QED BY <1>14, <2>2, <2>3, <2>4, <2>5
<1> QED BY <1>8, <1>9, <1>10, <1>11, <1>12, <1>13, <1>14, FailSplit DEF Next, SrvStep, SrvIdle

\* The first client of the log socket sees no message twice, neither those of before it
\* came nor those logged during the flush, if whoever logs has a higher priority than
\* the server, as the GDB server's task and the WiFi tasks have: then no call of LOG is
\* between its write and its test of msg_putchar when the flush begins.
THEOREM OnceCorrect == ASSUME LoggersFirst PROVE Spec => []PrintedOnce
<1>1. Init => OnceInv
  BY LogAssumption, OnceInit
<1>2. TypeInv /\ LossInv /\ OnceInv /\ [Next]_vars => OnceInv'
  BY LogAssumption, OnceNext
<1>3. OnceInv => PrintedOnce
  BY DEF OnceInv, Once, OutOnce, PrintedOnce
<1>4. Init => LossInv
  BY LogAssumption, LossInit
<1>5. TypeInv /\ LossInv /\ [Next]_vars => LossInv'
  BY LogAssumption, LossNext
<1> QED BY <1>1, <1>2, <1>3, <1>4, <1>5, TypeInvariant, PTL DEF Spec
=============================================================================
