----------------------------- MODULE SerialSock -----------------------------
(***************************************************************************)
(* The serial-over-socket server, interface/wifi/serialsock.c: one task    *)
(* (Task_SocketServer) moves characters between TCP clients and the ring   *)
(* buffers of a few socket slots, while other firmware tasks put and get   *)
(* single characters with ExtThread_SocketPutChar / ExtThread_SocketGetChar*)
(* and block on two "token" mutexes per slot, tx_buf_full and rx_buf_empty.*)
(*                                                                         *)
(* The tasks run on one core under FreeRTOS's fixed-priority preemptive    *)
(* scheduler: a task takes a step only when every task of a higher         *)
(* priority is blocked.  A step is the code between two points at which    *)
(* another task can get in.                                                *)
(***************************************************************************)
EXTENDS Naturals, Sequences

CONSTANTS
  NumSockets,     \* NUM_SOCKETS; the slots are 1..NumSockets here
  LogSlot,        \* SOCKET_LOG, the slot whose clients start a SerialConfig task
  TxBufSize,      \* SOCKET_TXBUF_SIZE
  RxBufSize,      \* SOCKET_RXBUF_SIZE
  IndexWrap,      \* 2^32: the indices and occupancies are unsigned ints
  Tasks,          \* the tasks that call the ExtThread_ functions
  SlotOf,         \* the slot a task uses
  Prio,           \* its FreeRTOS priority
  ServerPrio,     \* SOCKET_TASK_PRIORITY
  Putters,        \* the tasks that put characters
  Getters,        \* the tasks that get characters
  Spawned,        \* the SerialConfig tasks, created when a log client connects
  Server, Nobody, \* lock holders other than the tasks
  MaxPuts,        \* bound: characters put per slot
  MaxPeerSends,   \* bound: characters the clients of a slot send
  MaxConnects     \* bound: connections per slot

Slots == 1..NumSockets
TaskOwners == Tasks \cup {Server, Nobody}

ASSUME SocketAssumption ==
  /\ NumSockets \in Nat \ {0}
  /\ LogSlot \in Nat
  /\ TxBufSize \in Nat /\ TxBufSize >= 2
  /\ RxBufSize = TxBufSize   \* UpdateSockets reads tx_buf modulo SOCKET_RXBUF_SIZE
  /\ IndexWrap \in Nat /\ IndexWrap > TxBufSize
  /\ IndexWrap % TxBufSize = 0

ASSUME TaskAssumption ==
  /\ SlotOf \in [Tasks -> Slots]
  /\ Prio \in [Tasks -> Nat] /\ ServerPrio \in Nat
  /\ \A t \in Tasks : Prio[t] # ServerPrio
  /\ Putters \subseteq Tasks /\ Getters \subseteq Tasks /\ Spawned \subseteq Tasks
  /\ Server \notin Tasks /\ Nobody \notin Tasks /\ Server # Nobody

\* One task puts characters into a slot: the GDB server into the GDB socket,
\* the log's put task into the log socket.
ASSUME SinglePutter ==
  \A t, u \in Putters : SlotOf[t] = SlotOf[u] => t = u

ASSUME BoundAssumption ==
  MaxPuts \in Nat /\ MaxPeerSends \in Nat /\ MaxConnects \in Nat

VARIABLES
  status,         \* per slot: 0 is "down", STARTED, STARTED|CONNECTED
  lock,           \* per slot: who holds buf_access
  tx_full,        \* per slot: TRUE iff mutex tx_buf_full can be taken
  tx_buf, tx_i_in, tx_i_out, tx_occ,
  rx_empty,       \* per slot: TRUE iff mutex rx_buf_empty can be taken
  rx_buf, rx_i_in, rx_i_out, rx_occ,
  pc,             \* per task: where it is
  srv,            \* where Task_SocketServer is
  cur,            \* the loop variable i of UpdateSockets
  peer,           \* per slot: the TCP client
  connects,       \* per slot: connections made so far
  inflight,       \* per slot: characters sent by the client, not yet received
  sent,           \* per slot: characters sent by clients so far
  written,        \* history: characters PutChar wrote
  wire,           \* history: characters handed to sl_Send, in order
  arrived,        \* history: characters sl_Recv stored
  got             \* history: characters GetChar returned, in order

txVars  == <<tx_full, tx_buf, tx_i_in, tx_i_out, tx_occ, written, wire>>
rxVars  == <<rx_empty, rx_buf, rx_i_in, rx_i_out, rx_occ, arrived, got>>
envVars == <<peer, connects, inflight, sent>>
srvVars == <<srv, cur>>
vars == <<status, lock, txVars, rxVars, pc, srvVars, envVars>>

MinOf(a, b) == IF a < b THEN a ELSE b

-----------------------------------------------------------------------------
(* The scheduler.  "idle" stands for everything a task does between two    *)
(* calls, which for every task includes waiting (a delay, a queue, JTAG).  *)

PutPCs == {"p_want", "p_token", "p_locked", "p_check", "p_give"}
GetPCs == {"g_want", "g_token", "g_locked", "g_check", "g_give"}
TaskPCs == {"off", "idle"} \cup PutPCs \cup GetPCs
SrvPCs == {"start", "scan", "accept", "accepted", "send", "txpoll", "txgive",
           "recv", "stuck", "rxpoll", "rxgive", "closed", "unlock", "delay", "fail",
           "dead"}
\* Where the server holds buf_access of slot cur.
SrvHolds == {"send", "txpoll", "txgive", "recv", "stuck", "rxpoll", "rxgive",
             "closed", "unlock", "fail"}

Blocked(t) ==
  LET s == SlotOf[t] IN
  \/ pc[t] \in {"off", "idle"}
  \/ pc[t] = "p_want" /\ ~tx_full[s]
  \/ pc[t] = "g_want" /\ ~rx_empty[s]
  \/ pc[t] \in {"p_token", "g_token"} /\ lock[s] # Nobody

\* In a SimpleLink call, in LOG, in vTaskDelay, or waiting for buf_access.  Not
\* when "stuck": there the task spins.
SrvBlocked ==
  \/ srv \in {"start", "accept", "accepted", "send", "recv", "closed", "delay",
              "fail", "dead"}
  \/ srv = "scan" /\ status[cur] = "connected" /\ lock[cur] # Nobody

CanRun(t) ==
  /\ \A u \in Tasks : Prio[u] > Prio[t] => Blocked(u)
  /\ ServerPrio > Prio[t] => SrvBlocked

SrvCanRun == \A u \in Tasks : Prio[u] > ServerPrio => Blocked(u)

-----------------------------------------------------------------------------
(* InitSockets: both tokens start taken, so nobody puts or gets before the *)
(* server gives them.                                                      *)

Init ==
  /\ status = [s \in Slots |-> "down"]
  /\ lock = [s \in Slots |-> Nobody]
  /\ tx_full = [s \in Slots |-> FALSE]
  /\ rx_empty = [s \in Slots |-> FALSE]
  /\ tx_buf = [s \in Slots |-> [i \in 0..(TxBufSize - 1) |-> 0]]
  /\ rx_buf = [s \in Slots |-> [i \in 0..(RxBufSize - 1) |-> 0]]
  /\ tx_i_in = [s \in Slots |-> 0] /\ tx_i_out = [s \in Slots |-> 0]
  /\ rx_i_in = [s \in Slots |-> 0] /\ rx_i_out = [s \in Slots |-> 0]
  /\ tx_occ = [s \in Slots |-> 0] /\ rx_occ = [s \in Slots |-> 0]
  /\ pc = [t \in Tasks |-> IF t \in Spawned THEN "off" ELSE "idle"]
  /\ srv = "start" /\ cur = 1
  /\ peer = [s \in Slots |-> "away"] /\ connects = [s \in Slots |-> 0]
  /\ inflight = [s \in Slots |-> 0] /\ sent = [s \in Slots |-> 0]
  /\ written = [s \in Slots |-> 0] /\ wire = [s \in Slots |-> <<>>]
  /\ arrived = [s \in Slots |-> 0] /\ got = [s \in Slots |-> <<>>]

-----------------------------------------------------------------------------
(* ExtThread_SocketPutChar.                                                *)

Move(t, from, to) == pc[t] = from /\ pc' = [pc EXCEPT ![t] = to]

PutCall(t) ==
  /\ t \in Putters /\ CanRun(t)
  /\ written[SlotOf[t]] < MaxPuts
  /\ Move(t, "idle", "p_want")
  /\ UNCHANGED <<status, lock, txVars, rxVars, srvVars, envVars>>

PutTake(t) ==
  /\ CanRun(t) /\ tx_full[SlotOf[t]]
  /\ Move(t, "p_want", "p_token")
  /\ tx_full' = [tx_full EXCEPT ![SlotOf[t]] = FALSE]
  /\ UNCHANGED <<status, lock, tx_buf, tx_i_in, tx_i_out, tx_occ, written, wire,
                 rxVars, srvVars, envVars>>

PutLock(t) ==
  /\ CanRun(t) /\ lock[SlotOf[t]] = Nobody
  /\ Move(t, "p_token", "p_locked")
  /\ lock' = [lock EXCEPT ![SlotOf[t]] = t]
  /\ UNCHANGED <<status, txVars, rxVars, srvVars, envVars>>

PutWrite(t) ==
  LET s == SlotOf[t] IN
  /\ CanRun(t)
  /\ Move(t, "p_locked", "p_check")
  /\ tx_buf' = [tx_buf EXCEPT ![s][tx_i_in[s] % TxBufSize] = written[s] + 1]
  /\ tx_i_in' = [tx_i_in EXCEPT ![s] = (@ + 1) % IndexWrap]
  /\ tx_occ' = [tx_occ EXCEPT ![s] = @ + 1]
  /\ written' = [written EXCEPT ![s] = @ + 1]
  /\ lock' = [lock EXCEPT ![s] = Nobody]
  /\ UNCHANGED <<status, tx_full, tx_i_out, wire, rxVars, srvVars, envVars>>

\* Slip: "<=" where the code has "<".
PutCheckOffByOne(t) ==
  /\ CanRun(t)
  /\ IF tx_occ[SlotOf[t]] <= TxBufSize
       THEN Move(t, "p_check", "p_give")
       ELSE Move(t, "p_check", "idle")
  /\ UNCHANGED <<status, lock, txVars, rxVars, srvVars, envVars>>

PutCheck(t) ==
  /\ CanRun(t)
  /\ IF tx_occ[SlotOf[t]] < TxBufSize
       THEN Move(t, "p_check", "p_give")
       ELSE Move(t, "p_check", "idle")
  /\ UNCHANGED <<status, lock, txVars, rxVars, srvVars, envVars>>

PutGive(t) ==
  /\ CanRun(t)
  /\ Move(t, "p_give", "idle")
  /\ tx_full' = [tx_full EXCEPT ![SlotOf[t]] = TRUE]
  /\ UNCHANGED <<status, lock, tx_buf, tx_i_in, tx_i_out, tx_occ, written, wire,
                 rxVars, srvVars, envVars>>

(* ExtThread_SocketGetChar.                                                *)

GetCall(t) ==
  /\ t \in Getters /\ CanRun(t)
  /\ Len(got[SlotOf[t]]) < MaxPeerSends
  /\ Move(t, "idle", "g_want")
  /\ UNCHANGED <<status, lock, txVars, rxVars, srvVars, envVars>>

GetTake(t) ==
  /\ CanRun(t) /\ rx_empty[SlotOf[t]]
  /\ Move(t, "g_want", "g_token")
  /\ rx_empty' = [rx_empty EXCEPT ![SlotOf[t]] = FALSE]
  /\ UNCHANGED <<status, lock, rx_buf, rx_i_in, rx_i_out, rx_occ, arrived, got,
                 txVars, srvVars, envVars>>

GetLock(t) ==
  /\ CanRun(t) /\ lock[SlotOf[t]] = Nobody
  /\ Move(t, "g_token", "g_locked")
  /\ lock' = [lock EXCEPT ![SlotOf[t]] = t]
  /\ UNCHANGED <<status, txVars, rxVars, srvVars, envVars>>

\* rx_buf_occupancy is unsigned: taking from an empty buffer wraps it.
GetRead(t) ==
  LET s == SlotOf[t] IN
  /\ CanRun(t)
  /\ Move(t, "g_locked", "g_check")
  /\ got' = [got EXCEPT ![s] = Append(@, rx_buf[s][rx_i_out[s] % RxBufSize])]
  /\ rx_i_out' = [rx_i_out EXCEPT ![s] = (@ + 1) % IndexWrap]
  /\ rx_occ' = [rx_occ EXCEPT ![s] = (@ + IndexWrap - 1) % IndexWrap]
  /\ lock' = [lock EXCEPT ![s] = Nobody]
  /\ UNCHANGED <<status, rx_empty, rx_buf, rx_i_in, arrived, txVars, srvVars, envVars>>

\* Slip: the token is given back whatever is left in the buffer.
GetCheckNoTest(t) ==
  /\ CanRun(t) /\ Move(t, "g_check", "g_give")
  /\ UNCHANGED <<status, lock, txVars, rxVars, srvVars, envVars>>

GetCheck(t) ==
  /\ CanRun(t)
  /\ IF rx_occ[SlotOf[t]] > 0
       THEN Move(t, "g_check", "g_give")
       ELSE Move(t, "g_check", "idle")
  /\ UNCHANGED <<status, lock, txVars, rxVars, srvVars, envVars>>

GetGive(t) ==
  /\ CanRun(t)
  /\ Move(t, "g_give", "idle")
  /\ rx_empty' = [rx_empty EXCEPT ![SlotOf[t]] = TRUE]
  /\ UNCHANGED <<status, lock, rx_buf, rx_i_in, rx_i_out, rx_occ, arrived, got,
                 txVars, srvVars, envVars>>

-----------------------------------------------------------------------------
(* Task_SocketServer.  The LOG calls of this task are steps at which it    *)
(* may block; what they do to the log is module MemLog's subject.          *)

SrvMove(from, to) == srv = from /\ srv' = to /\ cur' = cur

\* Slip: the loop over the sockets runs one too far.
AdvanceTooFar ==
  IF cur <= NumSockets THEN cur' = cur + 1 /\ srv' = "scan"
                       ELSE cur' = 1 /\ srv' = "delay"

Advance ==
  IF cur < NumSockets THEN cur' = cur + 1 /\ srv' = "scan"
                      ELSE cur' = 1 /\ srv' = "delay"

\* StartSockets; it fails at the slot after k, or at the mDNS registration.
SrvStart ==
  /\ SrvCanRun /\ SrvMove("start", "scan")
  /\ status' = [s \in Slots |-> "started"]
  /\ UNCHANGED <<lock, txVars, rxVars, pc, envVars>>

SrvStartFail ==
  /\ SrvCanRun /\ SrvMove("start", "dead")
  /\ \E k \in 0..NumSockets :
       status' = [s \in Slots |-> IF s <= k THEN "started" ELSE "down"]
  /\ UNCHANGED <<lock, txVars, rxVars, pc, envVars>>

\* vTaskDelay(1) is over.
SrvTick ==
  /\ SrvCanRun /\ SrvMove("delay", "scan")
  /\ UNCHANGED <<status, lock, txVars, rxVars, pc, envVars>>

\* SockAccept, called for a slot without a client.
SrvAcceptCall ==
  /\ SrvCanRun /\ status[cur] = "started" /\ SrvMove("scan", "accept")
  /\ UNCHANGED <<status, lock, txVars, rxVars, pc, envVars>>

SrvAcceptAgain ==
  /\ SrvCanRun /\ srv = "accept" /\ peer[cur] # "knocking"
  /\ Advance
  /\ UNCHANGED <<status, lock, txVars, rxVars, pc, envVars>>

SrvAccepted ==
  /\ SrvCanRun /\ peer[cur] = "knocking" /\ SrvMove("accept", "accepted")
  /\ peer' = [peer EXCEPT ![cur] = "open"]
  /\ UNCHANGED <<status, lock, txVars, rxVars, pc, connects, inflight, sent>>

SrvAcceptFail ==
  /\ SrvCanRun /\ SrvMove("accept", "dead")
  /\ status' = [status EXCEPT ![cur] = "down"]
  /\ UNCHANGED <<lock, txVars, rxVars, pc, envVars>>

\* The rest of SockAccept.  On the log slot serialconfig_start creates one
\* more SerialConfig task, for every client, unless no memory is left for it.
SrvConnected ==
  /\ SrvCanRun /\ srv = "accepted"
  /\ status' = [status EXCEPT ![cur] = "connected"]
  /\ LET fresh == {t \in Spawned : pc[t] = "off" /\ cur = LogSlot} IN
     IF fresh = {} THEN UNCHANGED pc
                   ELSE \E t \in fresh : pc' = [pc EXCEPT ![t] = "idle"]
  /\ Advance
  /\ UNCHANGED <<lock, txVars, rxVars, envVars>>

SrvSockOptFail ==
  /\ SrvCanRun /\ SrvMove("accepted", "dead")
  /\ status' = [status EXCEPT ![cur] = "connected"]
  /\ peer' = [peer EXCEPT ![cur] = "away"]
  /\ UNCHANGED <<lock, txVars, rxVars, pc, connects, inflight, sent>>

SrvLock ==
  /\ SrvCanRun /\ srv = "scan" /\ status[cur] = "connected" /\ lock[cur] = Nobody
  /\ SrvMove("scan", IF tx_occ[cur] > 0 THEN "send" ELSE "txpoll")
  /\ lock' = [lock EXCEPT ![cur] = Server]
  /\ UNCHANGED <<status, txVars, rxVars, pc, envVars>>

\* sl_Send takes all of the run up to the wraparound point, or fails
\* (SL_EAGAIN counts as failure here).
TxOut(s) == tx_i_out[s] % RxBufSize
TxRun(s) == MinOf(tx_occ[s], TxBufSize - TxOut(s))

\* Slip: the read index steps by one, whatever sl_Send took.
SrvSendStepsByOne ==
  LET n == TxRun(cur) IN
  /\ SrvCanRun /\ SrvMove("send", "txpoll")
  /\ wire' = [wire EXCEPT ![cur] =
                @ \o [i \in 1..n |-> tx_buf[cur][TxOut(cur) + i - 1]]]
  /\ tx_occ' = [tx_occ EXCEPT ![cur] = @ - n]
  /\ tx_i_out' = [tx_i_out EXCEPT ![cur] = (@ + 1) % IndexWrap]
  /\ UNCHANGED <<status, lock, tx_full, tx_buf, tx_i_in, written, rxVars, pc, envVars>>

SrvSend ==
  LET n == TxRun(cur) IN
  /\ SrvCanRun /\ SrvMove("send", "txpoll")
  /\ wire' = [wire EXCEPT ![cur] =
                @ \o [i \in 1..n |-> tx_buf[cur][TxOut(cur) + i - 1]]]
  /\ tx_occ' = [tx_occ EXCEPT ![cur] = @ - n]
  /\ tx_i_out' = [tx_i_out EXCEPT ![cur] = (@ + n) % IndexWrap]
  /\ UNCHANGED <<status, lock, tx_full, tx_buf, tx_i_in, written, rxVars, pc, envVars>>

\* Slip: the token the poll did not get is not given for the blocked senders.
SrvTxPollOnly ==
  /\ SrvCanRun /\ SrvMove("txpoll", "recv")
  /\ tx_full' = [tx_full EXCEPT ![cur] = FALSE]
  /\ UNCHANGED <<status, lock, tx_buf, tx_i_in, tx_i_out, tx_occ, written, wire,
                 rxVars, pc, envVars>>

\* The poll of tx_buf_full and, when somebody holds it and space is free, the give.
SrvTxPoll ==
  /\ SrvCanRun /\ srv = "txpoll" /\ cur' = cur
  /\ srv' = IF ~tx_full[cur] /\ tx_occ[cur] < TxBufSize THEN "txgive" ELSE "recv"
  /\ tx_full' = [tx_full EXCEPT ![cur] = FALSE]
  /\ UNCHANGED <<status, lock, tx_buf, tx_i_in, tx_i_out, tx_occ, written, wire,
                 rxVars, pc, envVars>>

SrvTxGive ==
  /\ SrvCanRun /\ SrvMove("txgive", "recv")
  /\ tx_full' = [tx_full EXCEPT ![cur] = TRUE]
  /\ UNCHANGED <<status, lock, tx_buf, tx_i_in, tx_i_out, tx_occ, written, wire,
                 rxVars, pc, envVars>>

\* sl_Recv, asked for the characters that fit up to the wraparound point.
RxIn(s) == rx_i_in[s] % RxBufSize
\* Slip: the room ignores the characters not read yet.
RxRoomToWrap(s) == RxBufSize - RxIn(s)
RxRoom(s) == MinOf((RxBufSize + IndexWrap - rx_occ[s]) % IndexWrap, RxBufSize - RxIn(s))

SrvRecv ==
  /\ SrvCanRun /\ SrvMove("recv", "rxpoll")
  /\ \E n \in 1..MinOf(RxRoom(cur), inflight[cur]) :
       /\ rx_buf' = [rx_buf EXCEPT ![cur] =
            [i \in 0..(RxBufSize - 1) |->
               IF i >= RxIn(cur) /\ i < RxIn(cur) + n
                 THEN arrived[cur] + 1 + (i - RxIn(cur)) ELSE @[i]]]
       /\ rx_i_in' = [rx_i_in EXCEPT ![cur] = (@ + n) % IndexWrap]
       /\ rx_occ' = [rx_occ EXCEPT ![cur] = (@ + n) % IndexWrap]
       /\ arrived' = [arrived EXCEPT ![cur] = @ + n]
       /\ inflight' = [inflight EXCEPT ![cur] = @ - n]
  /\ UNCHANGED <<status, lock, rx_empty, rx_i_out, got, txVars, pc, peer, connects, sent>>

SrvRecvAgain ==
  /\ SrvCanRun
  /\ RxRoom(cur) > 0 /\ inflight[cur] = 0 /\ peer[cur] = "open"
  /\ SrvMove("recv", "unlock")
  /\ UNCHANGED <<status, lock, txVars, rxVars, pc, envVars>>

\* With a full buffer sl_Recv is asked for no characters; the driver asserts on
\* that, in an endless loop, and the server stays there with buf_access.
SrvRecvNothing ==
  /\ SrvCanRun /\ RxRoom(cur) = 0
  /\ SrvMove("recv", "stuck")
  /\ UNCHANGED <<status, lock, txVars, rxVars, pc, envVars>>

\* sl_Recv returns 0: the client is gone.  The buffers and tokens stay.
SrvRecvClosed ==
  /\ SrvCanRun
  /\ RxRoom(cur) > 0 /\ inflight[cur] = 0 /\ peer[cur] = "closing"
  /\ SrvMove("recv", "closed")
  /\ status' = [status EXCEPT ![cur] = "started"]
  /\ peer' = [peer EXCEPT ![cur] = "away"]
  /\ UNCHANGED <<lock, txVars, rxVars, pc, connects, inflight, sent>>

SrvClosed ==
  /\ SrvCanRun /\ SrvMove("closed", "unlock")
  /\ UNCHANGED <<status, lock, txVars, rxVars, pc, envVars>>

\* Slip: the sense of the poll is inverted.
SrvRxPollInverted ==
  /\ SrvCanRun /\ SrvMove("rxpoll", IF rx_empty[cur] THEN "rxgive" ELSE "unlock")
  /\ rx_empty' = [rx_empty EXCEPT ![cur] = FALSE]
  /\ UNCHANGED <<status, lock, rx_buf, rx_i_in, rx_i_out, rx_occ, arrived, got,
                 txVars, pc, envVars>>

SrvRxPoll ==
  /\ SrvCanRun /\ SrvMove("rxpoll", IF rx_empty[cur] THEN "unlock" ELSE "rxgive")
  /\ rx_empty' = [rx_empty EXCEPT ![cur] = FALSE]
  /\ UNCHANGED <<status, lock, rx_buf, rx_i_in, rx_i_out, rx_occ, arrived, got,
                 txVars, pc, envVars>>

SrvRxGive ==
  /\ SrvCanRun /\ SrvMove("rxgive", "unlock")
  /\ rx_empty' = [rx_empty EXCEPT ![cur] = TRUE]
  /\ UNCHANGED <<status, lock, rx_buf, rx_i_in, rx_i_out, rx_occ, arrived, got,
                 txVars, pc, envVars>>

SrvUnlock ==
  /\ SrvCanRun /\ srv = "unlock"
  /\ lock' = [lock EXCEPT ![cur] = Nobody]
  /\ Advance
  /\ UNCHANGED <<status, txVars, rxVars, pc, envVars>>

\* sl_Send or sl_Recv reports an error: LogSLError, then the task deletes itself.
SrvError ==
  /\ SrvCanRun /\ srv' = "fail" /\ cur' = cur
  /\ srv = "send" \/ (srv = "recv" /\ RxRoom(cur) > 0)
  /\ UNCHANGED <<status, lock, txVars, rxVars, pc, envVars>>

\* Slip: the error return keeps buf_access.
SrvDieHolding ==
  /\ SrvCanRun /\ SrvMove("fail", "dead")
  /\ UNCHANGED <<status, lock, txVars, rxVars, pc, envVars>>

SrvDie ==
  /\ SrvCanRun /\ SrvMove("fail", "dead")
  /\ lock' = [lock EXCEPT ![cur] = Nobody]
  /\ UNCHANGED <<status, txVars, rxVars, pc, envVars>>

-----------------------------------------------------------------------------
(* The TCP client of a slot.                                               *)

PeerConnect(s) ==
  /\ peer[s] = "away" /\ status[s] = "started" /\ connects[s] < MaxConnects
  /\ peer' = [peer EXCEPT ![s] = "knocking"]
  /\ connects' = [connects EXCEPT ![s] = @ + 1]
  /\ UNCHANGED <<status, lock, txVars, rxVars, pc, srvVars, inflight, sent>>

PeerSend(s) ==
  /\ peer[s] = "open" /\ sent[s] < MaxPeerSends
  /\ sent' = [sent EXCEPT ![s] = @ + 1]
  /\ inflight' = [inflight EXCEPT ![s] = @ + 1]
  /\ UNCHANGED <<status, lock, txVars, rxVars, pc, srvVars, peer, connects>>

PeerClose(s) ==
  /\ peer[s] = "open"
  /\ peer' = [peer EXCEPT ![s] = "closing"]
  /\ UNCHANGED <<status, lock, txVars, rxVars, pc, srvVars, connects, inflight, sent>>

-----------------------------------------------------------------------------
PutStep(t) == PutTake(t) \/ PutLock(t) \/ PutWrite(t) \/ PutCheck(t) \/ PutGive(t)
GetStep(t) == GetTake(t) \/ GetLock(t) \/ GetRead(t) \/ GetCheck(t) \/ GetGive(t)
TaskStep(t) == PutCall(t) \/ PutStep(t) \/ GetCall(t) \/ GetStep(t)

SrvStep ==
  \/ SrvStart \/ SrvStartFail \/ SrvTick
  \/ SrvAcceptCall \/ SrvAcceptAgain \/ SrvAccepted \/ SrvAcceptFail
  \/ SrvConnected \/ SrvSockOptFail
  \/ SrvLock \/ SrvSend \/ SrvTxPoll \/ SrvTxGive
  \/ SrvRecv \/ SrvRecvAgain \/ SrvRecvNothing \/ SrvRecvClosed \/ SrvClosed
  \/ SrvRxPoll \/ SrvRxGive
  \/ SrvUnlock \/ SrvError \/ SrvDie

PeerStep(s) == PeerConnect(s) \/ PeerSend(s) \/ PeerClose(s)

Next ==
  \/ \E t \in Tasks : TaskStep(t)
  \/ SrvStep
  \/ \E s \in Slots : PeerStep(s)

Spec == Init /\ [][Next]_vars

\* The scheduler runs every task that stays ready: each waits a tick per loop,
\* except a server stuck in sl_Recv, below which no task runs again.  A task waiting for
\* tx_buf_full sees it come and go, since the server takes and gives it in
\* alternate rounds, and gets it because the server sleeps a tick per round.
\* Nothing is assumed of the clients, nor of a task starting a call.
Fairness ==
  /\ WF_vars(SrvStep)
  /\ \A t \in Tasks : SF_vars(PutStep(t)) /\ SF_vars(GetStep(t))

FairSpec == Spec /\ Fairness

-----------------------------------------------------------------------------
ControlType ==
  /\ status \in [Slots -> {"down", "started", "connected"}]
  /\ lock \in [Slots -> TaskOwners]
  /\ pc \in [Tasks -> TaskPCs] /\ srv \in SrvPCs /\ cur \in Slots

TxType ==
  /\ tx_full \in [Slots -> BOOLEAN]
  /\ tx_buf \in [Slots -> [0..(TxBufSize - 1) -> Nat]]
  /\ tx_i_in \in [Slots -> 0..(IndexWrap - 1)] /\ tx_i_out \in [Slots -> 0..(IndexWrap - 1)]
  /\ tx_occ \in [Slots -> Nat]
  /\ written \in [Slots -> Nat] /\ wire \in [Slots -> Seq(Nat)]

RxType ==
  /\ rx_empty \in [Slots -> BOOLEAN]
  /\ rx_buf \in [Slots -> [0..(RxBufSize - 1) -> Nat]]
  /\ rx_i_in \in [Slots -> 0..(IndexWrap - 1)] /\ rx_i_out \in [Slots -> 0..(IndexWrap - 1)]
  /\ rx_occ \in [Slots -> 0..(IndexWrap - 1)]
  /\ arrived \in [Slots -> Nat] /\ got \in [Slots -> Seq(Nat)]

PeerType ==
  /\ peer \in [Slots -> {"away", "knocking", "open", "closing"}]
  /\ connects \in [Slots -> Nat] /\ inflight \in [Slots -> Nat] /\ sent \in [Slots -> Nat]

\* Type correctness of the socket state, of the tasks and of the histories.
TypeOK == ControlType /\ TxType /\ RxType /\ PeerType

\* Mutual exclusion on buf_access, whatever errors the socket calls report: a
\* slot's mutex is held by the server exactly while it works on that slot or
\* hangs in sl_Recv for it (one that died holds none, and hangs no task), and by
\* a task exactly while it is inside PutChar or GetChar.
BufAccess ==
  /\ \A s \in Slots : lock[s] = Server <=> (srv \in SrvHolds /\ cur = s)
  /\ \A t \in Tasks : pc[t] \in {"p_locked", "g_locked"} <=> lock[SlotOf[t]] = t
  /\ \A s \in Slots : lock[s] \in Tasks => SlotOf[lock[s]] = s

\* PutChar never writes over a character the server has not sent, although its
\* last test of the occupancy is made without the mutex and the server gives
\* the token on its own: the occupancy stays within the buffer.
TxNeverOverflows == \A s \in Slots : tx_occ[s] <= TxBufSize

\* GetChar never takes from an empty buffer and sl_Recv never stores into a
\* full one (an unsigned occupancy that wrapped would show as a huge one).
RxStaysInBounds == \A s \in Slots : rx_occ[s] <= RxBufSize

\* The send and receive directions of every slot each implement a bounded
\* in-order channel, through disconnects, reconnects and index wraparound.
TxChannel == INSTANCE ByteChannel
  WITH Channels <- Slots, Capacity <- TxBufSize, accepted <- written, delivered <- wire
RxChannel == INSTANCE ByteChannel
  WITH Channels <- Slots, Capacity <- RxBufSize, accepted <- arrived, delivered <- got

TxIsAChannel == TxChannel!Spec
RxIsAChannel == RxChannel!Spec

\* The server has deleted itself on an error, or hangs in sl_Recv for good.
ServerGone == srv \in {"dead", "stuck"}

\* A task blocked in PutChar gets its character into the buffer as long as the
\* server serves and the slot's client stays (serialsock.h:27).
PutReturns ==
  \A t \in Putters :
    pc[t] = "p_want" ~> (pc[t] # "p_want" \/ status[SlotOf[t]] # "connected" \/ ServerGone)

\* A reader waiting on a slot with room in its buffer is woken by the next
\* character to arrive.
ArrivalWakesReader ==
  \A t \in Getters : LET s == SlotOf[t] IN
    (pc[t] = "g_want" /\ inflight[s] > 0 /\ rx_occ[s] < RxBufSize)
      ~> (pc[t] # "g_want" \/ status[s] # "connected" \/ ServerGone)

\* serialsock.h:33 says of GetChar that it blocks until a character becomes
\* available: with a character in the buffer it returns.
GetReturnsWhenAvailable ==
  \A t \in Getters :
    (pc[t] = "g_want" /\ rx_occ[SlotOf[t]] > 0) ~> (pc[t] # "g_want" \/ ServerGone)
=============================================================================
