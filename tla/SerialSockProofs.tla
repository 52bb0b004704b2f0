-------------------------- MODULE SerialSockProofs --------------------------
(***************************************************************************)
(* Theorems about the serial socket server: the locking and the states of  *)
(* a slot, and that its send direction, and the receive direction of a     *)
(* slot with one reader, implement ByteChannel.                            *)
(***************************************************************************)
EXTENDS SerialSock, Integers, TLAPS

-----------------------------------------------------------------------------
(* Ring-buffer arithmetic.                                                 *)

\* An index taken modulo a size lies in the ring.
LEMMA ModLemma ==
  ASSUME NEW x \in Nat, NEW n \in Nat, n > 0
  PROVE  x % n \in 0..(n - 1)
  OBVIOUS

\* What sl_Send is handed is a run inside the buffer, not longer than the
\* occupancy, and not empty unless the buffer is.
LEMMA RunLemma ==
  ASSUME SocketAssumption, TxType, NEW s \in Slots
  PROVE  /\ TxOut(s) \in 0..(TxBufSize - 1)
         /\ TxRun(s) \in 0..(TxBufSize - TxOut(s))
         /\ TxRun(s) <= tx_occ[s]
         /\ tx_occ[s] > 0 => TxRun(s) > 0
<1>1. TxOut(s) \in 0..(TxBufSize - 1)
  <2>1. tx_i_out[s] \in Nat /\ RxBufSize \in Nat /\ RxBufSize > 0
    BY DEF SocketAssumption, TxType
  <2>2. tx_i_out[s] % RxBufSize \in 0..(RxBufSize - 1)
    BY <2>1, ModLemma
  <2> QED BY <2>2 DEF TxOut, SocketAssumption
<1>2. tx_occ[s] \in Nat /\ TxBufSize \in Nat
  BY DEF TxType, SocketAssumption
<1>. QED
  BY <1>1, <1>2 DEF TxRun, MinOf

\* The same for what sl_Recv may fill.
LEMMA RoomLemma ==
  ASSUME SocketAssumption, RxType, NEW s \in Slots
  PROVE  /\ RxIn(s) \in 0..(RxBufSize - 1)
         /\ RxRoom(s) \in 0..(RxBufSize - RxIn(s))
         /\ rx_occ[s] <= RxBufSize => RxRoom(s) + rx_occ[s] <= RxBufSize
<1>1. RxIn(s) \in 0..(RxBufSize - 1)
  <2>1. rx_i_in[s] \in Nat /\ RxBufSize \in Nat /\ RxBufSize > 0
    BY DEF SocketAssumption, RxType
  <2> QED BY <2>1, ModLemma DEF RxIn
<1>2. /\ rx_occ[s] \in 0..(IndexWrap - 1) /\ RxBufSize \in Nat /\ IndexWrap \in Nat
      /\ RxBufSize < IndexWrap /\ RxBufSize > 0
  BY DEF RxType, SocketAssumption
<1>3. DEFINE x == RxBufSize + IndexWrap - rx_occ[s]
<1>4. x \in Nat /\ IndexWrap > 0
  BY <1>2
<1>5. x % IndexWrap \in 0..(IndexWrap - 1)
  BY <1>2, <1>4, ModLemma
<1>6. rx_occ[s] <= RxBufSize => x % IndexWrap = RxBufSize - rx_occ[s]
  BY <1>2
<1>. QED
  BY <1>1, <1>2, <1>5, <1>6 DEF RxRoom, MinOf

-----------------------------------------------------------------------------
(* Type correctness.                                                       *)

LEMMA TypeInit ==
  ASSUME SocketAssumption, TaskAssumption, Init
  PROVE  TypeOK
<1>1. /\ 0 \in 0..(IndexWrap - 1) /\ 1 \in Slots
  BY DEF SocketAssumption, Slots
<1>2. ControlType
  BY <1>1 DEF Init, ControlType, TaskOwners, TaskPCs, SrvPCs
<1>3. TxType
  BY <1>1 DEF Init, TxType
<1>4. RxType
  BY <1>1 DEF Init, RxType
<1>5. PeerType
  BY DEF Init, PeerType
<1>. QED  BY <1>2, <1>3, <1>4, <1>5 DEF TypeOK

LEMMA TypePut ==
  ASSUME SocketAssumption, TaskAssumption, TypeOK, NEW t \in Tasks,
         PutCall(t) \/ PutStep(t)
  PROVE  TypeOK'
<1> USE DEF TypeOK, Move
<1>1. RxType' /\ PeerType' /\ UNCHANGED <<srv, cur, status>>
  BY DEF RxType, PeerType, PutStep, PutCall, PutTake, PutLock, PutWrite, PutCheck,
         PutGive, rxVars, envVars, srvVars
<1>2. SlotOf[t] \in Slots
  BY DEF TaskAssumption
<1>3. ControlType'
  <2>1. pc' \in [Tasks -> TaskPCs]
    BY DEF ControlType, TaskPCs, PutPCs, PutStep, PutCall, PutTake, PutLock, PutWrite,
           PutCheck, PutGive
  <2>2. lock' \in [Slots -> TaskOwners]
    <3>1. CASE PutLock(t) \/ PutWrite(t)
      <4>1. \/ lock' = [lock EXCEPT ![SlotOf[t]] = t]
            \/ lock' = [lock EXCEPT ![SlotOf[t]] = Nobody]
        BY <3>1 DEF PutLock, PutWrite
      <4> QED BY <4>1, <1>2 DEF ControlType, TaskOwners
    <3>2. CASE PutCall(t) \/ PutTake(t) \/ PutCheck(t) \/ PutGive(t)
      <4>1. lock' = lock
        BY <3>2 DEF PutCall, PutTake, PutCheck, PutGive
      <4> QED BY <4>1 DEF ControlType
    <3> QED BY <3>1, <3>2 DEF PutStep
  <2> QED BY <1>1, <2>1, <2>2 DEF ControlType
<1>4. CASE PutWrite(t)
  <2> DEFINE s == SlotOf[t]
  <2>1. /\ tx_i_in[s] \in Nat /\ tx_i_in[s] + 1 \in Nat /\ tx_occ[s] + 1 \in Nat
        /\ written[s] + 1 \in Nat
        /\ TxBufSize \in Nat /\ TxBufSize > 0 /\ IndexWrap \in Nat /\ IndexWrap > 0
    <3>1. TxBufSize \in Nat /\ TxBufSize > 0 /\ IndexWrap \in Nat /\ IndexWrap > 0
      BY DEF SocketAssumption
    <3>2. /\ tx_i_in[s] \in 0..(IndexWrap - 1) /\ tx_occ[s] \in Nat /\ written[s] \in Nat
      BY <1>2 DEF TxType
    <3>. QED  BY <3>1, <3>2
  <2>2. /\ tx_i_in[s] % TxBufSize \in 0..(TxBufSize - 1)
        /\ (tx_i_in[s] + 1) % IndexWrap \in 0..(IndexWrap - 1)
    BY <2>1, ModLemma
  <2> HIDE DEF s
  <2>3. s \in Slots
    BY <1>2 DEF s
  <2>4. /\ tx_buf' = [tx_buf EXCEPT ![s][tx_i_in[s] % TxBufSize] = written[s] + 1]
        /\ tx_i_in' = [tx_i_in EXCEPT ![s] = (tx_i_in[s] + 1) % IndexWrap]
        /\ tx_occ' = [tx_occ EXCEPT ![s] = tx_occ[s] + 1]
        /\ written' = [written EXCEPT ![s] = written[s] + 1]
        /\ UNCHANGED <<tx_full, tx_i_out, wire>>
    BY <1>4 DEF PutWrite, s
  <2>5. tx_buf' \in [Slots -> [0..(TxBufSize - 1) -> Nat]]
    BY <2>1, <2>2, <2>3, <2>4 DEF TxType
  <2>6. TxType'
    BY <2>1, <2>2, <2>3, <2>4, <2>5 DEF TxType
  <2> QED BY <2>6, <1>1, <1>3
<1>5. CASE PutCall(t) \/ PutTake(t) \/ PutLock(t) \/ PutCheck(t) \/ PutGive(t)
  <2>1. TxType'
    BY <1>2, <1>5 DEF TxType, PutCall, PutTake, PutLock, PutCheck, PutGive, txVars
  <2> QED BY <2>1, <1>1, <1>3
<1>. QED  BY <1>4, <1>5 DEF PutStep

LEMMA TypeGet ==
  ASSUME SocketAssumption, TaskAssumption, TypeOK, NEW t \in Tasks,
         GetCall(t) \/ GetStep(t)
  PROVE  TypeOK'
<1> USE DEF TypeOK, Move
<1>1. TxType' /\ PeerType' /\ UNCHANGED <<srv, cur, status>>
  BY DEF TxType, PeerType, GetStep, GetCall, GetTake, GetLock, GetRead, GetCheck,
         GetGive, txVars, envVars, srvVars
<1>2. SlotOf[t] \in Slots
  BY DEF TaskAssumption
<1>3. ControlType'
  <2>1. pc' \in [Tasks -> TaskPCs]
    BY DEF ControlType, TaskPCs, GetPCs, GetStep, GetCall, GetTake, GetLock, GetRead,
           GetCheck, GetGive
  <2>2. lock' \in [Slots -> TaskOwners]
    <3>1. CASE GetLock(t) \/ GetRead(t)
      <4>1. \/ lock' = [lock EXCEPT ![SlotOf[t]] = t]
            \/ lock' = [lock EXCEPT ![SlotOf[t]] = Nobody]
        BY <3>1 DEF GetLock, GetRead
      <4> QED BY <4>1, <1>2 DEF ControlType, TaskOwners
    <3>2. CASE GetCall(t) \/ GetTake(t) \/ GetCheck(t) \/ GetGive(t)
      <4>1. lock' = lock
        BY <3>2 DEF GetCall, GetTake, GetCheck, GetGive
      <4> QED BY <4>1 DEF ControlType
    <3> QED BY <3>1, <3>2 DEF GetStep
  <2> QED BY <1>1, <2>1, <2>2 DEF ControlType
<1>4. CASE GetRead(t)
  <2> DEFINE s == SlotOf[t]
             c == rx_buf[s][rx_i_out[s] % RxBufSize]
  <2>1. /\ rx_i_out[s] \in Nat /\ rx_i_out[s] + 1 \in Nat
        /\ rx_occ[s] + IndexWrap - 1 \in Nat
        /\ RxBufSize \in Nat /\ RxBufSize > 0 /\ IndexWrap \in Nat /\ IndexWrap > 0
    BY <1>2 DEF RxType, SocketAssumption
  <2>2. /\ rx_i_out[s] % RxBufSize \in 0..(RxBufSize - 1)
        /\ (rx_i_out[s] + 1) % IndexWrap \in 0..(IndexWrap - 1)
        /\ (rx_occ[s] + IndexWrap - 1) % IndexWrap \in 0..(IndexWrap - 1)
    BY <2>1, ModLemma
  <2>3. c \in Nat
    <3>1. rx_buf[s] \in [0..(RxBufSize - 1) -> Nat]
      BY <1>2 DEF RxType
    <3> QED BY <3>1, <2>2
  <2> HIDE DEF s, c
  <2>4. s \in Slots
    BY <1>2 DEF s
  <2>5. /\ got' = [got EXCEPT ![s] = Append(got[s], c)]
        /\ rx_i_out' = [rx_i_out EXCEPT ![s] = (rx_i_out[s] + 1) % IndexWrap]
        /\ rx_occ' = [rx_occ EXCEPT ![s] = (rx_occ[s] + IndexWrap - 1) % IndexWrap]
        /\ UNCHANGED <<rx_empty, rx_buf, rx_i_in, arrived>>
    BY <1>4 DEF GetRead, s, c
  <2>6. got' \in [Slots -> Seq(Nat)]
    BY <2>3, <2>4, <2>5 DEF RxType
  <2>7. RxType'
    BY <2>2, <2>4, <2>5, <2>6 DEF RxType
  <2> QED BY <2>7, <1>1, <1>3
<1>5. CASE GetCall(t) \/ GetTake(t) \/ GetLock(t) \/ GetCheck(t) \/ GetGive(t)
  <2>1. RxType'
    BY <1>2, <1>5 DEF RxType, GetCall, GetTake, GetLock, GetCheck, GetGive, rxVars
  <2> QED BY <2>1, <1>1, <1>3
<1>. QED  BY <1>4, <1>5 DEF GetStep

LEMMA TypeServer ==
  ASSUME SocketAssumption, TaskAssumption, TypeOK, SrvStep
  PROVE  TypeOK'
<1> USE DEF TypeOK
<1>1. cur \in Slots /\ srv \in SrvPCs /\ NumSockets \in Nat
  BY DEF ControlType, SocketAssumption
<1>2. ASSUME Advance PROVE cur' \in Slots /\ srv' \in SrvPCs
  BY <1>1, <1>2 DEF Advance, Slots, SrvPCs, SocketAssumption
<1>3. ASSUME NEW a, NEW b \in SrvPCs, SrvMove(a, b) PROVE cur' \in Slots /\ srv' \in SrvPCs
  BY <1>1, <1>3 DEF SrvMove
<1>4. CASE SrvStart \/ SrvStartFail
  <2>1. TxType' /\ RxType' /\ PeerType' /\ UNCHANGED <<lock, pc>>
    BY <1>4 DEF SrvStart, SrvStartFail, TxType, RxType, PeerType, txVars, rxVars, envVars
  <2>2. status' \in [Slots -> {"down", "started", "connected"}]
    BY <1>4 DEF SrvStart, SrvStartFail
  <2>3. cur' \in Slots /\ srv' \in SrvPCs
    BY <1>4, <1>3 DEF SrvStart, SrvStartFail, SrvPCs
  <2> QED BY <2>1, <2>2, <2>3 DEF ControlType
<1>5. CASE SrvTick \/ SrvAcceptCall \/ SrvAcceptAgain \/ SrvClosed \/ SrvError \/ SrvRecvAgain \/ SrvRecvNothing
  <2>1. TxType' /\ RxType' /\ PeerType' /\ UNCHANGED <<lock, pc, status>>
    BY <1>5 DEF SrvTick, SrvAcceptCall, SrvAcceptAgain, SrvClosed, SrvError, SrvRecvAgain, SrvRecvNothing,
                TxType, RxType, PeerType, txVars, rxVars, envVars
  <2>2. cur' \in Slots /\ srv' \in SrvPCs
    BY <1>5, <1>1, <1>2, <1>3 DEF SrvTick, SrvAcceptCall, SrvAcceptAgain, SrvClosed,
                SrvError, SrvRecvAgain, SrvRecvNothing, SrvPCs
  <2> QED BY <2>1, <2>2 DEF ControlType
<1>6. CASE SrvAccepted \/ SrvAcceptFail \/ SrvSockOptFail \/ SrvRecvClosed
  <2>1. TxType' /\ RxType' /\ UNCHANGED <<lock, pc>>
    BY <1>6 DEF SrvAccepted, SrvAcceptFail, SrvSockOptFail, SrvRecvClosed,
                TxType, RxType, txVars, rxVars
  <2>2. PeerType'
    BY <1>6, <1>1 DEF SrvAccepted, SrvAcceptFail, SrvSockOptFail, SrvRecvClosed, PeerType,
                envVars
  <2>3. status' \in [Slots -> {"down", "started", "connected"}]
    BY <1>6, <1>1 DEF SrvAccepted, SrvAcceptFail, SrvSockOptFail, SrvRecvClosed, ControlType
  <2>4. cur' \in Slots /\ srv' \in SrvPCs
    BY <1>6, <1>3 DEF SrvAccepted, SrvAcceptFail, SrvSockOptFail, SrvRecvClosed, SrvPCs
  <2> QED BY <2>1, <2>2, <2>3, <2>4 DEF ControlType
<1>7. CASE SrvConnected
  <2>1. TxType' /\ RxType' /\ PeerType' /\ UNCHANGED <<lock>>
    BY <1>7 DEF SrvConnected, TxType, RxType, PeerType, txVars, rxVars, envVars
  <2>2. status' \in [Slots -> {"down", "started", "connected"}]
    BY <1>7, <1>1 DEF SrvConnected, ControlType
  <2>3. pc' \in [Tasks -> TaskPCs]
    BY <1>7, TaskAssumption DEF SrvConnected, ControlType, TaskPCs, TaskAssumption
  <2>4. cur' \in Slots /\ srv' \in SrvPCs
    BY <1>7, <1>2 DEF SrvConnected
  <2> QED BY <2>1, <2>2, <2>3, <2>4 DEF ControlType
<1>8. CASE SrvLock \/ SrvUnlock \/ SrvDie
  <2>1. TxType' /\ RxType' /\ PeerType' /\ UNCHANGED <<status, pc>>
    BY <1>8 DEF SrvLock, SrvUnlock, SrvDie, TxType, RxType, PeerType, txVars, rxVars, envVars
  <2>2. lock' \in [Slots -> TaskOwners]
    BY <1>8, <1>1 DEF SrvLock, SrvUnlock, SrvDie, ControlType, TaskOwners
  <2>3. cur' \in Slots /\ srv' \in SrvPCs
    BY <1>8, <1>2, <1>3 DEF SrvLock, SrvUnlock, SrvDie, SrvPCs
  <2> QED BY <2>1, <2>2, <2>3 DEF ControlType
<1>9. CASE SrvSend
  <2> DEFINE n == TxRun(cur)
             o == TxOut(cur)
             chunk == [i \in 1..n |-> tx_buf[cur][o + i - 1]]
  <2>1. /\ n \in Nat /\ o \in Nat /\ tx_occ[cur] - n \in Nat /\ o + n <= TxBufSize
        /\ tx_i_out[cur] + n \in Nat /\ IndexWrap \in Nat /\ IndexWrap > 0
    <3>1. /\ o \in 0..(TxBufSize - 1) /\ n \in 0..(TxBufSize - o) /\ n <= tx_occ[cur]
      BY <1>1, RunLemma
    <3>2. /\ tx_occ[cur] \in Nat /\ tx_i_out[cur] \in Nat /\ TxBufSize \in Nat
          /\ IndexWrap \in Nat /\ IndexWrap > 0
      BY <1>1 DEF TxType, SocketAssumption
    <3> HIDE DEF n, o
    <3> QED BY <3>1, <3>2
  <2>2. (tx_i_out[cur] + n) % IndexWrap \in 0..(IndexWrap - 1)
    BY <2>1, ModLemma
  <2>3. chunk \in Seq(Nat)
    <3>1. \A i \in 1..n : o + i - 1 \in 0..(TxBufSize - 1)
      BY <2>1, SocketAssumption DEF SocketAssumption
    <3>2. tx_buf[cur] \in [0..(TxBufSize - 1) -> Nat]
      BY <1>1 DEF TxType
    <3>3. \A i \in 1..n : tx_buf[cur][o + i - 1] \in Nat
      BY <3>1, <3>2
    <3> HIDE DEF n, o
    <3>4. chunk \in [1..n -> Nat]
      BY <3>3
    <3> HIDE DEF chunk
    <3> QED BY <3>4, <2>1
  <2> HIDE DEF n, o, chunk
  <2>4. /\ wire' = [wire EXCEPT ![cur] = wire[cur] \o chunk]
        /\ tx_occ' = [tx_occ EXCEPT ![cur] = tx_occ[cur] - n]
        /\ tx_i_out' = [tx_i_out EXCEPT ![cur] = (tx_i_out[cur] + n) % IndexWrap]
        /\ UNCHANGED <<tx_full, tx_buf, tx_i_in, written, lock, status, pc>>
    BY <1>9 DEF SrvSend, n, o, chunk
  <2>5. RxType' /\ PeerType'
    BY <1>9 DEF SrvSend, RxType, PeerType, rxVars, envVars
  <2>6. wire' \in [Slots -> Seq(Nat)]
    BY <1>1, <2>3, <2>4 DEF TxType
  <2>7. TxType'
    BY <1>1, <2>1, <2>2, <2>4, <2>6 DEF TxType
  <2>8. cur' \in Slots /\ srv' \in SrvPCs
    BY <1>9, <1>3 DEF SrvSend, SrvPCs
  <2> QED BY <2>4, <2>5, <2>7, <2>8 DEF ControlType
<1>10. CASE SrvTxPoll \/ SrvTxGive
  <2>1. RxType' /\ PeerType' /\ UNCHANGED <<lock, pc, status>>
    BY <1>10 DEF SrvTxPoll, SrvTxGive, RxType, PeerType, rxVars, envVars
  <2>2. TxType'
    BY <1>10, <1>1 DEF SrvTxPoll, SrvTxGive, TxType
  <2>3. cur' \in Slots /\ srv' \in SrvPCs
    BY <1>10, <1>1 DEF SrvTxPoll, SrvTxGive, SrvPCs, SrvMove
  <2> QED BY <2>1, <2>2, <2>3 DEF ControlType
<1>11. CASE SrvRecv
  <2>1. TxType' /\ UNCHANGED <<lock, pc, status, peer, connects, sent>>
    BY <1>11 DEF SrvRecv, TxType, txVars
  <2>2. PICK n \in 1..MinOf(RxRoom(cur), inflight[cur]) :
         /\ rx_buf' = [rx_buf EXCEPT ![cur] =
              [i \in 0..(RxBufSize - 1) |->
                 IF i >= RxIn(cur) /\ i < RxIn(cur) + n
                   THEN arrived[cur] + 1 + (i - RxIn(cur)) ELSE rx_buf[cur][i]]]
         /\ rx_i_in' = [rx_i_in EXCEPT ![cur] = (rx_i_in[cur] + n) % IndexWrap]
         /\ rx_occ' = [rx_occ EXCEPT ![cur] = (rx_occ[cur] + n) % IndexWrap]
         /\ arrived' = [arrived EXCEPT ![cur] = arrived[cur] + n]
         /\ inflight' = [inflight EXCEPT ![cur] = inflight[cur] - n]
    BY <1>11 DEF SrvRecv
  <2>3. /\ RxRoom(cur) \in Nat /\ RxIn(cur) \in 0..(RxBufSize - 1) /\ inflight[cur] \in Nat
        /\ IndexWrap \in Nat /\ IndexWrap > 0 /\ RxBufSize \in Nat
    BY <1>1, RoomLemma DEF PeerType, SocketAssumption
  <2>4. n \in Nat /\ inflight[cur] - n \in Nat
    BY <2>3 DEF MinOf
  <2>5. /\ rx_i_in[cur] + n \in Nat /\ rx_occ[cur] + n \in Nat /\ arrived[cur] + n \in Nat
    <3>1. /\ rx_i_in[cur] \in 0..(IndexWrap - 1) /\ rx_occ[cur] \in 0..(IndexWrap - 1)
          /\ arrived[cur] \in Nat
      BY <1>1 DEF RxType
    <3>. QED  BY <2>3, <2>4, <3>1
  <2>6. /\ (rx_i_in[cur] + n) % IndexWrap \in 0..(IndexWrap - 1)
        /\ (rx_occ[cur] + n) % IndexWrap \in 0..(IndexWrap - 1)
    BY <2>3, <2>5, ModLemma
  <2>7. rx_buf' \in [Slots -> [0..(RxBufSize - 1) -> Nat]]
    <3> DEFINE new == [i \in 0..(RxBufSize - 1) |->
                        IF i >= RxIn(cur) /\ i < RxIn(cur) + n
                          THEN arrived[cur] + 1 + (i - RxIn(cur)) ELSE rx_buf[cur][i]]
    <3>1. new \in [0..(RxBufSize - 1) -> Nat]
      <4>1. /\ arrived[cur] \in Nat /\ \A i \in 0..(RxBufSize - 1) : rx_buf[cur][i] \in Nat
        BY <1>1 DEF RxType
      <4>2. \A i \in 0..(RxBufSize - 1) :
              i >= RxIn(cur) => arrived[cur] + 1 + (i - RxIn(cur)) \in Nat
        BY <2>3, <4>1
      <4> QED BY <4>1, <4>2
    <3>2. rx_buf' = [rx_buf EXCEPT ![cur] = new]
      BY <2>2
    <3> HIDE DEF new
    <3> QED BY <1>1, <3>1, <3>2 DEF RxType
  <2>8. UNCHANGED <<rx_empty, rx_i_out, got>>
    BY <1>11 DEF SrvRecv
  <2>9. RxType'
    BY <1>1, <2>2, <2>5, <2>6, <2>7, <2>8 DEF RxType
  <2>10. PeerType'
    BY <1>1, <2>1, <2>2, <2>4 DEF PeerType
  <2>11. cur' \in Slots /\ srv' \in SrvPCs
    BY <1>11, <1>3 DEF SrvRecv, SrvPCs
  <2> QED BY <2>1, <2>9, <2>10, <2>11 DEF ControlType
<1>12. CASE SrvRxPoll \/ SrvRxGive
  <2>1. TxType' /\ PeerType' /\ UNCHANGED <<lock, pc, status>>
    BY <1>12 DEF SrvRxPoll, SrvRxGive, TxType, PeerType, txVars, envVars
  <2>2. RxType'
    BY <1>12, <1>1 DEF SrvRxPoll, SrvRxGive, RxType
  <2>3. cur' \in Slots /\ srv' \in SrvPCs
    BY <1>12, <1>1 DEF SrvRxPoll, SrvRxGive, SrvPCs, SrvMove
  <2> QED BY <2>1, <2>2, <2>3 DEF ControlType
<1>. QED
  BY <1>4, <1>5, <1>6, <1>7, <1>8, <1>9, <1>10, <1>11, <1>12 DEF SrvStep

\* Every state of the sockets, tasks, clients and histories is well typed.
THEOREM TypeCorrect == Spec => []TypeOK
<1> USE SocketAssumption, TaskAssumption
<1>1. Init => TypeOK
  BY TypeInit
<1>2. TypeOK /\ [Next]_vars => TypeOK'
  <2> SUFFICES ASSUME TypeOK, [Next]_vars PROVE TypeOK'
    OBVIOUS
  <2>1. CASE \E t \in Tasks : TaskStep(t)
    BY <2>1, TypePut, TypeGet DEF TaskStep
  <2>2. CASE SrvStep
    BY <2>2, TypeServer
  <2>3. CASE \E s \in Slots : PeerStep(s)
    <3>1. UNCHANGED <<status, lock, txVars, rxVars, pc, srvVars>>
      BY <2>3 DEF PeerStep, PeerConnect, PeerSend, PeerClose
    <3>2. PeerType'
      BY <2>3 DEF PeerStep, PeerConnect, PeerSend, PeerClose, PeerType, TypeOK
    <3> QED BY <3>1, <3>2 DEF TypeOK, ControlType, TxType, RxType, txVars, rxVars, srvVars
  <2>4. CASE UNCHANGED vars
    BY <2>4 DEF vars, TypeOK, ControlType, TxType, RxType, PeerType, txVars, rxVars,
                srvVars, envVars
  <2> QED BY <2>1, <2>2, <2>3, <2>4 DEF Next
<1>. QED  BY <1>1, <1>2, PTL DEF Spec

-----------------------------------------------------------------------------
(* Mutual exclusion on buf_access.  BufAccess is inductive relative to the *)
(* types.                                                                  *)

LEMMA AccessTask ==
  ASSUME TaskAssumption, TypeOK, BufAccess, NEW t \in Tasks, TaskStep(t)
  PROVE  BufAccess'
<1>1. SlotOf[t] \in Slots /\ SlotOf \in [Tasks -> Slots] /\ lock \in [Slots -> TaskOwners]
      /\ pc \in [Tasks -> TaskPCs] /\ Nobody \notin Tasks /\ Server \notin Tasks
      /\ Server # Nobody /\ UNCHANGED <<srv, cur>>
  BY DEF TaskAssumption, TypeOK, ControlType, TaskStep, PutStep, GetStep, PutCall, PutTake,
         PutLock, PutWrite, PutCheck, PutGive, GetCall, GetTake, GetLock, GetRead, GetCheck,
         GetGive, srvVars
<1>2. CASE PutLock(t) \/ GetLock(t)
  <2>1. /\ lock[SlotOf[t]] = Nobody /\ lock' = [lock EXCEPT ![SlotOf[t]] = t]
        /\ \E x \in {"p_locked", "g_locked"} : pc' = [pc EXCEPT ![t] = x]
    BY <1>2 DEF PutLock, GetLock, Move
  <2> QED BY <1>1, <2>1 DEF BufAccess
<1>3. CASE PutWrite(t) \/ GetRead(t)
  <2>1. /\ pc[t] \in {"p_locked", "g_locked"} /\ lock' = [lock EXCEPT ![SlotOf[t]] = Nobody]
        /\ \E x \in {"p_check", "g_check"} : pc' = [pc EXCEPT ![t] = x]
    BY <1>3 DEF PutWrite, GetRead, Move
  <2> QED BY <1>1, <2>1 DEF BufAccess
<1>4. CASE PutCall(t) \/ PutTake(t) \/ PutCheck(t) \/ PutGive(t)
           \/ GetCall(t) \/ GetTake(t) \/ GetCheck(t) \/ GetGive(t)
  <2>1. /\ pc[t] \notin {"p_locked", "g_locked"} /\ lock' = lock
        /\ \E x \in TaskPCs \ {"p_locked", "g_locked"} : pc' = [pc EXCEPT ![t] = x]
    BY <1>4 DEF PutCall, PutTake, PutCheck, PutGive, GetCall, GetTake, GetCheck, GetGive, Move,
                TaskPCs, PutPCs, GetPCs
  <2> QED BY <1>1, <2>1 DEF BufAccess
<1>. QED  BY <1>2, <1>3, <1>4 DEF TaskStep, PutStep, GetStep

LEMMA AccessServer ==
  ASSUME SocketAssumption, TaskAssumption, TypeOK, BufAccess, SrvStep
  PROVE  BufAccess'
<1>1. /\ cur \in Slots /\ lock \in [Slots -> TaskOwners] /\ pc \in [Tasks -> TaskPCs]
      /\ SlotOf \in [Tasks -> Slots]
      /\ Server \notin Tasks /\ Nobody \notin Tasks /\ Server # Nobody
  BY DEF TypeOK, ControlType, TaskAssumption
<1>2. CASE SrvLock
  <2>1. /\ lock[cur] = Nobody /\ lock' = [lock EXCEPT ![cur] = Server] /\ cur' = cur
        /\ srv = "scan" /\ srv' \in {"send", "txpoll"} /\ pc' = pc
    BY <1>2 DEF SrvLock, SrvMove
  <2> QED BY <1>1, <2>1 DEF BufAccess, SrvHolds
<1>3. CASE SrvUnlock \/ SrvDie
  <2>1. /\ lock' = [lock EXCEPT ![cur] = Nobody] /\ srv \in {"unlock", "fail"}
        /\ srv' \in {"scan", "delay", "dead"} /\ pc' = pc
    BY <1>3 DEF SrvUnlock, SrvDie, SrvMove, Advance
  <2> QED BY <1>1, <2>1 DEF BufAccess, SrvHolds
<1>4. CASE SrvSend \/ SrvTxPoll \/ SrvTxGive \/ SrvRecv \/ SrvRecvAgain \/ SrvRecvNothing \/ SrvRecvClosed
           \/ SrvClosed \/ SrvRxPoll \/ SrvRxGive \/ SrvError
  <2>1. /\ UNCHANGED <<lock, cur, pc>> /\ srv \in SrvHolds /\ srv' \in SrvHolds
    BY <1>4 DEF SrvSend, SrvTxPoll, SrvTxGive, SrvRecv, SrvRecvAgain, SrvRecvNothing, SrvRecvClosed, SrvClosed,
                SrvRxPoll, SrvRxGive, SrvError, SrvMove, SrvHolds
  <2> QED BY <1>1, <2>1 DEF BufAccess
<1>5. CASE SrvStart \/ SrvStartFail \/ SrvTick \/ SrvAcceptCall \/ SrvAcceptAgain
           \/ SrvAccepted \/ SrvAcceptFail \/ SrvConnected \/ SrvSockOptFail
  <2>1. /\ UNCHANGED lock /\ srv \notin SrvHolds /\ srv' \notin SrvHolds
    BY <1>5 DEF SrvStart, SrvStartFail, SrvTick, SrvAcceptCall, SrvAcceptAgain, SrvAccepted,
                SrvAcceptFail, SrvConnected, SrvSockOptFail, SrvMove, Advance, SrvHolds
  <2>2. pc' = pc \/ \E t \in Tasks : pc[t] = "off" /\ pc' = [pc EXCEPT ![t] = "idle"]
    BY <1>5 DEF SrvStart, SrvStartFail, SrvTick, SrvAcceptCall, SrvAcceptAgain, SrvAccepted,
                SrvAcceptFail, SrvConnected, SrvSockOptFail, TaskAssumption
  <2> QED BY <1>1, <2>1, <2>2 DEF BufAccess
<1>. QED  BY <1>2, <1>3, <1>4, <1>5 DEF SrvStep

\* The server and the tasks hold buf_access one at a time, and exactly while
\* they work on a slot's buffers: no error path leaves it taken.
THEOREM BufAccessCorrect == Spec => []BufAccess
<1> USE SocketAssumption, TaskAssumption
<1>1. Init => BufAccess
  BY DEF Init, BufAccess, SrvHolds, TaskAssumption
<1>2. TypeOK /\ BufAccess /\ [Next]_vars => BufAccess'
  <2> SUFFICES ASSUME TypeOK, BufAccess, [Next]_vars PROVE BufAccess'
    OBVIOUS
  <2>1. CASE (\E s \in Slots : PeerStep(s)) \/ UNCHANGED vars
    <3>1. UNCHANGED <<lock, pc, srv, cur>>
      BY <2>1 DEF PeerStep, PeerConnect, PeerSend, PeerClose, vars, srvVars
    <3> QED BY <3>1 DEF BufAccess
  <2> QED BY <2>1, AccessTask, AccessServer DEF Next
<1>. QED  BY <1>1, <1>2, TypeCorrect, PTL DEF Spec

-----------------------------------------------------------------------------
(* The send buffer.  That a token is taken says little about the room left *)
(* in the buffer: the server gives one on finding it taken, also while a   *)
(* task that took it has yet to write.  What keeps the occupancy within    *)
(* bounds is that in that window the server has just sent, so that two     *)
(* places are free, and that the window cannot open between the send and   *)
(* the give: a task below the server's priority does not run there, and a  *)
(* task above it is not interrupted between its write and its own give.    *)

PutWindow == {"p_token", "p_locked"}

TokenInv(t) ==
  LET s == SlotOf[t] IN
  /\ pc[t] \in PutWindow \cup {"p_give"} => tx_occ[s] < TxBufSize
  /\ tx_full[s] /\ pc[t] \notin PutWindow => tx_occ[s] < TxBufSize
  /\ tx_full[s] /\ pc[t] \in PutWindow => tx_occ[s] + 2 <= TxBufSize
  /\ cur = s /\ srv \in {"txpoll", "txgive"} /\ pc[t] = "p_token" => tx_occ[s] + 2 <= TxBufSize
  /\ cur = s /\ srv = "txgive" => tx_occ[s] < TxBufSize /\ ~tx_full[s]
  /\ cur = s /\ srv \in SrvHolds /\ Prio[t] > ServerPrio => pc[t] \notin {"p_check", "p_give"}
  /\ cur = s /\ srv = "txpoll" /\ Prio[t] > ServerPrio /\ tx_full[s] => tx_occ[s] + 2 <= TxBufSize

TxInv ==
  /\ \A t \in Tasks : pc[t] \in PutPCs => t \in Putters
  /\ \A t \in Putters : TokenInv(t)
  /\ TxNeverOverflows

\* A step that touches neither the task, nor its slot's token and occupancy,
\* nor the server's place keeps the task's part of the invariant.
LEMMA TokenFrame ==
  ASSUME NEW u \in Putters, TokenInv(u),
         pc'[u] = pc[u], tx_full'[SlotOf[u]] = tx_full[SlotOf[u]],
         tx_occ'[SlotOf[u]] = tx_occ[SlotOf[u]], srv' = srv, cur' = cur
  PROVE  TokenInv(u)'
  BY DEF TokenInv

\* The steps of PutChar keep the invariant of the task that takes them.
LEMMA TokenPut ==
  ASSUME SocketAssumption, TaskAssumption, TypeOK, BufAccess, NEW t \in Putters, TokenInv(t),
         PutCall(t) \/ PutStep(t)
  PROVE  TokenInv(t)'
<1> DEFINE s == SlotOf[t]
<1>1. /\ t \in Tasks /\ s \in Slots /\ Prio[t] \in Nat /\ ServerPrio \in Nat
      /\ Prio[t] # ServerPrio /\ tx_occ \in [Slots -> Nat] /\ tx_full \in [Slots -> BOOLEAN]
      /\ pc \in [Tasks -> TaskPCs] /\ TxBufSize \in Nat /\ TxBufSize >= 2
      /\ lock \in [Slots -> TaskOwners] /\ Server \notin Tasks
  BY DEF TaskAssumption, SocketAssumption, TypeOK, ControlType, TxType
<1>2. UNCHANGED <<srv, cur>> /\ CanRun(t)
  BY DEF PutStep, PutCall, PutTake, PutLock, PutWrite, PutCheck, PutGive, srvVars
\* A task below the server's priority is not running here.
<1>3. Prio[t] > ServerPrio \/ srv \notin {"txpoll", "txgive"}
  BY <1>1, <1>2 DEF CanRun, SrvBlocked
<1>4. pc[t] = "p_locked" => ~(srv \in SrvHolds /\ cur = s)
  BY <1>1 DEF BufAccess
<1> HIDE DEF s
<1>5. CASE PutCall(t)
  <2>1. pc[t] = "idle" /\ pc'[t] = "p_want" /\ tx_full' = tx_full /\ tx_occ' = tx_occ
    BY <1>1, <1>5 DEF PutCall, Move, txVars
  <2> QED BY <2>1, <1>1, <1>2 DEF TokenInv, PutWindow, s
<1>6. CASE PutTake(t)
  <2>1. /\ pc[t] = "p_want" /\ pc'[t] = "p_token" /\ tx_full[s] /\ ~tx_full'[s]
        /\ tx_occ' = tx_occ
    BY <1>1, <1>6 DEF PutTake, Move, s
  <2> QED BY <2>1, <1>1, <1>2, <1>3 DEF TokenInv, PutWindow, s
<1>7. CASE PutLock(t)
  <2>1. /\ pc[t] = "p_token" /\ pc'[t] = "p_locked" /\ tx_full' = tx_full /\ tx_occ' = tx_occ
    BY <1>1, <1>7 DEF PutLock, Move, txVars
  <2> QED BY <2>1, <1>1, <1>2 DEF TokenInv, PutWindow, s
<1>8. CASE PutWrite(t)
  <2>1. /\ pc[t] = "p_locked" /\ pc'[t] = "p_check" /\ tx_full' = tx_full
        /\ tx_occ'[s] = tx_occ[s] + 1
    BY <1>1, <1>8 DEF PutWrite, Move, s
  <2>2. ~(srv \in SrvHolds /\ cur = s)
    BY <2>1, <1>4
  <2>3. tx_occ[s] \in Nat
    BY <1>1
  <2> QED BY <2>1, <2>2, <2>3, <1>1, <1>2 DEF TokenInv, PutWindow, SrvHolds, s
<1>9. CASE PutCheck(t)
  <2>1. /\ pc[t] = "p_check" /\ tx_full' = tx_full /\ tx_occ' = tx_occ
        /\ IF tx_occ[s] < TxBufSize THEN pc'[t] = "p_give" ELSE pc'[t] = "idle"
    BY <1>1, <1>9 DEF PutCheck, Move, txVars, s
  <2> QED BY <2>1, <1>1, <1>2 DEF TokenInv, PutWindow, s
<1>10. CASE PutGive(t)
  <2>1. /\ pc[t] = "p_give" /\ pc'[t] = "idle" /\ tx_full'[s] /\ tx_occ' = tx_occ
    BY <1>1, <1>10 DEF PutGive, Move, s
  <2> QED BY <2>1, <1>1, <1>2, <1>3 DEF TokenInv, PutWindow, SrvHolds, s
<1>. QED  BY <1>5, <1>6, <1>7, <1>8, <1>9, <1>10 DEF PutStep

\* The server's steps keep the invariant of every putter.
LEMMA TokenServer ==
  ASSUME SocketAssumption, TaskAssumption, TypeOK, BufAccess, TxNeverOverflows,
         NEW t \in Putters, TokenInv(t), SrvStep
  PROVE  TokenInv(t)'
<1> DEFINE s == SlotOf[t]
<1>1. /\ t \in Tasks /\ s \in Slots /\ Prio[t] \in Nat /\ ServerPrio \in Nat
      /\ tx_occ \in [Slots -> Nat] /\ tx_full \in [Slots -> BOOLEAN] /\ cur \in Slots
      /\ pc \in [Tasks -> TaskPCs] /\ TxBufSize \in Nat /\ TxBufSize >= 2
      /\ lock \in [Slots -> TaskOwners] /\ Server \notin Tasks
  BY DEF TaskAssumption, SocketAssumption, TypeOK, ControlType, TxType
\* While the server runs, a task above its priority is blocked.
<1>2. SrvCanRun /\ Prio[t] > ServerPrio => pc[t] \notin {"p_check", "p_give"}
  BY <1>1 DEF SrvCanRun, Blocked
<1>3. srv \in SrvHolds /\ cur = s => pc[t] # "p_locked"
  BY <1>1 DEF BufAccess
<1> HIDE DEF s
<1>4. CASE SrvLock
  <2>1. /\ SrvCanRun /\ UNCHANGED <<tx_full, tx_occ, pc, cur>> /\ srv = "scan"
        /\ srv' = IF tx_occ[cur] > 0 THEN "send" ELSE "txpoll"
        /\ lock[cur] = Nobody
    BY <1>4 DEF SrvLock, SrvMove, txVars
  <2>2. cur = s /\ srv' = "txpoll" => tx_occ[s] + 2 <= TxBufSize
    BY <2>1, <1>1
  <2> QED BY <2>1, <2>2, <1>1, <1>2 DEF TokenInv, PutWindow, SrvHolds, s
<1>5. CASE SrvSend
  <2>1. /\ SrvCanRun /\ UNCHANGED <<tx_full, pc, cur>> /\ srv = "send" /\ srv' = "txpoll"
        /\ tx_occ' = [tx_occ EXCEPT ![cur] = tx_occ[cur] - TxRun(cur)]
    BY <1>5 DEF SrvSend, SrvMove
  <2>2. /\ TxRun(cur) \in Nat /\ TxRun(cur) <= tx_occ[cur]
        /\ tx_occ[cur] > 0 => TxRun(cur) > 0
    <3>1. TxOut(cur) \in 0..(TxBufSize - 1) /\ TxRun(cur) \in 0..(TxBufSize - TxOut(cur))
      BY <1>1, RunLemma DEF TypeOK
    <3> QED BY <3>1, <1>1, RunLemma DEF TypeOK
  <2>3. CASE cur = s
    <3>1. /\ tx_occ'[s] \in Nat /\ tx_occ'[s] <= tx_occ[s]
          /\ tx_occ[s] < TxBufSize => tx_occ'[s] + 2 <= TxBufSize
      BY <2>1, <2>2, <2>3, <1>1
    <3>2. pc[t] # "p_locked" /\ (Prio[t] > ServerPrio => pc[t] \notin {"p_check", "p_give"})
      BY <2>1, <2>3, <1>2, <1>3 DEF SrvHolds
    <3> QED BY <3>1, <3>2, <2>1, <2>3, <1>1 DEF TokenInv, PutWindow, s
  <2>4. CASE cur # s
    <3>1. tx_occ'[s] = tx_occ[s]
      BY <2>1, <2>4, <1>1
    <3> QED BY <3>1, <2>1, <2>4 DEF TokenInv, s
  <2> QED BY <2>3, <2>4
<1>6. CASE SrvTxPoll
  <2>1. /\ SrvCanRun /\ UNCHANGED <<tx_occ, pc, cur>> /\ srv = "txpoll"
        /\ srv' = IF ~tx_full[cur] /\ tx_occ[cur] < TxBufSize THEN "txgive" ELSE "recv"
        /\ tx_full' = [tx_full EXCEPT ![cur] = FALSE]
    BY <1>6 DEF SrvTxPoll
  <2>2. cur # s => tx_full'[s] = tx_full[s]
    BY <2>1, <1>1
  <2>3. cur = s => ~tx_full'[s]
    BY <2>1, <1>1
  <2> QED BY <2>1, <2>2, <2>3, <1>1 DEF TokenInv, PutWindow, SrvHolds, s
<1>7. CASE SrvTxGive
  <2>1. /\ UNCHANGED <<tx_occ, pc, cur>> /\ srv = "txgive" /\ srv' = "recv"
        /\ tx_full' = [tx_full EXCEPT ![cur] = TRUE]
    BY <1>7 DEF SrvTxGive, SrvMove
  <2>2. cur # s => tx_full'[s] = tx_full[s]
    BY <2>1, <1>1
  <2>3. cur = s => pc[t] # "p_locked"
    BY <2>1, <1>3 DEF SrvHolds
  <2> QED BY <2>1, <2>2, <2>3, <1>1 DEF TokenInv, PutWindow, SrvHolds, s
<1>8. CASE SrvRecv \/ SrvRecvAgain \/ SrvRecvNothing \/ SrvRecvClosed \/ SrvClosed \/ SrvRxPoll \/ SrvRxGive
           \/ SrvError
  <2>1. /\ UNCHANGED <<tx_full, tx_occ, pc, cur>> /\ srv \in SrvHolds
        /\ srv' \notin {"txpoll", "txgive"}
    BY <1>8 DEF SrvRecv, SrvRecvAgain, SrvRecvNothing, SrvRecvClosed, SrvClosed, SrvRxPoll, SrvRxGive, SrvError,
                SrvMove, SrvHolds, txVars
  <2> QED BY <2>1, <1>1 DEF TokenInv, s
<1>9. CASE SrvStart \/ SrvStartFail \/ SrvTick \/ SrvAcceptCall \/ SrvAcceptAgain
           \/ SrvAccepted \/ SrvAcceptFail \/ SrvConnected \/ SrvSockOptFail \/ SrvUnlock \/ SrvDie
  <2>1. /\ UNCHANGED <<tx_full, tx_occ>> /\ srv' \notin SrvHolds
    BY <1>9 DEF SrvStart, SrvStartFail, SrvTick, SrvAcceptCall, SrvAcceptAgain, SrvAccepted,
                SrvAcceptFail, SrvConnected, SrvSockOptFail, SrvUnlock, SrvDie, SrvMove, Advance,
                SrvHolds, txVars
  <2>2. pc'[t] = pc[t] \/ (pc[t] = "off" /\ pc'[t] = "idle")
    <3>1. pc' = pc \/ \E u \in Tasks : pc[u] = "off" /\ pc' = [pc EXCEPT ![u] = "idle"]
      BY <1>9 DEF SrvStart, SrvStartFail, SrvTick, SrvAcceptCall, SrvAcceptAgain, SrvAccepted,
                  SrvAcceptFail, SrvConnected, SrvSockOptFail, SrvUnlock, SrvDie, TaskAssumption
    <3> QED BY <3>1, <1>1
  <2> QED BY <2>1, <2>2, <1>1 DEF TokenInv, PutWindow, SrvHolds, s
<1>. QED  BY <1>4, <1>5, <1>6, <1>7, <1>8, <1>9 DEF SrvStep

\* Only PutCall starts a PutChar, and only for a task that puts.
LEMMA PuttersOnly ==
  ASSUME TaskAssumption, TypeOK, Next, \A t \in Tasks : pc[t] \in PutPCs => t \in Putters
  PROVE  \A t \in Tasks : pc'[t] \in PutPCs => t \in Putters
<1>1. pc \in [Tasks -> TaskPCs]
  BY DEF TypeOK, ControlType
<1>2. CASE \E u \in Tasks : PutCall(u) \/ PutStep(u)
  <2>1. PICK u \in Tasks : PutCall(u) \/ PutStep(u)
    BY <1>2
  <2>2. u \in Putters /\ \E x \in TaskPCs : pc' = [pc EXCEPT ![u] = x]
    BY <2>1, <1>1 DEF PutStep, PutCall, PutTake, PutLock, PutWrite, PutCheck, PutGive, Move,
                      TaskPCs, PutPCs
  <2> QED BY <2>2, <1>1
<1>3. CASE \E u \in Tasks : GetCall(u) \/ GetStep(u)
  <2>1. PICK u \in Tasks : GetCall(u) \/ GetStep(u)
    BY <1>3
  <2>2. \E x \in GetPCs \cup {"idle"} : pc' = [pc EXCEPT ![u] = x]
    BY <2>1 DEF GetStep, GetCall, GetTake, GetLock, GetRead, GetCheck, GetGive, Move, GetPCs
  <2> QED BY <2>2, <1>1 DEF GetPCs, PutPCs
<1>4. CASE SrvStep
  <2>1. pc' = pc \/ \E u \in Tasks : pc' = [pc EXCEPT ![u] = "idle"]
    BY <1>4 DEF SrvStep, SrvStart, SrvStartFail, SrvTick, SrvAcceptCall, SrvAcceptAgain,
                SrvAccepted, SrvAcceptFail, SrvConnected, SrvSockOptFail, SrvLock, SrvSend,
                SrvTxPoll, SrvTxGive, SrvRecv, SrvRecvAgain, SrvRecvNothing, SrvRecvClosed, SrvClosed,
                SrvRxPoll, SrvRxGive, SrvUnlock, SrvError, SrvDie, TaskAssumption
  <2> QED BY <2>1, <1>1 DEF PutPCs
<1>5. CASE \E s \in Slots : PeerStep(s)
  BY <1>5 DEF PeerStep, PeerConnect, PeerSend, PeerClose
<1>. QED  BY <1>2, <1>3, <1>4, <1>5 DEF Next, TaskStep

\* Every step keeps the invariant of every putter: the steps of the putter, of
\* the other tasks (which have another slot, or only read), of the server and
\* of the clients.
LEMMA TokenNext ==
  ASSUME SocketAssumption, TaskAssumption, SinglePutter, TypeOK, BufAccess, TxInv, Next,
         NEW u \in Putters
  PROVE  TokenInv(u)'
<1>1. /\ u \in Tasks /\ SlotOf \in [Tasks -> Slots] /\ TokenInv(u)
      /\ pc \in [Tasks -> TaskPCs] /\ tx_full \in [Slots -> BOOLEAN]
      /\ tx_occ \in [Slots -> Nat]
  BY DEF TaskAssumption, TypeOK, ControlType, TxType, TxInv
<1>2. CASE \E t \in Tasks : PutCall(t) \/ PutStep(t)
  <2>1. PICK t \in Tasks : PutCall(t) \/ PutStep(t)
    BY <1>2
  <2>2. t \in Putters
    BY <2>1 DEF TxInv, PutStep, PutCall, PutTake, PutLock, PutWrite, PutCheck, PutGive, Move,
                PutPCs
  <2>3. CASE t = u
    BY <2>1, <2>2, <2>3, <1>1, TokenPut
  <2>4. CASE t # u
    <3>1. SlotOf[t] # SlotOf[u] /\ SlotOf[t] \in Slots /\ SlotOf[u] \in Slots
      BY <2>2, <2>4, <1>1 DEF SinglePutter
    <3>2. /\ UNCHANGED <<srv, cur>> /\ \E x \in TaskPCs : pc' = [pc EXCEPT ![t] = x]
      BY <2>1 DEF PutStep, PutCall, PutTake, PutLock, PutWrite, PutCheck, PutGive, Move,
                  TaskPCs, PutPCs, srvVars
    <3>3. /\ tx_full' = tx_full \/ \E b \in BOOLEAN : tx_full' = [tx_full EXCEPT ![SlotOf[t]] = b]
          /\ tx_occ' = tx_occ \/ tx_occ' = [tx_occ EXCEPT ![SlotOf[t]] = tx_occ[SlotOf[t]] + 1]
      BY <2>1 DEF PutStep, PutCall, PutTake, PutLock, PutWrite, PutCheck, PutGive, txVars
    <3>4. /\ pc'[u] = pc[u] /\ tx_full'[SlotOf[u]] = tx_full[SlotOf[u]]
          /\ tx_occ'[SlotOf[u]] = tx_occ[SlotOf[u]]
      BY <3>1, <3>2, <3>3, <2>4, <1>1
    <3> QED BY <3>2, <3>4, <1>1, TokenFrame
  <2> QED BY <2>3, <2>4
<1>3. CASE \E t \in Tasks : GetCall(t) \/ GetStep(t)
  <2>1. PICK t \in Tasks : GetCall(t) \/ GetStep(t)
    BY <1>3
  <2>2. UNCHANGED <<srv, cur, tx_full, tx_occ>>
    BY <2>1 DEF GetStep, GetCall, GetTake, GetLock, GetRead, GetCheck, GetGive, srvVars, txVars
  <2>3. pc'[u] = pc[u] \/ (pc[u] \notin PutPCs /\ pc'[u] \notin PutPCs)
    <3>1. /\ pc[t] \in GetPCs \cup {"idle"}
          /\ \E x \in GetPCs \cup {"idle"} : pc' = [pc EXCEPT ![t] = x]
      BY <2>1 DEF GetStep, GetCall, GetTake, GetLock, GetRead, GetCheck, GetGive, Move, GetPCs
    <3> QED BY <3>1, <1>1 DEF GetPCs, PutPCs
  <2> QED BY <2>2, <2>3, <1>1 DEF TokenInv, PutWindow, PutPCs
<1>4. CASE SrvStep
  BY <1>4, <1>1, TokenServer DEF TxInv
<1>5. CASE \E s \in Slots : PeerStep(s)
  <2>1. UNCHANGED <<pc, tx_full, tx_occ, srv, cur>>
    BY <1>5 DEF PeerStep, PeerConnect, PeerSend, PeerClose, txVars, srvVars
  <2> QED BY <2>1, <1>1, TokenFrame
<1>. QED  BY <1>2, <1>3, <1>4, <1>5 DEF Next, TaskStep

\* The occupancy of a send buffer stays within its size.
LEMMA OccupancyNext ==
  ASSUME SocketAssumption, TaskAssumption, TypeOK, TxInv, Next
  PROVE  TxNeverOverflows'
<1>1. /\ SlotOf \in [Tasks -> Slots] /\ tx_occ \in [Slots -> Nat] /\ TxBufSize \in Nat
      /\ cur \in Slots
  BY DEF TaskAssumption, SocketAssumption, TypeOK, ControlType, TxType
<1>2. CASE \E t \in Tasks : PutWrite(t)
  <2>1. PICK t \in Tasks : PutWrite(t)
    BY <1>2
  <2>2. /\ pc[t] = "p_locked"
        /\ tx_occ' = [tx_occ EXCEPT ![SlotOf[t]] = tx_occ[SlotOf[t]] + 1]
    BY <2>1 DEF PutWrite, Move
  <2>3. tx_occ[SlotOf[t]] < TxBufSize
    BY <2>2 DEF TxInv, TokenInv, PutWindow, PutPCs
  <2> QED BY <2>2, <2>3, <1>1 DEF TxInv, TxNeverOverflows
<1>3. CASE SrvSend
  <2>1. tx_occ' = [tx_occ EXCEPT ![cur] = tx_occ[cur] - TxRun(cur)]
    BY <1>3 DEF SrvSend
  <2>2. TxRun(cur) \in Nat
    <3>1. TxOut(cur) \in 0..(TxBufSize - 1) /\ TxRun(cur) \in 0..(TxBufSize - TxOut(cur))
      BY <1>1, RunLemma DEF TypeOK
    <3> QED BY <3>1, <1>1
  <2> QED BY <2>1, <2>2, <1>1 DEF TxInv, TxNeverOverflows
<1>4. CASE UNCHANGED tx_occ
  BY <1>4 DEF TxInv, TxNeverOverflows
<1>5. (\E t \in Tasks : PutWrite(t)) \/ SrvSend \/ UNCHANGED tx_occ
  <2>1. ASSUME NEW t \in Tasks, TaskStep(t) PROVE PutWrite(t) \/ UNCHANGED tx_occ
    BY <2>1 DEF TaskStep, PutStep, GetStep, PutCall, PutTake, PutLock, PutCheck, PutGive,
                GetCall, GetTake, GetLock, GetRead, GetCheck, GetGive, txVars
  <2>2. ASSUME SrvStep PROVE SrvSend \/ UNCHANGED tx_occ
    BY <2>2 DEF SrvStep, SrvStart, SrvStartFail, SrvTick, SrvAcceptCall, SrvAcceptAgain,
                SrvAccepted, SrvAcceptFail, SrvConnected, SrvSockOptFail, SrvLock,
                SrvTxPoll, SrvTxGive, SrvRecv, SrvRecvAgain, SrvRecvNothing, SrvRecvClosed, SrvClosed,
                SrvRxPoll, SrvRxGive, SrvUnlock, SrvError, SrvDie, txVars
  <2>3. ASSUME NEW s \in Slots, PeerStep(s) PROVE UNCHANGED tx_occ
    BY <2>3 DEF PeerStep, PeerConnect, PeerSend, PeerClose, txVars
  <2> QED BY <2>1, <2>2, <2>3 DEF Next
<1>. QED  BY <1>2, <1>3, <1>4, <1>5

\* Who is about to write has a place.
LEMMA TxInvariant == Spec => []TxInv
<1> USE SocketAssumption, TaskAssumption, SinglePutter
<1>1. Init => TxInv
  <2> SUFFICES ASSUME Init PROVE TxInv
    OBVIOUS
  <2>1. /\ \A t \in Tasks : pc[t] \notin PutPCs /\ ~tx_full[SlotOf[t]] /\ t \in Tasks
        /\ srv = "start" /\ \A s \in Slots : tx_occ[s] = 0
    BY DEF Init, PutPCs, TaskAssumption
  <2>2. \A t \in Putters : TokenInv(t)
    BY <2>1 DEF TokenInv, TaskAssumption, PutWindow, PutPCs, SrvHolds
  <2>3. TxNeverOverflows
    BY <2>1 DEF TxNeverOverflows, SocketAssumption
  <2> QED BY <2>1, <2>2, <2>3 DEF TxInv
<1>2. TypeOK /\ BufAccess /\ TxInv /\ [Next]_vars => TxInv'
  <2> SUFFICES ASSUME TypeOK, BufAccess, TxInv, [Next]_vars PROVE TxInv'
    OBVIOUS
  <2>1. CASE Next
    BY <2>1, PuttersOnly, TokenNext, OccupancyNext DEF TxInv
  <2>2. CASE UNCHANGED vars
    <3>1. UNCHANGED <<pc, tx_full, tx_occ, srv, cur>>
      BY <2>2 DEF vars, txVars, srvVars
    <3> QED BY <3>1 DEF TxInv, TokenInv, TxNeverOverflows
  <2> QED BY <2>1, <2>2
<1>. QED  BY <1>1, <1>2, TypeCorrect, BufAccessCorrect, PTL DEF Spec

\* For any number of slots and tasks, any buffer size from 2 up and whatever
\* the clients do, PutChar never writes over a character not sent yet.
THEOREM TxSafe == Spec => []TxNeverOverflows
<1>1. TxInv => TxNeverOverflows
  BY DEF TxInv
<1>. QED  BY <1>1, TxInvariant, PTL

-----------------------------------------------------------------------------
(* The receive side, for slots that one task reads: GetChar never takes a  *)
(* character that is not there.                                            *)

\* The GDB server reads the GDB socket.  Of the log socket it is true until a second
\* client comes: each starts a SerialConfig task (serialsock.c:490).
SingleGetter == \A t, u \in Getters : SlotOf[t] = SlotOf[u] => t = u

-----------------------------------------------------------------------------
(* Every reader that has got past rx_buf_empty, everybody who may still,   *)
(* and the give that the server is about to make, has a character of its   *)
(* own in the buffer.                                                      *)

GetWindow == {"g_token", "g_locked"}
RxGiving(s) == cur = s /\ srv \in {"rxpoll", "rxgive"}

Claims(t) ==
  LET s == SlotOf[t] IN
  (IF pc[t] \in GetWindow THEN 1 ELSE 0)
  + (IF rx_empty[s] \/ pc[t] = "g_give" THEN 1 ELSE 0)
  + (IF RxGiving(s) THEN 1 ELSE 0)

\* The test of the occupancy comes before a give.  A reader of higher priority than
\* the server is not interrupted in between.
ReaderInv(t) ==
  LET s == SlotOf[t] IN
  /\ Claims(t) <= rx_occ[s]
  /\ cur = s /\ srv \in SrvHolds /\ Prio[t] > ServerPrio => pc[t] # "g_check"

RxInv ==
  /\ \A t \in Tasks : pc[t] \in GetPCs => t \in Getters
  /\ \A t \in Getters : ReaderInv(t)
  /\ RxStaysInBounds

\* The types the steps below rest on.
LEMMA ReaderTypes ==
  ASSUME SocketAssumption, TaskAssumption, TypeOK, NEW t \in Getters
  PROVE  /\ t \in Tasks /\ SlotOf[t] \in Slots /\ SlotOf \in [Tasks -> Slots]
         /\ Prio[t] \in Nat /\ ServerPrio \in Nat /\ Prio[t] # ServerPrio
         /\ rx_occ \in [Slots -> Nat] /\ rx_empty \in [Slots -> BOOLEAN]
         /\ pc \in [Tasks -> TaskPCs] /\ cur \in Slots
         /\ IndexWrap \in Nat /\ RxBufSize \in Nat /\ 0 < RxBufSize /\ RxBufSize < IndexWrap
         /\ lock \in [Slots -> TaskOwners] /\ Server \notin Tasks
<1>1. /\ IndexWrap \in Nat /\ RxBufSize \in Nat /\ 0 < RxBufSize /\ RxBufSize < IndexWrap
  BY DEF SocketAssumption
<1>2. 0..(IndexWrap - 1) \subseteq Nat
  BY <1>1
<1>3. rx_occ \in [Slots -> Nat]
  <2>1. rx_occ \in [Slots -> 0..(IndexWrap - 1)]
    BY DEF TypeOK, RxType
  <2> QED BY <2>1, <1>2, Zenon
<1>4. /\ t \in Tasks /\ SlotOf[t] \in Slots /\ SlotOf \in [Tasks -> Slots]
      /\ Prio[t] \in Nat /\ ServerPrio \in Nat /\ Prio[t] # ServerPrio /\ Server \notin Tasks
  BY DEF TaskAssumption
<1>5. /\ rx_empty \in [Slots -> BOOLEAN] /\ pc \in [Tasks -> TaskPCs] /\ cur \in Slots
      /\ lock \in [Slots -> TaskOwners]
  BY DEF TypeOK, ControlType, RxType
<1>. QED
  BY <1>1, <1>3, <1>4, <1>5

\* What sl_Recv stores fits into the buffer.
LEMMA RecvFits ==
  ASSUME SocketAssumption, TypeOK, RxStaysInBounds, NEW n \in 1..MinOf(RxRoom(cur), inflight[cur])
  PROVE  /\ n \in Nat /\ n > 0 /\ rx_occ[cur] + n <= RxBufSize
         /\ (rx_occ[cur] + n) % IndexWrap = rx_occ[cur] + n
<1>1. /\ cur \in Slots /\ rx_occ[cur] \in Nat /\ inflight[cur] \in Nat /\ RxBufSize \in Nat
      /\ IndexWrap \in Nat /\ RxBufSize < IndexWrap /\ rx_occ[cur] <= RxBufSize
  BY DEF SocketAssumption, TypeOK, ControlType, RxType, PeerType, RxStaysInBounds
<1>2. RxRoom(cur) \in Int /\ RxRoom(cur) + rx_occ[cur] <= RxBufSize
  <2>1. /\ RxIn(cur) \in 0..(RxBufSize - 1) /\ RxRoom(cur) \in 0..(RxBufSize - RxIn(cur))
        /\ RxRoom(cur) + rx_occ[cur] <= RxBufSize
    BY <1>1, RoomLemma DEF TypeOK
  <2> QED BY <2>1, <1>1
<1>3. n \in Nat /\ n > 0 /\ n <= RxRoom(cur)
  BY <1>1, <1>2 DEF MinOf
<1>. QED
  BY <1>1, <1>2, <1>3

\* The step that wraps an empty buffer's occupancy is not taken on one.
LEMMA LessOne ==
  ASSUME NEW x \in Nat, NEW w \in Nat, 0 < x, x < w
  PROVE  (x + w - 1) % w = x - 1
  OBVIOUS

LEMMA ReaderFrame ==
  ASSUME NEW u \in Getters, ReaderInv(u),
         pc'[u] = pc[u], rx_empty'[SlotOf[u]] = rx_empty[SlotOf[u]],
         rx_occ'[SlotOf[u]] = rx_occ[SlotOf[u]], srv' = srv, cur' = cur
  PROVE  ReaderInv(u)'
  BY DEF ReaderInv, Claims, RxGiving

\* The steps of GetChar keep the invariant of the task that takes them.
LEMMA ReaderGet ==
  ASSUME SocketAssumption, TaskAssumption, TypeOK, BufAccess, NEW t \in Getters, ReaderInv(t),
         rx_occ[SlotOf[t]] <= RxBufSize, GetCall(t) \/ GetStep(t)
  PROVE  ReaderInv(t)' /\ rx_occ'[SlotOf[t]] <= RxBufSize
<1> DEFINE s == SlotOf[t]
<1>1. /\ t \in Tasks /\ s \in Slots /\ Prio[t] \in Nat /\ ServerPrio \in Nat
      /\ Prio[t] # ServerPrio /\ rx_occ \in [Slots -> Nat] /\ rx_empty \in [Slots -> BOOLEAN]
      /\ pc \in [Tasks -> TaskPCs] /\ RxBufSize \in Nat /\ rx_occ[s] \in Nat
      /\ IndexWrap \in Nat /\ RxBufSize < IndexWrap /\ rx_occ[s] <= RxBufSize
      /\ lock \in [Slots -> TaskOwners] /\ Server \notin Tasks
  BY ReaderTypes
<1>2. UNCHANGED <<srv, cur>> /\ CanRun(t)
  BY DEF GetStep, GetCall, GetTake, GetLock, GetRead, GetCheck, GetGive, srvVars
\* A task below the server's priority is not running here.
<1>3. Prio[t] > ServerPrio \/ srv \notin {"rxpoll", "rxgive"}
  BY <1>1, <1>2 DEF CanRun, SrvBlocked
<1>4. pc[t] = "g_locked" => ~(srv \in SrvHolds /\ cur = s)
  BY <1>1 DEF BufAccess
<1>5. {"rxpoll", "rxgive"} \subseteq SrvHolds
  BY DEF SrvHolds
<1> HIDE DEF s
<1>6. CASE GetCall(t) \/ GetLock(t)
  <2>1. /\ rx_empty' = rx_empty /\ rx_occ' = rx_occ
        /\ \/ pc[t] = "idle" /\ pc'[t] = "g_want"
           \/ pc[t] = "g_token" /\ pc'[t] = "g_locked"
    BY <1>1, <1>6 DEF GetCall, GetLock, Move, rxVars
  <2> QED BY <2>1, <1>1, <1>2 DEF ReaderInv, Claims, RxGiving, GetWindow, s
<1>7. CASE GetTake(t)
  <2>1. /\ pc[t] = "g_want" /\ pc'[t] = "g_token" /\ rx_empty[s] /\ ~rx_empty'[s]
        /\ rx_occ' = rx_occ
    BY <1>1, <1>7 DEF GetTake, Move, s
  <2> QED BY <2>1, <1>1, <1>2 DEF ReaderInv, Claims, RxGiving, GetWindow, s
<1>8. CASE GetRead(t)
  <2>1. /\ pc[t] = "g_locked" /\ pc'[t] = "g_check" /\ rx_empty' = rx_empty
        /\ rx_occ'[s] = (rx_occ[s] + IndexWrap - 1) % IndexWrap
    BY <1>1, <1>8 DEF GetRead, Move, s
  <2>2. ~(srv \in SrvHolds /\ cur = s)
    BY <2>1, <1>4
  <2>3. rx_occ[s] > 0
    BY <2>1, <1>1 DEF ReaderInv, Claims, GetWindow, s
  <2>4. rx_occ'[s] = rx_occ[s] - 1
    BY <2>1, <2>3, <1>1, LessOne
  <2> QED BY <2>1, <2>2, <2>4, <1>1, <1>2, <1>5 DEF ReaderInv, Claims, RxGiving, GetWindow, s
<1>9. CASE GetCheck(t)
  <2>1. /\ pc[t] = "g_check" /\ rx_empty' = rx_empty /\ rx_occ' = rx_occ
        /\ IF rx_occ[s] > 0 THEN pc'[t] = "g_give" ELSE pc'[t] = "idle"
    BY <1>1, <1>9 DEF GetCheck, Move, rxVars, s
  <2>2. ~RxGiving(s)
    BY <2>1, <1>1, <1>3, <1>5 DEF ReaderInv, RxGiving, s
  <2> QED BY <2>1, <2>2, <1>1, <1>2 DEF ReaderInv, Claims, RxGiving, GetWindow, s
<1>10. CASE GetGive(t)
  <2>1. /\ pc[t] = "g_give" /\ pc'[t] = "idle" /\ rx_empty'[s] /\ rx_occ' = rx_occ
    BY <1>1, <1>10 DEF GetGive, Move, s
  <2> QED BY <2>1, <1>1, <1>2 DEF ReaderInv, Claims, RxGiving, GetWindow, s
<1>. QED  BY <1>6, <1>7, <1>8, <1>9, <1>10 DEF GetStep

\* The server's steps keep the invariant of every reader.
LEMMA ReaderServer ==
  ASSUME SocketAssumption, TaskAssumption, TypeOK, BufAccess, RxStaysInBounds,
         NEW t \in Getters, ReaderInv(t), SrvStep
  PROVE  ReaderInv(t)'
<1> DEFINE s == SlotOf[t]
<1>1. /\ t \in Tasks /\ s \in Slots /\ Prio[t] \in Nat /\ ServerPrio \in Nat
      /\ rx_occ \in [Slots -> Nat] /\ rx_empty \in [Slots -> BOOLEAN] /\ cur \in Slots
      /\ pc \in [Tasks -> TaskPCs] /\ rx_occ[s] \in Nat
  BY ReaderTypes
\* While the server runs, a task above its priority is blocked.
<1>2. SrvCanRun /\ Prio[t] > ServerPrio => pc[t] # "g_check"
  BY <1>1 DEF SrvCanRun, Blocked
<1> HIDE DEF s
<1>3. CASE SrvRecv
  <2>1. PICK n \in 1..MinOf(RxRoom(cur), inflight[cur]) :
          rx_occ' = [rx_occ EXCEPT ![cur] = (rx_occ[cur] + n) % IndexWrap]
    BY <1>3 DEF SrvRecv
  <2>2. /\ UNCHANGED <<rx_empty, pc, cur>> /\ srv = "recv" /\ srv' = "rxpoll"
    BY <1>3 DEF SrvRecv, SrvMove
  <2>3. n \in Nat /\ n > 0 /\ rx_occ'[cur] = rx_occ[cur] + n
    BY <2>1, <1>1, RecvFits
  <2>4. cur # s => rx_occ'[s] = rx_occ[s]
    BY <2>1, <1>1
  <2> QED BY <2>2, <2>3, <2>4, <1>1 DEF ReaderInv, Claims, RxGiving, GetWindow, SrvHolds, s
<1>4. CASE SrvRxPoll
  <2>1. /\ UNCHANGED <<rx_occ, pc, cur>> /\ srv = "rxpoll" /\ srv' \in {"unlock", "rxgive"}
        /\ rx_empty' = [rx_empty EXCEPT ![cur] = FALSE]
    BY <1>4 DEF SrvRxPoll, SrvMove
  <2>2. (cur # s => rx_empty'[s] = rx_empty[s]) /\ (cur = s => ~rx_empty'[s])
    BY <2>1, <1>1
  <2> QED BY <2>1, <2>2, <1>1 DEF ReaderInv, Claims, RxGiving, GetWindow, SrvHolds, s
<1>5. CASE SrvRxGive
  <2>1. /\ UNCHANGED <<rx_occ, pc, cur>> /\ srv = "rxgive" /\ srv' = "unlock"
        /\ rx_empty' = [rx_empty EXCEPT ![cur] = TRUE]
    BY <1>5 DEF SrvRxGive, SrvMove
  <2>2. (cur # s => rx_empty'[s] = rx_empty[s]) /\ (cur = s => rx_empty'[s])
    BY <2>1, <1>1
  <2> QED BY <2>1, <2>2, <1>1 DEF ReaderInv, Claims, RxGiving, GetWindow, SrvHolds, s
<1>6. CASE SrvLock
  <2>1. /\ SrvCanRun /\ UNCHANGED <<rx_empty, rx_occ, pc, cur>> /\ srv = "scan"
        /\ srv' \in {"send", "txpoll"}
    BY <1>6 DEF SrvLock, SrvMove, rxVars
  <2> QED BY <2>1, <1>1, <1>2 DEF ReaderInv, Claims, RxGiving, s
<1>7. CASE SrvSend \/ SrvTxPoll \/ SrvTxGive \/ SrvRecvAgain \/ SrvRecvNothing \/ SrvRecvClosed \/ SrvClosed
           \/ SrvError
  <2>1. /\ UNCHANGED <<rx_empty, rx_occ, pc, cur>> /\ srv \in SrvHolds \ {"rxpoll", "rxgive"}
        /\ srv' \in SrvHolds \ {"rxpoll", "rxgive"}
    BY <1>7 DEF SrvSend, SrvTxPoll, SrvTxGive, SrvRecvAgain, SrvRecvNothing, SrvRecvClosed, SrvClosed, SrvError,
                SrvMove, SrvHolds, rxVars
  <2> QED BY <2>1, <1>1 DEF ReaderInv, Claims, RxGiving, s
<1>8. CASE SrvStart \/ SrvStartFail \/ SrvTick \/ SrvAcceptCall \/ SrvAcceptAgain
           \/ SrvAccepted \/ SrvAcceptFail \/ SrvConnected \/ SrvSockOptFail \/ SrvUnlock \/ SrvDie
  <2>1. /\ UNCHANGED <<rx_empty, rx_occ>> /\ srv' \notin SrvHolds /\ srv \notin {"rxpoll", "rxgive"}
    BY <1>8 DEF SrvStart, SrvStartFail, SrvTick, SrvAcceptCall, SrvAcceptAgain, SrvAccepted,
                SrvAcceptFail, SrvConnected, SrvSockOptFail, SrvUnlock, SrvDie, SrvMove, Advance,
                SrvHolds, rxVars
  <2>2. pc'[t] = pc[t] \/ (pc[t] = "off" /\ pc'[t] = "idle")
    <3>1. pc' = pc \/ \E u \in Tasks : pc[u] = "off" /\ pc' = [pc EXCEPT ![u] = "idle"]
      BY <1>8 DEF SrvStart, SrvStartFail, SrvTick, SrvAcceptCall, SrvAcceptAgain, SrvAccepted,
                  SrvAcceptFail, SrvConnected, SrvSockOptFail, SrvUnlock, SrvDie, TaskAssumption
    <3> QED BY <3>1, <1>1
  <2>3. ~RxGiving(s)'
    BY <2>1 DEF RxGiving, SrvHolds
  <2> QED BY <2>1, <2>2, <2>3, <1>1 DEF ReaderInv, Claims, GetWindow, s
<1>. QED  BY <1>3, <1>4, <1>5, <1>6, <1>7, <1>8 DEF SrvStep

\* Only GetCall starts a GetChar, and only for a task that reads.
LEMMA GettersOnly ==
  ASSUME TaskAssumption, TypeOK, Next, \A t \in Tasks : pc[t] \in GetPCs => t \in Getters
  PROVE  \A t \in Tasks : pc'[t] \in GetPCs => t \in Getters
<1>1. pc \in [Tasks -> TaskPCs]
  BY DEF TypeOK, ControlType
<1>2. CASE \E u \in Tasks : GetCall(u) \/ GetStep(u)
  <2>1. PICK u \in Tasks : GetCall(u) \/ GetStep(u)
    BY <1>2
  <2>2. u \in Getters /\ \E x \in TaskPCs : pc' = [pc EXCEPT ![u] = x]
    BY <2>1, <1>1 DEF GetStep, GetCall, GetTake, GetLock, GetRead, GetCheck, GetGive, Move,
                      TaskPCs, GetPCs
  <2> QED BY <2>2, <1>1
<1>3. CASE \E u \in Tasks : PutCall(u) \/ PutStep(u)
  <2>1. PICK u \in Tasks : PutCall(u) \/ PutStep(u)
    BY <1>3
  <2>2. \E x \in PutPCs \cup {"idle"} : pc' = [pc EXCEPT ![u] = x]
    BY <2>1 DEF PutStep, PutCall, PutTake, PutLock, PutWrite, PutCheck, PutGive, Move, PutPCs
  <2> QED BY <2>2, <1>1 DEF GetPCs, PutPCs
<1>4. CASE SrvStep
  <2>1. pc' = pc \/ \E u \in Tasks : pc' = [pc EXCEPT ![u] = "idle"]
    BY <1>4 DEF SrvStep, SrvStart, SrvStartFail, SrvTick, SrvAcceptCall, SrvAcceptAgain,
                SrvAccepted, SrvAcceptFail, SrvConnected, SrvSockOptFail, SrvLock, SrvSend,
                SrvTxPoll, SrvTxGive, SrvRecv, SrvRecvAgain, SrvRecvNothing, SrvRecvClosed, SrvClosed,
                SrvRxPoll, SrvRxGive, SrvUnlock, SrvError, SrvDie, TaskAssumption
  <2> QED BY <2>1, <1>1 DEF GetPCs
<1>5. CASE \E s \in Slots : PeerStep(s)
  BY <1>5 DEF PeerStep, PeerConnect, PeerSend, PeerClose
<1>. QED  BY <1>2, <1>3, <1>4, <1>5 DEF Next, TaskStep

\* The occupancy of a receive buffer stays within its size: a reader finds a
\* character of its own, and what is received fits.
LEMMA RxBoundsNext ==
  ASSUME SocketAssumption, TaskAssumption, TypeOK, RxInv, Next
  PROVE  RxStaysInBounds'
<1>1. /\ SlotOf \in [Tasks -> Slots] /\ rx_occ \in [Slots -> Nat] /\ RxBufSize \in Nat
      /\ IndexWrap \in Nat /\ RxBufSize < IndexWrap /\ cur \in Slots
      /\ \A s \in Slots : rx_occ[s] <= RxBufSize
  <2>1. 0..(IndexWrap - 1) \subseteq Nat
    BY DEF SocketAssumption
  <2>2. rx_occ \in [Slots -> Nat]
    BY <2>1 DEF TypeOK, RxType
  <2> QED BY <2>2 DEF TaskAssumption, SocketAssumption, TypeOK, ControlType, RxInv, RxStaysInBounds
<1>2. CASE \E t \in Tasks : GetRead(t)
  <2>1. PICK t \in Tasks : GetRead(t)
    BY <1>2
  <2> DEFINE s == SlotOf[t]
  <2>2. s \in Slots /\ rx_occ[s] \in Nat /\ rx_occ[s] < IndexWrap
    BY <1>1
  <2>3. /\ pc[t] = "g_locked"
        /\ rx_occ' = [rx_occ EXCEPT ![s] = (rx_occ[s] + IndexWrap - 1) % IndexWrap]
    BY <2>1 DEF GetRead, Move
  <2> HIDE DEF s
  <2>4. rx_occ[s] > 0
    <3>1. ReaderInv(t)
      BY <2>3 DEF RxInv, GetPCs
    <3> QED BY <3>1, <2>2, <2>3 DEF ReaderInv, Claims, GetWindow, s
  <2>5. (rx_occ[s] + IndexWrap - 1) % IndexWrap = rx_occ[s] - 1
    BY <2>2, <2>4, <1>1, LessOne
  <2> QED BY <2>2, <2>3, <2>4, <2>5, <1>1 DEF RxStaysInBounds
<1>3. CASE SrvRecv
  <2>1. PICK n \in 1..MinOf(RxRoom(cur), inflight[cur]) :
          rx_occ' = [rx_occ EXCEPT ![cur] = (rx_occ[cur] + n) % IndexWrap]
    BY <1>3 DEF SrvRecv
  <2>2. n \in Nat /\ rx_occ[cur] + n <= RxBufSize /\ rx_occ' = [rx_occ EXCEPT ![cur] = rx_occ[cur] + n]
    BY <2>1, RecvFits DEF RxInv
  <2> QED BY <2>2, <1>1 DEF RxStaysInBounds
<1>4. CASE UNCHANGED rx_occ
  BY <1>4 DEF RxInv, RxStaysInBounds
<1>5. (\E t \in Tasks : GetRead(t)) \/ SrvRecv \/ UNCHANGED rx_occ
  <2>1. ASSUME NEW t \in Tasks, TaskStep(t) PROVE GetRead(t) \/ UNCHANGED rx_occ
    BY <2>1 DEF TaskStep, PutStep, GetStep, PutCall, PutTake, PutLock, PutWrite, PutCheck, PutGive,
                GetCall, GetTake, GetLock, GetCheck, GetGive, rxVars
  <2>2. ASSUME SrvStep PROVE SrvRecv \/ UNCHANGED rx_occ
    BY <2>2 DEF SrvStep, SrvStart, SrvStartFail, SrvTick, SrvAcceptCall, SrvAcceptAgain,
                SrvAccepted, SrvAcceptFail, SrvConnected, SrvSockOptFail, SrvLock, SrvSend,
                SrvTxPoll, SrvTxGive, SrvRecvAgain, SrvRecvNothing, SrvRecvClosed, SrvClosed,
                SrvRxPoll, SrvRxGive, SrvUnlock, SrvError, SrvDie, rxVars
  <2>3. ASSUME NEW s \in Slots, PeerStep(s) PROVE UNCHANGED rx_occ
    BY <2>3 DEF PeerStep, PeerConnect, PeerSend, PeerClose, rxVars
  <2> QED BY <2>1, <2>2, <2>3 DEF Next
<1>. QED  BY <1>2, <1>3, <1>4, <1>5

\* Every step keeps the invariant of every reader.
LEMMA ReaderNext ==
  ASSUME SocketAssumption, TaskAssumption, SingleGetter, TypeOK, BufAccess, RxInv, Next,
         NEW u \in Getters
  PROVE  ReaderInv(u)'
<1>1. /\ u \in Tasks /\ SlotOf[u] \in Slots /\ SlotOf \in [Tasks -> Slots] /\ ReaderInv(u)
      /\ pc \in [Tasks -> TaskPCs] /\ rx_empty \in [Slots -> BOOLEAN]
      /\ rx_occ \in [Slots -> Nat] /\ RxStaysInBounds
  BY ReaderTypes DEF RxInv
<1>2. CASE \E t \in Tasks : GetCall(t) \/ GetStep(t)
  <2>1. PICK t \in Tasks : GetCall(t) \/ GetStep(t)
    BY <1>2
  <2>2. t \in Getters
    BY <2>1 DEF RxInv, GetStep, GetCall, GetTake, GetLock, GetRead, GetCheck, GetGive, Move,
                GetPCs
  <2>3. CASE t = u
    <3>1. rx_occ[SlotOf[u]] <= RxBufSize
      BY <1>1 DEF RxStaysInBounds
    <3> QED BY <3>1, <2>1, <2>3, <1>1, ReaderGet
  <2>4. CASE t # u
    <3>1. SlotOf[t] # SlotOf[u] /\ SlotOf[t] \in Slots
      BY <2>2, <2>4, <1>1 DEF SingleGetter
    <3>2. UNCHANGED <<srv, cur>> /\ \E x \in TaskPCs : pc' = [pc EXCEPT ![t] = x]
      BY <2>1 DEF GetStep, GetCall, GetTake, GetLock, GetRead, GetCheck, GetGive, Move,
                  TaskPCs, GetPCs, srvVars
    <3>3. /\ rx_empty' = rx_empty \/ \E b \in BOOLEAN : rx_empty' = [rx_empty EXCEPT ![SlotOf[t]] = b]
          /\ rx_occ' = rx_occ \/ \E n : rx_occ' = [rx_occ EXCEPT ![SlotOf[t]] = n]
      BY <2>1 DEF GetStep, GetCall, GetTake, GetLock, GetRead, GetCheck, GetGive, rxVars
    <3>4. /\ pc'[u] = pc[u] /\ rx_empty'[SlotOf[u]] = rx_empty[SlotOf[u]]
          /\ rx_occ'[SlotOf[u]] = rx_occ[SlotOf[u]]
      BY <3>1, <3>2, <3>3, <2>4, <1>1
    <3> QED BY <3>2, <3>4, <1>1, ReaderFrame
  <2> QED BY <2>3, <2>4
<1>3. CASE \E t \in Tasks : PutCall(t) \/ PutStep(t)
  <2>1. PICK t \in Tasks : PutCall(t) \/ PutStep(t)
    BY <1>3
  <2>2. UNCHANGED <<srv, cur, rx_empty, rx_occ>>
    BY <2>1 DEF PutStep, PutCall, PutTake, PutLock, PutWrite, PutCheck, PutGive, srvVars, rxVars
  <2>3. pc'[u] = pc[u] \/ (pc[u] \notin GetPCs /\ pc'[u] \notin GetPCs)
    <3>1. /\ pc[t] \in PutPCs \cup {"idle"}
          /\ \E x \in PutPCs \cup {"idle"} : pc' = [pc EXCEPT ![t] = x]
      BY <2>1 DEF PutStep, PutCall, PutTake, PutLock, PutWrite, PutCheck, PutGive, Move, PutPCs
    <3> QED BY <3>1, <1>1 DEF GetPCs, PutPCs
  <2> QED BY <2>2, <2>3, <1>1 DEF ReaderInv, Claims, RxGiving, GetWindow, GetPCs
<1>4. CASE SrvStep
  BY <1>4, <1>1, ReaderServer
<1>5. CASE \E s \in Slots : PeerStep(s)
  <2>1. UNCHANGED <<pc, rx_empty, rx_occ, srv, cur>>
    BY <1>5 DEF PeerStep, PeerConnect, PeerSend, PeerClose, rxVars, srvVars
  <2> QED BY <2>1, <1>1, ReaderFrame
<1>. QED  BY <1>2, <1>3, <1>4, <1>5 DEF Next, TaskStep

\* Who is about to read has a character.
LEMMA RxInvariant == ASSUME SingleGetter PROVE Spec => []RxInv
<1> USE SocketAssumption, TaskAssumption, SingleGetter
<1>1. Init => RxInv
  <2> SUFFICES ASSUME Init PROVE RxInv
    OBVIOUS
  <2>1. /\ \A t \in Tasks : pc[t] \notin GetPCs /\ ~rx_empty[SlotOf[t]]
        /\ srv = "start" /\ \A s \in Slots : rx_occ[s] = 0
    BY DEF Init, GetPCs, TaskAssumption
  <2>2. \A t \in Getters : ReaderInv(t)
    BY <2>1 DEF ReaderInv, Claims, RxGiving, TaskAssumption, GetWindow, GetPCs, SrvHolds
  <2>3. RxStaysInBounds
    BY <2>1 DEF RxStaysInBounds, SocketAssumption
  <2> QED BY <2>1, <2>2, <2>3 DEF RxInv
<1>2. TypeOK /\ BufAccess /\ RxInv /\ [Next]_vars => RxInv'
  <2> SUFFICES ASSUME TypeOK, BufAccess, RxInv, [Next]_vars PROVE RxInv'
    OBVIOUS
  <2>1. CASE Next
    <3>1. \A t \in Tasks : pc'[t] \in GetPCs => t \in Getters
      BY <2>1, GettersOnly DEF RxInv
    <3>2. \A t \in Getters : ReaderInv(t)'
      BY <2>1, ReaderNext
    <3>3. RxStaysInBounds'
      BY <2>1, RxBoundsNext
    <3> QED BY <3>1, <3>2, <3>3 DEF RxInv
  <2>2. CASE UNCHANGED vars
    <3>1. UNCHANGED <<pc, rx_empty, rx_occ, srv, cur>>
      BY <2>2 DEF vars, rxVars, srvVars
    <3> QED BY <3>1 DEF RxInv, ReaderInv, Claims, RxGiving, RxStaysInBounds
  <2> QED BY <2>1, <2>2
<1>. QED  BY <1>1, <1>2, TypeCorrect, BufAccessCorrect, PTL DEF Spec

\* For any number of slots and tasks, any buffer size and whatever the clients
\* do: while a slot has one reader, GetChar never reads a character that is not
\* there, and the server never receives into a place not read yet.
THEOREM RxSafe == ASSUME SingleGetter PROVE Spec => []RxStaysInBounds
<1> USE SingleGetter
<1>1. RxInv => RxStaysInBounds
  BY DEF RxInv
<1>2. Spec => []RxInv
  BY RxInvariant
<1>. QED  BY <1>1, <1>2, PTL

-----------------------------------------------------------------------------
(* Arithmetic of ring buffers.  A ring of n places holds the characters    *)
(* lo+1 .. hi of a stream, character c in place (c-1) % n: what putting    *)
(* one, storing a run and taking a run does to that.                       *)

\* A quotient and a remainder determine the number, and are determined by it.
LEMMA DivMod ==
  ASSUME NEW a \in Nat, NEW n \in Nat, n > 0
  PROVE  a \div n \in Nat /\ a % n \in 0..(n - 1) /\ a = n * (a \div n) + (a % n)
  OBVIOUS

\* One factor more makes a product larger by the other one at least.
LEMMA ProductMonotone ==
  ASSUME NEW n \in Nat, NEW q \in Nat, NEW p \in Nat, q < p
  PROVE  n * q + n <= n * p
<1>1. PICK d \in Nat : p = q + 1 + d
  <2>1. p - q - 1 \in Nat /\ p = q + 1 + (p - q - 1)
    OBVIOUS
  <2> QED BY <2>1
<1>2. n * p = n * q + n + n * d
  BY <1>1
<1>3. n * d >= 0 /\ n * d \in Nat /\ n * q \in Nat
  BY <1>1
<1>. QED BY <1>2, <1>3

\* The remainder is the only one.
LEMMA ModUnique ==
  ASSUME NEW n \in Nat, n > 0, NEW q \in Nat, NEW r \in 0..(n - 1)
  PROVE  (n * q + r) % n = r
<1> DEFINE a == n * q + r
           p == a \div n
           t == a % n
<1>1. a \in Nat /\ n * q \in Nat
  OBVIOUS
<1>2. p \in Nat /\ t \in 0..(n - 1) /\ a = n * p + t
  BY <1>1, DivMod
<1>3. n * q + r = n * p + t /\ n * p \in Nat
  BY <1>2
<1> HIDE DEF a, p, t
<1>4. ~(p < q)
  BY <1>1, <1>2, <1>3, ProductMonotone
<1>5. ~(q < p)
  BY <1>1, <1>2, <1>3, ProductMonotone
<1>6. p = q
  BY <1>2, <1>4, <1>5
<1>7. t = r
  BY <1>3, <1>6, <1>1, <1>2
<1>. QED BY <1>7 DEF a, t

\* Inside the ring, positions add up.
LEMMA ModPlus ==
  ASSUME NEW n \in Nat, n > 0, NEW a \in Nat, NEW j \in Nat, (a % n) + j < n
  PROVE  (a + j) % n = (a % n) + j
<1>1. a \div n \in Nat /\ a % n \in 0..(n - 1) /\ a = n * (a \div n) + (a % n)
  BY DivMod
<1>2. a + j = n * (a \div n) + ((a % n) + j) /\ (a % n) + j \in 0..(n - 1)
  BY <1>1
<1>. QED BY <1>1, <1>2, ModUnique

\* Wrapping at a multiple of the ring's size does not change the place in it.
LEMMA ModWrap ==
  ASSUME NEW n \in Nat, n > 0, NEW w \in Nat, w > 0, w % n = 0, NEW a \in Nat
  PROVE  (a % w) % n = a % n
<1>1. /\ a \div w \in Nat /\ a % w \in 0..(w - 1) /\ a = w * (a \div w) + (a % w)
      /\ w \div n \in Nat /\ w = n * (w \div n) + 0
  BY DivMod
<1>2. PICK k \in Nat : w * (a \div w) = n * k
  <2>1. w * (a \div w) = n * ((w \div n) * (a \div w)) /\ (w \div n) * (a \div w) \in Nat
    BY <1>1
  <2> QED BY <2>1
<1>3. /\ (a % w) \div n \in Nat /\ (a % w) % n \in 0..(n - 1)
      /\ a % w = n * ((a % w) \div n) + ((a % w) % n)
  BY <1>1, DivMod
<1>4. n * (k + ((a % w) \div n)) = n * k + n * ((a % w) \div n)
  BY <1>3
<1>5. a = n * (k + ((a % w) \div n)) + ((a % w) % n) /\ k + ((a % w) \div n) \in Nat
  BY <1>1, <1>2, <1>3, <1>4
<1>6. \A q \in Nat, r \in 0..(n - 1) : a = n * q + r => a % n = r
  BY ModUnique
<1>. QED BY <1>3, <1>5, <1>6

\* Two of fewer than n numbers in a row have different places.
LEMMA ModDistinct ==
  ASSUME NEW n \in Nat, n > 0, NEW a \in Nat, NEW b \in Nat, a < b, b < a + n
  PROVE  a % n # b % n
<1> SUFFICES ASSUME a % n = b % n PROVE FALSE
  OBVIOUS
<1> DEFINE p == a \div n
           q == b \div n
           r == a % n
<1>1. /\ p \in Nat /\ r \in 0..(n - 1) /\ a = n * p + r
      /\ q \in Nat /\ b = n * q + r
  BY DivMod
<1> HIDE DEF p, q, r
<1>2. n * p \in Nat /\ n * q \in Nat
  BY <1>1
<1>3. ~(p < q)
  BY <1>1, <1>2, ProductMonotone
<1>4. ~(q < p)
  BY <1>1, <1>2, ProductMonotone
<1>. QED BY <1>1, <1>2, <1>3, <1>4

-----------------------------------------------------------------------------
Holds(buf, n, lo, hi) == \A c \in (lo + 1)..hi : buf[(c - 1) % n] = c

\* A character put in its place leaves those that are not taken yet alone.
LEMMA RingPut ==
  ASSUME NEW n \in Nat, n > 0, NEW lo \in Nat, NEW hi \in Nat, lo <= hi, hi < lo + n,
         NEW buf \in [0..(n - 1) -> Nat], Holds(buf, n, lo, hi)
  PROVE  Holds([buf EXCEPT ![hi % n] = hi + 1], n, lo, hi + 1)
<1> SUFFICES ASSUME NEW c \in (lo + 1)..(hi + 1)
             PROVE  [buf EXCEPT ![hi % n] = hi + 1][(c - 1) % n] = c
  BY DEF Holds
<1>1. c - 1 \in Nat /\ hi % n \in 0..(n - 1) /\ (c - 1) % n \in 0..(n - 1)
  <2>1. c - 1 \in Nat
    OBVIOUS
  <2> QED BY <2>1, DivMod
<1>2. CASE c = hi + 1
  <2>1. c - 1 = hi
    BY <1>2
  <2> QED BY <2>1, <1>1, <1>2
<1>3. CASE c # hi + 1
  <2>1. c - 1 < hi /\ hi < (c - 1) + n /\ c \in (lo + 1)..hi
    BY <1>3
  <2>2. (c - 1) % n # hi % n
    BY <2>1, <1>1, ModDistinct
  <2>3. buf[(c - 1) % n] = c
    BY <2>1 DEF Holds
  <2> QED BY <2>2, <2>3, <1>1
<1>. QED  BY <1>2, <1>3

\* What a ring holds after m characters have been stored behind the first hi.
Stored(buf, n, hi, m) ==
  [i \in 0..(n - 1) |-> IF i >= hi % n /\ i < (hi % n) + m
                          THEN hi + 1 + (i - (hi % n)) ELSE buf[i]]

\* The same of a run that does not wrap.
LEMMA RingStore ==
  ASSUME NEW n \in Nat, n > 0, NEW lo \in Nat, NEW hi \in Nat, lo <= hi,
         NEW m \in Nat, (hi % n) + m <= n, hi + m <= lo + n,
         NEW buf \in [0..(n - 1) -> Nat], Holds(buf, n, lo, hi)
  PROVE  Holds(Stored(buf, n, hi, m), n, lo, hi + m)
<1> DEFINE in == hi % n
           new == [i \in 0..(n - 1) |-> IF i >= in /\ i < in + m
                                          THEN hi + 1 + (i - in) ELSE buf[i]]
<1> SUFFICES ASSUME NEW c \in (lo + 1)..(hi + m) PROVE new[(c - 1) % n] = c
  BY DEF Holds, Stored
<1>1. c - 1 \in Nat /\ in \in 0..(n - 1) /\ (c - 1) % n \in 0..(n - 1)
  <2>1. c - 1 \in Nat
    OBVIOUS
  <2> QED BY <2>1, DivMod
<1>2. CASE c > hi
  <2> DEFINE j == c - 1 - hi
  <2>1. j \in Nat /\ j < m /\ c - 1 = hi + j /\ in + j < n
    BY <1>1, <1>2
  <2> HIDE DEF j
  <2>2. (hi + j) % n = in + j
    BY <2>1, ModPlus
  <2> HIDE DEF in
  <2> DEFINE k == (c - 1) % n
  <2>3. k = in + j /\ k \in 0..(n - 1) /\ k >= in /\ k < in + m /\ hi + 1 + (k - in) = c
    BY <2>1, <2>2, <1>1
  <2> HIDE DEF k
  <2>4. new[k] = c
    BY <2>3
  <2> QED BY <2>4 DEF k
<1>3. CASE c <= hi
  <2>1. c \in (lo + 1)..hi
    BY <1>3
  <2>2. ASSUME (c - 1) % n >= in, (c - 1) % n < in + m PROVE FALSE
    <3> DEFINE j == ((c - 1) % n) - in
    <3>1. j \in Nat /\ j < m /\ (c - 1) % n = in + j /\ in + j < n
      BY <1>1, <2>2
    <3> HIDE DEF j
    <3>2. (hi + j) % n = in + j
      BY <3>1, ModPlus
    <3>3. c - 1 < hi + j /\ hi + j < (c - 1) + n /\ hi + j \in Nat
      BY <2>1, <3>1
    <3>4. (c - 1) % n # (hi + j) % n
      BY <1>1, <3>3, ModDistinct
    <3> QED BY <3>1, <3>2, <3>4
  <2>3. buf[(c - 1) % n] = c
    BY <2>1 DEF Holds
  <2> HIDE DEF in
  <2> QED BY <2>2, <2>3, <1>1
<1>. QED  BY <1>2, <1>3

\* The m places from o on; the m characters after the first lo.
Run(buf, o, m) == [i \in 1..m |-> buf[o + i - 1]]
Stream(lo, m) == [i \in 1..m |-> lo + i]

\* A run taken from the place of the oldest character on is the next ones in order.
LEMMA RingTake ==
  ASSUME NEW n \in Nat, n > 0, NEW lo \in Nat, NEW hi \in Nat,
         NEW m \in Nat, lo + m <= hi, NEW o \in Nat, o = lo % n, o + m <= n,
         NEW buf, Holds(buf, n, lo, hi)
  PROVE  Run(buf, o, m) = Stream(lo, m)
<1> SUFFICES ASSUME NEW i \in 1..m PROVE buf[(lo % n) + i - 1] = lo + i
  BY DEF Run, Stream
<1> DEFINE j == i - 1
<1>1. j \in Nat /\ (lo % n) \in 0..(n - 1)
  BY DivMod
<1>2. (lo % n) + j < n /\ lo + j = (lo + i) - 1 /\ (lo % n) + i - 1 = (lo % n) + j
  BY <1>1
<1> HIDE DEF j
<1>3. (lo + j) % n = (lo % n) + j
  BY <1>1, <1>2, ModPlus
<1>4. lo + i \in (lo + 1)..hi
  OBVIOUS
<1>5. buf[((lo + i) - 1) % n] = lo + i
  BY <1>4 DEF Holds
<1>. QED  BY <1>2, <1>3, <1>5

\* The characters after the first lo are m, and continue a stream.
LEMMA StreamTypes ==
  ASSUME NEW lo \in Nat, NEW m \in Nat
  PROVE  Stream(lo, m) \in Seq(Nat) /\ Len(Stream(lo, m)) = m
<1>1. Stream(lo, m) \in [1..m -> Nat]
  BY DEF Stream
<1>2. DOMAIN Stream(lo, m) = 1..m
  BY DEF Stream
<1>. QED  BY <1>1, <1>2

LEMMA AppendNext ==
  ASSUME NEW a \in Seq(Nat), NEW lo \in Nat
  PROVE  Append(a, lo + 1) = a \o Stream(lo, 1)
<1>1. Stream(lo, 1) = <<lo + 1>>
  BY DEF Stream
<1>2. Append(a, lo + 1) = a \o <<lo + 1>>
  OBVIOUS
<1>. QED  BY <1>1, <1>2

LEMMA ConcatLen ==
  ASSUME NEW S, NEW a \in Seq(S), NEW b \in Seq(S)
  PROVE  Len(a \o b) = Len(a) + Len(b)
  OBVIOUS

\* Index i names the place of position p of the stream.
Names(i, p, n) == i % n = p % n

\* It still does when both are moved on by j, the index wrapping at w.
LEMMA IndexMoves ==
  ASSUME NEW n \in Nat, n > 0, NEW w \in Nat, w > 0, w % n = 0,
         NEW i \in Nat, NEW p \in Nat, Names(i, p, n), NEW j \in Nat,
         NEW i2, i2 = (i + j) % w, NEW p2, p2 = p + j
  PROVE  Names(i2, p2, n)
<1> DEFINE r == i % n
           e == (r + j) \div n
           f == (r + j) % n
<1>1. /\ i \div n \in Nat /\ r \in 0..(n - 1) /\ i = n * (i \div n) + r
      /\ p \div n \in Nat /\ p = n * (p \div n) + r
  BY DivMod DEF Names
<1>2. e \in Nat /\ f \in 0..(n - 1) /\ r + j = n * e + f
  BY <1>1, DivMod
<1>3. /\ n * ((i \div n) + e) = n * (i \div n) + n * e
      /\ n * ((p \div n) + e) = n * (p \div n) + n * e
      /\ n * (i \div n) \in Nat /\ n * (p \div n) \in Nat /\ n * e \in Nat
  BY <1>1, <1>2
<1> HIDE DEF r, e, f
<1>4. i + j = n * ((i \div n) + e) + f /\ p + j = n * ((p \div n) + e) + f
  BY <1>1, <1>2, <1>3
<1>5. (i \div n) + e \in Nat /\ (p \div n) + e \in Nat
  BY <1>1, <1>2
<1> DEFINE x == (i \div n) + e
           y == (p \div n) + e
<1>6. x \in Nat /\ y \in Nat /\ i + j = n * x + f /\ p + j = n * y + f
  BY <1>4, <1>5
<1> HIDE DEF x, y
<1>7. (n * x + f) % n = f /\ (n * y + f) % n = f
  BY <1>2, <1>6, ModUnique
<1>8. (i + j) % n = (p + j) % n
  BY <1>6, <1>7
<1> DEFINE k == i + j
<1>9. k \in Nat
  OBVIOUS
<1> HIDE DEF k
<1>10. (k % w) % n = k % n
  BY <1>9, ModWrap
<1>. QED  BY <1>8, <1>10 DEF k, Names

-----------------------------------------------------------------------------
(* The send ring.                                                          *)

\* The send ring holds what was written and not handed to sl_Send, each character
\* in its place, and the indices name the places of the next ones.
TxRing(s) ==
  /\ written[s] = Len(wire[s]) + tx_occ[s]
  /\ Names(tx_i_in[s], written[s], TxBufSize)
  /\ Names(tx_i_out[s], Len(wire[s]), TxBufSize)
  /\ Holds(tx_buf[s], TxBufSize, Len(wire[s]), written[s])

TxRings == \A s \in Slots : TxRing(s)

\* The types the steps below rest on.
LEMMA TxTypes ==
  ASSUME SocketAssumption, TypeOK, NEW s \in Slots
  PROVE  /\ TxBufSize \in Nat /\ TxBufSize > 0 /\ IndexWrap \in Nat /\ IndexWrap > 0
         /\ IndexWrap % TxBufSize = 0 /\ RxBufSize = TxBufSize /\ IndexWrap > TxBufSize
         /\ tx_i_in[s] \in Nat /\ tx_i_out[s] \in Nat /\ tx_occ[s] \in Nat
         /\ written[s] \in Nat /\ wire[s] \in Seq(Nat) /\ Len(wire[s]) \in Nat
         /\ tx_buf[s] \in [0..(TxBufSize - 1) -> Nat]
<1>1. /\ TxBufSize \in Nat /\ TxBufSize > 0 /\ IndexWrap \in Nat /\ IndexWrap > 0
      /\ IndexWrap % TxBufSize = 0 /\ RxBufSize = TxBufSize /\ IndexWrap > TxBufSize
  BY DEF SocketAssumption
<1>2. /\ tx_i_in[s] \in 0..(IndexWrap - 1) /\ tx_i_out[s] \in 0..(IndexWrap - 1)
      /\ tx_occ[s] \in Nat /\ written[s] \in Nat /\ wire[s] \in Seq(Nat)
      /\ tx_buf[s] \in [0..(TxBufSize - 1) -> Nat]
  BY DEF TypeOK, TxType
<1>. QED  BY <1>1, <1>2

\* PutChar's write puts the next character after those in the ring.
LEMMA TxRingPut ==
  ASSUME SocketAssumption, TaskAssumption, TypeOK, TxRings, NEW t \in Tasks, PutWrite(t),
         tx_occ[SlotOf[t]] < TxBufSize
  PROVE  TxRing(SlotOf[t])' /\ TxChannel!Accept(SlotOf[t], 1)
<1> DEFINE s == SlotOf[t]
<1>1. s \in Slots /\ TxRing(s)
  BY DEF TaskAssumption, TxRings
<1>2. /\ tx_buf' = [tx_buf EXCEPT ![s][tx_i_in[s] % TxBufSize] = written[s] + 1]
      /\ tx_i_in' = [tx_i_in EXCEPT ![s] = (tx_i_in[s] + 1) % IndexWrap]
      /\ tx_occ' = [tx_occ EXCEPT ![s] = tx_occ[s] + 1]
      /\ written' = [written EXCEPT ![s] = written[s] + 1]
      /\ UNCHANGED <<tx_i_out, wire>>
  BY DEF PutWrite
<1>3. /\ tx_buf \in [Slots -> [0..(TxBufSize - 1) -> Nat]]
      /\ tx_i_in \in [Slots -> 0..(IndexWrap - 1)] /\ tx_occ \in [Slots -> Nat]
      /\ written \in [Slots -> Nat]
  BY DEF TypeOK, TxType
<1> HIDE DEF s
<1> DEFINE n == TxBufSize
           i == tx_i_in[s]
           lo == Len(wire[s])
           hi == written[s]
           buf == tx_buf[s]
<1>4. /\ n \in Nat /\ n > 0 /\ IndexWrap \in Nat /\ IndexWrap > 0 /\ IndexWrap % n = 0
      /\ i \in Nat /\ lo \in Nat /\ hi \in Nat /\ buf \in [0..(n - 1) -> Nat]
  BY <1>1, TxTypes
<1>5. hi = lo + tx_occ[s] /\ tx_occ[s] \in Nat /\ tx_occ[s] < n
  BY <1>1, TxTypes DEF TxRing, s
<1>6. lo <= hi /\ hi < lo + n /\ Names(i, hi, n) /\ Holds(buf, n, lo, hi)
  BY <1>1, <1>4, <1>5 DEF TxRing
<1>7. tx_buf'[s] = [buf EXCEPT ![hi % n] = hi + 1]
  BY <1>1, <1>2, <1>3, <1>6 DEF Names
<1>8. /\ tx_i_in'[s] = (i + 1) % IndexWrap /\ tx_occ'[s] = tx_occ[s] + 1
      /\ written'[s] = hi + 1 /\ tx_i_out'[s] = tx_i_out[s] /\ wire'[s] = wire[s]
  BY <1>1, <1>2, <1>3
<1>9. Names(tx_i_out[s], lo, n)
  BY <1>1 DEF TxRing
<1> HIDE DEF n, i, lo, hi, buf
<1>10. Holds([buf EXCEPT ![hi % n] = hi + 1], n, lo, hi + 1)
  BY <1>4, <1>6, RingPut
<1>11. Names(tx_i_in'[s], written'[s], n)
  BY <1>4, <1>6, <1>8, IndexMoves
<1>12. hi + 1 = lo + (tx_occ[s] + 1)
  BY <1>4, <1>5
<1>13. TxRing(s)'
  BY <1>7, <1>8, <1>9, <1>10, <1>11, <1>12 DEF TxRing, lo, n
<1>14. TxChannel!Accept(s, 1)
  <2>1. written[s] - Len(wire[s]) + 1 <= TxBufSize
    BY <1>4, <1>5 DEF hi, lo, n
  <2> QED BY <2>1, <1>2 DEF TxChannel!Accept, TxChannel!Held
<1>. QED  BY <1>13, <1>14 DEF s

\* What sl_Send is handed is the oldest characters of the ring, in order.
LEMMA TxRingSend ==
  ASSUME SocketAssumption, TypeOK, TxRings, TxNeverOverflows, SrvSend
  PROVE  /\ TxRing(cur)'
         /\ \/ UNCHANGED <<written, wire>>
            \/ \E m \in 1..TxBufSize : TxChannel!Deliver(cur, m)
<1> DEFINE n == TxBufSize
           i == tx_i_out[cur]
           lo == Len(wire[cur])
           hi == written[cur]
           buf == tx_buf[cur]
           m == TxRun(cur)
           o == TxOut(cur)
           chunk == Stream(lo, m)
<1>1. cur \in Slots /\ TxRing(cur)
  BY DEF TypeOK, ControlType, TxRings
<1>2. /\ wire' = [wire EXCEPT ![cur] = wire[cur] \o Run(buf, o, m)]
      /\ tx_occ' = [tx_occ EXCEPT ![cur] = tx_occ[cur] - m]
      /\ tx_i_out' = [tx_i_out EXCEPT ![cur] = (tx_i_out[cur] + m) % IndexWrap]
      /\ UNCHANGED <<tx_buf, tx_i_in, written, cur>>
  BY DEF SrvSend, SrvMove, Run
<1>3. /\ tx_i_out \in [Slots -> 0..(IndexWrap - 1)] /\ tx_occ \in [Slots -> Nat]
      /\ wire \in [Slots -> Seq(Nat)]
  BY DEF TypeOK, TxType
<1>4. /\ n \in Nat /\ n > 0 /\ IndexWrap \in Nat /\ IndexWrap > 0 /\ IndexWrap % n = 0
      /\ i \in Nat /\ lo \in Nat /\ hi \in Nat /\ buf \in [0..(n - 1) -> Nat]
      /\ RxBufSize = n
  BY <1>1, TxTypes
<1>5. hi = lo + tx_occ[cur] /\ tx_occ[cur] \in Nat /\ tx_occ[cur] <= n
  BY <1>1, TxTypes DEF TxRing, TxNeverOverflows
<1>6. Names(i, lo, n) /\ Names(tx_i_in[cur], hi, n) /\ Holds(buf, n, lo, hi)
  BY <1>1 DEF TxRing
<1>7. o = lo % n
  BY <1>4, <1>6 DEF TxOut, Names
<1>8. m \in Nat /\ m <= n /\ m <= tx_occ[cur] /\ o + m <= n /\ o \in Nat
  <2>1. o \in 0..(n - 1) /\ m \in 0..(n - o) /\ m <= tx_occ[cur]
    BY <1>1, RunLemma DEF TypeOK
  <2> HIDE DEF n, o, m
  <2> QED BY <2>1, <1>4
<1> HIDE DEF n, i, lo, hi, buf, m, o
<1>9. Run(buf, o, m) = chunk
  <2>1. lo + m <= hi
    BY <1>4, <1>5, <1>8
  <2>2. n \in Nat /\ n > 0 /\ lo \in Nat /\ hi \in Nat
    BY <1>4
  <2>3. m \in Nat /\ o \in Nat /\ o + m <= n
    BY <1>8
  <2>4. Run(buf, o, m) = Stream(lo, m)
    BY <2>1, <2>2, <2>3, <1>6, <1>7, RingTake
  <2> QED BY <2>4
<1>10. chunk \in Seq(Nat) /\ Len(chunk) = m
  BY <1>4, <1>8, StreamTypes
<1> HIDE DEF chunk
<1>11. wire' = [wire EXCEPT ![cur] = wire[cur] \o chunk]
  BY <1>2, <1>9
<1>12. /\ wire'[cur] = wire[cur] \o chunk /\ tx_occ'[cur] = tx_occ[cur] - m
       /\ tx_i_out'[cur] = (i + m) % IndexWrap
  BY <1>1, <1>2, <1>3, <1>11 DEF i
<1>13. Len(wire'[cur]) = lo + m
  <2>1. wire[cur] \in Seq(Nat)
    BY <1>1, <1>3
  <2>2. Len(wire[cur] \o chunk) = Len(wire[cur]) + Len(chunk)
    BY <2>1, <1>10, ConcatLen
  <2> QED BY <2>2, <1>10, <1>12 DEF lo
<1>14. Names(tx_i_out'[cur], Len(wire'[cur]), n)
  BY <1>4, <1>6, <1>8, <1>12, <1>13, IndexMoves
<1>15. Holds(buf, n, lo + m, hi)
  <2>1. \A c \in (lo + m + 1)..hi : c \in (lo + 1)..hi
    BY <1>4, <1>8
  <2> QED BY <2>1, <1>6 DEF Holds
<1>16. hi = (lo + m) + (tx_occ[cur] - m)
  BY <1>4, <1>5, <1>8
<1>17. TxRing(cur)'
  <2>1. written'[cur'] = Len(wire'[cur']) + tx_occ'[cur']
    BY <1>2, <1>12, <1>13, <1>16 DEF hi
  <2>2. Names(tx_i_in'[cur'], written'[cur'], TxBufSize)
    BY <1>2, <1>6 DEF hi, n
  <2>3. Names(tx_i_out'[cur'], Len(wire'[cur']), TxBufSize)
    BY <1>2, <1>14 DEF n
  <2>4. Holds(tx_buf'[cur'], TxBufSize, Len(wire'[cur']), written'[cur'])
    BY <1>2, <1>13, <1>15 DEF hi, n, buf
  <2> QED BY <2>1, <2>2, <2>3, <2>4 DEF TxRing
<1>18. CASE m = 0
  <2>1. chunk = <<>>
    BY <1>18, <1>10
  <2>2. wire[cur] \o <<>> = wire[cur]
    BY <1>1, <1>3
  <2>3. wire' = wire
    BY <2>1, <2>2, <1>3, <1>11
  <2> QED BY <2>3, <1>2, <1>17
<1>19. CASE m # 0
  <2>1. m \in 1..TxBufSize
    BY <1>8, <1>19, <1>4 DEF n
  <2>2. m <= written[cur] - Len(wire[cur])
    BY <1>5, <1>8, <1>4 DEF hi, lo
  <2>3. wire' = [wire EXCEPT ![cur] = wire[cur] \o [k \in 1..m |-> Len(wire[cur]) + k]]
    BY <1>11 DEF chunk, Stream, lo
  <2>4. TxChannel!Deliver(cur, m)
    BY <2>2, <2>3, <1>2 DEF TxChannel!Deliver, TxChannel!Held
  <2> QED BY <2>1, <2>4, <1>17
<1>. QED  BY <1>18, <1>19

\* A slot whose ring a step leaves alone.
LEMMA TxRingFrame ==
  ASSUME NEW s, TxRing(s), written'[s] = written[s], wire'[s] = wire[s],
         tx_occ'[s] = tx_occ[s], tx_i_in'[s] = tx_i_in[s], tx_i_out'[s] = tx_i_out[s],
         tx_buf'[s] = tx_buf[s]
  PROVE  TxRing(s)'
  BY DEF TxRing

\* Only two steps work on the send rings.
TxQuiet == UNCHANGED <<written, wire, tx_occ, tx_i_in, tx_i_out, tx_buf>>

LEMMA TxSteps ==
  ASSUME Next
  PROVE  (\E t \in Tasks : PutWrite(t)) \/ SrvSend \/ TxQuiet
<1>1. ASSUME NEW t \in Tasks, TaskStep(t) PROVE PutWrite(t) \/ TxQuiet
  BY <1>1 DEF TaskStep, PutStep, GetStep, PutCall, PutTake, PutLock, PutCheck, PutGive,
              GetCall, GetTake, GetLock, GetRead, GetCheck, GetGive, txVars, TxQuiet
<1>2. ASSUME SrvStep PROVE SrvSend \/ TxQuiet
  BY <1>2 DEF SrvStep, SrvStart, SrvStartFail, SrvTick, SrvAcceptCall, SrvAcceptAgain,
              SrvAccepted, SrvAcceptFail, SrvConnected, SrvSockOptFail, SrvLock,
              SrvTxPoll, SrvTxGive, SrvRecv, SrvRecvAgain, SrvRecvNothing, SrvRecvClosed, SrvClosed,
              SrvRxPoll, SrvRxGive, SrvUnlock, SrvError, SrvDie, txVars, TxQuiet
<1>3. ASSUME NEW s \in Slots, PeerStep(s) PROVE TxQuiet
  BY <1>3 DEF PeerStep, PeerConnect, PeerSend, PeerClose, txVars, TxQuiet
<1>. QED  BY <1>1, <1>2, <1>3 DEF Next

\* Every step keeps the rings and is a step of the channel, or none.
LEMMA TxChannelNext ==
  ASSUME SocketAssumption, TaskAssumption, TypeOK, TxInv, TxRings, Next
  PROVE  TxRings' /\ (TxChannel!Next \/ UNCHANGED <<written, wire>>)
<1>1. /\ SlotOf \in [Tasks -> Slots] /\ cur \in Slots
      /\ tx_buf \in [Slots -> [0..(TxBufSize - 1) -> Nat]]
      /\ tx_i_in \in [Slots -> 0..(IndexWrap - 1)] /\ tx_i_out \in [Slots -> 0..(IndexWrap - 1)]
      /\ tx_occ \in [Slots -> Nat] /\ written \in [Slots -> Nat] /\ wire \in [Slots -> Seq(Nat)]
  BY DEF TaskAssumption, TypeOK, ControlType, TxType
<1>2. CASE \E t \in Tasks : PutWrite(t)
  <2>1. PICK t \in Tasks : PutWrite(t)
    BY <1>2
  <2>2. tx_occ[SlotOf[t]] < TxBufSize
    <3>1. pc[t] = "p_locked"
      BY <2>1 DEF PutWrite, Move
    <3> QED BY <3>1 DEF TxInv, TokenInv, PutWindow, PutPCs
  <2>3. TxRing(SlotOf[t])' /\ TxChannel!Accept(SlotOf[t], 1)
    BY <2>1, <2>2, TxRingPut
  <2>4. ASSUME NEW s \in Slots, s # SlotOf[t] PROVE TxRing(s)'
    <3>1. /\ written'[s] = written[s] /\ wire'[s] = wire[s] /\ tx_occ'[s] = tx_occ[s]
          /\ tx_i_in'[s] = tx_i_in[s] /\ tx_i_out'[s] = tx_i_out[s] /\ tx_buf'[s] = tx_buf[s]
      BY <2>1, <2>4, <1>1 DEF PutWrite
    <3> QED BY <3>1, TxRingFrame DEF TxRings
  <2>5. 1 \in 1..TxBufSize /\ SlotOf[t] \in Slots
    BY <1>1 DEF SocketAssumption
  <2>6. TxRings'
    BY <2>3, <2>4 DEF TxRings
  <2> QED BY <2>3, <2>5, <2>6 DEF TxChannel!Next
<1>3. CASE SrvSend
  <2>1. /\ TxRing(cur)'
        /\ UNCHANGED <<written, wire>> \/ \E m \in 1..TxBufSize : TxChannel!Deliver(cur, m)
    BY <1>3, TxRingSend DEF TxInv
  <2>2. cur' = cur
    BY <1>3 DEF SrvSend, SrvMove
  <2>3. ASSUME NEW s \in Slots, s # cur PROVE TxRing(s)'
    <3>1. /\ written'[s] = written[s] /\ wire'[s] = wire[s] /\ tx_occ'[s] = tx_occ[s]
          /\ tx_i_in'[s] = tx_i_in[s] /\ tx_i_out'[s] = tx_i_out[s] /\ tx_buf'[s] = tx_buf[s]
      BY <1>3, <2>3, <1>1 DEF SrvSend
    <3> QED BY <3>1, TxRingFrame DEF TxRings
  <2>4. TxRings'
    BY <2>1, <2>2, <2>3 DEF TxRings
  <2> QED BY <2>1, <2>4, <1>1 DEF TxChannel!Next
<1>4. CASE TxQuiet
  BY <1>4, TxRingFrame DEF TxRings, TxQuiet
<1>. QED  BY <1>2, <1>3, <1>4, TxSteps

\* For any number of slots and tasks, any buffer size and whatever the clients and
\* the network do: what is handed to sl_Send is what PutChar was given, in order,
\* nothing lost, repeated or overwritten, while the indices wrap.
THEOREM TxImplements == Spec => TxIsAChannel
<1> USE SocketAssumption, TaskAssumption
<1>1. Init => TxRings /\ TxChannel!Init
  <2> SUFFICES ASSUME Init PROVE TxRings /\ TxChannel!Init
    OBVIOUS
  <2>1. /\ written = [s \in Slots |-> 0] /\ wire = [s \in Slots |-> <<>>]
        /\ \A s \in Slots : tx_occ[s] = 0 /\ tx_i_in[s] = 0 /\ tx_i_out[s] = 0
    BY DEF Init
  <2>2. TxRings
    BY <2>1 DEF TxRings, TxRing, Names, Holds
  <2> QED BY <2>1, <2>2 DEF TxChannel!Init
<1>2. TypeOK /\ TxInv /\ TxRings /\ [Next]_vars
        => TxRings' /\ [TxChannel!Next]_<<written, wire>>
  <2> SUFFICES ASSUME TypeOK, TxInv, TxRings, [Next]_vars
               PROVE  TxRings' /\ [TxChannel!Next]_<<written, wire>>
    OBVIOUS
  <2>1. CASE Next
    BY <2>1, TxChannelNext
  <2>2. CASE UNCHANGED vars
    <3>1. TxQuiet
      BY <2>2 DEF vars, txVars, TxQuiet
    <3> QED BY <3>1, TxRingFrame DEF TxRings, TxQuiet
  <2> QED BY <2>1, <2>2
<1>. QED  BY <1>1, <1>2, TypeCorrect, TxInvariant, PTL DEF Spec, TxIsAChannel, TxChannel!Spec

-----------------------------------------------------------------------------
(* The receive direction.                                                  *)

RxRing(s) ==
  /\ arrived[s] = Len(got[s]) + rx_occ[s]
  /\ Names(rx_i_in[s], arrived[s], RxBufSize)
  /\ Names(rx_i_out[s], Len(got[s]), RxBufSize)
  /\ Holds(rx_buf[s], RxBufSize, Len(got[s]), arrived[s])

RxRings == \A s \in Slots : RxRing(s)

LEMMA RxTypes ==
  ASSUME SocketAssumption, TypeOK, NEW s \in Slots
  PROVE  /\ RxBufSize \in Nat /\ RxBufSize > 0 /\ IndexWrap \in Nat /\ IndexWrap > 0
         /\ IndexWrap % RxBufSize = 0 /\ IndexWrap > RxBufSize
         /\ rx_i_in[s] \in Nat /\ rx_i_out[s] \in Nat /\ rx_occ[s] \in Nat
         /\ rx_occ[s] < IndexWrap
         /\ arrived[s] \in Nat /\ got[s] \in Seq(Nat) /\ Len(got[s]) \in Nat
         /\ rx_buf[s] \in [0..(RxBufSize - 1) -> Nat]
<1>1. /\ RxBufSize \in Nat /\ RxBufSize > 0 /\ IndexWrap \in Nat /\ IndexWrap > 0
      /\ IndexWrap % RxBufSize = 0 /\ IndexWrap > RxBufSize
  BY DEF SocketAssumption
<1>2. /\ rx_i_in[s] \in 0..(IndexWrap - 1) /\ rx_i_out[s] \in 0..(IndexWrap - 1)
      /\ rx_occ[s] \in 0..(IndexWrap - 1) /\ arrived[s] \in Nat /\ got[s] \in Seq(Nat)
      /\ rx_buf[s] \in [0..(RxBufSize - 1) -> Nat]
  BY DEF TypeOK, RxType
<1>3. /\ rx_i_in[s] \in Nat /\ rx_i_out[s] \in Nat /\ rx_occ[s] \in Nat
      /\ rx_occ[s] < IndexWrap
  <2>1. IndexWrap \in Nat
    BY <1>1
  <2>2. \A x \in 0..(IndexWrap - 1) : x \in Nat /\ x < IndexWrap
    BY <2>1
  <2> QED BY <2>2, <1>2, Zenon
<1>4. Len(got[s]) \in Nat
  BY <1>2
<1>. QED  BY <1>1, <1>2, <1>3, <1>4

\* GetChar's read takes the oldest character of the ring.
LEMMA RxRingGet ==
  ASSUME SocketAssumption, TaskAssumption, TypeOK, RxRings, NEW t \in Tasks, GetRead(t),
         rx_occ[SlotOf[t]] > 0
  PROVE  RxRing(SlotOf[t])' /\ RxChannel!Deliver(SlotOf[t], 1)
<1> DEFINE s == SlotOf[t]
           n == RxBufSize
           o == rx_i_out[s] % RxBufSize
           lo == Len(got[s])
           hi == arrived[s]
           buf == rx_buf[s]
           c == buf[o]
<1>1. s \in Slots /\ RxRing(s)
  BY DEF TaskAssumption, RxRings
<1>2. /\ got' = [got EXCEPT ![s] = Append(got[s], c)]
      /\ rx_i_out' = [rx_i_out EXCEPT ![s] = (rx_i_out[s] + 1) % IndexWrap]
      /\ rx_occ' = [rx_occ EXCEPT ![s] = (rx_occ[s] + IndexWrap - 1) % IndexWrap]
      /\ UNCHANGED <<rx_buf, rx_i_in, arrived>>
  BY DEF GetRead
<1>3. /\ rx_i_out \in [Slots -> 0..(IndexWrap - 1)] /\ rx_occ \in [Slots -> 0..(IndexWrap - 1)]
      /\ got \in [Slots -> Seq(Nat)]
  BY DEF TypeOK, RxType
<1>4. /\ n \in Nat /\ n > 0 /\ IndexWrap \in Nat /\ IndexWrap > 0 /\ IndexWrap % n = 0
      /\ rx_i_out[s] \in Nat /\ lo \in Nat /\ hi \in Nat
      /\ rx_occ[s] \in Nat /\ rx_occ[s] < IndexWrap /\ got[s] \in Seq(Nat)
  BY <1>1, RxTypes
<1>5. rx_occ[s] > 0
  OBVIOUS
<1>6. /\ hi = lo + rx_occ[s] /\ Names(rx_i_in[s], hi, n) /\ Names(rx_i_out[s], lo, n)
      /\ Holds(buf, n, lo, hi)
  BY <1>1 DEF RxRing
<1>7. c = lo + 1
  <2>1. lo + 1 \in (lo + 1)..hi
    BY <1>4, <1>5, <1>6
  <2>2. buf[((lo + 1) - 1) % n] = lo + 1
    BY <2>1, <1>6 DEF Holds
  <2>3. (lo + 1) - 1 = lo
    BY <1>4
  <2>4. o = lo % n
    BY <1>6 DEF Names
  <2> QED BY <2>2, <2>3, <2>4
<1>8. (rx_occ[s] + IndexWrap - 1) % IndexWrap = rx_occ[s] - 1
  BY <1>4, <1>5, LessOne
<1> HIDE DEF s, n, o, hi, buf, c
<1>9. /\ got'[s] = Append(got[s], lo + 1) /\ rx_occ'[s] = rx_occ[s] - 1
      /\ rx_i_out'[s] = (rx_i_out[s] + 1) % IndexWrap
  BY <1>1, <1>2, <1>3, <1>7, <1>8
<1>10. Len(got'[s]) = lo + 1
  BY <1>4, <1>9
<1> HIDE DEF lo
<1>11. Names(rx_i_out'[s], Len(got'[s]), n)
  BY <1>4, <1>6, <1>9, <1>10, IndexMoves
<1>12. Holds(buf, n, lo + 1, hi)
  BY <1>4, <1>6 DEF Holds
<1>13. hi = (lo + 1) + (rx_occ[s] - 1)
  BY <1>4, <1>5, <1>6
<1>14. RxRing(s)'
  <2>1. arrived'[s] = hi /\ rx_buf'[s] = buf /\ rx_i_in'[s] = rx_i_in[s]
    BY <1>2 DEF hi, buf
  <2> QED BY <2>1, <1>6, <1>9, <1>10, <1>11, <1>12, <1>13 DEF RxRing, n
<1>15. RxChannel!Deliver(s, 1)
  <2>1. 1 <= arrived[s] - Len(got[s])
    BY <1>4, <1>5, <1>6 DEF hi, lo
  <2>2. Append(got[s], lo + 1) = got[s] \o Stream(lo, 1)
    BY <1>4, AppendNext
  <2>3. got' = [got EXCEPT ![s] = got[s] \o [i \in 1..1 |-> Len(got[s]) + i]]
    BY <1>2, <1>7, <2>2 DEF lo, Stream
  <2> QED BY <2>1, <2>3, <1>2 DEF RxChannel!Deliver, RxChannel!Held
<1>. QED  BY <1>14, <1>15 DEF s

\* sl_Recv stores what arrives after what is in the ring.
LEMMA RxRingReceive ==
  ASSUME SocketAssumption, TypeOK, RxRings, RxStaysInBounds, SrvRecv
  PROVE  RxRing(cur)' /\ \E m \in 1..RxBufSize : RxChannel!Accept(cur, m)
<1> DEFINE n == RxBufSize
           i == rx_i_in[cur]
           in == RxIn(cur)
           lo == Len(got[cur])
           hi == arrived[cur]
           buf == rx_buf[cur]
<1>1. cur \in Slots /\ RxRing(cur)
  BY DEF TypeOK, ControlType, RxRings
<1>2. PICK m \in 1..MinOf(RxRoom(cur), inflight[cur]) :
        /\ rx_buf' = [rx_buf EXCEPT ![cur] =
             [k \in 0..(n - 1) |-> IF k >= in /\ k < in + m THEN hi + 1 + (k - in) ELSE buf[k]]]
        /\ rx_i_in' = [rx_i_in EXCEPT ![cur] = (rx_i_in[cur] + m) % IndexWrap]
        /\ rx_occ' = [rx_occ EXCEPT ![cur] = (rx_occ[cur] + m) % IndexWrap]
        /\ arrived' = [arrived EXCEPT ![cur] = arrived[cur] + m]
  BY DEF SrvRecv
<1>3. UNCHANGED <<rx_i_out, got, cur>>
  BY DEF SrvRecv, SrvMove
<1>4. /\ rx_i_in \in [Slots -> 0..(IndexWrap - 1)] /\ rx_occ \in [Slots -> 0..(IndexWrap - 1)]
      /\ arrived \in [Slots -> Nat] /\ rx_buf \in [Slots -> [0..(RxBufSize - 1) -> Nat]]
  BY DEF TypeOK, RxType
<1>5. /\ n \in Nat /\ n > 0 /\ IndexWrap \in Nat /\ IndexWrap > 0 /\ IndexWrap % n = 0
      /\ i \in Nat /\ lo \in Nat /\ hi \in Nat /\ buf \in [0..(n - 1) -> Nat]
      /\ rx_occ[cur] \in Nat
  BY <1>1, RxTypes
<1>6. /\ m \in Nat /\ m > 0 /\ rx_occ[cur] + m <= n
      /\ (rx_occ[cur] + m) % IndexWrap = rx_occ[cur] + m
  BY RecvFits
<1>7. in + m <= n /\ in = i % n
  <2>1. in \in 0..(n - 1) /\ RxRoom(cur) \in 0..(n - in) /\ inflight[cur] \in Nat
    BY <1>1, RoomLemma DEF TypeOK, PeerType
  <2>2. m <= RxRoom(cur)
    BY <2>1, <1>5 DEF MinOf
  <2> QED BY <2>1, <2>2, <1>5, <1>6 DEF RxIn
<1>8. /\ hi = lo + rx_occ[cur] /\ Names(i, hi, n) /\ Names(rx_i_out[cur], lo, n)
      /\ Holds(buf, n, lo, hi)
  BY <1>1 DEF RxRing
<1> DEFINE new == [k \in 0..(n - 1) |-> IF k >= in /\ k < in + m
                                          THEN hi + 1 + (k - in) ELSE buf[k]]
<1>9. /\ rx_buf'[cur] = new /\ rx_i_in'[cur] = (i + m) % IndexWrap
      /\ rx_occ'[cur] = rx_occ[cur] + m /\ arrived'[cur] = hi + m
  BY <1>1, <1>2, <1>4, <1>6
<1> HIDE DEF n, i, in, lo, hi, buf
<1>10. Holds(new, n, lo, hi + m)
  <2>1. in = hi % n
    BY <1>7, <1>8 DEF Names
  <2>2. lo <= hi /\ hi + m <= lo + n
    <3>1. hi = lo + rx_occ[cur] /\ lo \in Nat /\ n \in Nat
      BY <1>5, <1>8
    <3>2. rx_occ[cur] \in Nat /\ m \in Nat /\ rx_occ[cur] + m <= n
      BY <1>5, <1>6
    <3> QED BY <3>1, <3>2
  <2>3. (hi % n) + m <= n
    BY <2>1, <1>7
  <2>4. Holds(Stored(buf, n, hi, m), n, lo, hi + m)
    <3>1. /\ n \in Nat /\ n > 0 /\ lo \in Nat /\ hi \in Nat /\ m \in Nat
          /\ buf \in [0..(n - 1) -> Nat] /\ Holds(buf, n, lo, hi)
      BY <1>5, <1>6, <1>8
    <3> QED BY <3>1, <2>2, <2>3, RingStore
  <2>5. new = Stored(buf, n, hi, m)
    BY <2>1, Zenon DEF new, Stored
  <2> QED BY <2>4, <2>5
<1> HIDE DEF new
<1>11. Names(rx_i_in'[cur], arrived'[cur], n)
  BY <1>5, <1>6, <1>8, <1>9, IndexMoves
<1>12. hi + m = lo + (rx_occ[cur] + m)
  BY <1>5, <1>6, <1>8
<1>13. RxRing(cur)'
  <2>1. arrived'[cur'] = Len(got'[cur']) + rx_occ'[cur']
    BY <1>3, <1>9, <1>12 DEF lo
  <2>2. Names(rx_i_in'[cur'], arrived'[cur'], RxBufSize)
    BY <1>3, <1>11 DEF n
  <2>3. Names(rx_i_out'[cur'], Len(got'[cur']), RxBufSize)
    BY <1>3, <1>8 DEF n, lo
  <2>4. Holds(rx_buf'[cur'], RxBufSize, Len(got'[cur']), arrived'[cur'])
    BY <1>3, <1>9, <1>10 DEF n, lo
  <2> QED BY <2>1, <2>2, <2>3, <2>4 DEF RxRing
<1>14. m \in 1..RxBufSize
  BY <1>5, <1>6 DEF n
<1>15. RxChannel!Accept(cur, m)
  <2>0. hi - lo + m <= n
    BY <1>5, <1>6, <1>8
  <2>1. arrived[cur] - Len(got[cur]) + m <= RxBufSize
    BY <2>0 DEF hi, lo, n
  <2> QED BY <2>1, <1>2, <1>3 DEF RxChannel!Accept, RxChannel!Held
<1>. QED  BY <1>13, <1>14, <1>15

LEMMA RxRingFrame ==
  ASSUME NEW s, RxRing(s), arrived'[s] = arrived[s], got'[s] = got[s],
         rx_occ'[s] = rx_occ[s], rx_i_in'[s] = rx_i_in[s], rx_i_out'[s] = rx_i_out[s],
         rx_buf'[s] = rx_buf[s]
  PROVE  RxRing(s)'
  BY DEF RxRing

\* Only two steps work on the receive rings.
RxQuiet == UNCHANGED <<arrived, got, rx_occ, rx_i_in, rx_i_out, rx_buf>>

LEMMA RxSteps ==
  ASSUME Next
  PROVE  (\E t \in Tasks : GetRead(t)) \/ SrvRecv \/ RxQuiet
<1>1. ASSUME NEW t \in Tasks, TaskStep(t) PROVE GetRead(t) \/ RxQuiet
  BY <1>1 DEF TaskStep, PutStep, GetStep, PutCall, PutTake, PutLock, PutWrite, PutCheck, PutGive,
              GetCall, GetTake, GetLock, GetCheck, GetGive, rxVars, RxQuiet
<1>2. ASSUME SrvStep PROVE SrvRecv \/ RxQuiet
  BY <1>2 DEF SrvStep, SrvStart, SrvStartFail, SrvTick, SrvAcceptCall, SrvAcceptAgain,
              SrvAccepted, SrvAcceptFail, SrvConnected, SrvSockOptFail, SrvLock, SrvSend,
              SrvTxPoll, SrvTxGive, SrvRecvAgain, SrvRecvNothing, SrvRecvClosed, SrvClosed,
              SrvRxPoll, SrvRxGive, SrvUnlock, SrvError, SrvDie, rxVars, RxQuiet
<1>3. ASSUME NEW s \in Slots, PeerStep(s) PROVE RxQuiet
  BY <1>3 DEF PeerStep, PeerConnect, PeerSend, PeerClose, rxVars, RxQuiet
<1>. QED  BY <1>1, <1>2, <1>3 DEF Next

LEMMA RxChannelNext ==
  ASSUME SocketAssumption, TaskAssumption, TypeOK, RxInv, RxRings, Next
  PROVE  RxRings' /\ (RxChannel!Next \/ UNCHANGED <<arrived, got>>)
<1>1. /\ SlotOf \in [Tasks -> Slots] /\ cur \in Slots
      /\ rx_buf \in [Slots -> [0..(RxBufSize - 1) -> Nat]]
      /\ rx_i_in \in [Slots -> 0..(IndexWrap - 1)] /\ rx_i_out \in [Slots -> 0..(IndexWrap - 1)]
      /\ rx_occ \in [Slots -> 0..(IndexWrap - 1)] /\ arrived \in [Slots -> Nat]
      /\ got \in [Slots -> Seq(Nat)]
  BY DEF TaskAssumption, TypeOK, ControlType, RxType
<1>2. CASE \E t \in Tasks : GetRead(t)
  <2>1. PICK t \in Tasks : GetRead(t)
    BY <1>2
  <2>2. rx_occ[SlotOf[t]] > 0
    <3>1. pc[t] = "g_locked"
      BY <2>1 DEF GetRead, Move
    <3>2. ReaderInv(t)
      BY <3>1 DEF RxInv, GetPCs
    <3>3. rx_occ[SlotOf[t]] \in Nat
      BY <1>1, RxTypes
    <3> QED BY <3>1, <3>2, <3>3 DEF ReaderInv, Claims, GetWindow
  <2>3. RxRing(SlotOf[t])' /\ RxChannel!Deliver(SlotOf[t], 1)
    BY <2>1, <2>2, RxRingGet
  <2>4. ASSUME NEW s \in Slots, s # SlotOf[t] PROVE RxRing(s)'
    <3>1. /\ arrived'[s] = arrived[s] /\ got'[s] = got[s] /\ rx_occ'[s] = rx_occ[s]
          /\ rx_i_in'[s] = rx_i_in[s] /\ rx_i_out'[s] = rx_i_out[s] /\ rx_buf'[s] = rx_buf[s]
      BY <2>1, <2>4, <1>1 DEF GetRead
    <3> QED BY <3>1, RxRingFrame DEF RxRings
  <2>5. 1 \in 1..RxBufSize /\ SlotOf[t] \in Slots
    BY <1>1 DEF SocketAssumption
  <2>6. RxRings'
    BY <2>3, <2>4 DEF RxRings
  <2> QED BY <2>3, <2>5, <2>6 DEF RxChannel!Next
<1>3. CASE SrvRecv
  <2>1. RxRing(cur)' /\ \E m \in 1..RxBufSize : RxChannel!Accept(cur, m)
    BY <1>3, RxRingReceive DEF RxInv
  <2>2. cur' = cur
    BY <1>3 DEF SrvRecv, SrvMove
  <2>3. ASSUME NEW s \in Slots, s # cur PROVE RxRing(s)'
    <3>1. /\ arrived'[s] = arrived[s] /\ got'[s] = got[s] /\ rx_occ'[s] = rx_occ[s]
          /\ rx_i_in'[s] = rx_i_in[s] /\ rx_i_out'[s] = rx_i_out[s] /\ rx_buf'[s] = rx_buf[s]
      BY <1>3, <2>3, <1>1 DEF SrvRecv
    <3> QED BY <3>1, RxRingFrame DEF RxRings
  <2>4. RxRings'
    BY <2>1, <2>2, <2>3 DEF RxRings
  <2> QED BY <2>1, <2>4, <1>1 DEF RxChannel!Next
<1>4. CASE RxQuiet
  BY <1>4, RxRingFrame DEF RxRings, RxQuiet
<1>. QED  BY <1>2, <1>3, <1>4, RxSteps

\* The same of the receive direction, while a slot has one reader: GetChar returns
\* what the clients sent, in order, each character once.
THEOREM RxImplements == ASSUME SingleGetter PROVE Spec => RxIsAChannel
<1> USE SocketAssumption, TaskAssumption, SingleGetter
<1>1. Init => RxRings /\ RxChannel!Init
  <2> SUFFICES ASSUME Init PROVE RxRings /\ RxChannel!Init
    OBVIOUS
  <2>1. /\ arrived = [s \in Slots |-> 0] /\ got = [s \in Slots |-> <<>>]
        /\ \A s \in Slots : rx_occ[s] = 0 /\ rx_i_in[s] = 0 /\ rx_i_out[s] = 0
    BY DEF Init
  <2>2. RxRings
    BY <2>1 DEF RxRings, RxRing, Names, Holds
  <2> QED BY <2>1, <2>2 DEF RxChannel!Init
<1>2. TypeOK /\ RxInv /\ RxRings /\ [Next]_vars
        => RxRings' /\ [RxChannel!Next]_<<arrived, got>>
  <2> SUFFICES ASSUME TypeOK, RxInv, RxRings, [Next]_vars
               PROVE  RxRings' /\ [RxChannel!Next]_<<arrived, got>>
    OBVIOUS
  <2>1. CASE Next
    BY <2>1, RxChannelNext
  <2>2. CASE UNCHANGED vars
    <3>1. RxQuiet
      BY <2>2 DEF vars, rxVars, RxQuiet
    <3> QED BY <3>1, RxRingFrame DEF RxRings, RxQuiet
  <2> QED BY <2>1, <2>2
<1>. QED  BY <1>1, <1>2, TypeCorrect, RxInvariant, PTL DEF Spec, RxIsAChannel, RxChannel!Spec
=============================================================================
