----------------------------- MODULE FlashProofs -----------------------------
(***************************************************************************)
(* For any files, chunks and number of requests, with failing operations   *)
(* and accesses over JTAG, and a user who asks for nothing out of flash    *)
(* mode: the handshake over the shared region keeps each request and its   *)
(* answer together until an exchange is given up, so that the two programs *)
(* implement the service that GDB is promised.                             *)
(***************************************************************************)
EXTENDS FlashProtocol, TLAPS

-----------------------------------------------------------------------------
(* The inductive invariant.                                                *)

Loading == {"load", "start", "await", "started"}
Writing == {"command", "args", "data", "go"}
Serving == {"taken", "wait", "switch", "call", "done"}

\* Requests are numbered, and none is answered before it was made.
Numbered ==
  /\ req.id \in Nat /\ args.id \in Nat /\ response.to \in Nat
  /\ args.id <= req.id /\ response.to <= req.id

\* Before flash mode nothing has been asked: no stub finds a command.
Unasked ==
  ~flash_mode =>
    /\ at \in Loading \cup {"idle"} /\ ~abandoned
    /\ opened = [f \in Files |-> "no"]
    /\ stub \in {"none", "zero", "init", "failed", "taken", "wait"}
    /\ at = "start" /\ ~running => response_sync = "UNINIT"
    /\ stub \in {"init", "taken", "wait"} => command_sync = "UNINIT"
    /\ at = "await" => \/ stub \in {"zero", "init", "failed"} /\ response_sync = "UNINIT"
                       \/ stub = "taken" /\ response_sync = "READY"
    /\ at \in {"await", "started"} => running
    /\ at = "started" => stub = "taken" /\ response_sync = "READY"

\* In flash mode the stub serves, until a reset makes an end of it.
Serves == flash_mode => at \notin Loading /\ (~abandoned => stub \in Serving)

\* Nothing is under way: the stub has nothing to answer and nothing to do.
Resting == stub \in {"taken", "wait"} /\ response_sync = "WAIT" /\ command_sync # "READY"
\* The three stages of a request that the debugger polls for.
Asked ==
  /\ stub \in {"taken", "wait"} /\ response_sync = "WAIT" /\ command_sync = "READY"
  /\ response.to < req.id
Working ==
  /\ stub \in {"switch", "call", "done"} /\ response_sync = "WAIT" /\ command_sync = "WAIT"
  /\ stub = "call" => type = req.type
  /\ IF stub = "done" THEN response.to = req.id ELSE response.to < req.id
Answered ==
  /\ stub = "taken" /\ response_sync = "READY" /\ command_sync = "WAIT"
  /\ response.to = req.id

\* What is in the shared region, exchange by exchange.
InStep ==
  flash_mode /\ ~abandoned =>
    /\ at \in Writing \cup {"idle", "deleted", "loaded", "reply"} => Resting
    /\ at \in {"args", "data", "go", "poll", "take"} => command = req
    /\ at \in {"data", "go", "poll", "take"} => args = req
    /\ at \in {"go", "poll", "take"} /\ req.type \in WithData => data = req
    /\ at \in Writing => response.to < req.id
    /\ at = "poll" => Asked \/ Working \/ Answered
    /\ at = "take" => Answered
    /\ at = "reply" => response.to = req.id

Places ==
  at \in Loading \cup Writing \cup {"idle", "poll", "take", "reply", "deleted", "loaded"}

IInv == Numbered /\ Places /\ Unasked /\ Serves /\ InStep

LEMMA InitLemma ==
  ASSUME Init
  PROVE  IInv
  BY DEF Init, IInv, Numbered, Places, Unasked, Serves, InStep, Loading, Writing, NoRequest, Request

-----------------------------------------------------------------------------
(* A call starts with the stub at rest, and with a number never used.      *)

LEMMA BeginLemma ==
  ASSUME IInv, flash_mode, at \in {"idle", "deleted", "loaded"}, NEW c, NEW ty, NEW f, NEW ch,
         Begin(c, ty, f, ch), UNCHANGED <<flash_mode, memVars, syncVars, stubVars, abandoned>>
  PROVE  IInv'
<1>1. req'.id = req.id + 1 /\ at' = "command"
  BY DEF Begin, Request
<1>2. Numbered' /\ (response.to < req.id)'
  BY <1>1 DEF IInv, Numbered, memVars
<1>3. Places' /\ Unasked' /\ Serves'
  BY <1>1 DEF IInv, Places, Unasked, Serves, Loading, Writing, stubVars
<1>4. InStep'
  <2>1. Resting' = Resting
    BY DEF Resting, syncVars, stubVars
  <2>. QED BY <1>1, <1>2, <2>1 DEF IInv, InStep, Writing
<1>. QED BY <1>2, <1>3, <1>4 DEF IInv

LEMMA CallsLemma ==
  ASSUME IInv, ~CrcAnytime, Calls \/ CallOpenCreated \/ CallDeleteLoaded
  PROVE  IInv'
<1>1. CASE CallOpen
  BY <1>1, BeginLemma DEF CallOpen, May, gdbVars
<1>2. CASE CallClose
  BY <1>2, BeginLemma DEF CallClose, May, gdbVars
<1>3. CASE CallRead
  BY <1>3, BeginLemma DEF CallRead, May, gdbVars
<1>4. CASE CallWrite
  BY <1>4, BeginLemma DEF CallWrite, May, gdbVars
<1>5. CASE CallCheckCrc
  BY <1>5, BeginLemma DEF CallCheckCrc, May, gdbVars
<1>6. CASE CallDelete
  BY <1>6, BeginLemma DEF CallDelete, May, gdbVars
<1>7. CASE CallOpenCreated
  <2>1. flash_mode
    BY <1>7 DEF CallOpenCreated, IInv, Unasked, Loading
  <2>. QED BY <1>7, <2>1, BeginLemma DEF CallOpenCreated, gdbVars
<1>8. CASE CallDeleteLoaded
  <2>1. flash_mode
    BY <1>8 DEF CallDeleteLoaded, IInv, Unasked, Loading
  <2>. QED BY <1>8, <2>1, BeginLemma DEF CallDeleteLoaded, gdbVars
<1>. QED BY <1>1, <1>2, <1>3, <1>4, <1>5, <1>6, <1>7, <1>8 DEF Calls

-----------------------------------------------------------------------------
(* Loading the stub.                                                       *)

LEMMA LoadLemma ==
  ASSUME IInv, Load
  PROVE  IInv'
<1>. USE DEF IInv, Numbered, Places, Unasked, Serves, InStep, Loading, Writing, Serving,
         hostVars, memVars, syncVars, stubVars, fsVars, gdbVars, Resting, Asked, Working, Answered
<1>1. CASE LoadBegin
  BY <1>1 DEF LoadBegin, Request
<1>2. CASE LoadUninit
  BY <1>2 DEF LoadUninit
<1>3. CASE LoadStart
  BY <1>3 DEF LoadStart
<1>4. CASE LoadAwait
  BY <1>4 DEF LoadAwait
<1>5. CASE LoadDone
  BY <1>5 DEF LoadDone
<1>6. CASE LoadFail
  BY <1>6 DEF LoadFail, LoadFailed
<1>7. CASE LoadRefused
  BY <1>7 DEF LoadRefused, LoadFailed
<1>. QED BY <1>1, <1>2, <1>3, <1>4, <1>5, <1>6, <1>7 DEF Load

-----------------------------------------------------------------------------
(* Halting, continuing and resetting the target.                           *)

LEMMA TargetLemma ==
  ASSUME IInv, Target
  PROVE  IInv'
<1>. USE DEF IInv, Numbered, Places, Unasked, Serves, InStep, Loading, Writing, Serving,
         hostVars, memVars, syncVars, fsVars, gdbVars, Resting, Asked, Working, Answered
<1>1. CASE TargetHalt
  BY <1>1 DEF TargetHalt
<1>2. CASE TargetContinue
  BY <1>2 DEF TargetContinue
<1>3. CASE TargetReset
  BY <1>3 DEF TargetReset
<1>. QED BY <1>1, <1>2, <1>3 DEF Target

-----------------------------------------------------------------------------
(* The debugger's side of an exchange.                                     *)

LEMMA ExchangeLemma ==
  ASSUME IInv, WriteCommand \/ WriteArgs \/ WriteData \/ Go \/ Poll \/ Take \/ Reply \/ Fail
  PROVE  IInv'
<1>. USE DEF IInv, Numbered, Places, Unasked, Serves, InStep, Loading, Writing, Serving,
         memVars, syncVars, stubVars, fsVars, gdbVars, Resting, Asked, Working, Answered
<1>1. CASE WriteCommand
  BY <1>1 DEF WriteCommand
<1>2. CASE WriteArgs
  BY <1>2 DEF WriteArgs
<1>3. CASE WriteData
  BY <1>3 DEF WriteData
<1>4. CASE Go
  BY <1>4 DEF Go
<1>5. CASE Poll
  BY <1>5 DEF Poll
<1>6. CASE Take
  BY <1>6 DEF Take
<1>7. CASE Reply
  BY <1>7 DEF Reply
<1>8. CASE Fail
  BY <1>8 DEF Fail
<1>. QED BY <1>1, <1>2, <1>3, <1>4, <1>5, <1>6, <1>7, <1>8

-----------------------------------------------------------------------------
(* The stub.                                                               *)

LEMMA StubLemma ==
  ASSUME IInv, StubStep
  PROVE  IInv'
<1>. USE DEF IInv, Numbered, Places, Unasked, Serves, InStep, Loading, Writing, Serving,
         hostVars, memVars, syncVars, stubVars, fsVars, gdbVars, Resting, Asked, Working, Answered,
         StubMove
<1>1. CASE StubZero
  BY <1>1 DEF StubZero
<1>2. CASE StubReady
  BY <1>2 DEF StubReady
<1>3. CASE StubTaken
  BY <1>3 DEF StubTaken
<1>4. CASE StubGo
  BY <1>4 DEF StubGo
<1>5. CASE StubSwitch
  BY <1>5 DEF StubSwitch
<1>6. CASE StubCall
  <2>1. response'.to = args.id
    BY <1>6 DEF StubCall
  <2>. QED BY <1>6, <2>1 DEF StubCall
<1>7. CASE StubDone
  BY <1>7 DEF StubDone
<1>8. CASE StubFail
  BY <1>8 DEF StubFail
<1>. QED BY <1>1, <1>2, <1>3, <1>4, <1>5, <1>6, <1>7, <1>8 DEF StubStep

LEMMA StepLemma ==
  ASSUME IInv, ~CrcAnytime, [Next]_vars
  PROVE  IInv'
<1>1. CASE Next
  BY <1>1, CallsLemma, LoadLemma, TargetLemma, ExchangeLemma, StubLemma DEF Next, Exchange
<1>2. CASE UNCHANGED vars
  BY <1>2 DEF vars, hostVars, memVars, syncVars, stubVars, fsVars, gdbVars, IInv, Numbered, Places,
              Unasked, Serves, InStep, Resting, Asked, Working, Answered
<1>. QED BY <1>1, <1>2

THEOREM Invariance ==
  ASSUME ~CrcAnytime
  PROVE  Spec => []IInv
<1>1. Init => IInv
  BY InitLemma
<1>2. IInv /\ [Next]_vars => IInv'
  BY StepLemma
<1>. QED BY <1>1, <1>2, PTL DEF Spec

\* What the stub works on is the one request the debugger waits for
\* (cc3200_flashfs.c:168, main.c:60-133), until an exchange is given up.
THEOREM NeverTorn ==
  ASSUME ~CrcAnytime
  PROVE  Spec => []NoTornCommand
<1>1. IInv => NoTornCommand
  BY DEF IInv, NoTornCommand, InStep, Places, Unasked, Resting, Asked, Working, Answered, Writing,
         Serves, Loading
<1>. QED BY <1>1, Invariance, PTL

\* The answer it takes is the answer to that request (cc3200_flashfs.c:394).
THEOREM ResponseIsItsOwn ==
  ASSUME ~CrcAnytime
  PROVE  Spec => []ResponseIsOwn
<1>1. IInv => ResponseIsOwn
  BY DEF IInv, ResponseIsOwn, InStep, Answered, Unasked, Loading
<1>. QED BY <1>1, Invariance, PTL

\* Flash mode is entered only with the stub of this load initialised, running and
\* without a command (cc3200_flashfs.c:116-136); a Ctrl-C or a reset later on may
\* leave flash mode without a stub that runs.
THEOREM ReadyOnEntry ==
  ASSUME ~CrcAnytime
  PROVE  Spec => EntersFlashModeReady
<1>1. ASSUME IInv, Next, ~flash_mode, flash_mode'
      PROVE  running /\ stub = "taken" /\ command_sync = "UNINIT"
  <2>1. LoadDone
    BY <1>1 DEF Next, Calls, Load, Target, Exchange, Fail, StubStep, CallOpen, CallClose, CallRead,
       CallWrite, CallCheckCrc, CallDelete, LoadBegin, LoadUninit, LoadStart, LoadAwait,
       LoadRefused, LoadFail, LoadFailed, TargetHalt, TargetContinue, TargetReset, CallOpenCreated,
       CallDeleteLoaded, WriteCommand, WriteArgs, WriteData, Go, Poll, Take, Reply, StubZero,
       StubReady, StubFail, StubTaken, StubGo, StubSwitch, StubCall, StubDone
  <2>. QED  BY <1>1, <2>1 DEF LoadDone, IInv, Unasked
<1>2. IInv /\ [Next]_vars =>
        [~flash_mode /\ flash_mode' => running /\ stub = "taken" /\ command_sync = "UNINIT"]_vars
  BY <1>1
<1>. QED BY <1>2, Invariance, PTL DEF Spec, EntersFlashModeReady

-----------------------------------------------------------------------------
(* The refinement: calling, the stub's filesystem call and returning are    *)
(* the service's steps, and every other step changes nothing it shows.      *)

\* Only a write looks at the chunk.
LEMMA ChunkLemma ==
  ASSUME NEW ty, NEW f, NEW c, NEW d, NEW fs, NEW op, ty = "WRITE" => c = d
  PROVE  Outcomes(ty, f, c, fs, op) = Outcomes(ty, f, d, fs, op)
<1>1. CASE c = d
  BY <1>1
<1>2. CASE ty # "WRITE"
  <2>1. Possible(ty, f, c, fs, op) = Possible(ty, f, d, fs, op)
    BY <1>2, Zenon DEF Possible
  <2>. QED BY <2>1 DEF Outcomes
<1>. QED BY <1>1, <1>2

\* An operation answers with a handle or content only if it succeeds, and only
\* those with an answer in the shared region.
LEMMA OutcomeLemma ==
  ASSUME NEW ty, NEW f, NEW c, NEW fs, NEW op, NEW o \in Outcomes(ty, f, c, fs, op),
         ~(o.ok /\ ty \in WithOut)
  PROVE  o.handle = NoHandle /\ o.content = <<>>
<1>1. CASE o \in Refused(fs, op)
  BY <1>1 DEF Refused
<1>2. CASE o \in Possible(ty, f, c, fs, op)
  BY <1>2 DEF Possible, Done, Refused, WithOut
<1>. QED BY <1>1, <1>2 DEF Outcomes

\* What the stub executes is what was asked.
LEMMA MeantLemma ==
  ASSUME InStep, flash_mode, ~abandoned, at = "poll", stub = "call"
  PROVE  /\ Meant = req.type /\ StubFile = req.file
         /\ req.type = "WRITE" => data.chunk = req.chunk
         /\ args.id = req.id /\ response.to < req.id
<1>1. type = req.type /\ args = req /\ (req.type \in WithData => data = req)
      /\ response.to < req.id
  BY DEF InStep, Working, Asked, Answered
<1>2. Layout(req.type) # "handle" => req.type \in WithData
  BY DEF Layout, WithData
<1>3. Meant = req.type
  BY <1>1 DEF Meant
<1>4. StubFile = req.file
  BY <1>1, <1>2 DEF StubFile
<1>. QED BY <1>1, <1>3, <1>4 DEF WithData

LEMMA ServiceCall ==
  ASSUME IInv, ~CrcAnytime, Calls \/ CallOpenCreated \/ CallDeleteLoaded
  PROVE  Service!Call
<1>1. ASSUME NEW c, NEW ty, NEW f, NEW ch, Begin(c, ty, f, ch),
             at \in {"idle", "deleted", "loaded"},
             UNCHANGED <<memVars, fsVars>>
      PROVE  Service!Call
  <2>1. req'.id = req.id + 1 /\ at' = "command" /\ response' = response
    BY <1>1 DEF Begin, Request, memVars
  <2>2. response'.to # req'.id
    BY <2>1 DEF IInv, Numbered
  <2>. QED BY <1>1, <2>1, <2>2 DEF Service!Call, InExchange, fsVars
<1>2. CASE CallOpen
  BY <1>1, <1>2 DEF CallOpen, May
<1>3. CASE CallClose
  BY <1>1, <1>3 DEF CallClose, May
<1>4. CASE CallRead
  BY <1>1, <1>4 DEF CallRead, May
<1>5. CASE CallWrite
  BY <1>1, <1>5 DEF CallWrite, May
<1>6. CASE CallCheckCrc
  BY <1>1, <1>6 DEF CallCheckCrc, May
<1>7. CASE CallDelete
  BY <1>1, <1>7 DEF CallDelete, May
<1>8. CASE CallOpenCreated
  BY <1>1, <1>8 DEF CallOpenCreated
<1>9. CASE CallDeleteLoaded
  BY <1>1, <1>9 DEF CallDeleteLoaded
<1>. QED BY <1>2, <1>3, <1>4, <1>5, <1>6, <1>7, <1>8, <1>9 DEF Calls

\* The stub's call executes the request, on the file and with the data it names.
LEMMA ServiceExecute ==
  ASSUME IInv, ~abandoned, StubCall
  PROVE  Service!Execute
<1>1. flash_mode /\ at = "poll" /\ stub = "call"
  BY DEF StubCall, StubMove, IInv, Unasked, InStep, Serves, Places, Resting, Answered, Loading,
         Writing
<1>2. /\ Meant = req.type /\ StubFile = req.file /\ (req.type = "WRITE" => data.chunk = req.chunk)
      /\ args.id = req.id /\ response.to < req.id
  BY <1>1, MeantLemma DEF IInv
<1>3. PICK o \in Outcomes(Meant, StubFile, data.chunk, files, opened) :
        /\ files' = o.files /\ opened' = o.opened
        /\ response' = [to |-> args.id, ok |-> o.ok]
        /\ out' = IF Meant \in WithOut /\ o.ok THEN [handle |-> o.handle, content |-> o.content]
                                               ELSE out
  BY DEF StubCall
<1>4. o \in Outcomes(req.type, req.file, req.chunk, files, opened)
  BY <1>2, <1>3, ChunkLemma
<1>5. at' = at /\ req' = req
  BY DEF StubCall, hostVars
<1>6. response'.to = req.id /\ response'.ok = o.ok /\ response.to # req.id
  BY <1>2, <1>3 DEF IInv, Numbered
<1>7. Answer' = [ok |-> o.ok, handle |-> o.handle, content |-> o.content]
  <2>1. CASE o.ok /\ req.type \in WithOut
    BY <1>2, <1>3, <1>5, <1>6, <2>1 DEF Answer
  <2>2. CASE ~(o.ok /\ req.type \in WithOut)
    <3>1. o.handle = NoHandle /\ o.content = <<>>
      BY <1>4, <2>2, OutcomeLemma
    <3>. QED BY <1>5, <1>6, <2>2, <3>1 DEF Answer
  <2>. QED BY <2>1, <2>2
<1>8. o \in Service!Outcomes(req.type, req.file, req.chunk, files, opened)
  BY <1>4 DEF Outcomes, Possible, Refused, Done, Is, Service!Outcomes, Service!Possible,
              Service!Refused, Service!Done, Service!Is
<1>. QED BY <1>1, <1>3, <1>5, <1>6, <1>7, <1>8 DEF Service!Execute, InExchange

\* Taking the answer returns the request.
LEMMA ServiceReturn ==
  ASSUME IInv, ~abandoned, Reply
  PROVE  Service!Return
<1>1. flash_mode /\ response.to = req.id
  BY DEF Reply, IInv, Unasked, InStep, Loading
<1>2. at = "reply" /\ at' \in {"idle", "deleted"} /\ UNCHANGED fsVars
  BY DEF Reply
<1>. QED BY <1>1, <1>2 DEF Service!Return, InExchange, fsVars

\* Everything else leaves the request, its answer and the files as they are.
LEMMA ServiceStutter ==
  ASSUME IInv, ~abandoned,
         Load \/ (Target /\ ~abandoned')
         \/ WriteCommand \/ WriteArgs \/ WriteData \/ Go \/ Poll \/ Take
         \/ StubZero \/ StubReady \/ StubFail \/ StubTaken \/ StubGo \/ StubSwitch \/ StubDone
  PROVE  UNCHANGED Service!vars
<1>1. ASSUME UNCHANGED <<req, response, out, fsVars, InExchange>>
      PROVE  UNCHANGED Service!vars
  BY <1>1 DEF Service!vars, fsVars, Answer
<1>2. ASSUME ~InExchange, ~InExchange', UNCHANGED fsVars
      PROVE  UNCHANGED Service!vars
  BY <1>2 DEF Service!vars, fsVars
<1>3. CASE Load
  BY <1>2, <1>3 DEF Load, LoadBegin, LoadUninit, LoadStart, LoadAwait, LoadDone, LoadRefused,
                    LoadFail, LoadFailed, InExchange, hostVars
<1>4. CASE WriteArgs
  <2>1. flash_mode
    BY <1>4 DEF WriteArgs, IInv, Unasked, Loading
  <2>2. response.to # req.id
    BY <1>4, <2>1 DEF WriteArgs, IInv, InStep, Writing, Numbered
  <2>. QED BY <1>4, <2>2 DEF WriteArgs, Service!vars, fsVars, InExchange
<1>5. CASE StubZero
  <2>1. ~flash_mode
    BY <1>5 DEF StubZero, StubMove, IInv, Serves, Serving
  <2>. QED BY <1>2, <1>5, <2>1 DEF StubZero, IInv, Unasked, Loading, InExchange, hostVars
<1>6. CASE WriteCommand \/ WriteData \/ Go \/ Poll \/ Take
  BY <1>1, <1>6 DEF WriteCommand, WriteData, Go, Poll, Take, InExchange, memVars
<1>7. CASE StubReady \/ StubFail \/ StubTaken \/ StubGo \/ StubSwitch \/ StubDone
  BY <1>1, <1>7 DEF StubReady, StubFail, StubTaken, StubGo, StubSwitch, StubDone, InExchange, memVars,
                    hostVars
<1>8. CASE Target /\ ~abandoned'
  <2>1. at = "idle" /\ at' = "idle" /\ UNCHANGED fsVars
    BY <1>8 DEF Target, TargetHalt, TargetContinue, TargetReset, hostVars, fsVars, IInv, Unasked
  <2>. QED BY <1>2, <2>1 DEF InExchange
<1>. QED BY <1>3, <1>4, <1>5, <1>6, <1>7, <1>8

LEMMA ServiceStep ==
  ASSUME IInv, ~CrcAnytime, [Next]_vars
  PROVE  [Service!Next]_(Service!vars)
<1>1. CASE abandoned'
  BY <1>1 DEF Service!Next
<1>2. CASE ~abandoned' /\ UNCHANGED vars
  BY <1>2 DEF vars, hostVars, memVars, fsVars, Service!vars, InExchange, Answer
<1>3. CASE ~abandoned' /\ Next
  <2>1. ~Fail
    BY <1>3 DEF Fail
  <2>2. ~abandoned
    BY <1>3, <2>1 DEF Next, Calls, Load, Target, Exchange, StubStep, CallOpen, CallClose, CallRead,
        CallWrite, CallCheckCrc, CallDelete, LoadBegin, LoadUninit, LoadStart, LoadAwait, LoadDone,
        LoadRefused, LoadFail, LoadFailed, TargetHalt, TargetContinue, TargetReset, CallOpenCreated,
        CallDeleteLoaded, WriteCommand, WriteArgs, WriteData, Go, Poll, Take, Reply,
        StubZero, StubReady, StubFail, StubTaken, StubGo, StubSwitch, StubCall, StubDone, gdbVars
  <2>. QED BY <1>3, <2>1, <2>2, ServiceCall, ServiceExecute, ServiceReturn, ServiceStutter
           DEF Next, Exchange, StubStep, Service!Next
<1>. QED BY <1>1, <1>2, <1>3

\* The debugger and the stub together are the service target_al.h promises: each
\* request is carried out once, on the file and with the data it names, and
\* answered with its own outcome, until an exchange is given up half-way.
THEOREM Implements ==
  ASSUME ~CrcAnytime
  PROVE  Spec => IsAService
<1>1. Init => Service!Init
  <2>1. {Absent, <<>>} \subseteq Service!Contents
    BY DEF Service!Contents
  <2>2. ASSUME Init
        PROVE  at = "idle" /\ files \in [Files -> Service!Contents] /\ opened = [f \in Files |-> "no"]
    <3>1. at = "idle" /\ files \in [Files -> {Absent, <<>>}] /\ opened = [f \in Files |-> "no"]
      BY <2>2 DEF Init
    <3>. QED BY <2>1, <3>1
  <2>. QED BY <2>2 DEF Service!Init, InExchange
<1>2. IInv /\ [Next]_vars => [Service!Next]_(Service!vars)
  BY ServiceStep
<1>. QED BY <1>1, <1>2, Invariance, PTL DEF Spec, IsAService, Service!Spec

-----------------------------------------------------------------------------
(* The types.  A file that is open exists: nothing deletes it.             *)

OpenExists == \A f \in Files : opened[f] # "no" => files[f] \in Seq(Pieces)
TypeInv == TypeOK /\ OpenExists

\* What an operation does, if it does anything.
Effect(o, ty, f, c, fs, op) ==
  \/ /\ o.ok = FALSE /\ o.files = fs /\ o.opened = op
     /\ o.handle = NoHandle /\ o.content = <<>>
  \/ /\ o.ok = TRUE /\ f \in Files
     /\ \/ /\ ty = "OPEN_READ" /\ fs[f] # Absent /\ o.files = fs
           /\ o.opened = [op EXCEPT ![f] = "r"] /\ o.handle = f /\ o.content = <<>>
        \/ /\ ty = "OPEN_CREATE" /\ o.files = [fs EXCEPT ![f] = <<>>]
           /\ o.opened = [op EXCEPT ![f] = "w"] /\ o.handle = f /\ o.content = <<>>
        \/ /\ ty = "CLOSE" /\ o.files = fs /\ o.opened = [op EXCEPT ![f] = "no"]
           /\ o.handle = NoHandle /\ o.content = <<>>
        \/ /\ ty = "READ" /\ op[f] = "r" /\ o.files = fs /\ o.opened = op
           /\ o.handle = NoHandle /\ o.content = fs[f]
        \/ /\ ty = "WRITE" /\ op[f] = "w" /\ o.files = [fs EXCEPT ![f] = Append(@, c)]
           /\ o.opened = op /\ o.handle = NoHandle /\ o.content = <<>>
        \/ /\ ty = "DELETE" /\ op[f] = "no" /\ o.files = [fs EXCEPT ![f] = Absent]
           /\ o.opened = op /\ o.handle = NoHandle /\ o.content = <<>>
        \/ /\ ty = "CRC" /\ fs[f] # Absent /\ o.files = fs /\ o.opened = op
           /\ o.handle = NoHandle /\ o.content = fs[f]

LEMMA Effects ==
  ASSUME NEW ty, NEW f, NEW c, NEW fs, NEW op, NEW o \in Outcomes(ty, f, c, fs, op)
  PROVE  Effect(o, ty, f, c, fs, op)
<1>. USE DEF Effect
<1>1. CASE o \in Refused(fs, op)
  BY <1>1 DEF Refused
<1>2. CASE o \in Possible(ty, f, c, fs, op)
  <2>1. CASE f \in Files
    <3>1. CASE ty = "OPEN_READ"
      <4>1. Possible(ty, f, c, fs, op) =
              IF fs[f] # Absent /\ op[f] = "no" THEN Done(fs, [op EXCEPT ![f] = "r"], f, <<>>)
                ELSE Refused(fs, op)
        BY <2>1, <3>1 DEF Possible, Is
      <4>2. ASSUME o \in Done(fs, [op EXCEPT ![f] = "r"], f, <<>>)
            PROVE  /\ o.ok = TRUE /\ o.files = fs /\ o.opened = [op EXCEPT ![f] = "r"]
                   /\ o.handle = f /\ o.content = <<>>
        BY <4>2 DEF Done
      <4>3. o \in Refused(fs, op) \/ (fs[f] # Absent /\ op[f] = "no" /\ o \in Done(fs, [op EXCEPT ![f] = "r"], f, <<>>))
        BY <1>2, <4>1
      <4>. QED  BY <1>1, <2>1, <3>1, <4>2, <4>3
    <3>2. CASE ty = "OPEN_CREATE"
      <4>1. Possible(ty, f, c, fs, op) =
              IF op[f] = "no" THEN Done([fs EXCEPT ![f] = <<>>], [op EXCEPT ![f] = "w"], f, <<>>)
                ELSE Refused(fs, op)
        BY <2>1, <3>2 DEF Possible, Is
      <4>2. ASSUME o \in Done([fs EXCEPT ![f] = <<>>], [op EXCEPT ![f] = "w"], f, <<>>)
            PROVE  /\ o.ok = TRUE /\ o.files = [fs EXCEPT ![f] = <<>>] /\ o.opened = [op EXCEPT ![f] = "w"]
                   /\ o.handle = f /\ o.content = <<>>
        BY <4>2 DEF Done
      <4>3. o \in Refused(fs, op) \/ (op[f] = "no" /\ o \in Done([fs EXCEPT ![f] = <<>>], [op EXCEPT ![f] = "w"], f, <<>>))
        BY <1>2, <4>1
      <4>. QED  BY <1>1, <2>1, <3>2, <4>2, <4>3
    <3>3. CASE ty = "CLOSE"
      <4>1. Possible(ty, f, c, fs, op) =
              IF op[f] # "no" THEN Done(fs, [op EXCEPT ![f] = "no"], NoHandle, <<>>)
                ELSE Refused(fs, op)
        BY <2>1, <3>3 DEF Possible, Is
      <4>2. ASSUME o \in Done(fs, [op EXCEPT ![f] = "no"], NoHandle, <<>>)
            PROVE  /\ o.ok = TRUE /\ o.files = fs /\ o.opened = [op EXCEPT ![f] = "no"]
                   /\ o.handle = NoHandle /\ o.content = <<>>
        BY <4>2 DEF Done
      <4>3. o \in Refused(fs, op) \/ (op[f] # "no" /\ o \in Done(fs, [op EXCEPT ![f] = "no"], NoHandle, <<>>))
        BY <1>2, <4>1
      <4>. QED  BY <1>1, <2>1, <3>3, <4>2, <4>3
    <3>4. CASE ty = "READ"
      <4>1. Possible(ty, f, c, fs, op) =
              IF op[f] = "r" THEN Done(fs, op, NoHandle, fs[f])
                ELSE Refused(fs, op)
        BY <2>1, <3>4 DEF Possible, Is
      <4>2. ASSUME o \in Done(fs, op, NoHandle, fs[f])
            PROVE  /\ o.ok = TRUE /\ o.files = fs /\ o.opened = op
                   /\ o.handle = NoHandle /\ o.content = fs[f]
        BY <4>2 DEF Done
      <4>3. o \in Refused(fs, op) \/ (op[f] = "r" /\ o \in Done(fs, op, NoHandle, fs[f]))
        BY <1>2, <4>1
      <4>. QED  BY <1>1, <2>1, <3>4, <4>2, <4>3
    <3>5. CASE ty = "WRITE"
      <4>1. Possible(ty, f, c, fs, op) =
              IF op[f] = "w" THEN Done([fs EXCEPT ![f] = Append(@, c)], op, NoHandle, <<>>)
                ELSE Refused(fs, op)
        BY <2>1, <3>5 DEF Possible, Is
      <4>2. ASSUME o \in Done([fs EXCEPT ![f] = Append(@, c)], op, NoHandle, <<>>)
            PROVE  /\ o.ok = TRUE /\ o.files = [fs EXCEPT ![f] = Append(@, c)] /\ o.opened = op
                   /\ o.handle = NoHandle /\ o.content = <<>>
        BY <4>2 DEF Done
      <4>3. o \in Refused(fs, op) \/ (op[f] = "w" /\ o \in Done([fs EXCEPT ![f] = Append(@, c)], op, NoHandle, <<>>))
        BY <1>2, <4>1
      <4>. QED  BY <1>1, <2>1, <3>5, <4>2, <4>3
    <3>6. CASE ty = "DELETE"
      <4>1. Possible(ty, f, c, fs, op) =
              IF op[f] = "no" /\ fs[f] # Absent THEN Done([fs EXCEPT ![f] = Absent], op, NoHandle, <<>>)
                ELSE Refused(fs, op)
        BY <2>1, <3>6 DEF Possible, Is
      <4>2. ASSUME o \in Done([fs EXCEPT ![f] = Absent], op, NoHandle, <<>>)
            PROVE  /\ o.ok = TRUE /\ o.files = [fs EXCEPT ![f] = Absent] /\ o.opened = op
                   /\ o.handle = NoHandle /\ o.content = <<>>
        BY <4>2 DEF Done
      <4>3. o \in Refused(fs, op) \/ (op[f] = "no" /\ fs[f] # Absent /\ o \in Done([fs EXCEPT ![f] = Absent], op, NoHandle, <<>>))
        BY <1>2, <4>1
      <4>. QED  BY <1>1, <2>1, <3>6, <4>2, <4>3
    <3>7. CASE ty = "CRC"
      <4>1. Possible(ty, f, c, fs, op) =
              IF op[f] = "no" /\ fs[f] # Absent THEN Done(fs, op, NoHandle, fs[f])
                ELSE Refused(fs, op)
        BY <2>1, <3>7 DEF Possible, Is
      <4>2. ASSUME o \in Done(fs, op, NoHandle, fs[f])
            PROVE  /\ o.ok = TRUE /\ o.files = fs /\ o.opened = op
                   /\ o.handle = NoHandle /\ o.content = fs[f]
        BY <4>2 DEF Done
      <4>3. o \in Refused(fs, op) \/ (op[f] = "no" /\ fs[f] # Absent /\ o \in Done(fs, op, NoHandle, fs[f]))
        BY <1>2, <4>1
      <4>. QED  BY <1>1, <2>1, <3>7, <4>2, <4>3
    <3>8. CASE ty \notin Types
      <4>1. Possible(ty, f, c, fs, op) = Refused(fs, op)
        BY <3>8 DEF Possible, Types
      <4>. QED  BY <1>1, <1>2, <4>1
    <3>. QED  BY <3>1, <3>2, <3>3, <3>4, <3>5, <3>6, <3>7, <3>8 DEF Types
  <2>2. CASE f \notin Files
    <3>1. Possible(ty, f, c, fs, op) = Refused(fs, op)
      BY <2>2 DEF Possible, Is
    <3>. QED  BY <1>1, <1>2, <3>1
  <2>. QED  BY <2>1, <2>2
<1>. QED  BY <1>1, <1>2 DEF Outcomes

\* Each operation leaves a filesystem, and an answer.
LEMMA EffectTypes ==
  ASSUME NEW ty, NEW f \in Files \cup {NoHandle}, NEW c \in Pieces,
         NEW fs \in [Files -> Seq(Pieces) \cup {Absent}], NEW op \in [Files -> {"no", "r", "w"}],
         \A g \in Files : op[g] # "no" => fs[g] \in Seq(Pieces),
         NEW o \in Outcomes(ty, f, c, fs, op)
  PROVE  /\ o.ok \in BOOLEAN /\ o.handle \in Files \cup {NoHandle} /\ o.content \in Seq(Pieces)
         /\ o.files \in [Files -> Seq(Pieces) \cup {Absent}]
         /\ o.opened \in [Files -> {"no", "r", "w"}]
         /\ \A g \in Files : o.opened[g] # "no" => o.files[g] \in Seq(Pieces)
<1>0. Effect(o, ty, f, c, fs, op)
  BY Effects
<1>1. <<>> \in Seq(Pieces)
  OBVIOUS
<1>2. CASE o.ok = FALSE
  BY <1>0, <1>1, <1>2 DEF Effect
<1>3. CASE o.ok = TRUE
  <2>1. f \in Files
    BY <1>0, <1>3 DEF Effect
  <2>2. CASE ty = "OPEN_READ"
    <3>1. /\ o.files = fs /\ o.opened = [op EXCEPT ![f] = "r"]
          /\ o.handle = f /\ o.content = <<>> /\ fs[f] # Absent
      BY <1>0, <1>3, <2>2 DEF Effect
    <3>. QED  BY <1>1, <1>3, <2>1, <3>1
  <2>3. CASE ty = "OPEN_CREATE"
    <3>1. /\ o.files = [fs EXCEPT ![f] = <<>>] /\ o.opened = [op EXCEPT ![f] = "w"]
          /\ o.handle = f /\ o.content = <<>>
      BY <1>0, <1>3, <2>3 DEF Effect
    <3>2. /\ o.files \in [Files -> Seq(Pieces) \cup {Absent}]
          /\ o.opened \in [Files -> {"no", "r", "w"}]
      BY <1>1, <2>1, <3>1
    <3>3. \A g \in Files : /\ o.files[g] = IF g = f THEN <<>> ELSE fs[g]
                           /\ o.opened[g] = IF g = f THEN "w" ELSE op[g]
      BY <2>1, <3>1
    <3>4. \A g \in Files : o.opened[g] # "no" => o.files[g] \in Seq(Pieces)
      BY <1>1, <3>3
    <3>. QED  BY <1>1, <1>3, <2>1, <3>1, <3>2, <3>4
  <2>4. CASE ty = "CLOSE"
    <3>1. /\ o.files = fs /\ o.opened = [op EXCEPT ![f] = "no"]
          /\ o.handle = NoHandle /\ o.content = <<>>
      BY <1>0, <1>3, <2>4 DEF Effect
    <3>. QED  BY <1>1, <1>3, <2>1, <3>1
  <2>5. CASE ty = "READ"
    <3>1. /\ o.files = fs /\ o.opened = op
          /\ o.handle = NoHandle /\ o.content = fs[f] /\ op[f] = "r"
      BY <1>0, <1>3, <2>5 DEF Effect
    <3>. QED  BY <1>1, <1>3, <2>1, <3>1
  <2>6. CASE ty = "WRITE"
    <3>1. /\ o.files = [fs EXCEPT ![f] = Append(@, c)] /\ o.opened = op
          /\ o.handle = NoHandle /\ o.content = <<>> /\ op[f] = "w"
      BY <1>0, <1>3, <2>6 DEF Effect
    <3>2. fs[f] \in Seq(Pieces)
      BY <2>1, <3>1
    <3>3. Append(fs[f], c) \in Seq(Pieces)
      BY <3>2
    <3>4. o.files \in [Files -> Seq(Pieces) \cup {Absent}]
      BY <2>1, <3>1, <3>3
    <3>5. \A g \in Files : o.files[g] = IF g = f THEN Append(fs[f], c) ELSE fs[g]
      BY <2>1, <3>1
    <3>6. \A g \in Files : o.opened[g] # "no" => o.files[g] \in Seq(Pieces)
      BY <3>1, <3>3, <3>5
    <3>. QED  BY <1>1, <1>3, <3>1, <3>4, <3>6
  <2>7. CASE ty = "DELETE"
    <3>1. /\ o.files = [fs EXCEPT ![f] = Absent] /\ o.opened = op
          /\ o.handle = NoHandle /\ o.content = <<>> /\ op[f] = "no"
      BY <1>0, <1>3, <2>7 DEF Effect
    <3>. QED  BY <1>1, <1>3, <2>1, <3>1
  <2>8. CASE ty = "CRC"
    <3>1. /\ o.files = fs /\ o.opened = op
          /\ o.handle = NoHandle /\ o.content = fs[f] /\ fs[f] # Absent
      BY <1>0, <1>3, <2>8 DEF Effect
    <3>. QED  BY <1>1, <1>3, <2>1, <3>1
  <2>9. ty \in {"OPEN_READ", "OPEN_CREATE", "CLOSE", "READ", "WRITE", "DELETE", "CRC"}
    BY <1>0, <1>3 DEF Effect
  <2>. QED  BY <2>2, <2>3, <2>4, <2>5, <2>6, <2>7, <2>8, <2>9
<1>. QED  BY <1>0, <1>2, <1>3 DEF Effect

LEMMA TypeInitially ==
  ASSUME FlashAssumption, Init
  PROVE  TypeInv
<1>1. NoRequest \in Requests
  BY DEF NoRequest, Request, Requests, Types
<1>2. <<>> \in Seq(Pieces)
  OBVIOUS
<1>3. files \in [Files -> Seq(Pieces) \cup {Absent}] /\ opened \in [Files -> {"no", "r", "w"}]
      /\ OpenExists
  BY <1>2 DEF Init, OpenExists
<1>. QED  BY <1>1, <1>2, <1>3 DEF Init, TypeInv, TypeOK, Syncs, Types, Ats, NoRequest, Request

\* A request is made of a file or a handle, and of a chunk or none.
LEMMA BeginTypes ==
  ASSUME TypeInv, NEW c, NEW ty \in Types, NEW f \in Files \cup {NoHandle}, NEW ch \in Pieces,
         Begin(c, ty, f, ch), file_crc' \in Seq(Pieces), flash_mode' = flash_mode,
         UNCHANGED <<memVars, syncVars, stubVars, fsVars, gdbVars>>
  PROVE  TypeInv'
<1>1. req'.id = req.id + 1 /\ req.id + 1 \in Nat /\ req' \in Requests /\ at' = "command"
  BY DEF Begin, Request, Requests, TypeInv, TypeOK, Pieces
<1>2. OpenExists'
  BY DEF TypeInv, OpenExists, fsVars
<1>. QED  BY <1>1, <1>2 DEF TypeInv, TypeOK, Ats, memVars, syncVars, stubVars, fsVars, gdbVars,
                            toldVars

LEMMA CallTypes ==
  ASSUME FlashAssumption, TypeInv, Calls \/ CallOpenCreated \/ CallDeleteLoaded
  PROVE  TypeInv'
<1>1. /\ <<>> \in Seq(Pieces) /\ file_crc \in Seq(Pieces) /\ fd \in Files \cup {NoHandle}
      /\ req.file \in Files \cup {NoHandle} /\ None \in Pieces
      /\ \A c \in Chunks : c \in Pieces /\ Append(file_crc, c) \in Seq(Pieces)
  BY DEF TypeInv, TypeOK, Requests, Pieces
<1>2. CASE CallOpen
  BY <1>1, <1>2, BeginTypes DEF CallOpen, Types
<1>3. CASE CallClose
  BY <1>1, <1>3, BeginTypes DEF CallClose, Types
<1>4. CASE CallRead
  BY <1>1, <1>4, BeginTypes DEF CallRead, Types
<1>5. CASE CallWrite
  BY <1>1, <1>5, BeginTypes DEF CallWrite, Types
<1>6. CASE CallCheckCrc
  BY <1>1, <1>6, BeginTypes DEF CallCheckCrc, Types
<1>7. CASE CallDelete
  BY <1>1, <1>7, BeginTypes DEF CallDelete, Types
<1>8. CASE CallOpenCreated
  BY <1>1, <1>8, BeginTypes DEF CallOpenCreated, Types
<1>9. CASE CallDeleteLoaded
  BY <1>1, <1>9, BeginTypes DEF CallDeleteLoaded, Types
<1>. QED  BY <1>2, <1>3, <1>4, <1>5, <1>6, <1>7, <1>8, <1>9 DEF Calls

LEMMA LoadTypes ==
  ASSUME TypeInv, Load
  PROVE  TypeInv'
<1>. USE DEF TypeInv, TypeOK, OpenExists, Ats, Syncs, hostVars, memVars, syncVars, stubVars,
             fsVars, gdbVars, toldVars
<1>1. CASE LoadBegin
  <2>1. req' \in Requests
    BY <1>1 DEF LoadBegin, Requests, Request, Types
  <2>. QED  BY <1>1, <2>1 DEF LoadBegin
<1>2. CASE LoadUninit
  BY <1>2 DEF LoadUninit
<1>3. CASE LoadStart
  BY <1>3 DEF LoadStart
<1>4. CASE LoadAwait
  BY <1>4 DEF LoadAwait
<1>5. CASE LoadDone
  BY <1>5 DEF LoadDone
<1>6. CASE LoadFail
  BY <1>6 DEF LoadFail, LoadFailed
<1>7. CASE LoadRefused
  BY <1>7 DEF LoadRefused, LoadFailed
<1>. QED  BY <1>1, <1>2, <1>3, <1>4, <1>5, <1>6, <1>7 DEF Load

LEMMA TargetTypes ==
  ASSUME TypeInv, Target
  PROVE  TypeInv'
<1>. USE DEF TypeInv, TypeOK, OpenExists, Ats, Syncs, hostVars, memVars, syncVars, fsVars, gdbVars,
             toldVars
<1>1. CASE TargetHalt
  <2>1. /\ running' = FALSE
        /\ UNCHANGED <<hostVars, flash_mode, file_crc, memVars, syncVars, stub, type, fsVars, gdbVars>>
    BY <1>1 DEF TargetHalt
  <2>2. running' \in BOOLEAN
    BY <2>1
  <2>. QED  BY <2>1, <2>2
<1>2. CASE TargetContinue
  BY <1>2 DEF TargetContinue
<1>3. CASE TargetReset
  BY <1>3 DEF TargetReset
<1>. QED  BY <1>1, <1>2, <1>3 DEF Target

\* What GDB is told has its types.
LEMMA TellTypes ==
  ASSUME TypeInv, NEW ok \in BOOLEAN, Tell(ok), call = "write" => req.chunk \in Pieces
  PROVE  /\ fd' \in Files \cup {NoHandle} /\ mode' \in {"no", "r", "w"}
         /\ uploaded' \in Seq(Pieces)
  BY DEF Tell, TypeInv, TypeOK

LEMMA ExchangeTypes ==
  ASSUME TypeInv, WriteCommand \/ WriteArgs \/ WriteData \/ Go \/ Poll \/ Take \/ Reply \/ Fail
  PROVE  TypeInv'
<1>. USE DEF TypeInv, TypeOK, OpenExists, Ats, Syncs, memVars, syncVars, stubVars, fsVars, gdbVars,
             toldVars
<1>1. CASE WriteCommand
  BY <1>1 DEF WriteCommand
<1>2. CASE WriteArgs
  <2>1. <<>> \in Seq(Pieces)
    OBVIOUS
  <2>. QED  BY <1>2, <2>1 DEF WriteArgs
<1>3. CASE WriteData
  BY <1>3 DEF WriteData
<1>4. CASE Go
  BY <1>4 DEF Go
<1>5. CASE Poll
  BY <1>5 DEF Poll
<1>6. CASE Take
  BY <1>6 DEF Take
<1>7. req.chunk \in Pieces
  BY DEF Requests, Pieces
<1>8. CASE Reply
  <2>1. /\ at' \in Ats /\ abandoned' = abandoned
        /\ \/ UNCHANGED toldVars
           \/ \E ok \in BOOLEAN : Tell(ok)
    <3>1. CASE ThenOpen
      BY <1>8, <3>1 DEF Reply
    <3>2. CASE ~ThenOpen
      <4>1. CASE call = "checkcrc"
        <5>1. PICK r \in CrcResult : Tell(r)
          BY <1>8, <3>2, <4>1 DEF Reply
        <5>2. r \in BOOLEAN
          BY <5>1, Zenon DEF CrcResult
        <5>. QED  BY <1>8, <3>2, <5>1, <5>2 DEF Reply
      <4>2. CASE call # "checkcrc"
        BY <1>8, <3>2, <4>2 DEF Reply
      <4>. QED  BY <4>1, <4>2
    <3>. QED  BY <3>1, <3>2
  <2>. QED  BY <1>7, <1>8, <2>1, TellTypes DEF Reply
<1>9. CASE Fail
  <2>1. at' \in Ats /\ abandoned' \in BOOLEAN /\ (UNCHANGED toldVars \/ Tell(FALSE))
    BY <1>9 DEF Fail
  <2>2. /\ fd' \in Files \cup {NoHandle} /\ mode' \in {"no", "r", "w"}
        /\ uploaded' \in Seq(Pieces)
    BY <1>7, <2>1, TellTypes
  <2>. QED  BY <1>9, <2>1, <2>2 DEF Fail
<1>. QED  BY <1>1, <1>2, <1>3, <1>4, <1>5, <1>6, <1>8, <1>9

LEMMA StubTypes ==
  ASSUME TypeInv, StubStep
  PROVE  TypeInv'
<1>. USE DEF TypeInv, TypeOK, OpenExists, Ats, Syncs, hostVars, memVars, syncVars, stubVars,
             fsVars, gdbVars, toldVars, StubMove
<1>1. CASE StubZero
  <2>1. NoRequest \in Requests
    BY DEF NoRequest, Request, Requests, Types
  <2>. QED  BY <1>1, <2>1 DEF StubZero
<1>2. CASE StubReady
  BY <1>2 DEF StubReady
<1>3. CASE StubTaken
  BY <1>3 DEF StubTaken
<1>4. CASE StubGo
  BY <1>4 DEF StubGo
<1>5. CASE StubSwitch
  BY <1>5 DEF StubSwitch, Requests
<1>6. CASE StubCall
  <2>1. PICK o \in Outcomes(Meant, StubFile, data.chunk, files, opened) :
          /\ files' = o.files /\ opened' = o.opened
          /\ response' = [to |-> args.id, ok |-> o.ok]
          /\ out' = IF Meant \in WithOut /\ o.ok
                      THEN [handle |-> o.handle, content |-> o.content] ELSE out
    BY <1>6 DEF StubCall
  <2>2. StubFile \in Files \cup {NoHandle} /\ data.chunk \in Pieces /\ args.id \in Nat
    BY DEF StubFile, Requests, Pieces
  <2>3. /\ o.ok \in BOOLEAN /\ o.handle \in Files \cup {NoHandle} /\ o.content \in Seq(Pieces)
        /\ o.files \in [Files -> Seq(Pieces) \cup {Absent}]
        /\ o.opened \in [Files -> {"no", "r", "w"}]
        /\ \A g \in Files : o.opened[g] # "no" => o.files[g] \in Seq(Pieces)
    BY <2>1, <2>2, EffectTypes
  <2>4. /\ response'.to \in Nat /\ response'.ok \in BOOLEAN
        /\ out'.handle \in Files \cup {NoHandle} /\ out'.content \in Seq(Pieces)
    BY <2>1, <2>2, <2>3
  <2>. QED  BY <1>6, <2>1, <2>3, <2>4 DEF StubCall
<1>7. CASE StubDone
  BY <1>7 DEF StubDone
<1>8. CASE StubFail
  BY <1>8 DEF StubFail
<1>. QED  BY <1>1, <1>2, <1>3, <1>4, <1>5, <1>6, <1>7, <1>8 DEF StubStep

\* An open file exists, and everything has its type, in every state.
THEOREM TypeInvariance == Spec => []TypeInv
<1>1. Init => TypeInv
  BY FlashAssumption, TypeInitially
<1>2. TypeInv /\ [Next]_vars => TypeInv'
  <2>. SUFFICES ASSUME TypeInv, [Next]_vars
                PROVE  TypeInv'
    OBVIOUS
  <2>1. CASE Next
    BY <2>1, FlashAssumption, CallTypes, LoadTypes, TargetTypes, ExchangeTypes, StubTypes DEF Next, Exchange
  <2>2. CASE UNCHANGED vars
    BY <2>2 DEF vars, hostVars, memVars, syncVars, stubVars, fsVars, gdbVars, toldVars, TypeInv,
                TypeOK, OpenExists
  <2>. QED  BY <2>1, <2>2
<1>. QED  BY <1>1, <1>2, PTL DEF Spec

\* Both programs, the shared region and the filesystem keep their types, also when an
\* exchange was given up and the stub makes what it can of another command's arguments.
THEOREM TypeCorrect == Spec => []TypeOK
<1>1. TypeInv => TypeOK
  BY DEF TypeInv
<1>. QED  BY <1>1, TypeInvariance, PTL

-----------------------------------------------------------------------------
(* What an upload leaves, and what an open and a close do.                 *)

Behind(crc, content) == crc = content \/ Len(crc) > Len(content)
Executed == response.to = req.id /\ response.ok

\* Which call makes which request, and what it finds open.
CallFits ==
  \/ call = "open_read" /\ req.type = "OPEN_READ" /\ req.file \in Files /\ fd = NoHandle
  \/ call = "open_create" /\ req.type \in {"DELETE", "OPEN_CREATE"} /\ req.file \in Files
     /\ fd = NoHandle
  \/ call = "delete" /\ req.type = "DELETE" /\ fd = NoHandle
  \/ call = "checkcrc" /\ req.type = "CRC" /\ fd = NoHandle
  \/ call = "read" /\ req.type = "READ" /\ mode = "r"
  \/ call = "close" /\ req.type = "CLOSE"
  \/ call = "write" /\ req.type = "WRITE" /\ mode = "w" /\ req.file = fd /\ req.chunk \in Chunks

Fits ==
  /\ fd = NoHandle <=> mode = "no"
  /\ ~flash_mode => mode = "no" /\ last.ok = FALSE
  /\ InExchange => CallFits
  /\ at = "deleted" => call = "open_create" /\ fd = NoHandle /\ req.file \in Files
  /\ at = "loaded" => call = "delete" /\ fd = NoHandle

\* Between writes file and CRC are those of what was told; during one, the CRC is
\* ahead and the file follows when the stub has written it.
Content ==
  /\ mode = "w" /\ ~(InExchange /\ call = "write") =>
       files[fd] = uploaded /\ Behind(file_crc, uploaded)
  /\ InExchange /\ call = "write" =>
       /\ files[fd] = IF Executed THEN Append(uploaded, req.chunk) ELSE uploaded
       /\ Behind(file_crc, Append(uploaded, req.chunk))
  /\ InExchange /\ req.type = "OPEN_CREATE" => file_crc = <<>>

\* What an open or close has done when it is answered.
Effected ==
  InExchange /\ Executed =>
    /\ req.type = "OPEN_READ" => out.handle = req.file /\ opened[req.file] = "r"
    /\ req.type = "OPEN_CREATE" =>
         out.handle = req.file /\ opened[req.file] = "w" /\ files[req.file] = <<>>
    /\ req.type = "CLOSE" => opened[req.file] = "no"

Account == ~abandoned => Fits /\ Content /\ Effected /\ OpenMeansOpen

\* An open that succeeded leaves the file open, and a close closed (target_al.h:379,
\* :396), as long as no exchange was given up.
OpenUntilAbandoned == ~abandoned => OpenMeansOpen

LEMMA AccountInitially ==
  ASSUME Init
  PROVE  Account
  BY DEF Init, Account, Fits, Content, Effected, OpenMeansOpen, InExchange

\* A step within an exchange, or out of one, that touches none of it.
LEMMA AccountKept ==
  ASSUME Account, abandoned' = abandoned, InExchange' = InExchange,
         at' = "deleted" => at = "deleted", at' = "idle" => at = "idle" \/ last.ok = FALSE,
         at' = "loaded" => at = "loaded",
         flash_mode => flash_mode',
         UNCHANGED <<call, req, file_crc, files, opened, fd, mode, uploaded, last, response>>,
         out' = out \/ ~(InExchange /\ Executed)
  PROVE  Account'
<1>. SUFFICES ASSUME ~abandoned
              PROVE  Fits' /\ Content' /\ Effected' /\ OpenMeansOpen'
  BY DEF Account
<1>1. Fits /\ Content /\ Effected /\ OpenMeansOpen /\ Executed' = Executed
  BY DEF Account, Executed
<1>2. Fits'
  <2>1. CallFits' = CallFits
    BY DEF CallFits
  <2>. QED  BY <1>1, <2>1 DEF Fits
<1>3. Content'
  BY <1>1 DEF Content, Behind
<1>4. Effected'
  BY <1>1 DEF Effected
<1>5. OpenMeansOpen'
  BY <1>1 DEF OpenMeansOpen
<1>. QED  BY <1>2, <1>3, <1>4, <1>5

LEMMA AccountLoad ==
  ASSUME IInv, Account, Load
  PROVE  Account'
<1>1. ~flash_mode /\ abandoned' = abandoned
  BY DEF IInv, Serves, Loading, Load, LoadBegin, LoadUninit, LoadStart, LoadAwait, LoadDone,
         LoadRefused, LoadFail, LoadFailed, gdbVars
<1>2. ~InExchange /\ ~InExchange' /\ at' # "deleted" /\ (at' = "loaded" => call' = "delete")
  BY <1>1 DEF IInv, Unasked, Loading, InExchange, Load, LoadBegin, LoadUninit, LoadStart, LoadAwait,
         LoadDone, LoadRefused, LoadFail, LoadFailed, hostVars
<1>3. ~abandoned /\ last.ok = FALSE /\ Fits /\ mode = "no" /\ fd = NoHandle
  BY <1>1 DEF IInv, Unasked, Account, Fits
<1>4. UNCHANGED <<fd, mode>> /\ last'.ok = FALSE
  BY <1>3 DEF Load, LoadBegin, LoadUninit, LoadStart, LoadAwait, LoadDone, LoadRefused, LoadFail,
         LoadFailed, gdbVars, toldVars
<1>5. Fits' /\ Content' /\ Effected' /\ OpenMeansOpen'
  BY <1>2, <1>3, <1>4 DEF Fits, Content, Effected, OpenMeansOpen
<1>. QED  BY <1>5 DEF Account

\* Out of flash mode nothing is open; a reset in flash mode ends the account.
LEMMA AccountTarget ==
  ASSUME IInv, TypeInv, Account, ~abandoned', Target
  PROVE  Account'
<1>1. UNCHANGED <<at, call, req, file_crc, files, fd, mode, uploaded, last, response, out,
                  flash_mode>>
  BY DEF Target, TargetHalt, TargetContinue, TargetReset, hostVars, memVars, fsVars, gdbVars,
         toldVars
<1>2. abandoned \in BOOLEAN
  BY DEF TypeInv, TypeOK
<1>3. abandoned' = abandoned /\ opened' = opened
  <2>1. CASE TargetReset
    <3>1. ~abandoned /\ ~flash_mode
      BY <1>2, <2>1 DEF TargetReset
    <3>2. opened = [f \in Files |-> "no"]
      BY <3>1 DEF IInv, Unasked
    <3>. QED  BY <1>2, <2>1, <3>1, <3>2 DEF TargetReset
  <2>2. CASE TargetHalt \/ TargetContinue
    BY <2>2 DEF TargetHalt, TargetContinue, fsVars, gdbVars
  <2>. QED  BY <2>1, <2>2 DEF Target
<1>4. InExchange' = InExchange
  BY <1>1 DEF InExchange
<1>. QED  BY <1>1, <1>3, <1>4, AccountKept

\* A call begins an exchange that nothing has answered.
LEMMA AccountBegin ==
  ASSUME IInv, Account, flash_mode, ~abandoned, at \in {"idle", "deleted", "loaded"},
         NEW c, NEW ty, NEW f, NEW ch, Begin(c, ty, f, ch), CallFits',
         UNCHANGED <<flash_mode, memVars, fsVars, gdbVars>>,
         c # "write" => file_crc' = file_crc \/ mode # "w",
         c = "write" => Behind(file_crc', Append(uploaded, ch)) /\ mode = "w",
         ty = "OPEN_CREATE" => file_crc' = <<>>
  PROVE  Account'
<1>1. /\ req' = Request(req.id + 1, ty, f, ch) /\ call' = c /\ at' = "command" /\ InExchange'
      /\ ~InExchange /\ req'.type = ty /\ req'.chunk = ch
  BY DEF Begin, InExchange, Request
<1>2. ~Executed'
  <2>1. req'.id = req.id + 1 /\ response' = response
    BY <1>1 DEF Request, memVars
  <2>. QED  BY <2>1 DEF Executed, IInv, Numbered
<1>3. UNCHANGED <<fd, mode, uploaded, last, files, opened, abandoned>>
  BY DEF fsVars, gdbVars, toldVars
<1>4. Fits /\ Content
  BY DEF Account
<1>5. Fits'
  BY <1>1, <1>3, <1>4 DEF Fits
<1>6. Content'
  BY <1>1, <1>2, <1>3, <1>4 DEF Content
<1>7. Effected' /\ OpenMeansOpen'
  BY <1>1, <1>2 DEF Effected, OpenMeansOpen
<1>. QED  BY <1>5, <1>6, <1>7 DEF Account

LEMMA AccountCalls ==
  ASSUME IInv, TypeInv, Account, ~CrcAnytime, ~abandoned',
         Calls \/ CallOpenCreated \/ CallDeleteLoaded
  PROVE  Account'
<1>1. ~abandoned /\ UNCHANGED <<fd, mode>>
  BY DEF Calls, CallOpen, CallClose, CallRead, CallWrite, CallCheckCrc, CallDelete, CallOpenCreated,
         CallDeleteLoaded, gdbVars, toldVars
<1>2. Fits /\ Content
  BY <1>1 DEF Account
<1>3. ASSUME NEW c, NEW ty, NEW f, NEW ch, Begin(c, ty, f, ch)
      PROVE  call' = c /\ req'.type = ty /\ req'.file = f /\ req'.chunk = ch
  BY <1>3 DEF Begin, Request
<1>4. CASE CallOpen
  <2>1. fd = NoHandle /\ mode = "no" /\ flash_mode /\ at = "idle"
        /\ UNCHANGED <<flash_mode, memVars, fsVars, gdbVars>>
    BY <1>2, <1>4 DEF CallOpen, Fits, May
  <2>2. PICK f \in Files :
          \/ Begin("open_read", "OPEN_READ", f, None) /\ file_crc' = <<>>
          \/ Begin("open_create", "DELETE", f, None) /\ file_crc' = file_crc
    BY <1>4 DEF CallOpen
  <2>3. CASE Begin("open_read", "OPEN_READ", f, None)
    <3>1. CallFits'
      BY <1>1, <1>3, <2>1, <2>3 DEF CallFits
    <3>. QED  BY <1>1, <2>1, <2>3, <3>1, AccountBegin
  <2>4. CASE Begin("open_create", "DELETE", f, None)
    <3>1. CallFits'
      BY <1>1, <1>3, <2>1, <2>4 DEF CallFits
    <3>. QED  BY <1>1, <2>1, <2>4, <3>1, AccountBegin
  <2>. QED  BY <2>2, <2>3, <2>4
<1>5. CASE CallClose
  <2>1. /\ Begin("close", "CLOSE", fd, None) /\ flash_mode /\ at = "idle" /\ file_crc' = file_crc
        /\ UNCHANGED <<flash_mode, memVars, fsVars, gdbVars>>
    BY <1>5 DEF CallClose, May
  <2>2. CallFits'
    BY <1>3, <2>1 DEF CallFits
  <2>. QED  BY <1>1, <2>1, <2>2, AccountBegin
<1>6. CASE CallRead
  <2>1. /\ Begin("read", "READ", fd, None) /\ flash_mode /\ at = "idle" /\ file_crc' = file_crc
        /\ mode = "r" /\ UNCHANGED <<flash_mode, memVars, fsVars, gdbVars>>
    BY <1>6 DEF CallRead, May
  <2>2. CallFits'
    BY <1>1, <1>3, <2>1 DEF CallFits
  <2>. QED  BY <1>1, <2>1, <2>2, AccountBegin
<1>7. CASE CallWrite
  <2>1. PICK c \in Chunks : Begin("write", "WRITE", fd, c) /\ file_crc' = Append(file_crc, c)
    BY <1>7 DEF CallWrite
  <2>2. /\ flash_mode /\ at = "idle" /\ mode = "w"
        /\ UNCHANGED <<flash_mode, memVars, fsVars, gdbVars>>
    BY <1>7 DEF CallWrite, May
  <2>3. CallFits'
    BY <1>1, <1>3, <2>1, <2>2 DEF CallFits
  <2>4. Behind(file_crc, uploaded) /\ file_crc \in Seq(Pieces) /\ uploaded \in Seq(Pieces)
        /\ c \in Pieces
    BY <1>2, <2>2 DEF Content, InExchange, TypeInv, TypeOK, Pieces
  <2>5. Behind(Append(file_crc, c), Append(uploaded, c))
    <3>1. /\ Len(Append(file_crc, c)) = Len(file_crc) + 1 /\ Len(file_crc) \in Nat
          /\ Len(Append(uploaded, c)) = Len(uploaded) + 1 /\ Len(uploaded) \in Nat
      BY <2>4
    <3>. QED  BY <2>4, <3>1 DEF Behind
  <2>. QED  BY <1>1, <2>1, <2>2, <2>3, <2>5, AccountBegin
<1>8. CASE CallCheckCrc
  <2>1. PICK f \in Files : Begin("checkcrc", "CRC", f, None)
    BY <1>8 DEF CallCheckCrc
  <2>2. /\ flash_mode /\ at = "idle" /\ fd = NoHandle /\ file_crc' = file_crc
        /\ UNCHANGED <<flash_mode, memVars, fsVars, gdbVars>>
    BY <1>8 DEF CallCheckCrc, May
  <2>3. CallFits'
    BY <1>1, <1>3, <2>1, <2>2 DEF CallFits
  <2>. QED  BY <1>1, <2>1, <2>2, <2>3, AccountBegin
<1>9. CASE CallDelete
  <2>1. PICK f \in Files : Begin("delete", "DELETE", f, None)
    BY <1>9 DEF CallDelete
  <2>2. /\ flash_mode /\ at = "idle" /\ fd = NoHandle /\ file_crc' = file_crc
        /\ UNCHANGED <<flash_mode, memVars, fsVars, gdbVars>>
    BY <1>9 DEF CallDelete, May
  <2>3. CallFits'
    BY <1>1, <1>3, <2>1, <2>2 DEF CallFits
  <2>. QED  BY <1>1, <2>1, <2>2, <2>3, AccountBegin
<1>10. CASE CallOpenCreated
  <2>1. /\ Begin("open_create", "OPEN_CREATE", req.file, None) /\ at = "deleted"
        /\ file_crc' = <<>> /\ UNCHANGED <<flash_mode, memVars, fsVars, gdbVars>>
    BY <1>10 DEF CallOpenCreated
  <2>2. flash_mode /\ fd = NoHandle /\ mode = "no" /\ req.file \in Files
    BY <1>2, <2>1 DEF Fits, IInv, Unasked, Loading
  <2>3. CallFits'
    BY <1>1, <1>3, <2>1, <2>2 DEF CallFits
  <2>. QED  BY <1>1, <2>1, <2>2, <2>3, AccountBegin
<1>11. CASE CallDeleteLoaded
  <2>1. /\ Begin("delete", "DELETE", req.file, None) /\ at = "loaded" /\ file_crc' = file_crc
        /\ UNCHANGED <<flash_mode, memVars, fsVars, gdbVars>>
    BY <1>11 DEF CallDeleteLoaded
  <2>2. flash_mode /\ fd = NoHandle
    BY <1>2, <2>1 DEF Fits, IInv, Unasked, Loading
  <2>3. CallFits'
    BY <1>1, <1>3, <2>1, <2>2 DEF CallFits
  <2>. QED  BY <1>1, <2>1, <2>2, <2>3, AccountBegin
<1>. QED  BY <1>4, <1>5, <1>6, <1>7, <1>8, <1>9, <1>10, <1>11 DEF Calls

LEMMA AccountExchange ==
  ASSUME IInv, Account, ~abandoned', WriteCommand \/ WriteArgs \/ WriteData \/ Go \/ Poll \/ Take
  PROVE  Account'
<1>1. /\ UNCHANGED <<call, req, file_crc, files, opened, fd, mode, uploaded, last, response,
                     abandoned, flash_mode>>
      /\ at' \notin {"idle", "deleted", "loaded"} /\ InExchange /\ InExchange'
  BY DEF WriteCommand, WriteArgs, WriteData, Go, Poll, Take, InExchange, memVars, fsVars, gdbVars,
         toldVars
<1>2. InExchange' = InExchange
  <2>1. InExchange \in BOOLEAN /\ InExchange' \in BOOLEAN
    BY DEF InExchange
  <2>. QED  BY <1>1, <2>1
<1>3. out' = out \/ ~(InExchange /\ Executed)
  <2>1. CASE WriteArgs
    <3>1. at \in Writing /\ flash_mode /\ ~abandoned
      BY <1>1, <2>1 DEF WriteArgs, Writing, IInv, Unasked, Loading
    <3>2. response.to < req.id
      BY <3>1 DEF IInv, InStep
    <3>. QED  BY <3>2 DEF Executed, IInv, Numbered
  <2>2. CASE ~WriteArgs
    BY <2>2 DEF WriteCommand, WriteData, Go, Poll, Take, memVars
  <2>. QED  BY <2>1, <2>2
<1>. QED  BY <1>1, <1>2, <1>3, AccountKept

\* The answer: what GDB is told is what was done.
LEMMA AccountReply ==
  ASSUME IInv, TypeInv, Account, ~abandoned', Reply
  PROVE  Account'
<1>1. /\ at = "reply" /\ InExchange /\ flash_mode /\ ~abandoned /\ ~InExchange'
      /\ UNCHANGED <<call, req, file_crc, files, opened, response, out, flash_mode, abandoned>>
  BY DEF Reply, InExchange, IInv, Unasked, Loading, gdbVars, memVars, fsVars
<1>2. response.to = req.id /\ response.ok \in BOOLEAN /\ (Executed <=> response.ok)
  BY <1>1 DEF IInv, InStep, Executed, TypeInv, TypeOK
<1>3. Fits /\ Content /\ Effected /\ CallFits
  BY <1>1 DEF Account, Fits
<1>4. CASE ThenOpen
  <2>1. UNCHANGED <<fd, mode, uploaded, last>> /\ at' = "deleted" /\ call = "open_create"
    BY <1>4 DEF Reply, ThenOpen, gdbVars, toldVars
  <2>2. fd = NoHandle /\ req.file \in Files /\ mode = "no"
    BY <1>3, <2>1 DEF CallFits, Fits
  <2>. QED  BY <1>1, <1>3, <2>1, <2>2 DEF Account, Fits, Content, Effected, OpenMeansOpen
<1>5. CASE ~ThenOpen
  <2>1. PICK ok \in BOOLEAN : /\ Tell(ok)
                              /\ call # "checkcrc" => ok = response.ok
    <3>1. CASE call = "checkcrc"
      <4>1. PICK r \in CrcResult : Tell(r)
        BY <1>5, <3>1 DEF Reply
      <4>2. r \in BOOLEAN
        BY <4>1, Zenon DEF CrcResult
      <4>. QED  BY <3>1, <4>1, <4>2
    <3>2. CASE call # "checkcrc"
      <4>1. Tell(response.ok)
        BY <1>5, <3>2 DEF Reply
      <4>2. response.ok \in BOOLEAN
        BY <1>2
      <4>. WITNESS response.ok \in BOOLEAN
      <4>. QED  BY <4>1
    <3>. QED  BY <3>1, <3>2
  <2>2. at' = "idle"
    BY <1>5 DEF Reply
  <2>3. CASE call \in {"open_read", "open_create"} /\ ok
    <3>1. Executed /\ req.file \in Files /\ req.type \in {"OPEN_READ", "OPEN_CREATE"}
          /\ (call = "open_create" <=> req.type = "OPEN_CREATE")
      BY <1>2, <1>3, <1>5, <2>1, <2>3 DEF CallFits, ThenOpen
    <3>2. out.handle = req.file /\ (req.type = "OPEN_READ" => opened[req.file] = "r")
          /\ (req.type = "OPEN_CREATE" => /\ opened[req.file] = "w" /\ files[req.file] = <<>>
                                          /\ file_crc = <<>>)
      BY <1>1, <1>3, <3>1 DEF Effected, Content
    <3>3. /\ fd' = req.file /\ mode' = IF call = "open_read" THEN "r" ELSE "w"
          /\ uploaded' = IF call = "open_create" THEN <<>> ELSE uploaded
          /\ last' = [call |-> call, file |-> req.file, ok |-> ok, content |-> out.content]
      BY <2>1, <2>3, <3>2 DEF Tell
    <3>4. Fits'
      BY <1>1, <2>2, <2>3, <3>1, <3>3, FlashAssumption DEF Fits, FlashAssumption
    <3>5. Content'
      BY <1>1, <2>2, <2>3, <3>1, <3>2, <3>3 DEF Content, Behind
    <3>6. OpenMeansOpen'
      BY <1>1, <2>2, <2>3, <3>1, <3>2, <3>3 DEF OpenMeansOpen
    <3>. QED  BY <1>1, <3>4, <3>5, <3>6 DEF Account, Effected
  <2>4. CASE call = "close"
    <3>1. /\ fd' = NoHandle /\ mode' = "no"
          /\ last' = [call |-> call, file |-> req.file, ok |-> ok, content |-> out.content]
      BY <2>1, <2>4 DEF Tell
    <3>2. ok => opened[req.file] = "no"
      BY <1>1, <1>2, <1>3, <2>1, <2>4 DEF CallFits, Effected
    <3>. QED  BY <1>1, <2>2, <2>4, <3>1, <3>2 DEF Account, Fits, Content, Effected, OpenMeansOpen
  <2>5. CASE call = "write"
    <3>1. /\ fd' = fd /\ mode' = mode /\ mode = "w" /\ last'.call = "write"
          /\ uploaded' = IF ok THEN Append(uploaded, req.chunk) ELSE uploaded
          /\ (ok <=> response.ok)
      BY <1>3, <2>1, <2>5 DEF Tell, CallFits
    <3>2. /\ files[fd] = IF ok THEN Append(uploaded, req.chunk) ELSE uploaded
          /\ Behind(file_crc, Append(uploaded, req.chunk))
      <4>1. /\ files[fd] = IF Executed THEN Append(uploaded, req.chunk) ELSE uploaded
            /\ Behind(file_crc, Append(uploaded, req.chunk))
        BY <1>1, <1>3, <2>5 DEF Content
      <4>2. CASE ok
        <5>1. Executed
          BY <1>2, <3>1, <4>2
        <5>. QED  BY <4>1, <4>2, <5>1
      <4>3. CASE ~ok
        <5>1. ~Executed
          BY <1>2, <3>1, <4>3, Zenon
        <5>. QED  BY <4>1, <4>3, <5>1
      <4>. QED  BY <4>2, <4>3
    <3>3. Behind(file_crc, uploaded')
      <4>1. uploaded \in Seq(Pieces) /\ req.chunk \in Pieces
        BY <1>3, <2>5 DEF TypeInv, TypeOK, CallFits, Pieces
      <4>2. Len(Append(uploaded, req.chunk)) = Len(uploaded) + 1 /\ Len(uploaded) \in Nat
        BY <4>1
      <4>3. file_crc \in Seq(Pieces) /\ Len(file_crc) \in Nat
        BY DEF TypeInv, TypeOK
      <4>. QED  BY <3>1, <3>2, <4>2, <4>3 DEF Behind
    <3>4. Fits'
      BY <1>1, <1>3, <2>2, <3>1 DEF Fits
    <3>5. Content'
      BY <1>1, <3>1, <3>2, <3>3 DEF Content, Behind
    <3>. QED  BY <1>1, <3>1, <3>4, <3>5 DEF Account, Effected, OpenMeansOpen
  <2>6. CASE ~(call \in {"open_read", "open_create"} /\ ok) /\ call \notin {"close", "write"}
    <3>1. /\ fd' = fd /\ mode' = mode /\ uploaded' = uploaded /\ last'.call = call /\ last'.ok = ok
      BY <2>1, <2>6 DEF Tell
    <3>2. Fits'
      BY <1>1, <1>3, <2>2, <3>1 DEF Fits
    <3>3. Content'
      BY <1>1, <1>3, <2>6, <3>1 DEF Content, Behind
    <3>4. OpenMeansOpen'
      BY <2>1, <2>6, <3>1 DEF OpenMeansOpen
    <3>. QED  BY <1>1, <3>2, <3>3, <3>4 DEF Account, Effected
  <2>. QED  BY <2>3, <2>4, <2>5, <2>6
<1>. QED  BY <1>4, <1>5

\* The stub's filesystem call, on the request the debugger waits for.
LEMMA AccountStubCall ==
  ASSUME IInv, TypeInv, Account, ~abandoned, StubCall
  PROVE  Account'
<1>1. flash_mode /\ at = "poll" /\ stub = "call"
  BY DEF StubCall, StubMove, IInv, Unasked, InStep, Serves, Places, Resting, Answered, Loading,
         Writing
<1>2. /\ Meant = req.type /\ StubFile = req.file /\ (req.type = "WRITE" => data.chunk = req.chunk)
      /\ args.id = req.id /\ response.to < req.id
  BY <1>1, MeantLemma DEF IInv
<1>3. PICK o \in Outcomes(Meant, StubFile, data.chunk, files, opened) :
        /\ files' = o.files /\ opened' = o.opened
        /\ response' = [to |-> args.id, ok |-> o.ok]
        /\ out' = IF Meant \in WithOut /\ o.ok THEN [handle |-> o.handle, content |-> o.content]
                                               ELSE out
  BY DEF StubCall
<1>4. Effect(o, req.type, req.file, data.chunk, files, opened)
  BY <1>2, <1>3, Effects
<1>5. /\ UNCHANGED <<at, call, req, file_crc, fd, mode, uploaded, last, abandoned, flash_mode>>
      /\ InExchange /\ InExchange' /\ at # "idle"
  BY <1>1 DEF StubCall, InExchange, hostVars, gdbVars, toldVars
<1>6. Fits /\ Content /\ CallFits /\ ~Executed /\ (Executed' <=> o.ok)
  BY <1>2, <1>3, <1>5 DEF Account, Fits, Executed, IInv, Numbered
<1>7. /\ files \in [Files -> Seq(Pieces) \cup {Absent}] /\ opened \in [Files -> {"no", "r", "w"}]
      /\ fd \in Files \cup {NoHandle}
  BY DEF TypeInv, TypeOK
<1>8. Fits'
  <2>1. CallFits' = CallFits
    BY <1>5 DEF CallFits
  <2>. QED  BY <1>1, <1>5, <1>6, <2>1 DEF Fits
<1>9. Effected'
  <2>1. SUFFICES ASSUME o.ok
                 PROVE  /\ req.type = "OPEN_READ" => out'.handle = req.file /\ opened'[req.file] = "r"
                        /\ req.type = "OPEN_CREATE" =>
                             /\ out'.handle = req.file /\ opened'[req.file] = "w"
                             /\ files'[req.file] = <<>>
                        /\ req.type = "CLOSE" => opened'[req.file] = "no"
    BY <1>5, <1>6 DEF Effected
  <2>2. req.file \in Files
    BY <1>4, <2>1 DEF Effect
  <2>3. ASSUME req.type = "OPEN_READ"
        PROVE  out'.handle = req.file /\ opened'[req.file] = "r"
    BY <1>2, <1>3, <1>4, <1>7, <2>1, <2>2, <2>3 DEF Effect, WithOut
  <2>4. ASSUME req.type = "OPEN_CREATE"
        PROVE  out'.handle = req.file /\ opened'[req.file] = "w" /\ files'[req.file] = <<>>
    BY <1>2, <1>3, <1>4, <1>7, <2>1, <2>2, <2>4 DEF Effect, WithOut
  <2>5. ASSUME req.type = "CLOSE"
        PROVE  opened'[req.file] = "no"
    BY <1>3, <1>4, <1>7, <2>1, <2>2, <2>5 DEF Effect
  <2>. QED  BY <2>3, <2>4, <2>5
<1>10. Content'
  <2>1. ASSUME mode = "w", call # "write"
        PROVE  files'[fd] = uploaded /\ Behind(file_crc, uploaded)
    <3>1. call = "close" /\ req.type = "CLOSE"
      BY <1>6, <2>1 DEF CallFits, Fits
    <3>2. files' = files
      BY <1>3, <1>4, <3>1 DEF Effect
    <3>. QED  BY <1>6, <2>1, <3>2 DEF Content
  <2>2. ASSUME call = "write"
        PROVE  /\ files'[fd] = IF Executed' THEN Append(uploaded, req.chunk) ELSE uploaded
               /\ Behind(file_crc, Append(uploaded, req.chunk))
    <3>1. /\ files[fd] = uploaded /\ Behind(file_crc, Append(uploaded, req.chunk))
          /\ req.type = "WRITE" /\ req.file = fd /\ data.chunk = req.chunk
      BY <1>2, <1>5, <1>6, <2>2 DEF Content, CallFits
    <3>2. CASE o.ok
      <4>1. fd \in Files /\ files' = [files EXCEPT ![fd] = Append(@, req.chunk)]
        BY <1>3, <1>4, <3>1, <3>2 DEF Effect
      <4>. QED  BY <1>6, <1>7, <3>1, <3>2, <4>1
    <3>3. CASE ~o.ok
      <4>1. files' = files
        BY <1>3, <1>4, <3>3 DEF Effect
      <4>. QED  BY <1>6, <3>1, <3>3, <4>1
    <3>. QED  BY <3>2, <3>3
  <2>. QED  BY <1>5, <1>6, <2>1, <2>2 DEF Content
<1>. QED  BY <1>5, <1>8, <1>9, <1>10 DEF Account, OpenMeansOpen

LEMMA AccountStub ==
  ASSUME IInv, TypeInv, Account, ~abandoned', StubStep
  PROVE  Account'
<1>1. /\ UNCHANGED <<at, call, req, file_crc, fd, mode, uploaded, last, abandoned, flash_mode>>
      /\ InExchange' = InExchange
  BY DEF StubStep, StubZero, StubReady, StubFail, StubTaken, StubGo, StubSwitch, StubCall, StubDone, InExchange,
         hostVars, gdbVars, toldVars
<1>2. CASE StubZero
  <2>1. ~flash_mode
    BY <1>1, <1>2 DEF StubZero, StubMove, IInv, Serves, Serving
  <2>2. ~InExchange /\ at \notin {"deleted", "loaded"} /\ fd = NoHandle /\ mode = "no" /\ last.ok = FALSE
    BY <1>1, <2>1 DEF IInv, Unasked, Loading, InExchange, Account, Fits
  <2>. QED  BY <1>1, <2>1, <2>2 DEF Account, Fits, Content, Effected, OpenMeansOpen
<1>3. CASE StubReady \/ StubFail \/ StubTaken \/ StubGo \/ StubSwitch \/ StubDone
  <2>1. UNCHANGED <<files, opened, response, out>>
    BY <1>3 DEF StubReady, StubFail, StubTaken, StubGo, StubSwitch, StubDone, memVars, fsVars
  <2>. QED  BY <1>1, <2>1, AccountKept
<1>. QED  BY <1>1, <1>2, <1>3, AccountStubCall DEF StubStep

LEMMA AccountStep ==
  ASSUME IInv, TypeInv, Account, ~CrcAnytime, [Next]_vars
  PROVE  Account'
<1>1. CASE abandoned'
  BY <1>1 DEF Account
<1>2. CASE ~abandoned' /\ UNCHANGED vars
  <2>1. UNCHANGED <<at, call, req, file_crc, fd, mode, uploaded, last, abandoned, flash_mode,
                    files, opened, response, out>>
    BY <1>2 DEF vars, hostVars, memVars, fsVars, gdbVars, toldVars
  <2>2. InExchange' = InExchange
    BY <2>1 DEF InExchange
  <2>. QED  BY <2>1, <2>2, AccountKept
<1>3. CASE ~abandoned' /\ Next
  <2>1. ~Fail
    BY <1>3 DEF Fail
  <2>. QED  BY <1>3, <2>1, AccountCalls, AccountLoad, AccountTarget, AccountExchange, AccountReply, AccountStub
            DEF Next, Exchange
<1>. QED  BY <1>1, <1>2, <1>3

\* Calls, requests, files and what GDB was told agree, stage by stage of an exchange.
THEOREM Accounting ==
  ASSUME ~CrcAnytime
  PROVE  Spec => []Account
<1>1. Init => Account /\ TypeInv
  BY FlashAssumption, AccountInitially, TypeInitially
<1>2. IInv /\ TypeInv /\ Account /\ [Next]_vars => Account'
  BY AccountStep
<1>. QED  BY <1>1, <1>2, Invariance, TypeInvariance, PTL DEF Spec

\* While GDB writes a file it holds what GDB was told it wrote, and the debugger's CRC
\* is that of the file unless a write was refused (cc3200_flashfs.c:362).
THEOREM UploadCorrect ==
  ASSUME ~CrcAnytime
  PROVE  Spec => []UploadAccounted
<1>1. Account => UploadAccounted
  BY DEF Account, Content, UploadAccounted, InExchange, Behind
<1>. QED  BY <1>1, Accounting, PTL

\* As long as no exchange was given up, an open or close that succeeded is true.
THEOREM OpenCorrect ==
  ASSUME ~CrcAnytime
  PROVE  Spec => []OpenUntilAbandoned
<1>1. Account => OpenUntilAbandoned
  BY DEF Account, OpenUntilAbandoned
<1>. QED  BY <1>1, Accounting, PTL
=============================================================================
