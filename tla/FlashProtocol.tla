--------------------------- MODULE FlashProtocol ---------------------------
(***************************************************************************)
(* Flash operations on the target: target/cc3200/cc3200_flashfs.c in the   *)
(* debugger and stubs/cc3200_flashstub/src/main.c on the target, two       *)
(* programs that run truly in parallel and share a region of target RAM.   *)
(* The debugger writes it over JTAG: a command, its arguments and data,    *)
(* then command_sync; it polls response_sync and reads the answer.         *)
(***************************************************************************)
EXTENDS SlFs, Naturals

CONSTANTS
  JtagFails,      \* TRUE iff a memory access over JTAG may fail
  CrcAnytime,     \* TRUE iff the user may ask for checkcrc out of flash mode
  Kills,          \* TRUE iff GDB may send 'k', which resets the target
  MaxRequests,    \* bound: requests made
  MaxAfter,       \* bound: the same once an exchange has been given up
  MaxChunks,      \* bound: chunks in a file
  None

ASSUME FlashAssumption ==
  /\ JtagFails \in BOOLEAN /\ CrcAnytime \in BOOLEAN /\ Kills \in BOOLEAN
  /\ FsFails \in BOOLEAN
  /\ NoHandle \notin Files /\ MaxRequests \in Nat /\ MaxAfter \in Nat /\ MaxChunks \in Nat

VARIABLES
  at,             \* where the debugger is
  call,           \* the target_al operation GDB asked for
  req,            \* the request of the exchange going on, with its number
  flash_mode,     \* cc3200_state.flash_mode
  file_crc,       \* cc3200_flashfs_state.file_crc
  command, args, data,         \* the shared region: the request each came from
  response, out,  \* response.retval, with its request; what came back in args or data
  command_sync, response_sync,
  stub, type,     \* where the stub is; the command type its switch took
  running,        \* the target's core runs: FALSE while it is halted
  files, opened,  \* the target's filesystem
  fd, mode,       \* GDB's open file
  uploaded,       \* history: the chunks GDB was told it wrote to its last new file
  last,           \* history: the last operation and what GDB was told
  abandoned       \* history: an exchange was given up when an access failed, or the
                  \* target reset in flash mode

hostVars == <<at, call, req>>
memVars  == <<command, args, data, response, out>>
syncVars == <<command_sync, response_sync>>
stubVars == <<stub, type, running>>
fsVars   == <<files, opened>>
toldVars == <<fd, mode, uploaded, last>>
gdbVars  == <<toldVars, abandoned>>
vars == <<hostVars, flash_mode, file_crc, memVars, syncVars, stubVars, fsVars, gdbVars>>

Syncs == {"UNINIT", "WAIT", "READY"}
Request(n, ty, f, c) == [id |-> n, type |-> ty, file |-> f, chunk |-> c]
NoRequest == Request(0, "CLOSE", NoHandle, None)

\* Which requests carry something in the data area, and which answer there.
WithData == {"OPEN_READ", "OPEN_CREATE", "WRITE", "DELETE", "CRC"}
WithOut == {"OPEN_READ", "OPEN_CREATE", "READ", "CRC"}

Init ==
  /\ at = "idle" /\ call = "none" /\ req = NoRequest
  /\ flash_mode = FALSE /\ file_crc = <<>>
  /\ command = NoRequest /\ args = NoRequest /\ data = NoRequest
  /\ response = [to |-> 0, ok |-> FALSE] /\ out = [handle |-> NoHandle, content |-> <<>>]
  /\ command_sync \in Syncs /\ response_sync \in Syncs   \* whatever is in the RAM
  /\ stub = "none" /\ type = "CLOSE" /\ running = FALSE
  /\ files \in [Files -> {Absent, <<>>}] /\ opened = [f \in Files |-> "no"]
  /\ fd = NoHandle /\ mode = "no" /\ uploaded = <<>> /\ abandoned = FALSE
  /\ last = [call |-> "none", file |-> NoHandle, ok |-> FALSE, content |-> <<>>]

-----------------------------------------------------------------------------
(* The calls, as the GDB server makes them within target_al.h's            *)
(* preconditions: one file open at a time.                                 *)

Begin(c, ty, f, ch) ==
  /\ call' = c
  /\ req' = Request(req.id + 1, ty, f, ch)
  /\ at' = "command"

May == at = "idle" /\ req.id < IF abandoned THEN MaxAfter ELSE MaxRequests

\* cc3200_flashfs_al_open: creating deletes the file first, whether it exists or not.
CallOpen ==
  /\ May /\ flash_mode /\ fd = NoHandle
  /\ \E f \in Files :
       \/ Begin("open_read", "OPEN_READ", f, None) /\ file_crc' = <<>>
       \/ Begin("open_create", "DELETE", f, None) /\ file_crc' = file_crc
  /\ UNCHANGED <<flash_mode, memVars, syncVars, stubVars, fsVars, gdbVars>>

\* ... and opens it whatever came of that; cc3200_flashfs_open resets the CRC.
CallOpenCreated ==
  /\ at = "deleted"
  /\ Begin("open_create", "OPEN_CREATE", req.file, None)
  /\ file_crc' = <<>>
  /\ UNCHANGED <<flash_mode, memVars, syncVars, stubVars, fsVars, gdbVars>>

CallClose ==
  /\ May /\ flash_mode /\ fd # NoHandle
  /\ Begin("close", "CLOSE", fd, None)
  /\ UNCHANGED <<flash_mode, file_crc, memVars, syncVars, stubVars, fsVars, gdbVars>>

CallRead ==
  /\ May /\ flash_mode /\ mode = "r"
  /\ Begin("read", "READ", fd, None)
  /\ UNCHANGED <<flash_mode, file_crc, memVars, syncVars, stubVars, fsVars, gdbVars>>

\* Slip: the CRC is not updated with what is written.
CallWriteNoCrc ==
  /\ May /\ flash_mode /\ mode = "w"
  /\ \E c \in Chunks : Begin("write", "WRITE", fd, c)
  /\ UNCHANGED <<file_crc, flash_mode, memVars, syncVars, stubVars, fsVars, gdbVars>>

\* The CRC is updated before the data is written.
CallWrite ==
  /\ May /\ flash_mode /\ mode = "w" /\ Len(file_crc) < MaxChunks
  /\ \E c \in Chunks : Begin("write", "WRITE", fd, c) /\ file_crc' = Append(file_crc, c)
  /\ UNCHANGED <<flash_mode, memVars, syncVars, stubVars, fsVars, gdbVars>>

\* "monitor checkcrc=", the one operation that does not ask for flash mode.
CallCheckCrc ==
  /\ May /\ fd = NoHandle /\ (flash_mode \/ CrcAnytime)
  /\ \E f \in Files : Begin("checkcrc", "CRC", f, None)
  /\ UNCHANGED <<flash_mode, file_crc, memVars, syncVars, stubVars, fsVars, gdbVars>>

\* cc3200_flashfs_al_delete in flash mode; out of it, it loads the stub first.
CallDelete ==
  /\ May /\ flash_mode /\ fd = NoHandle
  /\ \E f \in Files : Begin("delete", "DELETE", f, None)
  /\ UNCHANGED <<flash_mode, file_crc, memVars, syncVars, stubVars, fsVars, gdbVars>>

CallDeleteLoaded ==
  /\ at = "loaded"
  /\ Begin("delete", "DELETE", req.file, None)
  /\ UNCHANGED <<flash_mode, file_crc, memVars, syncVars, stubVars, fsVars, gdbVars>>

Calls ==
  CallOpen \/ CallClose \/ CallRead \/ CallWrite \/ CallCheckCrc \/ CallDelete

-----------------------------------------------------------------------------
(* cc3200_flashfs_loadstub, for "monitor flashmode=1" or for a delete.      *)

LoadBegin ==
  /\ at = "idle" /\ ~flash_mode /\ at' = "load"
  /\ \/ call' = "flashmode" /\ req' = req
     \/ May /\ call' = "delete" /\ \E f \in Files : req' = Request(req.id, "DELETE", f, None)
  /\ UNCHANGED <<flash_mode, file_crc, memVars, syncVars, stubVars, fsVars, gdbVars>>

\* Slip: what response_sync happens to hold is taken for an answer.
LoadUninitSkipped ==
  /\ at = "load" /\ at' = "start"
  /\ UNCHANGED <<call, req, flash_mode, file_crc, memVars, syncVars, stubVars, fsVars, gdbVars>>

LoadUninit ==
  /\ at = "load" /\ at' = "start"
  /\ response_sync' = "UNINIT"
  /\ UNCHANGED <<call, req, flash_mode, file_crc, memVars, command_sync, stubVars, fsVars,
                 gdbVars>>

\* The registers are written on a halted core only.
LoadStart ==
  /\ at = "start" /\ ~running /\ at' = "await"
  /\ stub' = "zero" /\ running' = TRUE /\ type' = type
  /\ UNCHANGED <<call, req, flash_mode, file_crc, memVars, syncVars, fsVars, gdbVars>>

LoadAwait ==
  /\ at = "await" /\ response_sync = "READY" /\ at' = "started"
  /\ UNCHANGED <<call, req, flash_mode, file_crc, memVars, syncVars, stubVars, fsVars, gdbVars>>

LoadDone ==
  /\ at = "started" /\ at' = IF call = "delete" THEN "loaded" ELSE "idle"
  /\ response_sync' = "WAIT" /\ flash_mode' = TRUE
  /\ UNCHANGED <<call, req, file_crc, memVars, command_sync, stubVars, fsVars, gdbVars>>

\* What GDB is told of a load that failed.
LoadFailed ==
  /\ at' = "idle" /\ abandoned' = abandoned
  /\ last' = IF call = "delete"
               THEN [call |-> call, file |-> req.file, ok |-> FALSE, content |-> out.content]
               ELSE last
  /\ UNCHANGED <<call, req, flash_mode, file_crc, memVars, syncVars, type, fsVars, fd, mode,
                 uploaded>>

LoadRefused ==
  /\ at = "start" /\ running
  /\ LoadFailed
  /\ UNCHANGED <<stub, running>>

\* RETURN_ERROR on any access that fails.  The registers may have been written, and
\* target_continue may have let the stub run, before it failed.
LoadFail ==
  /\ JtagFails /\ at \in {"load", "start", "await", "started"}
  /\ LoadFailed
  /\ \/ UNCHANGED <<stub, running>>
     \/ at = "start" /\ ~running /\ stub' = "zero" /\ running' \in BOOLEAN

Load ==
  LoadBegin \/ LoadUninit \/ LoadStart \/ LoadAwait \/ LoadDone \/ LoadRefused \/ LoadFail

-----------------------------------------------------------------------------
(* What GDB may do to the target between two operations, in flash mode or   *)
(* not: Ctrl-C halts it, "c" lets it go on, "k" resets it.                  *)

TargetHalt ==
  /\ at = "idle" /\ running /\ running' = FALSE
  /\ UNCHANGED <<hostVars, flash_mode, file_crc, memVars, syncVars, stub, type, fsVars, gdbVars>>

TargetContinue ==
  /\ at = "idle" /\ ~running /\ running' = TRUE
  /\ UNCHANGED <<hostVars, flash_mode, file_crc, memVars, syncVars, stub, type, fsVars, gdbVars>>

\* The program the reset starts uses the RAM as it likes; flash_mode stays.
TargetReset ==
  /\ at = "idle" /\ Kills /\ stub # "none"
  /\ stub' = "none" /\ running' = TRUE
  /\ command_sync' \in Syncs /\ response_sync' \in Syncs
  /\ opened' = [f \in Files |-> "no"]
  /\ abandoned' = (abandoned \/ flash_mode)
  /\ UNCHANGED <<hostVars, flash_mode, file_crc, memVars, type, files, toldVars>>

Target == TargetHalt \/ TargetContinue \/ TargetReset

-----------------------------------------------------------------------------
(* The exchange, the same in all six cc3200_flashfs_ functions.            *)

WriteCommand ==
  /\ at = "command" /\ at' = "args"
  /\ command' = req
  /\ UNCHANGED <<call, req, flash_mode, file_crc, args, data, response, out, syncVars, stubVars,
                 fsVars, gdbVars>>

\* Slip: the command is announced before its data is in place.
WriteArgsAnnounced ==
  /\ at = "args" /\ at' = IF req.type \in WithData THEN "data" ELSE "go"
  /\ args' = req
  /\ command_sync' = "READY"
  /\ UNCHANGED <<call, req, flash_mode, file_crc, command, data, response, out, response_sync,
                 stubVars, fsVars, gdbVars>>

WriteArgs ==
  /\ at = "args" /\ at' = IF req.type \in WithData THEN "data" ELSE "go"
  /\ args' = req
  /\ out' = [handle |-> NoHandle, content |-> IF req.type = "CRC" THEN <<>> ELSE out.content]
  /\ UNCHANGED <<call, req, flash_mode, file_crc, command, data, response, syncVars, stubVars,
                 fsVars, gdbVars>>

WriteData ==
  /\ at = "data" /\ at' = "go"
  /\ data' = req
  /\ UNCHANGED <<call, req, flash_mode, file_crc, command, args, response, out, syncVars,
                 stubVars, fsVars, gdbVars>>

Go ==
  /\ at = "go" /\ at' = "poll"
  /\ command_sync' = "READY"
  /\ UNCHANGED <<call, req, flash_mode, file_crc, memVars, response_sync, stubVars, fsVars,
                 gdbVars>>

Poll ==
  /\ at = "poll" /\ response_sync = "READY" /\ at' = "take"
  /\ UNCHANGED <<call, req, flash_mode, file_crc, memVars, syncVars, stubVars, fsVars, gdbVars>>

\* Slip: response_sync is left as it is.
TakeNoReset ==
  /\ at = "take" /\ at' = "reply"
  /\ UNCHANGED <<call, req, flash_mode, file_crc, memVars, syncVars, stubVars, fsVars, gdbVars>>

Take ==
  /\ at = "take" /\ at' = "reply"
  /\ response_sync' = "WAIT"
  /\ UNCHANGED <<call, req, flash_mode, file_crc, memVars, command_sync, stubVars, fsVars,
                 gdbVars>>

\* What GDB is told, and what it makes of it.
Tell(ok) ==
  /\ last' = [call |-> call, file |-> req.file, ok |-> ok, content |-> out.content]
  /\ fd' = IF call \in {"open_read", "open_create"} /\ ok THEN out.handle
           ELSE IF call = "close" THEN NoHandle ELSE fd
  /\ mode' = IF call = "open_read" /\ ok THEN "r"
             ELSE IF call = "open_create" /\ ok THEN "w"
             ELSE IF call = "close" THEN "no" ELSE mode
  /\ uploaded' = IF call = "open_create" /\ ok THEN <<>>
                 ELSE IF call = "write" /\ ok THEN Append(uploaded, req.chunk)
                 ELSE uploaded

ThenOpen == call = "open_create" /\ req.type = "DELETE"

\* cc3200_flashfs_checkcrc reads the CRC the stub computed.  When the stub
\* failed, it leaves the caller's variable as it found it and says success.
CrcResult ==
  IF response.ok THEN {file_crc = out.content} ELSE BOOLEAN

Reply ==
  /\ at = "reply"
  /\ IF ThenOpen
       THEN at' = "deleted" /\ UNCHANGED gdbVars
       ELSE /\ at' = "idle" /\ abandoned' = abandoned
            /\ IF call = "checkcrc" THEN \E r \in CrcResult : Tell(r) ELSE Tell(response.ok)
  /\ UNCHANGED <<call, req, flash_mode, file_crc, memVars, syncVars, stubVars, fsVars>>

\* RETURN_ERROR on any access that fails; al_open does not mind in the delete.
Fail ==
  /\ JtagFails /\ at \in {"command", "args", "data", "go", "poll", "take", "reply"}
  /\ IF ThenOpen
       THEN at' = "deleted" /\ UNCHANGED toldVars
       ELSE at' = "idle" /\ Tell(FALSE)
  /\ abandoned' = TRUE
  /\ UNCHANGED <<call, req, flash_mode, file_crc, memVars, syncVars, stubVars, fsVars>>

Exchange ==
  CallOpenCreated \/ CallDeleteLoaded \/ WriteCommand \/ WriteArgs \/ WriteData \/ Go \/ Poll \/ Take \/ Reply

-----------------------------------------------------------------------------
(* The stub.  Its loop waits for the debugger to have taken the previous   *)
(* answer, then for a command.                                             *)

StubMove(from, to) == running /\ stub = from /\ stub' = to /\ running' = running

StubZero ==
  /\ StubMove("zero", "init")
  /\ command' = NoRequest /\ response' = [to |-> 0, ok |-> FALSE]
  /\ command_sync' = "UNINIT" /\ response_sync' = "UNINIT"
  /\ UNCHANGED <<hostVars, flash_mode, file_crc, args, data, out, type, fsVars, gdbVars>>

StubReady ==
  /\ StubMove("init", "taken")
  /\ response_sync' = "READY"
  /\ UNCHANGED <<hostVars, flash_mode, file_crc, memVars, command_sync, type, fsVars, gdbVars>>

\* sl_Start fails: main returns, and the debugger is never told.
StubFail ==
  /\ StubMove("init", "failed")
  /\ UNCHANGED <<hostVars, flash_mode, file_crc, memVars, syncVars, type, fsVars, gdbVars>>

StubTaken ==
  /\ StubMove("taken", "wait") /\ response_sync = "WAIT"
  /\ UNCHANGED <<hostVars, flash_mode, file_crc, memVars, syncVars, type, fsVars, gdbVars>>

\* Slip: command_sync is not reset, so the command runs again.
StubGoNoReset ==
  /\ StubMove("wait", "switch") /\ command_sync = "READY"
  /\ UNCHANGED <<hostVars, flash_mode, file_crc, memVars, syncVars, type, fsVars, gdbVars>>

StubGo ==
  /\ StubMove("wait", "switch") /\ command_sync = "READY"
  /\ command_sync' = "WAIT"
  /\ UNCHANGED <<hostVars, flash_mode, file_crc, memVars, response_sync, type, fsVars, gdbVars>>

StubSwitch ==
  /\ StubMove("switch", "call")
  /\ type' = command.type
  /\ UNCHANGED <<hostVars, flash_mode, file_crc, memVars, syncVars, fsVars, gdbVars>>

\* What is in the region means what the command says it means: an FD_OPEN takes
\* its mode from the arguments; a file is named by a handle in them, or by a name
\* in the data.  Arguments laid out for another command name no file.
Layout(ty) == CASE ty \in {"OPEN_READ", "OPEN_CREATE"} -> "open"
                [] ty \in {"DELETE", "CRC"} -> "name"
                [] OTHER -> "handle"
Meant == IF Layout(type) = "open" /\ Layout(args.type) = "open" THEN args.type ELSE type
StubFile ==
  IF Layout(args.type) # Layout(type) THEN NoHandle
  ELSE IF Layout(type) = "handle" THEN args.file
  ELSE IF Layout(data.type) = Layout(type) THEN data.file ELSE NoHandle

StubCall ==
  /\ StubMove("call", "done")
  /\ \E o \in Outcomes(Meant, StubFile, data.chunk, files, opened) :
       /\ files' = o.files /\ opened' = o.opened
       /\ response' = [to |-> args.id, ok |-> o.ok]
       /\ out' = IF Meant \in WithOut /\ o.ok THEN [handle |-> o.handle, content |-> o.content]
                                             ELSE out
  /\ UNCHANGED <<hostVars, flash_mode, file_crc, command, args, data, syncVars, type, gdbVars>>

\* Slip: a command that failed is not answered.
StubDoneSuccess ==
  /\ StubMove("done", "taken")
  /\ response_sync' = IF response.ok THEN "READY" ELSE response_sync
  /\ UNCHANGED <<hostVars, flash_mode, file_crc, memVars, command_sync, type, fsVars, gdbVars>>

StubDone ==
  /\ StubMove("done", "taken")
  /\ response_sync' = "READY"
  /\ UNCHANGED <<hostVars, flash_mode, file_crc, memVars, command_sync, type, fsVars, gdbVars>>

StubStep ==
  StubZero \/ StubReady \/ StubFail \/ StubTaken \/ StubGo \/ StubSwitch \/ StubCall \/ StubDone

-----------------------------------------------------------------------------
Next == Calls \/ Load \/ Target \/ Exchange \/ Fail \/ StubStep

Spec == Init /\ [][Next]_vars

\* The debugger's task polls once a tick; the stub's processor runs unless halted, and
\* the filesystem calls return.
FairSpec ==
  /\ Spec
  /\ WF_vars(Exchange) /\ WF_vars(LoadUninit \/ LoadStart \/ LoadRefused \/ LoadAwait \/ LoadDone)
  /\ WF_vars(StubStep)

-----------------------------------------------------------------------------
Ats == {"idle", "load", "start", "await", "started", "command", "args", "data", "go", "poll",
        "take", "reply", "deleted", "loaded"}
Requests == [id : Nat, type : Types, file : Files \cup {NoHandle}, chunk : Chunks \cup {None}]

\* Type correctness of both programs, the shared region and the filesystem.  After
\* an exchange was given up, what is written may be none of the data GDB sent.
Pieces == Chunks \cup {None}
TypeOK ==
  /\ at \in Ats /\ req \in Requests /\ flash_mode \in BOOLEAN /\ file_crc \in Seq(Pieces)
  /\ command \in Requests /\ args \in Requests /\ data \in Requests
  /\ response.to \in Nat /\ response.ok \in BOOLEAN
  /\ out.handle \in Files \cup {NoHandle} /\ out.content \in Seq(Pieces)
  /\ command_sync \in Syncs /\ response_sync \in Syncs
  /\ stub \in {"none", "zero", "init", "failed", "taken", "wait", "switch", "call", "done"}
  /\ running \in BOOLEAN
  /\ type \in Types
  /\ files \in [Files -> Seq(Pieces) \cup {Absent}] /\ opened \in [Files -> {"no", "r", "w"}]
  /\ fd \in Files \cup {NoHandle} /\ mode \in {"no", "r", "w"} /\ uploaded \in Seq(Pieces)
  /\ abandoned \in BOOLEAN

\* The stub never works on a half-written request: from taking a command to
\* answering it, the command, its arguments and its data are those of the one
\* request the debugger is waiting on; until an exchange is given up half-way,
\* for one that was is still being answered while the next is written.
NoTornCommand ==
  ~abandoned /\ stub \in {"switch", "call"} =>
    /\ command = req /\ args = req
    /\ req.type \in WithData => data = req
    /\ stub = "call" => type = req.type

\* The answer the debugger takes is the answer to what it asked, until then.
ResponseIsOwn == ~abandoned /\ at \in {"take", "reply"} => response.to = req.id

\* target_al.h:379, :396: after an open that succeeded the file is open, in the
\* mode asked for; after a close that succeeded it is not.
OpenMeansOpen ==
  at = "idle" /\ last.ok =>
    /\ last.call \in {"open_read", "open_create"} => opened[last.file] = mode
    /\ last.call = "close" => opened[last.file] = "no"

\* Flash mode is entered only with the stub of this very load initialised, running and
\* without a command, whatever an earlier run left in the target's RAM
\* (cc3200_flashfs.c:116-136).
EntersFlashModeReady ==
  [][~flash_mode /\ flash_mode' => running /\ stub = "taken" /\ command_sync = "UNINIT"]_vars

\* While GDB writes a file, the file holds what GDB was told it wrote, and the
\* CRC the debugger keeps is that of the file unless a write was refused, in
\* which case it is not: a check right after the transfer is to be trusted.
UploadAccounted ==
  ~abandoned /\ at = "idle" /\ mode = "w" =>
    /\ files[fd] = uploaded
    /\ file_crc = uploaded \/ Len(file_crc) > Len(uploaded)

\* Each target_al request is one exactly-once operation on the filesystem, until
\* an exchange is given up.
InExchange == at \in {"command", "args", "data", "go", "poll", "take", "reply"}
Answer ==
  LET told == response.ok /\ req.type \in WithOut IN
  [ok |-> response.ok, handle  |-> IF told THEN out.handle ELSE NoHandle,
                       content |-> IF told THEN out.content ELSE <<>>]
Service == INSTANCE FlashService WITH
  phase   <- IF ~InExchange THEN "idle" ELSE IF response.to = req.id THEN "done" ELSE "called",
  request <- IF InExchange THEN req ELSE NoRequest,
  answer  <- IF InExchange /\ response.to = req.id THEN Answer ELSE None,
  reliable <- ~abandoned
IsAService == Service!Spec

\* The debugger polls for a stub that will not answer: it could not start, the user
\* halted it before asking, or a reset made an end of it.
PollsForNothing ==
  at \in {"await", "poll"} /\ (~running \/ stub \in {"none", "failed"})

\* Every operation GDB asks for returns, loading the stub included, unless there is no
\* stub to answer; also when an earlier one was given up half-way.
CallReturns == at # "idle" ~> at = "idle" \/ PollsForNothing
=============================================================================
