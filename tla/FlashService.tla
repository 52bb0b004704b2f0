---------------------------- MODULE FlashService ----------------------------
(***************************************************************************)
(* What the flash operations promise their caller, the GDB server          *)
(* (target/target_al.h:330-416): one request at a time, carried out on the *)
(* target's filesystem exactly once between its call and its return, and   *)
(* answered with its own outcome.                                          *)
(***************************************************************************)
EXTENDS SlFs

VARIABLES
  phase,          \* "idle", "called", "done"
  request,        \* the request, meaningful unless idle
  answer,         \* its outcome, once done
  files, opened,  \* the filesystem
  reliable        \* nothing is promised once this is FALSE

vars == <<phase, request, answer, files, opened>>

Init ==
  /\ phase = "idle"
  /\ files \in [Files -> Contents] /\ opened = [f \in Files |-> "no"]

Call ==
  /\ phase = "idle" /\ phase' = "called"
  /\ UNCHANGED <<files, opened>>

Execute ==
  /\ phase = "called" /\ phase' = "done"
  /\ \E o \in Outcomes(request.type, request.file, request.chunk, files, opened) :
       /\ files' = o.files /\ opened' = o.opened
       /\ answer' = [ok |-> o.ok, handle |-> o.handle, content |-> o.content]
  /\ request' = request

Return ==
  /\ phase = "done" /\ phase' = "idle"
  /\ UNCHANGED <<files, opened>>

Next == ~reliable' \/ Call \/ Execute \/ Return

Spec == Init /\ [][Next]_vars
=============================================================================
