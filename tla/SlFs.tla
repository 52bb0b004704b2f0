-------------------------------- MODULE SlFs --------------------------------
(***************************************************************************)
(* The SimpleLink serial-flash filesystem (sl_FsOpen, sl_FsClose, ...), as *)
(* far as the flash stub uses it (stubs/cc3200_flashstub/src/main.c).  A   *)
(* file's content is the sequence of the chunks written to it, its handle  *)
(* is its name, its CRC is its content: CRC-32 is taken not to collide.    *)
(***************************************************************************)
EXTENDS Sequences

CONSTANTS
  Files, Chunks,  \* file names, and the pieces of data GDB sends in one packet
  Absent,         \* the content of a file that does not exist
  NoHandle,       \* a file handle of 0
  FsFails         \* TRUE iff operations that could succeed also fail at times

Contents == Seq(Chunks) \cup {Absent}
Types == {"OPEN_READ", "OPEN_CREATE", "CLOSE", "READ", "WRITE", "DELETE", "CRC"}

Refused(files, opened) ==
  {[ok |-> FALSE, files |-> files, opened |-> opened, handle |-> NoHandle, content |-> <<>>]}

Done(files, opened, handle, content) ==
  {[ok |-> TRUE, files |-> files, opened |-> opened, handle |-> handle, content |-> content]}

Is(opened, f, mode) == f \in Files /\ opened[f] = mode

\* What an operation on file or handle f may do.
Possible(type, f, chunk, files, opened) ==
  CASE type = "OPEN_READ" /\ f \in Files /\ files[f] # Absent /\ opened[f] = "no" ->
         Done(files, [opened EXCEPT ![f] = "r"], f, <<>>)
    [] type = "OPEN_CREATE" /\ f \in Files /\ opened[f] = "no" ->
         Done([files EXCEPT ![f] = <<>>], [opened EXCEPT ![f] = "w"], f, <<>>)
    [] type = "CLOSE" /\ f \in Files /\ opened[f] # "no" ->
         Done(files, [opened EXCEPT ![f] = "no"], NoHandle, <<>>)
    [] type = "READ" /\ Is(opened, f, "r") -> Done(files, opened, NoHandle, files[f])
    [] type = "WRITE" /\ Is(opened, f, "w") ->
         Done([files EXCEPT ![f] = Append(@, chunk)], opened, NoHandle, <<>>)
    [] type = "DELETE" /\ Is(opened, f, "no") /\ files[f] # Absent ->
         Done([files EXCEPT ![f] = Absent], opened, NoHandle, <<>>)
    [] type = "CRC" /\ Is(opened, f, "no") /\ files[f] # Absent ->
         Done(files, opened, NoHandle, files[f])
    [] OTHER -> Refused(files, opened)

Outcomes(type, f, chunk, files, opened) ==
  Possible(type, f, chunk, files, opened)
    \cup (IF FsFails THEN Refused(files, opened) ELSE {})
=============================================================================
