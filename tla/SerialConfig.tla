---------------------------- MODULE SerialConfig ----------------------------
(***************************************************************************)
(* The configuration dialogue on the log socket, common/serialconfig.c:    *)
(* the user types lines, a task puts them together and follows them from   *)
(* command to prompt to answer, and changes the network profiles stored in *)
(* the network processor.  Each client of the log socket starts one more   *)
(* such task; all of them share the line buffer and the dialogue.          *)
(*                                                                         *)
(* A word is one character here, and a line a word and a newline.  Lines   *)
(* fit the buffer they are read into and the names and keys they are       *)
(* copied to: the answer to a key that is too long (serialconfig.c:207-211) *)
(* is left out, and so is what strcpy does with a name that is too long,   *)
(* which is complained of and copied all the same (:177-181).  A task      *)
(* reads a character, and handles the line it may complete, in one step:   *)
(* tasks of equal priority can interleave finer.                           *)
(***************************************************************************)
EXTENDS Naturals, Sequences, FiniteSetsExt

CONSTANTS
  Words,          \* what the user types
  MaxProfiles,    \* NUM_PROFILES_MAX
  BufSize,        \* SC_INPUT_MAXLEN
  WlanFails,      \* TRUE iff sl_WlanProfileAdd and -Del may fail
  MaxLines,       \* bound: lines typed
  MaxOpens        \* bound: clients of the log socket, one after the other

ASSUME SerialConfigAssumption ==
  /\ MaxProfiles \in Nat \ {0} /\ BufSize \in Nat \ {0, 1} /\ WlanFails \in BOOLEAN
  /\ MaxLines \in Nat /\ MaxOpens \in Nat

\* A word does not end the line, nor the string in the buffer.
ASSUME WordsAssumption == {"newline", "zero"} \cap Words = {}

Commands == {"network", "mac", "delete", "deleteall", "list", "help"}
Newline == "newline"
Zero == "zero"

VARIABLES
  rx,             \* characters in the log socket's receive buffer
  slot,           \* per task: where in rxbuf its get_char will put the next character
  rxbuf, rxbuf_i, statenum, current_operation,   \* serialconfig_state
  temp_ssid, temp_type, temp_key,
  profiles,       \* the network processor's profiles
  typed, handled, \* history: the last lines typed, and handled
  lines,          \* counter behind the bound
  cancelled       \* history: a deleteall was answered with something else than Y

bufVars == <<rx, slot, rxbuf, rxbuf_i>>
tempVars == <<temp_ssid, temp_type, temp_key>>
dialogueVars == <<statenum, current_operation, tempVars, profiles, handled, cancelled>>
typedVars == <<typed, lines>>
vars == <<bufVars, dialogueVars, typedVars>>

\* A dialogue has at most four lines.
Remember(history, line) ==
  LET h == Append(history, line) IN IF Len(h) > 4 THEN Tail(h) ELSE h

Tasks == DOMAIN slot
Unstarted == BufSize + 1

Init ==
  /\ rx = <<>> /\ slot = <<>>
  /\ rxbuf = [k \in 0..(BufSize - 1) |-> Zero] /\ rxbuf_i = 0
  /\ statenum = "COMMAND" /\ current_operation = "none"
  /\ temp_ssid = <<>> /\ temp_type = "OPEN" /\ temp_key = <<>>
  /\ profiles = {} /\ typed = <<>> /\ handled = <<>> /\ cancelled = FALSE /\ lines = 0

-----------------------------------------------------------------------------
(* The profiles.                                                           *)

Names(ps) == {p.ssid : p \in ps}
\* A call may fail and leave the profiles as they were.
MayFail(ps) == {ps} \cup (IF WlanFails THEN {profiles} ELSE {})

\* Slip: nobody looks whether there is room.
AddedAnyway(p) == MayFail({q \in profiles : q.ssid # p.ssid} \cup {p})
\* check_add_profile_space, and sl_WlanProfileAdd, which replaces one of the same name.
Added(p) ==
  IF p.ssid \in Names(profiles) \/ Cardinality(profiles) < MaxProfiles
  THEN MayFail({q \in profiles : q.ssid # p.ssid} \cup {p})
  ELSE {profiles}

Deleted(ssid) == MayFail({q \in profiles : q.ssid # ssid})

-----------------------------------------------------------------------------
(* The commands, given the line.  Each prompt is left out with the text    *)
(* that is only displayed.                                                 *)

\* Slip: the key is not taken over before it is used.
CommitOldKey(ty, key) == profiles' \in Added([ssid |-> temp_ssid, type |-> ty, key |-> temp_key])
Commit(ty, key) == profiles' \in Added([ssid |-> temp_ssid, type |-> ty, key |-> key])

\* An open network is committed at once, with the key of some network before; then
\* its key is asked for like any other's, and it is committed again.
AddOpen(line) ==
  /\ statenum = "GET_TYPE" /\ line = <<"OPEN">>
  /\ statenum' = "GET_KEY" /\ temp_type' = "OPEN" /\ Commit("OPEN", temp_key)
  /\ UNCHANGED <<temp_ssid, temp_key>>

sc_cmd_add(line) ==
  \/ /\ statenum = "COMMAND" /\ statenum' = "ADDNEWORK_GET_SSID" /\ UNCHANGED <<tempVars, profiles>>
  \/ /\ statenum = "ADDNEWORK_GET_SSID" /\ statenum' = "GET_TYPE"
     /\ temp_ssid' = line /\ UNCHANGED <<temp_type, temp_key, profiles>>
  \/ /\ statenum = "GET_TYPE" /\ line \in {<<"WPA">>, <<"WEP">>} /\ statenum' = "GET_KEY"
     /\ temp_type' = line[1] /\ UNCHANGED <<temp_ssid, temp_key, profiles>>
  \/ AddOpen(line)
  \/ /\ statenum = "GET_TYPE" /\ line \notin {<<"OPEN">>, <<"WPA">>, <<"WEP">>}
     /\ statenum' = "COMMAND" /\ UNCHANGED <<tempVars, profiles>>
  \/ /\ statenum = "GET_KEY" /\ statenum' = "COMMAND"
     /\ temp_key' = line /\ Commit(temp_type, line) /\ UNCHANGED <<temp_ssid, temp_type>>

sc_cmd_del(line) ==
  /\ \/ /\ statenum = "COMMAND" /\ statenum' = "DELETENEWORK_GET_SSID"
        /\ UNCHANGED <<temp_ssid, profiles>>
     \/ /\ statenum = "DELETENEWORK_GET_SSID" /\ statenum' = "DELETENETWORK_CONFIRM"
        /\ temp_ssid' = line /\ UNCHANGED profiles
     \/ /\ statenum = "DELETENETWORK_CONFIRM" /\ statenum' = "COMMAND"
        /\ profiles' \in IF line = <<"Y">> THEN Deleted(temp_ssid) ELSE {profiles}
        /\ UNCHANGED temp_ssid
  /\ UNCHANGED <<temp_type, temp_key>>

\* An answer other than Y is "Cancelled.", and the question stays open.
sc_cmd_delall(line) ==
  /\ IF statenum = "COMMAND" THEN statenum' = "CONFIRM_DEL_ALL" /\ UNCHANGED profiles
     ELSE IF line = <<"Y">> THEN statenum' = "COMMAND" /\ profiles' \in MayFail({})
     ELSE UNCHANGED <<statenum, profiles>>
  /\ UNCHANGED tempVars

\* list, help and mac only display something.
sc_cmd_show == UNCHANGED <<statenum, tempVars, profiles>>

Execute(command, line) ==
  CASE command = "network" -> sc_cmd_add(line)
    [] command = "delete" -> sc_cmd_del(line)
    [] command = "deleteall" -> sc_cmd_delall(line)
    [] OTHER -> sc_cmd_show

HandleMessage(line) ==
  /\ IF statenum # "COMMAND" THEN Execute(current_operation, line) /\ UNCHANGED current_operation
     ELSE IF \E c \in Commands : line = <<c>>
       THEN Execute(line[1], line) /\ current_operation' = line[1]
       ELSE UNCHANGED <<statenum, tempVars, profiles, current_operation>>
  /\ handled' = Remember(handled, line)
  /\ cancelled' = (cancelled \/ (statenum = "CONFIRM_DEL_ALL" /\ line # <<"Y">>))

-----------------------------------------------------------------------------
(* Task_SerialConfig.                                                      *)

TaskStart(t) ==
  /\ slot[t] = Unstarted
  /\ slot' = [slot EXCEPT ![t] = rxbuf_i] /\ rxbuf_i' = rxbuf_i + 1
  /\ UNCHANGED <<rx, rxbuf, dialogueVars, typedVars>>

\* The string at the start of the buffer, up to its first 0.
String(buf) ==
  LET n == Min({k \in DOMAIN buf : buf[k] = Zero}) IN [k \in 1..n |-> buf[k - 1]]

\* Slip: the index is not reset.
NextIndexKept == rxbuf_i
\* Where the next line starts.
NextIndex == 0

\* The task looks at the place before rxbuf_i, which is where it put the character
\* if no other task has moved rxbuf_i.  Nothing is followed past the buffer's end.
GetChar(t) ==
  /\ rx # <<>> /\ slot[t] < BufSize /\ rxbuf_i < BufSize
  /\ rx' = Tail(rx)
  /\ LET buf == [rxbuf EXCEPT ![slot[t]] = Head(rx)]
         done == buf[rxbuf_i - 1] = Newline
         i == IF done THEN NextIndex ELSE rxbuf_i
     IN /\ rxbuf' = IF done THEN [buf EXCEPT ![rxbuf_i - 1] = Zero] ELSE buf
        /\ IF done THEN HandleMessage(String(rxbuf')) ELSE UNCHANGED dialogueVars
        /\ slot' = [slot EXCEPT ![t] = i] /\ rxbuf_i' = i + 1
  /\ UNCHANGED typedVars

-----------------------------------------------------------------------------
(* The socket server and the user.                                         *)

\* serialconfig_start, called when a client has opened the log socket.
Open ==
  /\ Len(slot) < MaxOpens
  /\ slot' = Append(slot, Unstarted) /\ statenum' = "COMMAND"
  /\ UNCHANGED <<rx, rxbuf, rxbuf_i, current_operation, tempVars, profiles, handled, cancelled,
                 typedVars>>

Type(w) ==
  /\ slot # <<>> /\ rx = <<>> /\ lines < MaxLines
  /\ rx' = <<w, Newline>> /\ typed' = Remember(typed, <<w>>) /\ lines' = lines + 1
  /\ UNCHANGED <<slot, rxbuf, rxbuf_i, dialogueVars>>

Next ==
  \/ \E t \in Tasks : TaskStart(t) \/ GetChar(t)
  \/ Open
  \/ \E w \in Words : Type(w)

Spec == Init /\ [][Next]_vars

-----------------------------------------------------------------------------
States == {"COMMAND", "ADDNEWORK_GET_SSID", "GET_TYPE", "GET_KEY", "DELETENEWORK_GET_SSID",
           "DELETENETWORK_CONFIRM", "CONFIRM_DEL_ALL"}

\* Types; a name has one profile, of which there are no more than there is room for;
\* and the first client's task stays in the line buffer.
TypeOK ==
  /\ statenum \in States /\ current_operation \in Commands \cup {"none"}
  /\ Cardinality(profiles) = Cardinality(Names(profiles))
  /\ Cardinality(profiles) <= MaxProfiles
  /\ rxbuf_i \in Nat /\ (Len(slot) = 1 => rxbuf_i <= BufSize)

\* What the user types is handled as it was typed, line by line.  UserGuide.md:134:
\* "When a connection to the Log port is opened, you should see log information
\* appearing on-screen. Now you can issue network configuration commands."
Quiet == rx = <<>> /\ \A t \in Tasks : slot[t] # Unstarted
LinesHandled == Quiet => handled = typed

\* That is so for the first client of the log socket, until there is a second.
LinesHandledAtFirst == Len(slot) = 1 => LinesHandled

\* The profiles change only as the dialogue just completed says, from its command to
\* its last answer, and the others stay.  A deleteall that was cancelled stays open
\* for some later Y.
EndsIn(s) == Len(handled') >= Len(s) /\ SubSeq(handled', Len(handled') - Len(s) + 1, Len(handled')) = s
Justified ==
  \/ \E p \in profiles' :
       /\ \/ EndsIn(<<<<"network">>, p.ssid, <<p.type>>, p.key>>)
          \/ p.type = "OPEN" /\ EndsIn(<<<<"network">>, p.ssid, <<"OPEN">>>>)
       /\ profiles' \ {p} = {q \in profiles : q.ssid # p.ssid}
  \/ \E q \in profiles :
       EndsIn(<<<<"delete">>, q.ssid, <<"Y">>>>) /\ profiles' = profiles \ {q}
  \/ (EndsIn(<<<<"deleteall">>, <<"Y">>>>) \/ cancelled) /\ profiles' = {}
ChangedAsAsked == [][profiles' # profiles => Len(slot) > 1 \/ Justified]_vars
=============================================================================
