------------------------- MODULE SerialConfigProofs -------------------------
(***************************************************************************)
(* For every set of words, size of the line buffer, room for profiles, and *)
(* number of lines and clients: the profiles stored in the network         *)
(* processor fit and have different names; and for the first client of the *)
(* log socket every line is handled as it was typed, and the profiles      *)
(* change only as the dialogue says.                                       *)
(***************************************************************************)
EXTENDS SerialConfig, FiniteSetTheorems, SequenceTheorems, TLAPS

-----------------------------------------------------------------------------
(* The profiles.                                                           *)

Distinct(ps) == \A p, q \in ps : p.ssid = q.ssid => p = q
Fits(ps) == IsFiniteSet(ps) /\ Distinct(ps) /\ Cardinality(ps) <= MaxProfiles

\* Without two of one name there are as many profiles as names.
LEMMA NamesLemma ==
  ASSUME NEW ps, IsFiniteSet(ps), Distinct(ps)
  PROVE  Cardinality(ps) = Cardinality(Names(ps))
<1>. DEFINE f == [p \in ps |-> p.ssid]
<1>1. f \in Bijection(ps, Names(ps))
  BY DEF Bijection, Injection, Surjection, IsInjective, Names, Distinct
<1>2. ExistsBijection(ps, Names(ps))
  BY <1>1 DEF ExistsBijection
<1>. QED BY <1>2, FS_Bijection

\* The profiles without those of a name.
LEMMA WithoutLemma ==
  ASSUME NEW ps, Fits(ps), NEW ssid
  PROVE  LET rest == {q \in ps : q.ssid # ssid}
         IN  /\ Fits(rest)
             /\ ssid \in Names(ps) => \E r \in ps :
                  r.ssid = ssid /\ rest = ps \ {r} /\ Cardinality(rest) = Cardinality(ps) - 1
             /\ ssid \notin Names(ps) => rest = ps
<1>. DEFINE rest == {q \in ps : q.ssid # ssid}
<1>1. /\ IsFiniteSet(rest) /\ Cardinality(rest) <= Cardinality(ps) /\ Cardinality(rest) \in Nat
      /\ Cardinality(ps) \in Nat
  BY FS_Subset, FS_CardinalityType DEF Fits
<1>2. Fits(rest)
  <2>1. Distinct(rest)
    BY DEF Fits, Distinct
  <2>. QED BY <1>1, <2>1, SerialConfigAssumption DEF Fits
<1>3. ASSUME ssid \in Names(ps)
      PROVE  \E r \in ps : r.ssid = ssid /\ rest = ps \ {r} /\ Cardinality(rest) = Cardinality(ps) - 1
  <2>1. PICK r \in ps : r.ssid = ssid
    BY <1>3 DEF Names
  <2>2. rest = ps \ {r}
    BY <2>1 DEF Fits, Distinct
  <2>3. Cardinality(ps \ {r}) = Cardinality(ps) - 1
    BY <2>1, FS_RemoveElement DEF Fits
  <2>. QED BY <2>1, <2>2, <2>3
<1>4. ssid \notin Names(ps) => rest = ps
  BY DEF Names
<1>. QED BY <1>2, <1>3, <1>4

\* Adding a profile: it replaces one of its name, or there is room for it.
LEMMA AddedLemma ==
  ASSUME Fits(profiles), NEW ssid, NEW type, NEW key,
         NEW X \in Added([ssid |-> ssid, type |-> type, key |-> key])
  PROVE  /\ Fits(X)
         /\ X # profiles => X = {q \in profiles : q.ssid # ssid}
                                  \cup {[ssid |-> ssid, type |-> type, key |-> key]}
<1>. DEFINE p == [ssid |-> ssid, type |-> type, key |-> key]
            rest == {q \in profiles : q.ssid # ssid}
<1>1. CASE X = profiles
  BY <1>1
<1>2. CASE X # profiles
  <2>1. p.ssid = ssid
    OBVIOUS
  <2>2. /\ X = {q \in profiles : q.ssid # p.ssid} \cup {p}
        /\ p.ssid \in Names(profiles) \/ Cardinality(profiles) < MaxProfiles
    BY <1>2 DEF Added, MayFail
  <2>3. X = rest \cup {p}
    BY <2>1, <2>2
  <2>4. Fits(rest) /\ IsFiniteSet(rest) /\ p \notin rest
    BY <2>1, WithoutLemma DEF Fits
  <2>5. IsFiniteSet(X) /\ Cardinality(X) = Cardinality(rest) + 1
    BY <2>3, <2>4, FS_AddElement
  <2>6. Cardinality(rest) \in Nat /\ Cardinality(profiles) \in Nat
    BY <2>4, FS_CardinalityType DEF Fits
  <2>7. Cardinality(X) <= MaxProfiles
    <3>1. CASE ssid \in Names(profiles)
      <4>1. Cardinality(rest) = Cardinality(profiles) - 1
        BY <3>1, WithoutLemma
      <4>2. Cardinality(profiles) <= MaxProfiles
        BY DEF Fits
      <4>. HIDE DEF rest
      <4>. QED BY <2>5, <2>6, <4>1, <4>2
    <3>2. CASE ssid \notin Names(profiles)
      <4>1. rest = profiles
        BY <3>2, WithoutLemma
      <4>2. Cardinality(profiles) < MaxProfiles
        BY <2>1, <2>2, <3>2
      <4>. HIDE DEF rest
      <4>. QED BY <2>5, <2>6, <4>1, <4>2, SerialConfigAssumption
    <3>. QED BY <3>1, <3>2
  <2>8. Distinct(X)
    <3>1. Distinct(profiles)
      BY DEF Fits
    <3>. QED BY <2>1, <2>3, <3>1 DEF Distinct
  <2>. QED BY <2>3, <2>5, <2>7, <2>8 DEF Fits
<1>. QED BY <1>1, <1>2

\* Deleting those of a name, or all.
LEMMA DeletedLemma ==
  ASSUME Fits(profiles)
  PROVE  /\ \A ssid : \A X \in Deleted(ssid) : Fits(X)
         /\ \A X \in MayFail({}) : Fits(X)
<1>1. ASSUME NEW ssid, NEW X \in Deleted(ssid) PROVE Fits(X)
  <2>1. X = profiles \/ X = {q \in profiles : q.ssid # ssid}
    BY DEF Deleted, MayFail
  <2>2. Fits({q \in profiles : q.ssid # ssid})
    BY WithoutLemma
  <2>. QED BY <2>1, <2>2
<1>2. Fits({})
  <2>1. Distinct({})
    BY DEF Distinct
  <2>. QED BY <2>1, FS_EmptySet, SerialConfigAssumption DEF Fits
<1>3. ASSUME NEW X \in MayFail({}) PROVE Fits(X)
  <2>1. X = profiles \/ X = {}
    BY DEF MayFail
  <2>. QED BY <1>2, <2>1
<1>. QED BY <1>1, <1>3

-----------------------------------------------------------------------------
(* Types: whatever the user types, to however many tasks.                  *)

TypeInv ==
  /\ statenum \in States /\ current_operation \in Commands \cup {"none"}
  /\ Fits(profiles)
  /\ rxbuf_i \in Nat /\ slot \in Seq(Nat)
  /\ Len(slot) = 0 => rxbuf_i = 0
  /\ Len(slot) = 1 =>
       \/ slot[1] = Unstarted /\ rxbuf_i = 0
       \/ slot[1] < BufSize /\ rxbuf_i \in 1..BufSize

\* The three commands that ask go from state to state, and keep the profiles fit.
LEMMA CommandTypes ==
  ASSUME TypeInv, NEW line
  PROVE  /\ sc_cmd_add(line) => statenum' \in States /\ Fits(profiles')
         /\ sc_cmd_del(line) => statenum' \in States /\ Fits(profiles')
         /\ sc_cmd_delall(line) => statenum' \in States /\ Fits(profiles')
         /\ sc_cmd_show => statenum' \in States /\ Fits(profiles')
<1>0. Fits(profiles) /\ statenum \in States
  BY DEF TypeInv
<1>1. ASSUME sc_cmd_add(line) PROVE statenum' \in States /\ Fits(profiles')
  <2>1. statenum' \in States
    BY <1>1 DEF sc_cmd_add, AddOpen, States
  <2>2. profiles' = profiles \/ \E ssid, ty, key :
          profiles' \in Added([ssid |-> ssid, type |-> ty, key |-> key])
    BY <1>1 DEF sc_cmd_add, AddOpen, Commit
  <2>. QED BY <1>0, <2>1, <2>2, AddedLemma
<1>2. ASSUME sc_cmd_del(line) PROVE statenum' \in States /\ Fits(profiles')
  <2>1. statenum' \in States
    BY <1>2 DEF sc_cmd_del, States
  <2>2. profiles' = profiles \/ profiles' \in Deleted(temp_ssid)
    BY <1>2 DEF sc_cmd_del
  <2>. QED BY <1>0, <2>1, <2>2, DeletedLemma
<1>3. ASSUME sc_cmd_delall(line) PROVE statenum' \in States /\ Fits(profiles')
  <2>1. statenum' \in States
    BY <1>0, <1>3 DEF sc_cmd_delall, States
  <2>2. profiles' = profiles \/ profiles' \in MayFail({})
    BY <1>3 DEF sc_cmd_delall
  <2>. QED BY <1>0, <2>1, <2>2, DeletedLemma
<1>4. ASSUME sc_cmd_show PROVE statenum' \in States /\ Fits(profiles')
  BY <1>0, <1>4 DEF sc_cmd_show
<1>. QED BY <1>1, <1>2, <1>3, <1>4

LEMMA MessageTypes ==
  ASSUME TypeInv, NEW line, HandleMessage(line)
  PROVE  /\ statenum' \in States /\ Fits(profiles')
         /\ current_operation' \in Commands \cup {"none"}
<1>1. ASSUME NEW command, Execute(command, line) PROVE statenum' \in States /\ Fits(profiles')
  BY <1>1, CommandTypes DEF Execute
<1>2. CASE statenum # "COMMAND"
  BY <1>1, <1>2 DEF HandleMessage, TypeInv
<1>3. CASE statenum = "COMMAND" /\ \E c \in Commands : line = <<c>>
  BY <1>1, <1>3 DEF HandleMessage
<1>4. CASE statenum = "COMMAND" /\ ~\E c \in Commands : line = <<c>>
  BY <1>4 DEF HandleMessage, TypeInv
<1>. QED BY <1>2, <1>3, <1>4

LEMMA StepTypeInv == TypeInv /\ [Next]_vars => TypeInv'
<1>. SUFFICES ASSUME TypeInv, [Next]_vars PROVE TypeInv'
  OBVIOUS
<1>0. BufSize \in Nat /\ BufSize >= 2 /\ Unstarted = BufSize + 1
  BY SerialConfigAssumption DEF Unstarted
<1>1. ASSUME NEW t \in Tasks, TaskStart(t) PROVE TypeInv'
  <2>1. /\ slot[t] = Unstarted /\ slot' = [slot EXCEPT ![t] = rxbuf_i] /\ rxbuf_i' = rxbuf_i + 1
        /\ UNCHANGED <<statenum, current_operation, profiles>>
    BY <1>1 DEF TaskStart, dialogueVars
  <2>2. slot' \in Seq(Nat) /\ Len(slot') = Len(slot) /\ t \in 1..Len(slot)
    BY <2>1 DEF TypeInv, Tasks
  <2>3. Len(slot) = 1 => slot'[1] = 0 /\ rxbuf_i' = 1
    BY <1>0, <2>1, <2>2 DEF TypeInv
  <2>. QED BY <1>0, <2>1, <2>2, <2>3 DEF TypeInv
<1>2. ASSUME NEW t \in Tasks, GetChar(t) PROVE TypeInv'
  <2>1. PICK j \in {0, rxbuf_i} : slot' = [slot EXCEPT ![t] = j] /\ rxbuf_i' = j + 1
    BY <1>2 DEF GetChar, NextIndex
  <2>2. rxbuf_i < BufSize
    BY <1>2 DEF GetChar
  <2>3. \/ UNCHANGED dialogueVars
        \/ \E line : HandleMessage(line)
    BY <1>2 DEF GetChar
  <2>4. /\ statenum' \in States /\ Fits(profiles')
        /\ current_operation' \in Commands \cup {"none"}
    BY <2>3, MessageTypes DEF TypeInv, dialogueVars
  <2>5. slot' \in Seq(Nat) /\ Len(slot') = Len(slot) /\ Len(slot) # 0
    BY <2>1 DEF TypeInv, Tasks
  <2>6. rxbuf_i' \in Nat /\ rxbuf_i' \in 1..BufSize
    BY <1>0, <2>1, <2>2 DEF TypeInv
  <2>7. Len(slot) = 1 => slot'[1] < BufSize
    BY <1>0, <2>1, <2>2 DEF TypeInv, Tasks
  <2>. QED BY <2>4, <2>5, <2>6, <2>7 DEF TypeInv
<1>3. ASSUME Open PROVE TypeInv'
  <2>1. /\ slot' = Append(slot, Unstarted) /\ statenum' = "COMMAND"
        /\ UNCHANGED <<current_operation, profiles, rxbuf_i>>
    BY <1>3 DEF Open
  <2>2. slot' \in Seq(Nat) /\ Len(slot') = Len(slot) + 1
    BY <1>0, <2>1 DEF TypeInv
  <2>3. Len(slot') = 1 => slot'[1] = Unstarted /\ rxbuf_i' = 0
    BY <2>1, <2>2 DEF TypeInv
  <2>4. statenum' \in States /\ Len(slot') # 0
    BY <2>1, <2>2 DEF States, TypeInv
  <2>5. current_operation' \in Commands \cup {"none"} /\ Fits(profiles') /\ rxbuf_i' \in Nat
    BY <2>1 DEF TypeInv
  <2>. QED BY <2>2, <2>3, <2>4, <2>5 DEF TypeInv
<1>4. ASSUME NEW w \in Words, Type(w) PROVE TypeInv'
  BY <1>4 DEF Type, dialogueVars, TypeInv, Unstarted
<1>5. CASE UNCHANGED vars
  BY <1>5 DEF vars, bufVars, dialogueVars, TypeInv, Unstarted
<1>. QED BY <1>1, <1>2, <1>3, <1>4, <1>5 DEF Next

LEMMA InitTypeInv == Init => TypeInv
<1>. SUFFICES ASSUME Init PROVE TypeInv
  OBVIOUS
<1>1. Fits(profiles)
  <2>1. profiles = {} /\ Distinct({})
    BY DEF Init, Distinct
  <2>. QED BY <2>1, FS_EmptySet, SerialConfigAssumption DEF Fits
<1>. QED BY <1>1 DEF Init, TypeInv, States

LEMMA TypeInvariance == Spec => []TypeInv
  BY InitTypeInv, StepTypeInv, PTL DEF Spec

\* The profiles never are more than there is room for, and never two of one name.
THEOREM TypeCorrect == Spec => []TypeOK
<1>1. ASSUME TypeInv PROVE TypeOK
  <2>1. Cardinality(profiles) = Cardinality(Names(profiles)) /\ Cardinality(profiles) <= MaxProfiles
    BY <1>1, NamesLemma DEF TypeInv, Fits
  <2>2. Len(slot) = 1 => rxbuf_i <= BufSize
    BY <1>1, SerialConfigAssumption DEF TypeInv
  <2>. QED BY <1>1, <2>1, <2>2 DEF TypeInv, TypeOK
<1>. QED BY <1>1, TypeInvariance, PTL

-----------------------------------------------------------------------------
(* What was handled last.                                                  *)

Line == {<<w>> : w \in Words}
Ends(h, s) == Len(h) >= Len(s) /\ SubSeq(h, Len(h) - Len(s) + 1, Len(h)) = s

\* The last lines, one by one.
LEMMA EndsLemma ==
  ASSUME NEW S, NEW h \in Seq(S), NEW s \in Seq(S)
  PROVE  Ends(h, s) <=>
           Len(h) >= Len(s) /\ \A k \in 1..Len(s) : h[Len(h) - Len(s) + k] = s[k]
<1>. DEFINE m == Len(h) - Len(s)
<1>1. CASE Len(h) >= Len(s)
  <2>1. m \in Nat /\ m + Len(s) = Len(h)
    BY <1>1
  <2>2. SubSeq(h, m + 1, Len(h)) \in Seq(S) /\ Len(SubSeq(h, m + 1, Len(h))) = Len(s)
    BY <2>1
  <2>3. \A k \in 1..Len(s) : SubSeq(h, m + 1, Len(h))[k] = h[m + k]
    BY <2>1
  <2>. HIDE DEF m
  <2>4. SubSeq(h, m + 1, Len(h)) = s <=> \A k \in 1..Len(s) : h[m + k] = s[k]
    BY <2>2, <2>3, SeqEqual
  <2>. QED BY <1>1, <2>4 DEF Ends, m
<1>2. CASE ~(Len(h) >= Len(s))
  BY <1>2 DEF Ends
<1>. QED BY <1>1, <1>2

LEMMA Four == \A a \in Nat : a <= 4 => a = 4 \/ a + 1 <= 4
  OBVIOUS

\* One more line is remembered with up to three before it.
LEMMA RememberLemma ==
  ASSUME NEW S, NEW h \in Seq(S), Len(h) <= 4, NEW x \in S
  PROVE  /\ Remember(h, x) \in Seq(S) /\ Len(Remember(h, x)) <= 4
         /\ Ends(Remember(h, x), <<x>>)
         /\ \A s \in Seq(S) : Len(s) <= 3 /\ Ends(h, s) => Ends(Remember(h, x), Append(s, x))
<1>. DEFINE r == Remember(h, x)
            d == IF Len(h) = 4 THEN 1 ELSE 0
<1>1. /\ r \in Seq(S) /\ Len(r) = Len(h) + 1 - d
      /\ \A k \in 1..Len(r) : r[k] = IF k = Len(r) THEN x ELSE h[k + d]
  <2>0. /\ Append(h, x) \in Seq(S) /\ Len(Append(h, x)) = Len(h) + 1
        /\ \A k \in 1..(Len(h) + 1) : Append(h, x)[k] = IF k = Len(h) + 1 THEN x ELSE h[k]
        /\ Len(h) \in Nat
    OBVIOUS
  <2>1. CASE Len(h) = 4
    <3>1. r = Tail(Append(h, x))
      BY <2>0, <2>1 DEF Remember
    <3>2. d = 1
      BY <2>1
    <3>. HIDE DEF r, d
    <3>3. r \in Seq(S) /\ Len(r) = 4
      BY <2>0, <2>1, <3>1
    <3>4. \A k \in 1..4 : r[k] = Append(h, x)[k + 1]
      BY <2>0, <2>1, <3>1
    <3>5. \A k \in 1..4 : r[k] = IF k = 4 THEN x ELSE h[k + 1]
      BY <2>0, <2>1, <3>4
    <3>. QED BY <2>1, <3>2, <3>3, <3>5
  <2>2. CASE Len(h) # 4
    <3>1. Len(h) + 1 <= 4
      BY <2>0, <2>2, Four
    <3>2. ~(Len(Append(h, x)) > 4)
      BY <2>0, <3>1
    <3>3. r = Append(h, x)
      BY <3>2 DEF Remember
    <3>4. d = 0
      BY <2>2
    <3>. HIDE DEF r, d
    <3>. QED BY <2>0, <2>2, <3>3, <3>4
  <2>. QED BY <2>1, <2>2
<1>2. (d = 1 /\ Len(h) = 4) \/ (d = 0 /\ Len(h) # 4)
  OBVIOUS
<1>6. Len(h) \in Nat
  OBVIOUS
<1>. HIDE DEF r, d
<1>3. Len(r) <= 4 /\ Len(r) >= 1
  <2>1. Len(r) = Len(h) + 1 - d
    BY <1>1
  <2>2. CASE d = 0
    <3>1. Len(h) # 4
      BY <1>2, <2>2
    <3>2. Len(h) + 1 <= 4
      BY <1>6, <3>1, Four
    <3>3. Len(r) = Len(h) + 1
      BY <1>6, <2>1, <2>2
    <3>. QED BY <1>6, <3>2, <3>3
  <2>3. CASE d = 1
    <3>1. Len(h) = 4
      BY <1>2, <2>3
    <3>. QED BY <2>1, <2>3, <3>1
  <2>. QED BY <1>2, <2>2, <2>3
<1>4. Ends(r, <<x>>)
  <2>0. Len(r) \in Nat
    BY <1>1
  <2>1. r[Len(r) - 1 + 1] = x
    BY <1>1, <1>3, <2>0
  <2>2. <<x>> \in Seq(S) /\ Len(<<x>>) = 1 /\ <<x>>[1] = x
    OBVIOUS
  <2>3. Len(r) >= Len(<<x>>) /\ \A k \in 1..Len(<<x>>) : r[Len(r) - Len(<<x>>) + k] = <<x>>[k]
    BY <1>3, <2>1, <2>2
  <2>. QED BY <1>1, <2>2, <2>3, EndsLemma
<1>5. ASSUME NEW s \in Seq(S), Len(s) <= 3, Ends(h, s) PROVE Ends(r, Append(s, x))
  <2>. DEFINE a == Append(s, x)
  <2>1. Len(h) >= Len(s) /\ \A k \in 1..Len(s) : h[Len(h) - Len(s) + k] = s[k]
    BY <1>5, EndsLemma
  <2>2. /\ a \in Seq(S) /\ Len(a) = Len(s) + 1
        /\ \A k \in 1..Len(a) : a[k] = IF k = Len(a) THEN x ELSE s[k]
    OBVIOUS
  <2>3. Len(s) \in Nat /\ Len(r) \in Nat
    BY <1>1
  <2>. HIDE DEF a
  <2>4. Len(r) >= Len(a)
    BY <1>1, <1>2, <1>5, <2>1, <2>2, <2>3
  <2>5. ASSUME NEW k \in 1..Len(a) PROVE r[Len(r) - Len(a) + k] = a[k]
    <3>1. CASE k = Len(a)
      <4>1. Len(r) - Len(a) + k = Len(r)
        BY <2>2, <2>3, <3>1
      <4>. QED BY <1>1, <1>3, <2>2, <3>1, <4>1
    <3>2. CASE k # Len(a)
      <4>1. k \in 1..Len(s)
        BY <2>2, <2>3, <3>2
      <4>2. /\ Len(r) - Len(a) + k \in 1..(Len(r) - 1)
            /\ Len(r) - Len(a) + k + d = Len(h) - Len(s) + k
        <5>1. Len(r) = Len(h) + 1 - d /\ Len(a) = Len(s) + 1 /\ d \in {0, 1} /\ Len(h) \in Nat
          BY <1>1, <1>2, <1>6, <2>2
        <5>2. Len(h) >= Len(s)
          BY <2>1
        <5>. QED BY <2>3, <2>4, <4>1, <5>1, <5>2
      <4>3. r[Len(r) - Len(a) + k] = h[Len(h) - Len(s) + k]
        BY <1>1, <2>3, <4>2
      <4>. QED BY <2>1, <2>2, <3>2, <4>1, <4>3
    <3>. QED BY <3>1, <3>2
  <2>6. Ends(r, a)
    BY <1>1, <2>2, <2>4, <2>5, EndsLemma
  <2>. QED BY <2>6 DEF a
<1>. QED BY <1>1, <1>3, <1>4, <1>5 DEF r

-----------------------------------------------------------------------------
(* The dialogue of the first client.                                       *)

\* What the state of the dialogue says of the lines handled last.
Talk ==
  /\ statenum = "ADDNEWORK_GET_SSID" =>
       current_operation = "network" /\ Ends(handled, <<<<"network">>>>)
  /\ statenum = "GET_TYPE" =>
       current_operation = "network" /\ Ends(handled, <<<<"network">>, temp_ssid>>)
  /\ statenum = "GET_KEY" =>
       current_operation = "network" /\ Ends(handled, <<<<"network">>, temp_ssid, <<temp_type>>>>)
  /\ statenum = "DELETENEWORK_GET_SSID" =>
       current_operation = "delete" /\ Ends(handled, <<<<"delete">>>>)
  /\ statenum = "DELETENETWORK_CONFIRM" =>
       current_operation = "delete" /\ Ends(handled, <<<<"delete">>, temp_ssid>>)
  /\ statenum = "CONFIRM_DEL_ALL" =>
       current_operation = "deleteall" /\ (cancelled \/ Ends(handled, <<<<"deleteall">>>>))

History == handled \in Seq(Line) /\ Len(handled) <= 4

\* Sequences of a few elements, and one more.
LEMMA Append1 ==
  ASSUME NEW S, NEW a \in S, NEW x \in S
  PROVE  Append(<<a>>, x) = <<a, x>>
<1>. DEFINE s == Append(<<a>>, x)
<1>1. /\ s \in Seq(S) /\ Len(s) = 2 /\ <<a, x>> \in Seq(S) /\ Len(<<a, x>>) = 2
      /\ <<a>> \in Seq(S) /\ Len(<<a>>) = 1
  OBVIOUS
<1>2. s[1] = a /\ s[2] = x
  BY <1>1
<1>. HIDE DEF s
<1>3. \A k \in 1..2 : s[k] = <<a, x>>[k]
  <2>1. \A k \in 1..2 : k = 1 \/ k = 2
    OBVIOUS
  <2>. QED BY <1>2, <2>1
<1>4. s = <<a, x>>
  BY <1>1, <1>3, SeqEqual
<1>. QED BY <1>4 DEF s

LEMMA Append2 ==
  ASSUME NEW S, NEW a \in S, NEW b \in S, NEW x \in S
  PROVE  Append(<<a, b>>, x) = <<a, b, x>>
<1>. DEFINE s == Append(<<a, b>>, x)
<1>1. /\ s \in Seq(S) /\ Len(s) = 3 /\ <<a, b, x>> \in Seq(S) /\ Len(<<a, b, x>>) = 3
      /\ <<a, b>> \in Seq(S) /\ Len(<<a, b>>) = 2
  OBVIOUS
<1>2. s[1] = a /\ s[2] = b /\ s[3] = x
  BY <1>1
<1>. HIDE DEF s
<1>3. \A k \in 1..3 : s[k] = <<a, b, x>>[k]
  <2>1. \A k \in 1..3 : k = 1 \/ k = 2 \/ k = 3
    OBVIOUS
  <2>. QED BY <1>2, <2>1
<1>4. s = <<a, b, x>>
  BY <1>1, <1>3, SeqEqual
<1>. QED BY <1>4 DEF s

LEMMA Append3 ==
  ASSUME NEW S, NEW a \in S, NEW b \in S, NEW c \in S, NEW x \in S
  PROVE  Append(<<a, b, c>>, x) = <<a, b, c, x>>
<1>. DEFINE s == Append(<<a, b, c>>, x)
<1>1. /\ s \in Seq(S) /\ Len(s) = 4 /\ <<a, b, c, x>> \in Seq(S) /\ Len(<<a, b, c, x>>) = 4
      /\ <<a, b, c>> \in Seq(S) /\ Len(<<a, b, c>>) = 3
  OBVIOUS
<1>2. s[1] = a /\ s[2] = b /\ s[3] = c /\ s[4] = x
  BY <1>1
<1>. HIDE DEF s
<1>3. \A k \in 1..4 : s[k] = <<a, b, c, x>>[k]
  <2>1. \A k \in 1..4 : k = 1 \/ k = 2 \/ k = 3 \/ k = 4
    OBVIOUS
  <2>. QED BY <1>2, <2>1
<1>4. s = <<a, b, c, x>>
  BY <1>1, <1>3, SeqEqual
<1>. QED BY <1>4 DEF s

\* A suffix of the history is a sequence of lines.
LEMMA SuffixLemma ==
  ASSUME NEW S, NEW h \in Seq(S), NEW s, NEW m \in Nat, Len(s) = m, Ends(h, s)
  PROVE  s \in Seq(S)
<1>1. s = SubSeq(h, Len(h) - m + 1, Len(h)) /\ Len(h) >= m
  BY DEF Ends
<1>2. Len(h) - m + 1 \in Nat /\ Len(h) - m + 1 >= 1 /\ Len(h) \in Nat
  BY <1>1
<1>3. \A k \in (Len(h) - m + 1)..Len(h) : h[k] \in S
  BY <1>2
<1>. QED BY <1>1, <1>2, <1>3, SubSeqProperties

LEMMA GrownLemma ==
  ASSUME History, NEW line \in Line, handled' = Remember(handled, line)
  PROVE  /\ History'
         /\ Ends(handled', <<line>>)
         /\ \A a : Ends(handled, <<a>>) => Ends(handled', <<a, line>>)
         /\ \A a, b : Ends(handled, <<a, b>>) => Ends(handled', <<a, b, line>>)
         /\ \A a, b, c : Ends(handled, <<a, b, c>>) => Ends(handled', <<a, b, c, line>>)
<1>1. handled \in Seq(Line) /\ Len(handled) <= 4
  BY DEF History
<1>2. History' /\ Ends(handled', <<line>>)
  BY <1>1, RememberLemma DEF History
<1>3. ASSUME NEW s, NEW m \in 1..3, Len(s) = m, Ends(handled, s)
      PROVE  s \in Seq(Line) /\ Ends(handled', Append(s, line))
  <2>1. s \in Seq(Line)
    BY <1>1, <1>3, SuffixLemma
  <2>2. Len(s) <= 3
    BY <1>3
  <2>. QED BY <1>1, <1>3, <2>1, <2>2, RememberLemma
<1>4. ASSUME NEW a, Ends(handled, <<a>>) PROVE Ends(handled', <<a, line>>)
  <2>1. Len(<<a>>) = 1 /\ 1 \in 1..3
    OBVIOUS
  <2>2. <<a>> \in Seq(Line) /\ Ends(handled', Append(<<a>>, line))
    BY <1>3, <1>4, <2>1
  <2>3. <<a>>[1] \in Line
    BY <2>1, <2>2
  <2>4. Append(<<a>>, line) = <<a, line>>
    BY <2>3, Append1
  <2>. QED BY <2>2, <2>4
<1>5. ASSUME NEW a, NEW b, Ends(handled, <<a, b>>) PROVE Ends(handled', <<a, b, line>>)
  <2>1. Len(<<a, b>>) = 2 /\ 2 \in 1..3
    OBVIOUS
  <2>2. <<a, b>> \in Seq(Line) /\ Ends(handled', Append(<<a, b>>, line))
    BY <1>3, <1>5, <2>1
  <2>3. <<a, b>>[1] \in Line /\ <<a, b>>[2] \in Line
    BY <2>1, <2>2
  <2>4. Append(<<a, b>>, line) = <<a, b, line>>
    BY <2>3, Append2
  <2>. QED BY <2>2, <2>4
<1>6. ASSUME NEW a, NEW b, NEW c, Ends(handled, <<a, b, c>>) PROVE Ends(handled', <<a, b, c, line>>)
  <2>1. Len(<<a, b, c>>) = 3 /\ 3 \in 1..3
    OBVIOUS
  <2>2. <<a, b, c>> \in Seq(Line) /\ Ends(handled', Append(<<a, b, c>>, line))
    BY <1>3, <1>6, <2>1
  <2>3. <<a, b, c>>[1] \in Line /\ <<a, b, c>>[2] \in Line /\ <<a, b, c>>[3] \in Line
    BY <2>1, <2>2
  <2>4. Append(<<a, b, c>>, line) = <<a, b, c, line>>
    BY <2>3, Append3
  <2>. QED BY <2>2, <2>4
<1>. QED BY <1>2, <1>4, <1>5, <1>6

\* A profile that is added, with the lines that asked for it.
LEMMA AddJustified ==
  ASSUME Fits(profiles), NEW type, NEW key,
         profiles' \in Added([ssid |-> temp_ssid, type |-> type, key |-> key]),
         profiles' # profiles,
         \/ Ends(handled', <<<<"network">>, temp_ssid, <<type>>, key>>)
         \/ type = "OPEN" /\ Ends(handled', <<<<"network">>, temp_ssid, <<"OPEN">>>>)
  PROVE  Justified
<1>. DEFINE p == [ssid |-> temp_ssid, type |-> type, key |-> key]
<1>1. profiles' = {q \in profiles : q.ssid # temp_ssid} \cup {p}
  BY AddedLemma
<1>2. p.ssid = temp_ssid /\ p.type = type /\ p.key = key
  OBVIOUS
<1>. HIDE DEF p
<1>3. p \in profiles' /\ profiles' \ {p} = {q \in profiles : q.ssid # p.ssid}
  BY <1>1, <1>2
<1>4. \/ EndsIn(<<<<"network">>, p.ssid, <<p.type>>, p.key>>)
      \/ p.type = "OPEN" /\ EndsIn(<<<<"network">>, p.ssid, <<"OPEN">>>>)
  BY <1>2 DEF EndsIn, Ends
<1>. QED BY <1>3, <1>4 DEF Justified

LEMMA DeleteJustified ==
  ASSUME Fits(profiles), profiles' \in Deleted(temp_ssid), profiles' # profiles,
         Ends(handled', <<<<"delete">>, temp_ssid, <<"Y">>>>)
  PROVE  Justified
<1>1. profiles' = {q \in profiles : q.ssid # temp_ssid}
  BY DEF Deleted, MayFail
<1>2. PICK r \in profiles : r.ssid = temp_ssid /\ profiles' = profiles \ {r}
  BY <1>1, WithoutLemma
<1>3. EndsIn(<<<<"delete">>, r.ssid, <<"Y">>>>)
  BY <1>2 DEF EndsIn, Ends
<1>. QED BY <1>2, <1>3 DEF Justified

\* Each line takes the dialogue on, and changes the profiles only at its end.
Onward == History' /\ Talk' /\ (profiles' # profiles => Justified)

LEMMA CommandStep ==
  ASSUME TypeInv, History, Talk, NEW line \in Line, HandleMessage(line), statenum = "COMMAND"
  PROVE  Onward
<1>1. History' /\ Ends(handled', <<line>>)
  BY GrownLemma DEF HandleMessage
<1>2. CASE ~\E c \in Commands : line = <<c>>
  <2>1. statenum' = "COMMAND" /\ profiles' = profiles
    BY <1>2 DEF HandleMessage
  <2>. QED BY <1>1, <2>1 DEF Onward, Talk
<1>3. ASSUME NEW c \in Commands, line = <<c>> PROVE Onward
  <2>0. Execute(c, line) /\ current_operation' = c
    BY <1>3 DEF HandleMessage
  <2>1. CASE c = "network"
    <3>1. statenum' = "ADDNEWORK_GET_SSID" /\ profiles' = profiles
      BY <2>0, <2>1 DEF Execute, sc_cmd_add, AddOpen
    <3>. QED BY <1>1, <1>3, <2>0, <2>1, <3>1 DEF Onward, Talk
  <2>2. CASE c = "delete"
    <3>1. statenum' = "DELETENEWORK_GET_SSID" /\ profiles' = profiles
      BY <2>0, <2>2 DEF Execute, sc_cmd_del
    <3>. QED BY <1>1, <1>3, <2>0, <2>2, <3>1 DEF Onward, Talk
  <2>3. CASE c = "deleteall"
    <3>1. statenum' = "CONFIRM_DEL_ALL" /\ profiles' = profiles
      BY <2>0, <2>3 DEF Execute, sc_cmd_delall
    <3>. QED BY <1>1, <1>3, <2>0, <2>3, <3>1 DEF Onward, Talk
  <2>4. CASE c \notin {"network", "delete", "deleteall"}
    <3>1. statenum' = "COMMAND" /\ profiles' = profiles
      BY <2>0, <2>4 DEF Execute, sc_cmd_show
    <3>. QED BY <1>1, <3>1 DEF Onward, Talk
  <2>. QED BY <2>1, <2>2, <2>3, <2>4
<1>. QED BY <1>2, <1>3

LEMMA AddStep ==
  ASSUME TypeInv, History, Talk, NEW line \in Line, HandleMessage(line),
         statenum \in {"ADDNEWORK_GET_SSID", "GET_TYPE", "GET_KEY"}
  PROVE  Onward
<1>0. /\ current_operation = "network" /\ current_operation' = "network" /\ sc_cmd_add(line)
      /\ Fits(profiles)
  BY DEF HandleMessage, Talk, Execute, TypeInv
<1>1. /\ History'
      /\ \A a : Ends(handled, <<a>>) => Ends(handled', <<a, line>>)
      /\ \A a, b : Ends(handled, <<a, b>>) => Ends(handled', <<a, b, line>>)
      /\ \A a, b, c : Ends(handled, <<a, b, c>>) => Ends(handled', <<a, b, c, line>>)
  BY GrownLemma DEF HandleMessage
<1>2. CASE statenum = "ADDNEWORK_GET_SSID"
  <2>1. statenum' = "GET_TYPE" /\ temp_ssid' = line /\ profiles' = profiles
    BY <1>0, <1>2 DEF sc_cmd_add, AddOpen
  <2>2. Ends(handled', <<<<"network">>, temp_ssid'>>)
    BY <1>1, <1>2, <2>1 DEF Talk
  <2>. QED BY <1>0, <1>1, <2>1, <2>2 DEF Onward, Talk
<1>3. CASE statenum = "GET_TYPE"
  <2>1. Ends(handled', <<<<"network">>, temp_ssid, line>>)
    BY <1>1, <1>3 DEF Talk
  <2>2. CASE line \in {<<"WPA">>, <<"WEP">>, <<"OPEN">>}
    <3>1. statenum' = "GET_KEY" /\ temp_ssid' = temp_ssid
      BY <1>0, <1>3, <2>2 DEF sc_cmd_add, AddOpen
    <3>2. /\ <<temp_type'>> = line
          /\ \/ profiles' = profiles
             \/ line = <<"OPEN">> /\ profiles' \in Added([ssid |-> temp_ssid, type |-> "OPEN", key |-> temp_key])
      BY <1>0, <1>3, <2>2 DEF sc_cmd_add, AddOpen, Commit
    <3>3. profiles' # profiles => Justified
      BY <1>0, <2>1, <3>2, AddJustified
    <3>4. Ends(handled', <<<<"network">>, temp_ssid', <<temp_type'>>>>)
      BY <2>1, <3>1, <3>2
    <3>. QED BY <1>0, <1>1, <3>1, <3>3, <3>4 DEF Onward, Talk
  <2>3. CASE line \notin {<<"WPA">>, <<"WEP">>, <<"OPEN">>}
    <3>1. statenum' = "COMMAND" /\ profiles' = profiles
      BY <1>0, <1>3, <2>3 DEF sc_cmd_add, AddOpen
    <3>. QED BY <1>1, <3>1 DEF Onward, Talk
  <2>. QED BY <2>2, <2>3
<1>4. CASE statenum = "GET_KEY"
  <2>1. Ends(handled', <<<<"network">>, temp_ssid, <<temp_type>>, line>>)
    BY <1>1, <1>4 DEF Talk
  <2>2. /\ statenum' = "COMMAND"
        /\ profiles' \in Added([ssid |-> temp_ssid, type |-> temp_type, key |-> line])
    BY <1>0, <1>4 DEF sc_cmd_add, AddOpen, Commit
  <2>3. profiles' # profiles => Justified
    BY <1>0, <2>1, <2>2, AddJustified
  <2>. QED BY <1>1, <2>2, <2>3 DEF Onward, Talk
<1>. QED BY <1>2, <1>3, <1>4

LEMMA DeleteStep ==
  ASSUME TypeInv, History, Talk, NEW line \in Line, HandleMessage(line),
         statenum \in {"DELETENEWORK_GET_SSID", "DELETENETWORK_CONFIRM"}
  PROVE  Onward
<1>0. /\ current_operation = "delete" /\ current_operation' = "delete" /\ sc_cmd_del(line)
      /\ Fits(profiles)
  BY DEF HandleMessage, Talk, Execute, TypeInv
<1>1. /\ History'
      /\ \A a : Ends(handled, <<a>>) => Ends(handled', <<a, line>>)
      /\ \A a, b : Ends(handled, <<a, b>>) => Ends(handled', <<a, b, line>>)
  BY GrownLemma DEF HandleMessage
<1>2. CASE statenum = "DELETENEWORK_GET_SSID"
  <2>1. statenum' = "DELETENETWORK_CONFIRM" /\ temp_ssid' = line /\ profiles' = profiles
    BY <1>0, <1>2 DEF sc_cmd_del
  <2>2. Ends(handled', <<<<"delete">>, temp_ssid'>>)
    BY <1>1, <1>2, <2>1 DEF Talk
  <2>. QED BY <1>0, <1>1, <2>1, <2>2 DEF Onward, Talk
<1>3. CASE statenum = "DELETENETWORK_CONFIRM"
  <2>1. Ends(handled', <<<<"delete">>, temp_ssid, line>>)
    BY <1>1, <1>3 DEF Talk
  <2>2. /\ statenum' = "COMMAND"
        /\ profiles' = profiles \/ (line = <<"Y">> /\ profiles' \in Deleted(temp_ssid))
    BY <1>0, <1>3 DEF sc_cmd_del
  <2>3. profiles' # profiles => Justified
    BY <1>0, <2>1, <2>2, DeleteJustified
  <2>. QED BY <1>1, <2>2, <2>3 DEF Onward, Talk
<1>. QED BY <1>2, <1>3

LEMMA DeleteAllStep ==
  ASSUME TypeInv, History, Talk, NEW line \in Line, HandleMessage(line),
         statenum = "CONFIRM_DEL_ALL"
  PROVE  Onward
<1>0. current_operation = "deleteall" /\ current_operation' = "deleteall" /\ sc_cmd_delall(line)
  BY DEF HandleMessage, Talk, Execute
<1>1. /\ History'
      /\ \A a : Ends(handled, <<a>>) => Ends(handled', <<a, line>>)
  BY GrownLemma DEF HandleMessage
<1>2. CASE line = <<"Y">>
  <2>1. statenum' = "COMMAND" /\ profiles' \in MayFail({})
    BY <1>0, <1>2 DEF sc_cmd_delall
  <2>2. cancelled \/ EndsIn(<<<<"deleteall">>, <<"Y">>>>)
    BY <1>1, <1>2 DEF Talk, EndsIn, Ends
  <2>3. profiles' # profiles => Justified
    BY <2>1, <2>2 DEF MayFail, Justified
  <2>. QED BY <1>1, <2>1, <2>3 DEF Onward, Talk
<1>3. CASE line # <<"Y">>
  <2>1. statenum' = "CONFIRM_DEL_ALL" /\ profiles' = profiles /\ cancelled'
    BY <1>0, <1>3 DEF sc_cmd_delall, HandleMessage
  <2>. QED BY <1>0, <1>1, <2>1 DEF Onward, Talk
<1>. QED BY <1>2, <1>3

LEMMA MessageStep ==
  ASSUME TypeInv, History, Talk, NEW line \in Line, HandleMessage(line)
  PROVE  Onward
<1>1. statenum \in {"COMMAND", "ADDNEWORK_GET_SSID", "GET_TYPE", "GET_KEY", "DELETENEWORK_GET_SSID",
                    "DELETENETWORK_CONFIRM", "CONFIRM_DEL_ALL"}
  BY DEF TypeInv, States
<1>. QED BY <1>1, CommandStep, AddStep, DeleteStep, DeleteAllStep

-----------------------------------------------------------------------------
(* The line buffer of the first client's task.                             *)

Chars == Words \cup {Newline, Zero}

\* Between lines; a line in the receive buffer; its word in the line buffer.
Idle == rx = <<>> /\ handled = typed
Received == \E w \in Words : rx = <<w, Newline>> /\ typed = Remember(handled, <<w>>)
HalfRead == \E w \in Words : rx = <<Newline>> /\ rxbuf[0] = w /\ typed = Remember(handled, <<w>>)

Buffer ==
  \/ slot = <<>> /\ rxbuf_i = 0 /\ Idle
  \/ slot = <<Unstarted>> /\ rxbuf_i = 0 /\ (Idle \/ Received)
  \/ slot = <<0>> /\ rxbuf_i = 1 /\ (Idle \/ Received)
  \/ slot = <<1>> /\ rxbuf_i = 2 /\ HalfRead

FirstClient == rxbuf \in [0..(BufSize - 1) -> Chars] /\ Buffer /\ History /\ Talk
IInv == TypeInv /\ (Len(slot) <= 1 => FirstClient)

LEMMA WordLemma == \A w \in Words : w # Newline /\ w # Zero
  BY WordsAssumption DEF Newline, Zero

\* The string is the word, once its newline is overwritten.
LEMMA StringLemma ==
  ASSUME NEW buf \in [0..(BufSize - 1) -> Chars], buf[0] \in Words, buf[1] = Zero
  PROVE  String(buf) = <<buf[0]>>
<1>. DEFINE zeros == {k \in DOMAIN buf : buf[k] = Zero}
<1>1. BufSize \in Nat /\ BufSize >= 2 /\ DOMAIN buf = 0..(BufSize - 1)
  BY SerialConfigAssumption
<1>2. 1 \in zeros /\ \A k \in zeros : k \in Nat /\ 1 <= k
  <2>1. 1 \in zeros
    BY <1>1
  <2>2. 0 \notin zeros
    BY WordLemma
  <2>. QED BY <1>1, <2>1, <2>2
<1>. HIDE DEF zeros
<1>3. Min(zeros) = 1
  <2>1. \A x \in zeros : (\A y \in zeros : x =< y) <=> x = 1
    BY <1>2
  <2>. QED BY <1>2, <2>1 DEF Min
<1>4. String(buf) = [k \in 1..1 |-> buf[k - 1]]
  BY <1>3 DEF String, zeros
<1>5. [k \in 1..1 |-> buf[k - 1]] = <<buf[0]>>
  OBVIOUS
<1>. QED BY <1>4, <1>5

\* A character for the only task: the word, or the newline that completes it.
LEMMA GetCharStep ==
  ASSUME IInv, Len(slot) <= 1, NEW t \in Tasks, GetChar(t)
  PROVE  FirstClient' /\ (profiles' # profiles => Justified)
<1>1. /\ TypeInv /\ rxbuf \in [0..(BufSize - 1) -> Chars] /\ Buffer /\ History /\ Talk
      /\ BufSize \in Nat /\ BufSize >= 2
  BY SerialConfigAssumption DEF IInv, FirstClient
<1>2. /\ t \in DOMAIN slot /\ rx # <<>> /\ slot[t] < BufSize
      /\ rx' = Tail(rx) /\ UNCHANGED typed
  BY DEF Tasks, GetChar, typedVars
<1>. DEFINE buf == [rxbuf EXCEPT ![slot[t]] = Head(rx)]
            done == buf[rxbuf_i - 1] = Newline
            i == IF done THEN NextIndex ELSE rxbuf_i
<1>3. /\ rxbuf' = IF done THEN [buf EXCEPT ![rxbuf_i - 1] = Zero] ELSE buf
      /\ IF done THEN HandleMessage(String(rxbuf')) ELSE UNCHANGED dialogueVars
      /\ slot' = [slot EXCEPT ![t] = i] /\ rxbuf_i' = i + 1
  BY DEF GetChar
<1>4. \/ slot = <<0>> /\ rxbuf_i = 1 /\ Received
      \/ slot = <<1>> /\ rxbuf_i = 2 /\ HalfRead
  BY <1>1, <1>2 DEF Buffer, Idle, Unstarted
<1>5. CASE slot = <<0>> /\ rxbuf_i = 1 /\ Received
  <2>1. t = 1 /\ slot[t] = 0
    BY <1>2, <1>5
  <2>2. PICK w \in Words : rx = <<w, Newline>> /\ typed = Remember(handled, <<w>>)
    BY <1>5 DEF Received
  <2>3. buf = [rxbuf EXCEPT ![0] = w]
    BY <2>1, <2>2
  <2>4. buf \in [0..(BufSize - 1) -> Chars] /\ buf[0] = w
    <3>1. w \in Chars /\ 0 \in 0..(BufSize - 1)
      BY <1>1 DEF Chars
    <3>. HIDE DEF buf
    <3>. QED BY <1>1, <2>3, <3>1
  <2>5. ~done
    BY <1>5, <2>4, WordLemma
  <2>. HIDE DEF buf, done
  <2>6. rxbuf' = buf /\ UNCHANGED dialogueVars /\ slot' = [slot EXCEPT ![t] = 1] /\ rxbuf_i' = 2
    BY <1>3, <1>5, <2>5
  <2>7. slot' = <<1>> /\ rx' = <<Newline>>
    BY <1>2, <1>5, <2>1, <2>2, <2>6
  <2>8. UNCHANGED <<statenum, current_operation, temp_ssid, temp_type, handled, cancelled, profiles>>
    BY <2>6 DEF dialogueVars, tempVars
  <2>9. Buffer'
    BY <1>2, <2>2, <2>4, <2>6, <2>7, <2>8 DEF Buffer, HalfRead
  <2>10. History' /\ Talk'
    BY <1>1, <2>8 DEF History, Talk
  <2>. QED BY <2>4, <2>6, <2>8, <2>9, <2>10 DEF FirstClient
<1>6. CASE slot = <<1>> /\ rxbuf_i = 2 /\ HalfRead
  <2>1. t = 1 /\ slot[t] = 1
    BY <1>2, <1>6
  <2>2. PICK w \in Words :
          rx = <<Newline>> /\ rxbuf[0] = w /\ typed = Remember(handled, <<w>>)
    BY <1>6 DEF HalfRead
  <2>3. buf = [rxbuf EXCEPT ![1] = Newline]
    BY <2>1, <2>2
  <2>4. buf \in [0..(BufSize - 1) -> Chars] /\ buf[0] = w /\ buf[1] = Newline
    <3>1. Newline \in Chars /\ {0, 1} \subseteq 0..(BufSize - 1)
      BY <1>1 DEF Chars
    <3>. HIDE DEF buf
    <3>. QED BY <1>1, <2>2, <2>3, <3>1
  <2>5. done
    BY <1>6, <2>4
  <2>. HIDE DEF buf, done
  <2>6. /\ rxbuf' = [buf EXCEPT ![1] = Zero] /\ HandleMessage(String(rxbuf'))
        /\ slot' = [slot EXCEPT ![t] = 0] /\ rxbuf_i' = 1
    BY <1>3, <1>6, <2>5 DEF NextIndex
  <2>7. slot' = <<0>> /\ rx' = <<>>
    BY <1>2, <1>6, <2>1, <2>2, <2>6
  <2>8. rxbuf' \in [0..(BufSize - 1) -> Chars] /\ rxbuf'[0] = w /\ rxbuf'[1] = Zero
    BY <1>1, <2>4, <2>6 DEF Chars
  <2>9. String(rxbuf') = <<w>> /\ <<w>> \in Line
    BY <2>8, StringLemma DEF Line
  <2>10. handled' = Remember(handled, <<w>>)
    BY <2>6, <2>9 DEF HandleMessage
  <2>11. Onward
    BY <1>1, <2>6, <2>9, MessageStep
  <2>12. Buffer'
    BY <1>2, <2>2, <2>6, <2>7, <2>10 DEF Buffer, Idle
  <2>. QED BY <2>8, <2>11, <2>12 DEF FirstClient, Onward
<1>. QED BY <1>4, <1>5, <1>6

LEMMA StepIInv ==
  ASSUME IInv, [Next]_vars
  PROVE  IInv' /\ (profiles' # profiles => Len(slot) > 1 \/ Justified)
<1>0. TypeInv /\ TypeInv' /\ Len(slot) \in Nat
  BY StepTypeInv DEF IInv, TypeInv
<1>1. ASSUME NEW t \in Tasks, TaskStart(t)
      PROVE  (Len(slot') <= 1 => FirstClient') /\ profiles' = profiles
  <2>1. /\ slot[t] = Unstarted /\ slot' = [slot EXCEPT ![t] = rxbuf_i] /\ rxbuf_i' = rxbuf_i + 1
        /\ UNCHANGED <<rx, rxbuf, statenum, current_operation, temp_ssid, temp_type, handled,
                       cancelled, profiles, typed>>
    BY <1>1 DEF TaskStart, dialogueVars, tempVars, typedVars
  <2>2. ASSUME Len(slot') <= 1 PROVE FirstClient'
    <3>1. FirstClient /\ t \in DOMAIN slot
      BY <1>0, <2>1, <2>2 DEF IInv, Tasks, TypeInv
    <3>2. Unstarted # 0 /\ Unstarted # 1
      BY SerialConfigAssumption DEF Unstarted
    <3>3. slot = <<Unstarted>> /\ rxbuf_i = 0 /\ (Idle \/ Received)
      BY <2>1, <3>1, <3>2 DEF FirstClient, Buffer
    <3>4. slot' = <<0>> /\ rxbuf_i' = 1
      BY <2>1, <3>1, <3>3
    <3>5. Idle' \/ Received'
      BY <2>1, <3>3 DEF Idle, Received
    <3>6. History' /\ Talk' /\ rxbuf' \in [0..(BufSize - 1) -> Chars]
      BY <2>1, <3>1 DEF FirstClient, History, Talk
    <3>. QED BY <3>4, <3>5, <3>6 DEF FirstClient, Buffer
  <2>. QED BY <2>1, <2>2
<1>2. ASSUME NEW t \in Tasks, GetChar(t)
      PROVE  /\ Len(slot') <= 1 => FirstClient'
             /\ profiles' # profiles => Len(slot) > 1 \/ Justified
  <2>1. Len(slot') = Len(slot)
    BY <1>0, <1>2 DEF GetChar, TypeInv
  <2>2. Len(slot) <= 1 => FirstClient' /\ (profiles' # profiles => Justified)
    BY <1>2, GetCharStep
  <2>. QED BY <1>0, <2>1, <2>2
<1>3. ASSUME Open PROVE (Len(slot') <= 1 => FirstClient') /\ profiles' = profiles
  <2>1. /\ slot' = Append(slot, Unstarted) /\ statenum' = "COMMAND"
        /\ UNCHANGED <<rx, rxbuf, rxbuf_i, handled, profiles, typed>>
    BY <1>3 DEF Open, typedVars
  <2>2. ASSUME Len(slot') <= 1 PROVE FirstClient'
    <3>1. slot = <<>>
      BY <1>0, <2>1, <2>2 DEF TypeInv
    <3>2. FirstClient
      BY <3>1 DEF IInv
    <3>3. slot' = <<Unstarted>> /\ rxbuf_i' = 0 /\ Idle'
      BY <2>1, <3>1, <3>2 DEF FirstClient, Buffer, Idle
    <3>4. History' /\ Talk' /\ rxbuf' \in [0..(BufSize - 1) -> Chars]
      BY <2>1, <3>2 DEF FirstClient, History, Talk
    <3>. QED BY <3>3, <3>4 DEF FirstClient, Buffer
  <2>. QED BY <2>1, <2>2
<1>4. ASSUME NEW w \in Words, Type(w)
      PROVE  (Len(slot') <= 1 => FirstClient') /\ profiles' = profiles
  <2>1. /\ slot # <<>> /\ rx = <<>> /\ rx' = <<w, Newline>> /\ typed' = Remember(typed, <<w>>)
        /\ UNCHANGED <<slot, rxbuf, rxbuf_i, statenum, current_operation, temp_ssid, temp_type,
                       handled, cancelled, profiles>>
    BY <1>4 DEF Type, dialogueVars, tempVars
  <2>2. ASSUME Len(slot') <= 1 PROVE FirstClient'
    <3>1. FirstClient
      BY <2>1, <2>2 DEF IInv
    <3>2. /\ Idle
          /\ \/ slot = <<Unstarted>> /\ rxbuf_i = 0
             \/ slot = <<0>> /\ rxbuf_i = 1
      <4>1. ~Received /\ ~HalfRead
        BY <2>1 DEF Received, HalfRead
      <4>2. Buffer /\ slot # <<>>
        BY <2>1, <3>1 DEF FirstClient
      <4>. QED BY <4>1, <4>2 DEF Buffer
    <3>3. Received'
      BY <2>1, <3>2 DEF Idle, Received
    <3>4. History' /\ Talk' /\ rxbuf' \in [0..(BufSize - 1) -> Chars]
      BY <2>1, <3>1 DEF FirstClient, History, Talk
    <3>. QED BY <2>1, <3>2, <3>3, <3>4 DEF FirstClient, Buffer
  <2>. QED BY <2>1, <2>2
<1>5. ASSUME UNCHANGED vars PROVE (Len(slot') <= 1 => FirstClient') /\ profiles' = profiles
  BY <1>5 DEF IInv, FirstClient, Buffer, Idle, Received, HalfRead, History, Talk, vars, bufVars,
              dialogueVars, tempVars, typedVars
<1>6. IInv' <=> (Len(slot') <= 1 => FirstClient')
  BY <1>0 DEF IInv
<1>. QED BY <1>1, <1>2, <1>3, <1>4, <1>5, <1>6 DEF Next

LEMMA InitIInv == Init => IInv
<1>. SUFFICES ASSUME Init PROVE IInv
  OBVIOUS
<1>1. rxbuf \in [0..(BufSize - 1) -> Chars]
  BY DEF Init, Chars
<1>2. Buffer /\ History /\ Talk
  BY DEF Init, Buffer, Idle, History, Talk
<1>. QED BY <1>1, <1>2, InitTypeInv DEF IInv, FirstClient

LEMMA Invariant == Spec => []IInv
<1>1. IInv /\ [Next]_vars => IInv'
  BY StepIInv
<1>. QED BY <1>1, InitIInv, PTL DEF Spec

\* What the first client of the log socket types is handled as it was typed.
THEOREM LinesCorrect == Spec => []LinesHandledAtFirst
<1>1. ASSUME IInv PROVE LinesHandledAtFirst
  <2>. SUFFICES ASSUME Len(slot) = 1, Quiet PROVE handled = typed
    BY DEF LinesHandledAtFirst, LinesHandled
  <2>1. Buffer
    BY <1>1 DEF IInv, FirstClient
  <2>2. rx = <<>>
    BY DEF Quiet
  <2>3. ~Received /\ ~HalfRead
    BY <2>2 DEF Received, HalfRead
  <2>. QED BY <2>1, <2>3 DEF Buffer, Idle
<1>. QED BY <1>1, Invariant, PTL

\* The profiles change only as the dialogue just completed says, while the log socket
\* has had one client.
THEOREM ChangesCorrect == Spec => ChangedAsAsked
<1>1. IInv /\ [Next]_vars => [profiles' # profiles => Len(slot) > 1 \/ Justified]_vars
  BY StepIInv
<1>. QED BY <1>1, Invariant, PTL DEF Spec, ChangedAsAsked
=============================================================================
