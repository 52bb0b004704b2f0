---------------------------- MODULE TargetMemory ----------------------------
(***************************************************************************)
(* What the memory accesses of the target interface promise their caller   *)
(* (target/target_al.h:116-178): one at a time; the words of a write, and  *)
(* no others, change while it lasts, or, when it has failed, while the     *)
(* next access lasts; and success means that it was done.                  *)
(***************************************************************************)
EXTENDS Integers, Sequences

CONSTANT Address, Word

VARIABLES mem, mapped, busy, request, failed, result, data,
  reliable   \* nothing is promised once this is FALSE

Stores == {"write", "bwrite", "uwrite"}
\* The words a request is about, and which word of the block each one is.
Footprint(r) == r.a .. (r.a + r.n - 1)
\* Those of them that a write changes: of a word at a block's end that may be only
\* the part that a word's value does not show.
Changed(r) == {w \in Footprint(r) : r.vals[w - r.a + 1] \in Word}

Performed(r, m, d) ==
  IF r.t \in Stores THEN \A w \in Changed(r) : m[w] = r.vals[w - r.a + 1]
  ELSE d = [j \in 1..r.n |-> m[r.a + j - 1]]

Init == mem \in [Address -> Word] /\ busy = FALSE

Begin == ~busy /\ busy' = TRUE /\ UNCHANGED <<mem, mapped>>

\* A word of this write, or of the write before, which had failed, is stored.
StoreOne ==
  \E r \in {request} \cup failed : r.t \in Stores /\
    \E w \in Changed(r) \cap mapped : mem' = [mem EXCEPT ![w] = r.vals[w - r.a + 1]]

Store == busy /\ busy' = TRUE /\ StoreOne /\ UNCHANGED <<mapped, request, failed>>

Progress == busy /\ UNCHANGED <<mem, mapped, busy, request, failed>>

\* The last word may be stored as the call returns.
Finish ==
  /\ busy /\ ~busy' /\ (mem' = mem \/ StoreOne) /\ UNCHANGED <<mapped, request, failed>>
  /\ result' = "success" =>
       Footprint(request) \subseteq mapped /\ Performed(request, mem', data')

Next == ~reliable' \/ Begin \/ Store \/ Progress \/ Finish

Spec == Init /\ [][Next]_<<mem, mapped, busy>>
=============================================================================
