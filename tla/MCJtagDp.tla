------------------------------ MODULE MCJtagDp ------------------------------
(* Accesses to a memory of two pages of four words. *)
EXTENDS JtagDp

Op(t, a, vals) == [t |-> t, a |-> a, n |-> Len(vals), vals |-> vals]
Bytes(t, a, vals, head, tail) ==
  [t |-> t, a |-> a, n |-> Len(vals), vals |-> vals, head |-> head, tail |-> tail]
AllOps ==
  {Op("write", 1, <<1>>), Op("bread", 2, <<0, 0, 0>>), Op("bwrite", 2, <<1, 0, 1>>),
   Bytes("uread", 3, <<0, 0>>, FALSE, TRUE), Bytes("uwrite", 3, <<Keep, 1>>, FALSE, TRUE)}
FewOps == {Op("read", 1, <<0>>), Op("write", 1, <<1>>)}
All == {Address}
\* All of it, or its first page only.
AllOrHalf == {Address, 0..3}

ASSUME PagesAssumption == WholePages
=============================================================================
