---------------------------- MODULE MCAlgorithms ----------------------------
(***************************************************************************)
(* Three numbers, one of them in two spellings and one too short; two      *)
(* workspaces with the filter ids of an import and one that was typed;     *)
(* gids and uids that must be one word; five filters that were saved, two  *)
(* of which are built, and the others not: a keyword of another type, in   *)
(* two ways, and a gid that Jasmin refuses.                                *)
(***************************************************************************)
EXTENDS Algorithms

MCDigits == "077" :> "n1" @@ "+077" :> "n1" @@ "078" :> "n2" @@ "7" :> "short" @@ "-" :> ""
MCDialled == DOMAIN MCDigits

MCFidOf == [x \in Ws \X Criterion |-> x]
MCFid   == (Ws \X Criterion) \cup {<<"typed">>}
MCOrder == {-1, 0, 1}

MCJasminRefuses == MtTypes \X (Value \ {"none", "word", "number"})

Saved(nature, type, key, value) ==
  [nature |-> nature, type |-> type, key |-> key, value |-> value]
MCStored ==
  {Saved("ALL", "TransparentFilter", "none", "none"),
   Saved("MO", "ConnectorFilter", "cid", "word"),
   Saved("MT", "UserFilter", "gid", "word"),
   Saved("MT", "GroupFilter", "gid", "dotted"),
   Saved("ALL", "TagFilter", "cid", "number")}
=============================================================================
