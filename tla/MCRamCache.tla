----------------------------- MODULE MCRamCache -----------------------------
(* A small instance of RamCache: two keys of different providers.          *)
EXTENDS RamCache, TLC

MCTile == {"a1", "a2", "b1"}
MCKey == {"a", "b"}
MCKeyOf == [t \in MCTile |-> IF t = "b1" THEN "b" ELSE "a"]
(* Nothing tells the worker threads apart.                                 *)
MCSymmetry == Permutations(Worker)

MCNoSelection == {}
MCSelection == {{"a"}, {"a", "b"}}
=============================================================================
