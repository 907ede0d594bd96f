---------------------------- MODULE MCSQLiteCache ----------------------------
EXTENDS SQLiteCache, TLC

(* A provider; one that is drawn on top of it, a hybrid; and one whose two *)
(* pieces have the same id, as those of Rosreestr have.                    *)
CONSTANTS single, hybrid, twice, f1, f2, c1, c2

MCPieces ==
  [p \in Provider |->
     CASE p = hybrid -> <<single, hybrid>> [] p = twice -> <<p, p>> [] OTHER -> <<p>>]

(* Threads and files are interchangeable.                                  *)
MCSymmetry == Permutations(Thread) \cup Permutations(File)
=============================================================================
