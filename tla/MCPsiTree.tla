----------------------------- MODULE MCPsiTree -----------------------------
(* PsiTree with two processes; the values have two lengths. *)
EXTENDS PsiTree, TLC

CONSTANTS short, long

MCSym == Permutations(Proc) \cup Permutations(Id) \cup Permutations(App)

MCLength == [v \in Value |-> IF v = short THEN 1 ELSE 2]
=============================================================================
