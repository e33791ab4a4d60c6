----------------------------- MODULE MCPsiStore -----------------------------
(* PsiStore on a small instance: texts 1 and 2 have their tags at the same  *)
(* offsets, so that a document cut between two sectors can still parse.     *)
(* Text 1 is shorter than the default before it and text 2 after it.        *)
EXTENDS PsiStore

MCLayout == [v \in Version |-> IF v = 0 THEN "default" ELSE "edited"]
MCLength == [v \in Piece |-> IF v \in {1, Partial} THEN 1 ELSE 2]
=============================================================================
