-------------------------- MODULE MCTemplateStore --------------------------
(* TemplateStore with two repositories that hold the same template.        *)
EXTENDS TemplateStore, TLC

CONSTANTS r1, r2, t1, w1, w2

Same == [r \in Repos |-> {t1}]
Interchangeable == Permutations({r1, r2}) \cup Permutations({w1, w2})
=============================================================================
