-------------------------- MODULE MCTemplateCache --------------------------
(***************************************************************************)
(* TemplateCache with model values for the identifiers.                    *)
(***************************************************************************)
EXTENDS TemplateCache, TLC

CONSTANTS t1, t2

MCIds == {t1, t2}
=============================================================================
