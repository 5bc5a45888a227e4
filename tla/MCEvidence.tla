------------------------------ MODULE MCEvidence ------------------------------
(* Two runs and two checks at one receipt path. *)
EXTENDS Evidence, TLC

CONSTANTS deletion, other, v1, v2

MCKind == (deletion :> "deletion") @@ (other :> "thin")
AlikeReaders == Permutations(Reader)
================================================================================
