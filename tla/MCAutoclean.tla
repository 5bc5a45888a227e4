------------------------------ MODULE MCAutoclean ------------------------------
(* Two runs, two seconds: alone, one after the other, or sharing a second. *)
EXTENDS Autoclean, OcelChecks, SequencesExt

CONSTANTS daily, pressure, target, venv, leftover, app

MCBytes == (target :> 2) @@ (venv :> 3) @@ (leftover :> 0) @@ (app :> 1)
MCCap == [r \in Run |-> IF r = daily THEN 3 ELSE 2]

(* trim_plan_items_to_cap itself: one pass over the items, largest first. *)
Kept(q, c) ==
    FoldLeft(LAMBDA a, i : IF Bytes[i] <= a.budget
                           THEN [budget |-> a.budget - Bytes[i], kept |-> a.kept \cup {i}]
                           ELSE a,
             [budget |-> c, kept |-> {}], q).kept

LargestFirst(S) ==
    {q \in SetToAllKPermutations(S) :
        Len(q) = Cardinality(S) /\ \A j, k \in DOMAIN q : j < k => Bytes[q[j]] >= Bytes[q[k]]}

ASSUME FittingIsTheTrim ==
    \A S \in SUBSET Item, c \in 0..6 : Fitting(S, c) = {Kept(q, c) : q \in LargestFirst(S)}
================================================================================
