---- MODULE MCWorktrees ----
(* Two repositories.  r1 has the linked worktree w1; r2 is bare and has w2, which
   checks out the default branch.  The walk finds w1, r1 and r2. *)
EXTENDS Worktrees, TLC

CONSTANTS r1, r2, w1, w2

HomeDef == w1 :> r1 @@ w2 :> r2
FoundDef == <<w1, r1, r2>>
ObjectsDef == r1 :> [loose |-> 2, packable |-> 0, packs |-> 1, garbage |-> 0]
           @@ r2 :> [loose |-> 1, packable |-> 0, packs |-> 2, garbage |-> 1]

Merged == [exists |-> TRUE, locked |-> FALSE, files |-> {}, branch |-> TRUE,
           refs |-> Ref, stashes |-> 0, adrift |-> FALSE]
\* w1 is merged and clean, edited, unmerged, stashed, gone, and detached with commits.
StandingDef == w2 :> {Merged, [Merged EXCEPT !.refs = {"local"}, !.files = {"untracked"}]} @@ w1 :>
              {Merged,
                [Merged EXCEPT !.files = {"tracked"}],
                [Merged EXCEPT !.refs = {}],
                [Merged EXCEPT !.stashes = 1],
                [Merged EXCEPT !.exists = FALSE],
                [Merged EXCEPT !.branch = FALSE, !.adrift = TRUE]}
====
