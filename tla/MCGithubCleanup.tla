--------------------------- MODULE MCGithubCleanup ---------------------------
(* One repository, stale as a whole or with stale parts. *)
EXTENDS GithubCleanup, TLC

CONSTANTS app, main, dev, release, asset, issue

MCKindOf == main :> "branch" @@ dev :> "branch" @@ release :> "release"
            @@ asset :> "asset" @@ issue :> "issue"
MCOf == main :> app @@ dev :> app @@ release :> app @@ asset :> release @@ issue :> app

(* Everything but the release, and the repository or not, is past its      *)
(* threshold.                                                              *)
MCOutset == {[t \in Thing |-> [there |-> TRUE, old |-> t \notin {app, release} \/ (t = app /\ all),
                               due |-> t \notin {app, release}, held |-> FALSE]] : all \in BOOLEAN}

AlikeDeleters == Permutations(Deleter)
===============================================================================
