---------------------------- MODULE MCSnapshots ----------------------------
(* Snapshots with two commands, one that is about snapshots only and one     *)
(* that also clears items, and at most three dated snapshots next to one of *)
(* an OS update.                                                            *)
EXTENDS Snapshots, TLC

CONSTANTS r1, r2, bulk

SizeOf == (bulk :> 2)
KindsOf == (r1 :> {"thin", "keep-latest", "oldest", "explicit"})
        @@ (r2 :> {"keep-latest", "all", "execute", "execute-thin", "execute-release", "emergency"})
=============================================================================
