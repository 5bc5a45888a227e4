--------------------------- MODULE MCDeleteEngine ---------------------------
(* A build directory d with a subdirectory s, a file f in s and a file g; a  *)
(* file x outside that is a hard link to f; a directory o, with a file y,    *)
(* that no plan mentions and a planted symlink may point to; a GitHub item.  *)
EXTENDS DeleteEngine

CONSTANTS d, s, f, g, x, o, y, gh

MCBelow == [p \in Path |->
    CASE p = d -> {s, f, g} [] p = s -> {f} [] p = o -> {y} [] OTHER -> {}]
MCAlias == [p \in Path |-> IF p \in {f, x} THEN {f, x} ELSE {p}]

Whole == [p \in Path |-> IF p = gh THEN "absent" ELSE IF Below[p] = {} THEN "file" ELSE "dir"]
Bare == [p \in Path |-> "none"]

(* A nested item that only root can remove. *)
MCRooted == {[node |-> Whole, prot |-> [Bare EXCEPT ![g] = "root"]]}

(* The tree as planned, with an entry that resists (the nested item for one) *)
(* or none, or with the directory gone or replaced by a symlink.             *)
MCVolumes ==
    MCRooted
    \cup {[node |-> Whole, prot |-> [Bare EXCEPT ![f] = how]] : how \in {"none", "flag", "root"}}
    \cup {[node |-> [p \in Path |-> IF p = d THEN how
                                    ELSE IF p \in {s, f, g} THEN "absent" ELSE Whole[p]],
           prot |-> Bare] : how \in {"absent", "link"}}

=============================================================================
