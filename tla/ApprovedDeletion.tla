-------------------------- MODULE ApprovedDeletion --------------------------
(***************************************************************************)
(* What the cleaner promises, whatever its processes, files and failures   *)
(* do: a path disappears by its hand only inside an item of a plan content *)
(* that was approved, a plan with an item of unknown or irreversible class *)
(* is approved only by acknowledging it, and a plan that names an          *)
(* operating-system directory is never carried out.  PlanApproval and      *)
(* DeleteEngine implement this specification.                              *)
(***************************************************************************)
CONSTANTS
    Path,       \* the paths of the volume
    Below,      \* Below[p]: the paths strictly inside p
    OsPath,     \* the paths is_macos_os_dir fences off
    Unsure      \* the paths classified Unknown or Irreversible

VARIABLES
    approved,   \* the approvals given: a plan content, and whether acknowledged
    gone        \* the paths the cleaner has removed

(* Everything that deleting the items of a plan may remove. *)
Covered(items) == items \cup UNION {Below[p] : p \in items}

Approval == [items : SUBSET Path, acked : BOOLEAN]
Admissible(a) == a.items \cap Unsure = {} \/ a.acked

Init ==
    /\ approved \subseteq {a \in Approval : Admissible(a)}
    /\ gone = {}

Approve ==
    /\ \E a \in Approval : Admissible(a) /\ approved' = approved \cup {a}
    /\ UNCHANGED gone

Remove ==
    /\ \E a \in approved :
          /\ a.items \cap OsPath = {}
          /\ \E p \in Covered(a.items) : gone' = gone \cup {p}
    /\ UNCHANGED approved

Next == Approve \/ Remove

Spec == Init /\ [][Next]_<<approved, gone>>

==============================================================================
