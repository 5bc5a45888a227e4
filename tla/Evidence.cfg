\* A deletion and a snapshot thin that share a receipt path, in any overlap,
\* with two verifications or certifications between and after them and one
\* edit.  The runs and the checks end: the system may stop.
CONSTANTS
    deletion = deletion
    other = other
    v1 = v1
    v2 = v2
    Run = {deletion, other}
    Kind <- MCKind
    Reader = {v1, v2}
    Verbs = {"verify", "seal"}
    Nobody = Nobody
    MaxEdits = 1
SYMMETRY AlikeReaders
SPECIFICATION Spec
INVARIANTS EditIsCaught RejectionIsDeserved EvidenceIsWhole
CHECK_DEADLOCK FALSE
