------------------------------- MODULE Evidence -------------------------------
(***************************************************************************)
(* The three files a cleaning run leaves as evidence at one receipt path:  *)
(* the native receipt, the affidavit sealed over it (<stem>.affidavit.json)*)
(* and the R-projection that pins its bytes (<stem>.r.json).  They are     *)
(* written one after the other by delete execute, snapshot thin and        *)
(* snapshot delete, read back by receipt verify, and read and written      *)
(* again by receipt certify.                                               *)
(***************************************************************************)
EXTENDS Naturals

CONSTANTS
    Run,        \* the runs that write to the path
    Kind,       \* each run's command: "deletion", "thin" or "release"
    Reader,     \* the verifications, each one command
    Verbs,      \* what a reader may be: "verify", "certify" or "seal"
    Nobody,     \* the author of a file that holds no run's record
    MaxEdits    \* bound: how often the files are edited by hand

ASSUME EvidenceAssumption ==
    /\ Kind \in [Run -> {"deletion", "thin", "release"}]
    /\ Verbs \subseteq {"verify", "certify", "seal"}
    /\ Nobody \notin Run
    /\ MaxEdits \in Nat

(* A record is a run's receipt, or what editing has made of it; the seal of *)
(* a record is the record: equal chain hashes are equal contents.           *)
Content == [by : Run, rev : 0..MaxEdits]
Absent  == [by |-> Nobody, rev |-> 0]
Torn    == [by |-> Nobody, rev |-> 1]   \* opened and truncated, not (all) written
Altered == [by |-> Nobody, rev |-> 2]   \* an affidavit with a chain hash of no record
File    == Content \cup {Absent, Torn, Altered}
Whole(f) == f \notin {Absent, Torn}
Own(r)  == [by |-> r, rev |-> 0]

VARIABLES
    native,     \* the deletion or snapshot receipt
    affidavit,  \* the record the sealed chain was computed from
    projection, \* [of: the run it describes, pins: the bytes it hashed]
    run,        \* each run: where it stands, what it still knows
    reader,     \* each reader: where it stands, what it read, its verdict
    edits,      \* edits so far
    resealed,   \* history: the edited records a certify has sealed anew
    upset       \* history: since the last whole, undisturbed run some run was
                \* cut short, found the disk full, or met another command

vars == <<native, affidavit, projection, run, reader, edits, resealed, upset>>

Fresh == [at |-> "ready", wrote |-> FALSE, alone |-> FALSE, hash |-> Absent]
NoProjection == [of |-> Nobody, pins |-> Absent]
TornProjection == [of |-> Nobody, pins |-> Torn]

Init ==
    /\ native = Absent /\ affidavit = Absent /\ projection = NoProjection
    /\ run = [r \in Run |-> Fresh]
    /\ reader = [v \in Reader |-> [at |-> "ready", verb |-> "verify", got |-> Absent,
                                   seal |-> Absent, verdict |-> "none", upset |-> FALSE]]
    /\ edits = 0 /\ resealed = {} /\ upset = FALSE

Over == {"ended", "stopped"}
Busy == {r \in Run : run[r].at \notin Over \cup {"ready"}}
Reading == {v \in Reader : reader[v].at \notin {"ready", "over"}}
Quiet == Busy = {} /\ Reading = {}

RunTo(r, l) ==
    run' = [run EXCEPT ![r] = IF l \in Over THEN [Fresh EXCEPT !.at = l] ELSE [@ EXCEPT !.at = l]]
Disturbed == [r \in Run |-> [run[r] EXCEPT !.alone = FALSE]]

-----------------------------------------------------------------------------
(* The runs.  fs::write truncates the file and then fills it; a file that   *)
(* another writer has filled in between may end up holding parts of both.   *)

(* The deletion is done; the receipt file is opened. *)
OpenNative(r) ==
    /\ run[r].at = "ready"
    /\ native' = Torn
    /\ run' = [Disturbed EXCEPT ![r].at = "native", ![r].alone = Quiet]
    /\ upset' = (upset \/ ~Quiet)
    /\ UNCHANGED <<affidavit, projection, reader, edits, resealed>>

(* What a file that is being filled can hold afterwards. *)
Filled(f, r) == IF f = Torn THEN {Own(r)} ELSE {Own(r), Torn}

FillNative(r) ==
    /\ run[r].at = "native"
    /\ native' \in Filled(native, r)
    /\ run' = [run EXCEPT ![r].at = "seal", ![r].wrote = TRUE]
    /\ UNCHANGED <<affidavit, projection, reader, edits, resealed, upset>>

(* The volume is full.  delete execute prints the receipt and goes on       *)
(* (write_or_dump_on_full); the snapshot commands stop.                     *)
NativeFull(r) ==
    /\ run[r].at = "native"
    /\ native' = Torn
    /\ RunTo(r, IF Kind[r] = "deletion" THEN "seal" ELSE "stopped")
    /\ upset' = TRUE
    /\ UNCHANGED <<affidavit, projection, reader, edits, resealed>>

(* After the affidavit: only a receipt that was written is projected, and a *)
(* snapshot delete writes no projection.                                    *)
AfterSeal(r) == IF run[r].wrote /\ Kind[r] # "release" THEN "hash" ELSE "ended"

(* A run that met nobody and wrote everything makes the evidence whole.     *)
Settles(r, l) == IF l = "ended" /\ run[r].alone /\ run[r].wrote THEN FALSE ELSE upset

(* Not the code: an affidavit that is already there is left alone. *)
OpenAffidavitOnce(r) ==
    /\ run[r].at = "seal"
    /\ affidavit' = IF Whole(affidavit) THEN affidavit ELSE Torn
    /\ RunTo(r, IF Whole(affidavit) THEN AfterSeal(r) ELSE "affidavit")
    /\ upset' = IF Whole(affidavit) THEN Settles(r, AfterSeal(r)) ELSE upset
    /\ UNCHANGED <<native, projection, reader, edits, resealed>>

OpenAffidavit(r) ==
    /\ run[r].at = "seal"
    /\ affidavit' = Torn
    /\ RunTo(r, "affidavit")
    /\ UNCHANGED <<native, projection, reader, edits, resealed, upset>>

FillAffidavit(r) ==
    /\ run[r].at = "affidavit"
    /\ affidavit' \in Filled(affidavit, r)
    /\ RunTo(r, AfterSeal(r))
    /\ upset' = Settles(r, AfterSeal(r))
    /\ UNCHANGED <<native, projection, reader, edits, resealed>>

AffidavitFull(r) ==
    /\ run[r].at = "affidavit"
    /\ affidavit' = Torn
    /\ run' = [run EXCEPT ![r] = IF AfterSeal(r) \in Over THEN [Fresh EXCEPT !.at = "ended"]
                                 ELSE [@ EXCEPT !.at = "hash", !.alone = FALSE]]
    /\ upset' = TRUE
    /\ UNCHANGED <<native, projection, reader, edits, resealed>>

(* Not the code: the run ends without its projection. *)
HashNothing(r) ==
    /\ run[r].at = "hash"
    /\ RunTo(r, "ended")
    /\ upset' = Settles(r, "ended")
    /\ UNCHANGED <<native, affidavit, projection, reader, edits, resealed>>

(* context_for reads the native file back: the hash is of what is there now.*)
Hash(r) ==
    /\ run[r].at = "hash"
    /\ run' = [run EXCEPT ![r].at = "project", ![r].hash = native]
    /\ UNCHANGED <<native, affidavit, projection, reader, edits, resealed, upset>>

OpenProjection(r) ==
    /\ run[r].at = "project"
    /\ projection' = TornProjection
    /\ RunTo(r, "projection")
    /\ UNCHANGED <<native, affidavit, reader, edits, resealed, upset>>

FillProjection(r) ==
    /\ run[r].at = "projection"
    /\ projection' \in {[of |-> r, pins |-> run[r].hash]} \cup
                       IF projection = TornProjection THEN {} ELSE {TornProjection}
    /\ RunTo(r, "ended")
    /\ upset' = Settles(r, "ended")
    /\ UNCHANGED <<native, affidavit, reader, edits, resealed>>

(* The full disk, an I/O error and a kill end a run wherever it stands.     *)
CutShort(r) ==
    /\ run[r].at \notin Over \cup {"ready"}
    /\ RunTo(r, "stopped")
    /\ upset' = TRUE
    /\ UNCHANGED <<native, affidavit, projection, reader, edits, resealed>>

-----------------------------------------------------------------------------
(* The readers. *)

(* A receipt that is missing or does not parse ends the command. *)
ReadReceipt(v, verb) ==
    /\ reader[v].at = "ready"
    /\ reader' = [reader EXCEPT ![v] =
           [at |-> IF Whole(native) THEN "compare" ELSE "over", verb |-> verb,
            got |-> IF Whole(native) THEN native ELSE Absent, seal |-> Absent,
            verdict |-> IF Whole(native) THEN "none" ELSE "error", upset |-> FALSE]]
    /\ run' = Disturbed
    /\ upset' = (upset \/ ~Quiet)
    /\ UNCHANGED <<native, affidavit, projection, edits, resealed>>

(* Not the code: comparing the deletions of the two, not their contents. *)
MatchesRun(stored, got) == Whole(stored) => stored.by = got.by

(* The chain rebuilt from the receipt is compared with the stored one, if a *)
(* stored one can be read (verify_chain_hash).                              *)
Matches(stored, got) == Whole(stored) => stored = got

Compare(v) ==
    /\ reader[v].at = "compare"
    /\ reader' = [reader EXCEPT
           ![v].at = IF reader[v].verb = "seal" THEN "open" ELSE "over",
           ![v].seal = affidavit, ![v].upset = upset,
           ![v].verdict = IF Matches(affidavit, reader[v].got) THEN "accept" ELSE "reject"]
    /\ UNCHANGED <<native, affidavit, projection, run, edits, resealed, upset>>

(* receipt certify --out at the affidavit's own path (the MCP server's      *)
(* seal: true) writes the chain of the receipt it read, whatever the verdict.*)
OpenSeal(v) ==
    /\ reader[v].at = "open"
    /\ affidavit' = Torn
    /\ reader' = [reader EXCEPT ![v].at = "fill"]
    /\ UNCHANGED <<native, projection, run, edits, resealed, upset>>

FillSeal(v) ==
    /\ reader[v].at = "fill"
    /\ affidavit' \in {reader[v].got} \cup IF affidavit = Torn THEN {} ELSE {Torn}
    /\ resealed' = IF reader[v].got.rev > 0 THEN resealed \cup {reader[v].got} ELSE resealed
    /\ reader' = [reader EXCEPT ![v].at = "over"]
    /\ UNCHANGED <<native, projection, run, edits, upset>>

StopReading(v) ==
    /\ reader[v].at \in {"open", "fill"}
    /\ reader' = [reader EXCEPT ![v].at = "over"]
    /\ run' = Disturbed
    /\ upset' = TRUE
    /\ UNCHANGED <<native, affidavit, projection, edits, resealed>>

-----------------------------------------------------------------------------
(* Somebody edits a file: the receipt still parses, the affidavit still has *)
(* a chain_hash.                                                            *)
EditReceipt ==
    /\ edits < MaxEdits /\ Whole(native)
    /\ native' = [native EXCEPT !.rev = edits + 1]
    /\ edits' = edits + 1
    /\ UNCHANGED <<affidavit, projection, run, reader, resealed, upset>>

EditAffidavit ==
    /\ edits < MaxEdits /\ Whole(affidavit)
    /\ affidavit' = Altered
    /\ edits' = edits + 1
    /\ UNCHANGED <<native, projection, run, reader, resealed, upset>>

Write(r) ==
    \/ OpenNative(r) \/ FillNative(r) \/ NativeFull(r)
    \/ OpenAffidavit(r) \/ FillAffidavit(r) \/ AffidavitFull(r)
    \/ Hash(r) \/ OpenProjection(r) \/ FillProjection(r) \/ CutShort(r)

Check(v) ==
    \/ \E verb \in Verbs : ReadReceipt(v, verb)
    \/ Compare(v) \/ OpenSeal(v) \/ FillSeal(v) \/ StopReading(v)

Next ==
    \/ \E r \in Run : Write(r)
    \/ \E v \in Reader : Check(v)
    \/ EditReceipt \/ EditAffidavit

Spec == Init /\ [][Next]_vars

-----------------------------------------------------------------------------
RunState == [at : {"ready", "native", "seal", "affidavit", "hash", "project", "projection"} \cup Over,
             wrote : BOOLEAN, alone : BOOLEAN, hash : File]
ReaderState == [at : {"ready", "compare", "open", "fill", "over"},
                verb : {"verify", "certify", "seal"}, got : File, seal : File,
                verdict : {"none", "error", "accept", "reject"}, upset : BOOLEAN]
Projection == [of : Run \cup {Nobody}, pins : File]

TypeOK ==
    /\ native \in File \ {Altered} /\ affidavit \in File /\ projection \in Projection
    /\ run \in [Run -> RunState] /\ reader \in [Reader -> ReaderState]
    /\ edits \in 0..MaxEdits /\ resealed \subseteq Content /\ upset \in BOOLEAN

(* A receipt edited after it was sealed is accepted only because a certify  *)
(* has sealed the edited receipt since, or because a run that was cut short *)
(* or overlapped left no affidavit that can be read.                        *)
EditIsCaught ==
    \A v \in Reader :
        reader[v].verdict = "accept" /\ reader[v].got.rev > 0 =>
            \/ reader[v].got \in resealed
            \/ ~Whole(reader[v].seal) /\ reader[v].upset

(* "modified after sealing" is said of files somebody edited, or of files   *)
(* that different runs left: one of them cut short, out of disk, or         *)
(* overlapping with another command.                                        *)
RejectionIsDeserved ==
    \A v \in Reader :
        reader[v].verdict = "reject" =>
            \/ reader[v].got.rev > 0 \/ reader[v].seal = Altered
            \/ reader[v].upset

(* While nothing is being written, and nothing was disturbed since the last *)
(* whole run, the three files are of one run: the affidavit seals its       *)
(* receipt and the projection pins the bytes that run wrote.                *)
EvidenceIsWhole ==
    Quiet /\ ~upset /\ native # Absent =>
        LET r == native.by IN
        /\ r \in Run
        /\ affidavit = Altered \/ affidavit.by = r
        /\ Kind[r] # "release" => projection.of = r /\ projection.pins.by = r

================================================================================
