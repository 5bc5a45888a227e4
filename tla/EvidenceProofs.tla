---------------------------- MODULE EvidenceProofs ----------------------------
(* Proofs about Evidence, for any number of runs, checks and edits.             *)
EXTENDS Evidence, TLAPS

(* The seal s was made of the receipt n, or of what it was before an edit; or   *)
(* it has been edited itself.                                                   *)
Fits(s, n) == s = Altered \/ (s \in Content /\ s.by = n.by /\ s.rev <= n.rev)
Pinned(n) == Kind[n.by] # "release" => projection.of = n.by /\ projection.pins.by = n.by

(* A run that met nobody is the only command; while nothing has been upset,     *)
(* whatever command there is met nobody.                                        *)
AloneIsAlone == \A r \in Run : run[r].alone => Busy = {r} /\ Reading = {}
CalmIsAlone ==
    ~upset => /\ \A r \in Busy : run[r].alone /\ (run[r].at # "native" => run[r].wrote)
              /\ \A v, w \in Reading : v = w

(* A receipt bears no edit still to come, and no seal is of an edited receipt   *)
(* but one that a certify wrote.                                                *)
EditsAreCounted == native \in Content => native.rev <= edits
SealsAreKnown == affidavit \in Content /\ affidavit.rev > 0 => affidavit \in resealed

NothingYet == \A r \in Run : run[r].at \in {"ready", "native"} => ~run[r].wrote

(* What the files hold at each stage of a run that met nobody.                  *)
Late == {"hash", "project", "projection"}
StageHolds(r) ==
    /\ run[r].at = "native" => native = Torn
    /\ run[r].at \in {"seal", "affidavit"} \cup Late /\ run[r].wrote =>
          native \in Content /\ native.by = r
    /\ run[r].at = "affidavit" => affidavit = Torn
    /\ run[r].at \in Late => run[r].wrote /\ Fits(affidavit, native)
    /\ run[r].at \in {"project", "projection"} => run[r].hash \in Content /\ run[r].hash.by = r
    /\ run[r].at = "projection" => projection = TornProjection
StagesHold == \A r \in Run : run[r].alone => StageHolds(r)

(* While nothing is upset, the files are whole when no command is at work, and  *)
(* a check at work finds them whole.                                            *)
QuietIsWhole ==
    Quiet /\ ~upset /\ native # Absent =>
        native \in Content /\ Fits(affidavit, native) /\ Pinned(native)
CheckHolds(v) ==
    LET got == reader[v].got IN
    /\ native \in Content /\ Pinned(native)
    /\ got.by = native.by /\ got.rev <= native.rev
    /\ reader[v].at = "compare" => Fits(affidavit, got)
    /\ reader[v].at = "open" => Fits(affidavit, native)
    /\ reader[v].at = "fill" => affidavit = Torn
ChecksHold ==
    /\ \A v \in Reading : reader[v].got \in Content
    /\ ~upset => \A v \in Reading : CheckHolds(v)

EInv ==
    /\ TypeOK /\ AloneIsAlone /\ CalmIsAlone
    /\ EditsAreCounted /\ SealsAreKnown /\ NothingYet
    /\ StagesHold /\ QuietIsWhole /\ ChecksHold
    /\ EditIsCaught /\ RejectionIsDeserved

LEMMA Files ==
    /\ Absent \in File /\ Torn \in File /\ Altered \in File
    /\ \A r \in Run : Own(r) \in Content /\ Own(r).by = r /\ Own(r).rev = 0
    /\ Content \subseteq File
    /\ \A f \in File : Whole(f) <=> f \in Content \cup {Altered}
    /\ Altered \notin Content /\ Torn \notin Content /\ Absent \notin Content
    /\ Altered # Torn /\ Altered # Absent /\ Torn # Absent
    /\ \A c \in Content : c.by \in Run /\ c.rev \in 0..MaxEdits
BY EvidenceAssumption DEF File, Content, Absent, Torn, Altered, Own, Whole

LEMMA FreshTyped == \A l \in Over : [Fresh EXCEPT !.at = l] \in RunState
BY Files DEF Fresh, RunState, Over

LEMMA DisturbedTyped ==
    ASSUME TypeOK
    PROVE  /\ Disturbed \in [Run -> RunState]
           /\ \A r \in Run : /\ Disturbed[r].at = run[r].at /\ ~Disturbed[r].alone
                            /\ Disturbed[r].wrote = run[r].wrote
                            /\ Disturbed[r].hash = run[r].hash
BY DEF TypeOK, Disturbed, RunState

LEMMA OpenNativeTyped == ASSUME TypeOK, NEW r \in Run, OpenNative(r) PROVE TypeOK'
<1>1. run' \in [Run -> RunState]
  BY Files, FreshTyped, DisturbedTyped DEF OpenNative, TypeOK, RunTo, Over, RunState, Quiet
<1>2. reader' \in [Reader -> ReaderState]
  BY DEF OpenNative, TypeOK
<1> QED BY <1>1, <1>2, Files, EvidenceAssumption DEF OpenNative, TypeOK, Projection, TornProjection, Quiet

LEMMA FillNativeTyped == ASSUME TypeOK, NEW r \in Run, FillNative(r) PROVE TypeOK'
<1>1. run' \in [Run -> RunState]
  BY Files, FreshTyped, DisturbedTyped DEF FillNative, TypeOK, RunTo, Over, RunState, Filled
<1>2. reader' \in [Reader -> ReaderState]
  BY DEF FillNative, TypeOK
<1> QED BY <1>1, <1>2, Files, EvidenceAssumption DEF FillNative, TypeOK, Projection, TornProjection, Filled

LEMMA NativeFullTyped == ASSUME TypeOK, NEW r \in Run, NativeFull(r) PROVE TypeOK'
<1>1. run' \in [Run -> RunState]
  BY Files, FreshTyped, DisturbedTyped DEF NativeFull, TypeOK, RunTo, Over, RunState
<1>2. reader' \in [Reader -> ReaderState]
  BY DEF NativeFull, TypeOK
<1> QED BY <1>1, <1>2, Files, EvidenceAssumption DEF NativeFull, TypeOK, Projection, TornProjection

LEMMA OpenAffidavitTyped == ASSUME TypeOK, NEW r \in Run, OpenAffidavit(r) PROVE TypeOK'
<1>1. run' \in [Run -> RunState]
  BY Files, FreshTyped, DisturbedTyped DEF OpenAffidavit, TypeOK, RunTo, Over, RunState
<1>2. reader' \in [Reader -> ReaderState]
  BY DEF OpenAffidavit, TypeOK
<1> QED BY <1>1, <1>2, Files, EvidenceAssumption DEF OpenAffidavit, TypeOK, Projection, TornProjection

LEMMA FillAffidavitTyped == ASSUME TypeOK, NEW r \in Run, FillAffidavit(r) PROVE TypeOK'
<1>1. run' \in [Run -> RunState]
  BY Files, FreshTyped, DisturbedTyped DEF FillAffidavit, TypeOK, RunTo, Over, RunState, Filled, AfterSeal, Settles
<1>2. reader' \in [Reader -> ReaderState]
  BY DEF FillAffidavit, TypeOK
<1> QED BY <1>1, <1>2, Files, EvidenceAssumption DEF FillAffidavit, TypeOK, Projection, TornProjection, Filled, AfterSeal, Settles

LEMMA AffidavitFullTyped == ASSUME TypeOK, NEW r \in Run, AffidavitFull(r) PROVE TypeOK'
<1>1. run' \in [Run -> RunState]
  BY Files, FreshTyped, DisturbedTyped DEF AffidavitFull, TypeOK, RunTo, Over, RunState, AfterSeal
<1>2. reader' \in [Reader -> ReaderState]
  BY DEF AffidavitFull, TypeOK
<1> QED BY <1>1, <1>2, Files, EvidenceAssumption DEF AffidavitFull, TypeOK, Projection, TornProjection, AfterSeal

LEMMA HashTyped == ASSUME TypeOK, NEW r \in Run, Hash(r) PROVE TypeOK'
<1>1. run' \in [Run -> RunState]
  BY Files, FreshTyped, DisturbedTyped DEF Hash, TypeOK, RunTo, Over, RunState
<1>2. reader' \in [Reader -> ReaderState]
  BY DEF Hash, TypeOK
<1> QED BY <1>1, <1>2, Files, EvidenceAssumption DEF Hash, TypeOK, Projection, TornProjection

LEMMA OpenProjectionTyped == ASSUME TypeOK, NEW r \in Run, OpenProjection(r) PROVE TypeOK'
<1>1. run' \in [Run -> RunState]
  BY Files, FreshTyped, DisturbedTyped DEF OpenProjection, TypeOK, RunTo, Over, RunState
<1>2. reader' \in [Reader -> ReaderState]
  BY DEF OpenProjection, TypeOK
<1> QED BY <1>1, <1>2, Files, EvidenceAssumption DEF OpenProjection, TypeOK, Projection, TornProjection

LEMMA FillProjectionTyped == ASSUME TypeOK, NEW r \in Run, FillProjection(r) PROVE TypeOK'
<1>1. run' \in [Run -> RunState]
  BY FreshTyped DEF FillProjection, TypeOK, RunTo, Over
<1>2. projection' \in Projection
  <2>1. run[r].hash \in File
    BY DEF TypeOK, RunState
  <2>2. [of |-> r, pins |-> run[r].hash] \in Projection /\ TornProjection \in Projection
    BY <2>1, Files DEF Projection, TornProjection
  <2> QED BY <2>2 DEF FillProjection
<1>3. upset' \in BOOLEAN
  BY DEF FillProjection, Settles, TypeOK
<1> QED BY <1>1, <1>2, <1>3 DEF FillProjection, TypeOK

LEMMA CutShortTyped == ASSUME TypeOK, NEW r \in Run, CutShort(r) PROVE TypeOK'
<1>1. run' \in [Run -> RunState]
  BY Files, FreshTyped, DisturbedTyped DEF CutShort, TypeOK, RunTo, Over, RunState
<1>2. reader' \in [Reader -> ReaderState]
  BY DEF CutShort, TypeOK
<1> QED BY <1>1, <1>2, Files, EvidenceAssumption DEF CutShort, TypeOK, Projection, TornProjection

LEMMA ReadReceiptTyped == ASSUME TypeOK, ChecksHold, NEW v \in Reader, NEW verb \in Verbs, ReadReceipt(v, verb) PROVE TypeOK'
<1>1. run' \in [Run -> RunState]
  BY DisturbedTyped DEF ReadReceipt, TypeOK
<1>2. reader' \in [Reader -> ReaderState]
  BY Files, EvidenceAssumption DEF ReadReceipt, TypeOK, ReaderState, Quiet
<1> QED BY <1>1, <1>2, Files, EvidenceAssumption DEF ReadReceipt, TypeOK, ReaderState, ChecksHold, Reading, Quiet

LEMMA OpenSealTyped == ASSUME TypeOK, ChecksHold, NEW v \in Reader, OpenSeal(v) PROVE TypeOK'
<1>1. run' \in [Run -> RunState]
  BY DisturbedTyped DEF OpenSeal, TypeOK
<1>2. reader' \in [Reader -> ReaderState]
  BY Files, EvidenceAssumption DEF OpenSeal, TypeOK, ReaderState
<1> QED BY <1>1, <1>2, Files, EvidenceAssumption DEF OpenSeal, TypeOK, ReaderState, ChecksHold, Reading

LEMMA FillSealTyped == ASSUME TypeOK, ChecksHold, NEW v \in Reader, FillSeal(v) PROVE TypeOK'
<1>1. run' \in [Run -> RunState]
  BY DisturbedTyped DEF FillSeal, TypeOK
<1>2. reader' \in [Reader -> ReaderState]
  BY Files, EvidenceAssumption DEF FillSeal, TypeOK, ReaderState
<1> QED BY <1>1, <1>2, Files, EvidenceAssumption DEF FillSeal, TypeOK, ReaderState, ChecksHold, Reading

LEMMA StopReadingTyped == ASSUME TypeOK, ChecksHold, NEW v \in Reader, StopReading(v) PROVE TypeOK'
<1>1. run' \in [Run -> RunState]
  BY DisturbedTyped DEF StopReading, TypeOK
<1>2. reader' \in [Reader -> ReaderState]
  BY Files, EvidenceAssumption DEF StopReading, TypeOK, ReaderState
<1> QED BY <1>1, <1>2, Files, EvidenceAssumption DEF StopReading, TypeOK, ReaderState, ChecksHold, Reading

LEMMA CompareTyped == ASSUME TypeOK, NEW v \in Reader, Compare(v) PROVE TypeOK'
<1> DEFINE x == [reader[v] EXCEPT !.at = IF reader[v].verb = "seal" THEN "open" ELSE "over",
                 !.seal = affidavit, !.upset = upset,
                 !.verdict = IF Matches(affidavit, reader[v].got) THEN "accept" ELSE "reject"]
<1>1. x \in ReaderState
  <2> HIDE DEF Matches
  <2> QED BY DEF TypeOK, ReaderState
<1>2. reader' = [reader EXCEPT ![v] = x]
  BY DEF Compare
<1> HIDE DEF x
<1>3. reader' \in [Reader -> ReaderState]
  BY <1>1, <1>2 DEF TypeOK
<1> QED BY <1>3 DEF Compare, TypeOK

LEMMA EditReceiptTyped == ASSUME TypeOK, EditReceipt PROVE TypeOK'
BY Files, EvidenceAssumption DEF EditReceipt, TypeOK, Content, File

LEMMA EditAffidavitTyped == ASSUME TypeOK, EditAffidavit PROVE TypeOK'
BY Files, EvidenceAssumption DEF EditAffidavit, TypeOK, Content, File

LEMMA OpenNativeKeeps == ASSUME EInv, NEW r \in Run, OpenNative(r) PROVE EInv'
<1>1. TypeOK'
  BY OpenNativeTyped DEF EInv
<1>2. NothingYet'
  BY Files, DisturbedTyped DEF OpenNative, RunTo, Fresh, Quiet, EInv, TypeOK, RunState, ReaderState, Busy, Reading, Over, NothingYet
<1>3. AloneIsAlone'
  BY Files, DisturbedTyped DEF OpenNative, RunTo, Fresh, Quiet, EInv, TypeOK, RunState, ReaderState, Busy, Reading, Over, AloneIsAlone
<1>4. CalmIsAlone'
  <2> SUFFICES ASSUME ~upset' PROVE CalmIsAlone'
    BY DEF CalmIsAlone
  <2>1. Quiet
    BY DEF OpenNative
  <2>2. /\ run'[r].at = "native" /\ run'[r].alone
        /\ \A q \in Run : q # r => run'[q].at = run[q].at
    BY <2>1, DisturbedTyped DEF OpenNative, RunState, EInv
  <2>3. Busy' = {r} /\ Reading' = {}
    BY <2>1, <2>2 DEF OpenNative, Busy, Reading, Quiet, Over
  <2> QED BY <2>2, <2>3 DEF CalmIsAlone
<1>5. EditsAreCounted'
  BY Files, DisturbedTyped DEF OpenNative, RunTo, Fresh, Quiet, EInv, TypeOK, RunState, ReaderState, Busy, Reading, Over, EditsAreCounted
<1>6. SealsAreKnown'
  BY DEF OpenNative, EInv, SealsAreKnown
<1>7. StagesHold'
  BY Files, DisturbedTyped DEF OpenNative, RunTo, Fresh, Quiet, EInv, TypeOK, RunState, ReaderState, Busy, Reading, Over, NothingYet, StagesHold, StageHolds, Late, AloneIsAlone, Fits
<1>8. QuietIsWhole'
  BY Files, DisturbedTyped DEF OpenNative, RunTo, Fresh, Quiet, EInv, TypeOK, RunState, ReaderState, Busy, Reading, Over, Quiet, QuietIsWhole, AloneIsAlone, CalmIsAlone, StagesHold, StageHolds, Late, Fits, Pinned, ChecksHold, CheckHolds
<1>9. ChecksHold'
  BY Files, DisturbedTyped DEF OpenNative, RunTo, Fresh, Quiet, EInv, TypeOK, RunState, ReaderState, Busy, Reading, Over, ChecksHold, CheckHolds, AloneIsAlone, CalmIsAlone, Fits, Pinned, Quiet, QuietIsWhole
<1>10. EditIsCaught'
  BY DEF OpenNative, EInv, EditIsCaught
<1>11. RejectionIsDeserved'
  BY DEF OpenNative, EInv, RejectionIsDeserved
<1> QED BY <1>1, <1>2, <1>3, <1>4, <1>5, <1>6, <1>7, <1>8, <1>9, <1>10, <1>11 DEF EInv

LEMMA FillNativeKeeps == ASSUME EInv, NEW r \in Run, FillNative(r) PROVE EInv'
<1>1. TypeOK'
  BY FillNativeTyped DEF EInv
<1>2. NothingYet'
  BY Files, DisturbedTyped DEF FillNative, RunTo, Fresh, Filled, EInv, TypeOK, RunState, ReaderState, Busy, Reading, Over, NothingYet
<1>3. AloneIsAlone'
  BY Files, DisturbedTyped DEF FillNative, RunTo, Fresh, Filled, EInv, TypeOK, RunState, ReaderState, Busy, Reading, Over, AloneIsAlone
<1>4. CalmIsAlone'
  BY Files, DisturbedTyped DEF FillNative, RunTo, Fresh, Filled, EInv, TypeOK, RunState, ReaderState, Busy, Reading, Over, CalmIsAlone, AloneIsAlone
<1>5. EditsAreCounted'
  BY Files, DisturbedTyped DEF FillNative, RunTo, Fresh, Filled, EInv, TypeOK, RunState, ReaderState, Busy, Reading, Over, EditsAreCounted
<1>6. SealsAreKnown'
  BY DEF FillNative, EInv, SealsAreKnown
<1>7. StagesHold'
  BY Files, DisturbedTyped DEF FillNative, RunTo, Fresh, Filled, EInv, TypeOK, RunState, ReaderState, Busy, Reading, Over, NothingYet, StagesHold, StageHolds, Late, AloneIsAlone, Fits
<1>8. QuietIsWhole'
  BY Files, DisturbedTyped DEF FillNative, RunTo, Fresh, Filled, EInv, TypeOK, RunState, ReaderState, Busy, Reading, Over, Quiet, QuietIsWhole, AloneIsAlone, CalmIsAlone, StagesHold, StageHolds, Late, Fits, Pinned, ChecksHold, CheckHolds
<1>9. ChecksHold'
  BY Files, DisturbedTyped DEF FillNative, RunTo, Fresh, Filled, EInv, TypeOK, RunState, ReaderState, Busy, Reading, Over, ChecksHold, CheckHolds, AloneIsAlone, CalmIsAlone, Fits, Pinned, Quiet, QuietIsWhole
<1>10. EditIsCaught'
  BY DEF FillNative, EInv, EditIsCaught
<1>11. RejectionIsDeserved'
  BY DEF FillNative, EInv, RejectionIsDeserved
<1> QED BY <1>1, <1>2, <1>3, <1>4, <1>5, <1>6, <1>7, <1>8, <1>9, <1>10, <1>11 DEF EInv

LEMMA NativeFullKeeps == ASSUME EInv, NEW r \in Run, NativeFull(r) PROVE EInv'
<1>1. TypeOK'
  BY NativeFullTyped DEF EInv
<1>2. NothingYet'
  BY Files, DisturbedTyped DEF NativeFull, RunTo, Fresh, EInv, TypeOK, RunState, ReaderState, Busy, Reading, Over, NothingYet
<1>3. AloneIsAlone'
  BY Files, DisturbedTyped DEF NativeFull, RunTo, Fresh, EInv, TypeOK, RunState, ReaderState, Busy, Reading, Over, AloneIsAlone
<1>4. CalmIsAlone'
  BY Files, DisturbedTyped DEF NativeFull, RunTo, Fresh, EInv, TypeOK, RunState, ReaderState, Busy, Reading, Over, CalmIsAlone, AloneIsAlone
<1>5. EditsAreCounted'
  BY Files, DisturbedTyped DEF NativeFull, RunTo, Fresh, EInv, TypeOK, RunState, ReaderState, Busy, Reading, Over, EditsAreCounted
<1>6. SealsAreKnown'
  BY DEF NativeFull, EInv, SealsAreKnown
<1>7. StagesHold'
  BY Files, DisturbedTyped DEF NativeFull, RunTo, Fresh, EInv, TypeOK, RunState, ReaderState, Busy, Reading, Over, NothingYet, StagesHold, StageHolds, Late, AloneIsAlone, Fits
<1>8. QuietIsWhole'
  BY Files, DisturbedTyped DEF NativeFull, RunTo, Fresh, EInv, TypeOK, RunState, ReaderState, Busy, Reading, Over, Quiet, QuietIsWhole, AloneIsAlone, CalmIsAlone, StagesHold, StageHolds, Late, Fits, Pinned, ChecksHold, CheckHolds
<1>9. ChecksHold'
  BY Files, DisturbedTyped DEF NativeFull, RunTo, Fresh, EInv, TypeOK, RunState, ReaderState, Busy, Reading, Over, ChecksHold, CheckHolds, AloneIsAlone, CalmIsAlone, Fits, Pinned, Quiet, QuietIsWhole
<1>10. EditIsCaught'
  BY DEF NativeFull, EInv, EditIsCaught
<1>11. RejectionIsDeserved'
  BY DEF NativeFull, EInv, RejectionIsDeserved
<1> QED BY <1>1, <1>2, <1>3, <1>4, <1>5, <1>6, <1>7, <1>8, <1>9, <1>10, <1>11 DEF EInv

LEMMA OpenAffidavitKeeps == ASSUME EInv, NEW r \in Run, OpenAffidavit(r) PROVE EInv'
<1>1. TypeOK'
  BY OpenAffidavitTyped DEF EInv
<1>2. NothingYet'
  BY Files, DisturbedTyped DEF OpenAffidavit, RunTo, Fresh, EInv, TypeOK, RunState, ReaderState, Busy, Reading, Over, NothingYet
<1>3. AloneIsAlone'
  BY Files, DisturbedTyped DEF OpenAffidavit, RunTo, Fresh, EInv, TypeOK, RunState, ReaderState, Busy, Reading, Over, AloneIsAlone
<1>4. CalmIsAlone'
  BY Files, DisturbedTyped DEF OpenAffidavit, RunTo, Fresh, EInv, TypeOK, RunState, ReaderState, Busy, Reading, Over, CalmIsAlone, AloneIsAlone
<1>5. EditsAreCounted'
  BY DEF OpenAffidavit, EInv, EditsAreCounted
<1>6. SealsAreKnown'
  BY Files, DisturbedTyped DEF OpenAffidavit, RunTo, Fresh, EInv, TypeOK, RunState, ReaderState, Busy, Reading, Over, SealsAreKnown, ChecksHold, StagesHold, StageHolds
<1>7. StagesHold'
  BY Files, DisturbedTyped DEF OpenAffidavit, RunTo, Fresh, EInv, TypeOK, RunState, ReaderState, Busy, Reading, Over, NothingYet, StagesHold, StageHolds, Late, AloneIsAlone, Fits
<1>8. QuietIsWhole'
  BY Files, DisturbedTyped DEF OpenAffidavit, RunTo, Fresh, EInv, TypeOK, RunState, ReaderState, Busy, Reading, Over, Quiet, QuietIsWhole, AloneIsAlone, CalmIsAlone, StagesHold, StageHolds, Late, Fits, Pinned, ChecksHold, CheckHolds
<1>9. ChecksHold'
  BY Files, DisturbedTyped DEF OpenAffidavit, RunTo, Fresh, EInv, TypeOK, RunState, ReaderState, Busy, Reading, Over, ChecksHold, CheckHolds, AloneIsAlone, CalmIsAlone, Fits, Pinned, Quiet, QuietIsWhole
<1>10. EditIsCaught'
  BY DEF OpenAffidavit, EInv, EditIsCaught
<1>11. RejectionIsDeserved'
  BY DEF OpenAffidavit, EInv, RejectionIsDeserved
<1> QED BY <1>1, <1>2, <1>3, <1>4, <1>5, <1>6, <1>7, <1>8, <1>9, <1>10, <1>11 DEF EInv

LEMMA FillAffidavitKeeps == ASSUME EInv, NEW r \in Run, FillAffidavit(r) PROVE EInv'
<1>1. TypeOK'
  BY FillAffidavitTyped DEF EInv
<1>2. NothingYet'
  BY Files, DisturbedTyped DEF FillAffidavit, RunTo, Fresh, Filled, AfterSeal, Settles, EInv, TypeOK, RunState, ReaderState, Busy, Reading, Over, NothingYet
<1>3. AloneIsAlone'
  BY Files, DisturbedTyped DEF FillAffidavit, RunTo, Fresh, Filled, AfterSeal, Settles, EInv, TypeOK, RunState, ReaderState, Busy, Reading, Over, AloneIsAlone
<1>4. CalmIsAlone'
  BY Files, DisturbedTyped DEF FillAffidavit, RunTo, Fresh, Filled, AfterSeal, Settles, EInv, TypeOK, RunState, ReaderState, Busy, Reading, Over, CalmIsAlone, AloneIsAlone
<1>5. EditsAreCounted'
  BY DEF FillAffidavit, EInv, EditsAreCounted
<1>6. SealsAreKnown'
  BY Files, DisturbedTyped DEF FillAffidavit, RunTo, Fresh, Filled, AfterSeal, Settles, EInv, TypeOK, RunState, ReaderState, Busy, Reading, Over, SealsAreKnown, ChecksHold, StagesHold, StageHolds
<1>7. StagesHold'
  BY Files, DisturbedTyped DEF FillAffidavit, RunTo, Fresh, Filled, AfterSeal, Settles, EInv, TypeOK, RunState, ReaderState, Busy, Reading, Over, NothingYet, StagesHold, StageHolds, Late, AloneIsAlone, Fits
<1>8. QuietIsWhole'
  <2>1. CASE AfterSeal(r) = "hash"
    <3>1. run'[r].at = "hash"
      BY <2>1 DEF FillAffidavit, RunTo, Over, EInv, TypeOK, RunState
    <3> QED BY <3>1 DEF QuietIsWhole, Quiet, Busy, Over
  <2>2. CASE AfterSeal(r) = "ended"
    <3> SUFFICES ASSUME Quiet', ~upset' PROVE QuietIsWhole'
      BY DEF QuietIsWhole
    <3>1. r \in Busy
      BY DEF FillAffidavit, Busy, Over
    <3>2. run[r].alone /\ run[r].wrote
      BY <3>1 DEF FillAffidavit, Settles, EInv, CalmIsAlone
    <3>3. affidavit = Torn /\ native \in Content /\ native.by = r /\ Kind[r] = "release"
      BY <2>2, <3>2 DEF FillAffidavit, EInv, StagesHold, StageHolds, AfterSeal
    <3>4. affidavit' = Own(r) /\ UNCHANGED <<native, projection>>
      BY <3>3 DEF FillAffidavit, Filled
    <3>5. Fits(affidavit', native)
      BY <3>3, <3>4, Files, EvidenceAssumption DEF Fits
    <3> QED BY <3>3, <3>4, <3>5 DEF QuietIsWhole, Pinned
  <2> QED BY <2>1, <2>2 DEF AfterSeal
<1>9. ChecksHold'
  BY Files, DisturbedTyped DEF FillAffidavit, RunTo, Fresh, Filled, AfterSeal, Settles, EInv, TypeOK, RunState, ReaderState, Busy, Reading, Over, ChecksHold, CheckHolds, AloneIsAlone, CalmIsAlone, Fits, Pinned, Quiet, QuietIsWhole
<1>10. EditIsCaught'
  BY DEF FillAffidavit, EInv, EditIsCaught
<1>11. RejectionIsDeserved'
  BY DEF FillAffidavit, EInv, RejectionIsDeserved
<1> QED BY <1>1, <1>2, <1>3, <1>4, <1>5, <1>6, <1>7, <1>8, <1>9, <1>10, <1>11 DEF EInv

LEMMA AffidavitFullKeeps == ASSUME EInv, NEW r \in Run, AffidavitFull(r) PROVE EInv'
<1>1. TypeOK'
  BY AffidavitFullTyped DEF EInv
<1>2. NothingYet'
  BY Files, DisturbedTyped DEF AffidavitFull, RunTo, Fresh, AfterSeal, EInv, TypeOK, RunState, ReaderState, Busy, Reading, Over, NothingYet
<1>3. AloneIsAlone'
  BY Files, DisturbedTyped DEF AffidavitFull, RunTo, Fresh, AfterSeal, EInv, TypeOK, RunState, ReaderState, Busy, Reading, Over, AloneIsAlone
<1>4. CalmIsAlone'
  BY Files, DisturbedTyped DEF AffidavitFull, RunTo, Fresh, AfterSeal, EInv, TypeOK, RunState, ReaderState, Busy, Reading, Over, CalmIsAlone, AloneIsAlone
<1>5. EditsAreCounted'
  BY DEF AffidavitFull, EInv, EditsAreCounted
<1>6. SealsAreKnown'
  BY Files, DisturbedTyped DEF AffidavitFull, RunTo, Fresh, AfterSeal, EInv, TypeOK, RunState, ReaderState, Busy, Reading, Over, SealsAreKnown, ChecksHold, StagesHold, StageHolds
<1>7. StagesHold'
  BY Files, DisturbedTyped DEF AffidavitFull, RunTo, Fresh, AfterSeal, EInv, TypeOK, RunState, ReaderState, Busy, Reading, Over, NothingYet, StagesHold, StageHolds, Late, AloneIsAlone, Fits
<1>8. QuietIsWhole'
  BY Files, DisturbedTyped DEF AffidavitFull, RunTo, Fresh, AfterSeal, EInv, TypeOK, RunState, ReaderState, Busy, Reading, Over, Quiet, QuietIsWhole, AloneIsAlone, CalmIsAlone, StagesHold, StageHolds, Late, Fits, Pinned, ChecksHold, CheckHolds
<1>9. ChecksHold'
  BY Files, DisturbedTyped DEF AffidavitFull, RunTo, Fresh, AfterSeal, EInv, TypeOK, RunState, ReaderState, Busy, Reading, Over, ChecksHold, CheckHolds, AloneIsAlone, CalmIsAlone, Fits, Pinned, Quiet, QuietIsWhole
<1>10. EditIsCaught'
  BY DEF AffidavitFull, EInv, EditIsCaught
<1>11. RejectionIsDeserved'
  BY DEF AffidavitFull, EInv, RejectionIsDeserved
<1> QED BY <1>1, <1>2, <1>3, <1>4, <1>5, <1>6, <1>7, <1>8, <1>9, <1>10, <1>11 DEF EInv

LEMMA HashKeeps == ASSUME EInv, NEW r \in Run, Hash(r) PROVE EInv'
<1>1. TypeOK'
  BY HashTyped DEF EInv
<1>2. NothingYet'
  BY Files, DisturbedTyped DEF Hash, RunTo, Fresh, EInv, TypeOK, RunState, ReaderState, Busy, Reading, Over, NothingYet
<1>3. AloneIsAlone'
  BY Files, DisturbedTyped DEF Hash, RunTo, Fresh, EInv, TypeOK, RunState, ReaderState, Busy, Reading, Over, AloneIsAlone
<1>4. CalmIsAlone'
  BY Files, DisturbedTyped DEF Hash, RunTo, Fresh, EInv, TypeOK, RunState, ReaderState, Busy, Reading, Over, CalmIsAlone, AloneIsAlone
<1>5. EditsAreCounted'
  BY DEF Hash, EInv, EditsAreCounted
<1>6. SealsAreKnown'
  BY DEF Hash, EInv, SealsAreKnown
<1>7. StagesHold'
  BY Files, DisturbedTyped DEF Hash, RunTo, Fresh, EInv, TypeOK, RunState, ReaderState, Busy, Reading, Over, NothingYet, StagesHold, StageHolds, Late, AloneIsAlone, Fits
<1>8. QuietIsWhole'
  BY Files, DisturbedTyped DEF Hash, RunTo, Fresh, EInv, TypeOK, RunState, ReaderState, Busy, Reading, Over, Quiet, QuietIsWhole, AloneIsAlone, CalmIsAlone, StagesHold, StageHolds, Late, Fits, Pinned, ChecksHold, CheckHolds
<1>9. ChecksHold'
  BY DEF Hash, EInv, ChecksHold, CheckHolds, Fits, Pinned, Reading
<1>10. EditIsCaught'
  BY DEF Hash, EInv, EditIsCaught
<1>11. RejectionIsDeserved'
  BY DEF Hash, EInv, RejectionIsDeserved
<1> QED BY <1>1, <1>2, <1>3, <1>4, <1>5, <1>6, <1>7, <1>8, <1>9, <1>10, <1>11 DEF EInv

LEMMA OpenProjectionKeeps == ASSUME EInv, NEW r \in Run, OpenProjection(r) PROVE EInv'
<1>1. TypeOK'
  BY OpenProjectionTyped DEF EInv
<1>2. NothingYet'
  BY Files, DisturbedTyped DEF OpenProjection, RunTo, Fresh, EInv, TypeOK, RunState, ReaderState, Busy, Reading, Over, NothingYet
<1>3. AloneIsAlone'
  BY Files, DisturbedTyped DEF OpenProjection, RunTo, Fresh, EInv, TypeOK, RunState, ReaderState, Busy, Reading, Over, AloneIsAlone
<1>4. CalmIsAlone'
  BY Files, DisturbedTyped DEF OpenProjection, RunTo, Fresh, EInv, TypeOK, RunState, ReaderState, Busy, Reading, Over, CalmIsAlone, AloneIsAlone
<1>5. EditsAreCounted'
  BY DEF OpenProjection, EInv, EditsAreCounted
<1>6. SealsAreKnown'
  BY DEF OpenProjection, EInv, SealsAreKnown
<1>7. StagesHold'
  BY Files, DisturbedTyped DEF OpenProjection, RunTo, Fresh, EInv, TypeOK, RunState, ReaderState, Busy, Reading, Over, NothingYet, StagesHold, StageHolds, Late, AloneIsAlone, Fits
<1>8. QuietIsWhole'
  BY Files, DisturbedTyped DEF OpenProjection, RunTo, Fresh, EInv, TypeOK, RunState, ReaderState, Busy, Reading, Over, Quiet, QuietIsWhole, AloneIsAlone, CalmIsAlone, StagesHold, StageHolds, Late, Fits, Pinned, ChecksHold, CheckHolds
<1>9. ChecksHold'
  BY Files, DisturbedTyped DEF OpenProjection, RunTo, Fresh, EInv, TypeOK, RunState, ReaderState, Busy, Reading, Over, ChecksHold, CheckHolds, AloneIsAlone, CalmIsAlone, Fits, Pinned, Quiet, QuietIsWhole
<1>10. EditIsCaught'
  BY DEF OpenProjection, EInv, EditIsCaught
<1>11. RejectionIsDeserved'
  BY DEF OpenProjection, EInv, RejectionIsDeserved
<1> QED BY <1>1, <1>2, <1>3, <1>4, <1>5, <1>6, <1>7, <1>8, <1>9, <1>10, <1>11 DEF EInv

LEMMA FillProjectionKeeps == ASSUME EInv, NEW r \in Run, FillProjection(r) PROVE EInv'
<1>1. TypeOK'
  BY FillProjectionTyped DEF EInv
<1>2. NothingYet'
  BY Files, DisturbedTyped DEF FillProjection, RunTo, Fresh, Settles, EInv, TypeOK, RunState, ReaderState, Busy, Reading, Over, NothingYet
<1>3. AloneIsAlone'
  BY Files, DisturbedTyped DEF FillProjection, RunTo, Fresh, Settles, EInv, TypeOK, RunState, ReaderState, Busy, Reading, Over, AloneIsAlone
<1>4. CalmIsAlone'
  BY Files, DisturbedTyped DEF FillProjection, RunTo, Fresh, Settles, EInv, TypeOK, RunState, ReaderState, Busy, Reading, Over, CalmIsAlone, AloneIsAlone
<1>5. EditsAreCounted'
  BY DEF FillProjection, EInv, EditsAreCounted
<1>6. SealsAreKnown'
  BY DEF FillProjection, EInv, SealsAreKnown
<1>7. StagesHold'
  BY Files, DisturbedTyped DEF FillProjection, RunTo, Fresh, Settles, EInv, TypeOK, RunState, ReaderState, Busy, Reading, Over, NothingYet, StagesHold, StageHolds, Late, AloneIsAlone, Fits
<1>8. QuietIsWhole'
  BY Files, DisturbedTyped DEF FillProjection, RunTo, Fresh, Settles, EInv, TypeOK, RunState, ReaderState, Busy, Reading, Over, Quiet, QuietIsWhole, AloneIsAlone, CalmIsAlone, StagesHold, StageHolds, Late, Fits, Pinned, ChecksHold, CheckHolds
<1>9. ChecksHold'
  BY Files, DisturbedTyped DEF FillProjection, RunTo, Fresh, Settles, EInv, TypeOK, RunState, ReaderState, Busy, Reading, Over, ChecksHold, CheckHolds, AloneIsAlone, CalmIsAlone, Fits, Pinned, Quiet, QuietIsWhole
<1>10. EditIsCaught'
  BY DEF FillProjection, EInv, EditIsCaught
<1>11. RejectionIsDeserved'
  BY DEF FillProjection, EInv, RejectionIsDeserved
<1> QED BY <1>1, <1>2, <1>3, <1>4, <1>5, <1>6, <1>7, <1>8, <1>9, <1>10, <1>11 DEF EInv

LEMMA CutShortKeeps == ASSUME EInv, NEW r \in Run, CutShort(r) PROVE EInv'
<1>1. TypeOK'
  BY CutShortTyped DEF EInv
<1>2. NothingYet'
  BY Files, DisturbedTyped DEF CutShort, RunTo, Fresh, EInv, TypeOK, RunState, ReaderState, Busy, Reading, Over, NothingYet
<1>3. AloneIsAlone'
  BY Files, DisturbedTyped DEF CutShort, RunTo, Fresh, EInv, TypeOK, RunState, ReaderState, Busy, Reading, Over, AloneIsAlone
<1>4. CalmIsAlone'
  BY Files, DisturbedTyped DEF CutShort, RunTo, Fresh, EInv, TypeOK, RunState, ReaderState, Busy, Reading, Over, CalmIsAlone, AloneIsAlone
<1>5. EditsAreCounted'
  BY DEF CutShort, EInv, EditsAreCounted
<1>6. SealsAreKnown'
  BY DEF CutShort, EInv, SealsAreKnown
<1>7. StagesHold'
  BY Files, DisturbedTyped DEF CutShort, RunTo, Fresh, EInv, TypeOK, RunState, ReaderState, Busy, Reading, Over, NothingYet, StagesHold, StageHolds, Late, AloneIsAlone, Fits
<1>8. QuietIsWhole'
  BY Files, DisturbedTyped DEF CutShort, RunTo, Fresh, EInv, TypeOK, RunState, ReaderState, Busy, Reading, Over, Quiet, QuietIsWhole, AloneIsAlone, CalmIsAlone, StagesHold, StageHolds, Late, Fits, Pinned, ChecksHold, CheckHolds
<1>9. ChecksHold'
  BY Files, DisturbedTyped DEF CutShort, RunTo, Fresh, EInv, TypeOK, RunState, ReaderState, Busy, Reading, Over, ChecksHold, CheckHolds, AloneIsAlone, CalmIsAlone, Fits, Pinned, Quiet, QuietIsWhole
<1>10. EditIsCaught'
  BY DEF CutShort, EInv, EditIsCaught
<1>11. RejectionIsDeserved'
  BY DEF CutShort, EInv, RejectionIsDeserved
<1> QED BY <1>1, <1>2, <1>3, <1>4, <1>5, <1>6, <1>7, <1>8, <1>9, <1>10, <1>11 DEF EInv

LEMMA ReadReceiptKeeps == ASSUME EInv, NEW v \in Reader, NEW verb \in Verbs, ReadReceipt(v, verb) PROVE EInv'
<1>1. TypeOK'
  BY ReadReceiptTyped DEF EInv
<1>2. NothingYet'
  BY Files, DisturbedTyped DEF ReadReceipt, RunTo, Fresh, Quiet, EInv, TypeOK, RunState, ReaderState, Busy, Reading, Over, NothingYet
<1>3. AloneIsAlone'
  BY Files, DisturbedTyped DEF ReadReceipt, RunTo, Fresh, Quiet, EInv, TypeOK, RunState, ReaderState, Busy, Reading, Over, AloneIsAlone
<1>4. CalmIsAlone'
  <2> SUFFICES ASSUME ~upset' PROVE CalmIsAlone'
    BY DEF CalmIsAlone
  <2>1. Quiet
    BY DEF ReadReceipt
  <2>2. \A q \in Run : run'[q].at = run[q].at
    BY DisturbedTyped DEF ReadReceipt, EInv
  <2>3. \A w \in Reader : w # v => reader'[w] = reader[w]
    BY DEF ReadReceipt, EInv, TypeOK
  <2>4. Busy' = {} /\ Reading' \subseteq {v}
    BY <2>1, <2>2, <2>3 DEF Busy, Reading, Quiet
  <2> QED BY <2>4 DEF CalmIsAlone
<1>5. EditsAreCounted'
  BY DEF ReadReceipt, EInv, EditsAreCounted
<1>6. SealsAreKnown'
  BY DEF ReadReceipt, EInv, SealsAreKnown
<1>7. StagesHold'
  BY Files, DisturbedTyped DEF ReadReceipt, RunTo, Fresh, Quiet, EInv, TypeOK, RunState, ReaderState, Busy, Reading, Over, NothingYet, StagesHold, StageHolds, Late, AloneIsAlone, Fits
<1>8. QuietIsWhole'
  BY Files, DisturbedTyped DEF ReadReceipt, RunTo, Fresh, Quiet, EInv, TypeOK, RunState, ReaderState, Busy, Reading, Over, Quiet, QuietIsWhole, AloneIsAlone, CalmIsAlone, StagesHold, StageHolds, Late, Fits, Pinned, ChecksHold, CheckHolds
<1>9. ChecksHold'
  <2>1. reader'[v].at = "compare" => Whole(native) /\ reader'[v].got = native
    BY DEF ReadReceipt, EInv, TypeOK, ReaderState
  <2>2. reader'[v].at \in {"compare", "over"} /\ \A w \in Reader : w # v => reader'[w] = reader[w]
    BY DEF ReadReceipt, EInv, TypeOK, ReaderState
  <2>3. Whole(native) => native \in Content
    BY Files DEF EInv, TypeOK
  <2>4. \A w \in Reading' : reader'[w].got \in Content
    BY <2>1, <2>2, <2>3 DEF Reading, EInv, ChecksHold
  <2>5. ASSUME ~upset', NEW w \in Reading' PROVE CheckHolds(w)'
    <3>1. Quiet /\ ~upset /\ w = v /\ reader'[v].at = "compare"
      BY <2>2, <2>5 DEF ReadReceipt, Quiet, Reading
    <3>2. native \in Content /\ Fits(affidavit, native) /\ Pinned(native)
      BY <3>1, <2>1, <2>3, Files DEF EInv, QuietIsWhole
    <3>3. UNCHANGED <<native, affidavit, projection>>
      BY DEF ReadReceipt
    <3>4. native.rev <= native.rev
      BY <3>2, Files, EvidenceAssumption
    <3> QED BY <3>1, <3>2, <3>3, <3>4, <2>1 DEF CheckHolds, Pinned, Fits
  <2> QED BY <2>4, <2>5 DEF ChecksHold
<1>10. EditIsCaught'
  BY Files, DisturbedTyped DEF ReadReceipt, RunTo, Fresh, Quiet, EInv, TypeOK, RunState, ReaderState, Busy, Reading, Over, EditIsCaught
<1>11. RejectionIsDeserved'
  BY Files, DisturbedTyped DEF ReadReceipt, RunTo, Fresh, Quiet, EInv, TypeOK, RunState, ReaderState, Busy, Reading, Over, RejectionIsDeserved
<1> QED BY <1>1, <1>2, <1>3, <1>4, <1>5, <1>6, <1>7, <1>8, <1>9, <1>10, <1>11 DEF EInv

LEMMA CompareKeeps == ASSUME EInv, NEW v \in Reader, Compare(v) PROVE EInv'
<1>1. TypeOK'
  BY CompareTyped DEF EInv
<1>2. NothingYet'
  BY DEF Compare, EInv, NothingYet
<1>3. AloneIsAlone'
  BY Files, DisturbedTyped DEF Compare, RunTo, Fresh, Matches, EInv, TypeOK, RunState, ReaderState, Busy, Reading, Over, AloneIsAlone
<1>4. CalmIsAlone'
  BY Files, DisturbedTyped DEF Compare, RunTo, Fresh, Matches, EInv, TypeOK, RunState, ReaderState, Busy, Reading, Over, CalmIsAlone, AloneIsAlone
<1>5. EditsAreCounted'
  BY DEF Compare, EInv, EditsAreCounted
<1>6. SealsAreKnown'
  BY DEF Compare, EInv, SealsAreKnown
<1>7. StagesHold'
  BY DEF Compare, EInv, StagesHold, StageHolds, Fits
<1>8. QuietIsWhole'
  BY Files, DisturbedTyped DEF Compare, RunTo, Fresh, Matches, EInv, TypeOK, RunState, ReaderState, Busy, Reading, Over, Quiet, QuietIsWhole, AloneIsAlone, CalmIsAlone, StagesHold, StageHolds, Late, Fits, Pinned, ChecksHold, CheckHolds
<1>9. ChecksHold'
  BY Files, DisturbedTyped DEF Compare, RunTo, Fresh, Matches, EInv, TypeOK, RunState, ReaderState, Busy, Reading, Over, ChecksHold, CheckHolds, AloneIsAlone, CalmIsAlone, Fits, Pinned, Quiet, QuietIsWhole
<1>10. EditIsCaught'
  BY Files, DisturbedTyped DEF Compare, RunTo, Fresh, Matches, EInv, TypeOK, RunState, ReaderState, Busy, Reading, Over, EditIsCaught
<1>11. RejectionIsDeserved'
  BY Files, DisturbedTyped DEF Compare, RunTo, Fresh, Matches, EInv, TypeOK, RunState, ReaderState, Busy, Reading, Over, RejectionIsDeserved
<1> QED BY <1>1, <1>2, <1>3, <1>4, <1>5, <1>6, <1>7, <1>8, <1>9, <1>10, <1>11 DEF EInv

LEMMA OpenSealKeeps == ASSUME EInv, NEW v \in Reader, OpenSeal(v) PROVE EInv'
<1>1. TypeOK'
  BY OpenSealTyped DEF EInv
<1>2. NothingYet'
  BY DEF OpenSeal, EInv, NothingYet
<1>3. AloneIsAlone'
  BY Files, DisturbedTyped DEF OpenSeal, RunTo, Fresh, EInv, TypeOK, RunState, ReaderState, Busy, Reading, Over, AloneIsAlone
<1>4. CalmIsAlone'
  BY Files, DisturbedTyped DEF OpenSeal, RunTo, Fresh, EInv, TypeOK, RunState, ReaderState, Busy, Reading, Over, CalmIsAlone, AloneIsAlone
<1>5. EditsAreCounted'
  BY DEF OpenSeal, EInv, EditsAreCounted
<1>6. SealsAreKnown'
  BY Files, DisturbedTyped DEF OpenSeal, RunTo, Fresh, EInv, TypeOK, RunState, ReaderState, Busy, Reading, Over, SealsAreKnown, ChecksHold, StagesHold, StageHolds
<1>7. StagesHold'
  BY Files, DisturbedTyped DEF OpenSeal, RunTo, Fresh, EInv, TypeOK, RunState, ReaderState, Busy, Reading, Over, NothingYet, StagesHold, StageHolds, Late, AloneIsAlone, Fits
<1>8. QuietIsWhole'
  BY Files, DisturbedTyped DEF OpenSeal, RunTo, Fresh, EInv, TypeOK, RunState, ReaderState, Busy, Reading, Over, Quiet, QuietIsWhole, AloneIsAlone, CalmIsAlone, StagesHold, StageHolds, Late, Fits, Pinned, ChecksHold, CheckHolds
<1>9. ChecksHold'
  BY Files, DisturbedTyped DEF OpenSeal, RunTo, Fresh, EInv, TypeOK, RunState, ReaderState, Busy, Reading, Over, ChecksHold, CheckHolds, AloneIsAlone, CalmIsAlone, Fits, Pinned, Quiet, QuietIsWhole
<1>10. EditIsCaught'
  BY Files, DisturbedTyped DEF OpenSeal, RunTo, Fresh, EInv, TypeOK, RunState, ReaderState, Busy, Reading, Over, EditIsCaught
<1>11. RejectionIsDeserved'
  BY Files, DisturbedTyped DEF OpenSeal, RunTo, Fresh, EInv, TypeOK, RunState, ReaderState, Busy, Reading, Over, RejectionIsDeserved
<1> QED BY <1>1, <1>2, <1>3, <1>4, <1>5, <1>6, <1>7, <1>8, <1>9, <1>10, <1>11 DEF EInv

LEMMA FillSealKeeps == ASSUME EInv, NEW v \in Reader, FillSeal(v) PROVE EInv'
<1>1. TypeOK'
  BY FillSealTyped DEF EInv
<1>2. NothingYet'
  BY DEF FillSeal, EInv, NothingYet
<1>3. AloneIsAlone'
  BY Files, DisturbedTyped DEF FillSeal, RunTo, Fresh, EInv, TypeOK, RunState, ReaderState, Busy, Reading, Over, AloneIsAlone
<1>4. CalmIsAlone'
  BY Files, DisturbedTyped DEF FillSeal, RunTo, Fresh, EInv, TypeOK, RunState, ReaderState, Busy, Reading, Over, CalmIsAlone, AloneIsAlone
<1>5. EditsAreCounted'
  BY DEF FillSeal, EInv, EditsAreCounted
<1>6. SealsAreKnown'
  BY Files, DisturbedTyped DEF FillSeal, RunTo, Fresh, EInv, TypeOK, RunState, ReaderState, Busy, Reading, Over, SealsAreKnown, ChecksHold, StagesHold, StageHolds
<1>7. StagesHold'
  BY Files, DisturbedTyped DEF FillSeal, RunTo, Fresh, EInv, TypeOK, RunState, ReaderState, Busy, Reading, Over, NothingYet, StagesHold, StageHolds, Late, AloneIsAlone, Fits
<1>8. QuietIsWhole'
  BY Files, DisturbedTyped DEF FillSeal, RunTo, Fresh, EInv, TypeOK, RunState, ReaderState, Busy, Reading, Over, Quiet, QuietIsWhole, AloneIsAlone, CalmIsAlone, StagesHold, StageHolds, Late, Fits, Pinned, ChecksHold, CheckHolds
<1>9. ChecksHold'
  BY Files, DisturbedTyped DEF FillSeal, RunTo, Fresh, EInv, TypeOK, RunState, ReaderState, Busy, Reading, Over, ChecksHold, CheckHolds, AloneIsAlone, CalmIsAlone, Fits, Pinned, Quiet, QuietIsWhole
<1>10. EditIsCaught'
  BY Files, DisturbedTyped DEF FillSeal, RunTo, Fresh, EInv, TypeOK, RunState, ReaderState, Busy, Reading, Over, EditIsCaught
<1>11. RejectionIsDeserved'
  BY Files, DisturbedTyped DEF FillSeal, RunTo, Fresh, EInv, TypeOK, RunState, ReaderState, Busy, Reading, Over, RejectionIsDeserved
<1> QED BY <1>1, <1>2, <1>3, <1>4, <1>5, <1>6, <1>7, <1>8, <1>9, <1>10, <1>11 DEF EInv

LEMMA StopReadingKeeps == ASSUME EInv, NEW v \in Reader, StopReading(v) PROVE EInv'
<1>1. TypeOK'
  BY StopReadingTyped DEF EInv
<1>2. NothingYet'
  BY Files, DisturbedTyped DEF StopReading, RunTo, Fresh, EInv, TypeOK, RunState, ReaderState, Busy, Reading, Over, NothingYet
<1>3. AloneIsAlone'
  BY Files, DisturbedTyped DEF StopReading, RunTo, Fresh, EInv, TypeOK, RunState, ReaderState, Busy, Reading, Over, AloneIsAlone
<1>4. CalmIsAlone'
  BY Files, DisturbedTyped DEF StopReading, RunTo, Fresh, EInv, TypeOK, RunState, ReaderState, Busy, Reading, Over, CalmIsAlone, AloneIsAlone
<1>5. EditsAreCounted'
  BY DEF StopReading, EInv, EditsAreCounted
<1>6. SealsAreKnown'
  BY DEF StopReading, EInv, SealsAreKnown
<1>7. StagesHold'
  BY Files, DisturbedTyped DEF StopReading, RunTo, Fresh, EInv, TypeOK, RunState, ReaderState, Busy, Reading, Over, NothingYet, StagesHold, StageHolds, Late, AloneIsAlone, Fits
<1>8. QuietIsWhole'
  BY Files, DisturbedTyped DEF StopReading, RunTo, Fresh, EInv, TypeOK, RunState, ReaderState, Busy, Reading, Over, Quiet, QuietIsWhole, AloneIsAlone, CalmIsAlone, StagesHold, StageHolds, Late, Fits, Pinned, ChecksHold, CheckHolds
<1>9. ChecksHold'
  BY Files, DisturbedTyped DEF StopReading, RunTo, Fresh, EInv, TypeOK, RunState, ReaderState, Busy, Reading, Over, ChecksHold, CheckHolds, AloneIsAlone, CalmIsAlone, Fits, Pinned, Quiet, QuietIsWhole
<1>10. EditIsCaught'
  BY Files, DisturbedTyped DEF StopReading, RunTo, Fresh, EInv, TypeOK, RunState, ReaderState, Busy, Reading, Over, EditIsCaught
<1>11. RejectionIsDeserved'
  BY Files, DisturbedTyped DEF StopReading, RunTo, Fresh, EInv, TypeOK, RunState, ReaderState, Busy, Reading, Over, RejectionIsDeserved
<1> QED BY <1>1, <1>2, <1>3, <1>4, <1>5, <1>6, <1>7, <1>8, <1>9, <1>10, <1>11 DEF EInv

LEMMA EditReceiptKeeps == ASSUME EInv, EditReceipt PROVE EInv'
<1>1. TypeOK'
  BY EditReceiptTyped DEF EInv
<1>2. NothingYet'
  BY DEF EditReceipt, EInv, NothingYet
<1>3. AloneIsAlone'
  BY DEF EditReceipt, EInv, AloneIsAlone, Busy, Reading
<1>4. CalmIsAlone'
  BY DEF EditReceipt, EInv, CalmIsAlone, Busy, Reading
<1>5. EditsAreCounted'
  BY Files, DisturbedTyped DEF EditReceipt, RunTo, Fresh, EInv, TypeOK, RunState, ReaderState, Busy, Reading, Over, EditsAreCounted
<1>6. SealsAreKnown'
  BY DEF EditReceipt, EInv, SealsAreKnown
<1>7. StagesHold'
  <2>1. /\ native \in Content /\ native' \in Content /\ native'.by = native.by
        /\ native.rev \in Nat /\ edits \in Nat /\ native.rev <= edits /\ native'.rev = edits + 1
    BY Files, EvidenceAssumption DEF EditReceipt, EInv, TypeOK, EditsAreCounted, Content
  <2>2. UNCHANGED <<affidavit, projection, run, reader, resealed, upset>>
    BY DEF EditReceipt
  <2>3. Fits(affidavit, native) => Fits(affidavit', native')
    BY <2>1, <2>2, Files DEF Fits
  <2> QED BY <2>1, <2>2, <2>3, Files DEF EInv, StagesHold, StageHolds, Late
<1>8. QuietIsWhole'
  <2>1. /\ native \in Content /\ native' \in Content /\ native'.by = native.by
        /\ native.rev \in Nat /\ edits \in Nat /\ native.rev <= edits /\ native'.rev = edits + 1
    BY Files, EvidenceAssumption DEF EditReceipt, EInv, TypeOK, EditsAreCounted, Content
  <2>2. UNCHANGED <<affidavit, projection, run, reader, resealed, upset>>
    BY DEF EditReceipt
  <2>3. Fits(affidavit, native) => Fits(affidavit', native')
    BY <2>1, <2>2, Files DEF Fits
  <2> QED BY <2>1, <2>2, <2>3, Files DEF EInv, QuietIsWhole, Quiet, Busy, Reading, Pinned
<1>9. ChecksHold'
  <2>1. /\ native \in Content /\ native' \in Content /\ native'.by = native.by
        /\ native.rev \in Nat /\ edits \in Nat /\ native.rev <= edits /\ native'.rev = edits + 1
    BY Files, EvidenceAssumption DEF EditReceipt, EInv, TypeOK, EditsAreCounted, Content
  <2>2. UNCHANGED <<affidavit, projection, run, reader, resealed, upset>>
    BY DEF EditReceipt
  <2>3. Fits(affidavit, native) => Fits(affidavit', native')
    BY <2>1, <2>2, Files DEF Fits
  <2>4. \A c \in Content : c.rev <= native.rev => c.rev <= native'.rev
    BY <2>1, Files, EvidenceAssumption
  <2> QED BY <2>1, <2>2, <2>3, <2>4 DEF EInv, ChecksHold, CheckHolds, Reading, Pinned, Fits
<1>10. EditIsCaught'
  BY DEF EditReceipt, EInv, EditIsCaught
<1>11. RejectionIsDeserved'
  BY DEF EditReceipt, EInv, RejectionIsDeserved
<1> QED BY <1>1, <1>2, <1>3, <1>4, <1>5, <1>6, <1>7, <1>8, <1>9, <1>10, <1>11 DEF EInv

LEMMA EditAffidavitKeeps == ASSUME EInv, EditAffidavit PROVE EInv'
<1>1. TypeOK'
  BY EditAffidavitTyped DEF EInv
<1>2. NothingYet'
  BY DEF EditAffidavit, EInv, NothingYet
<1>3. AloneIsAlone'
  BY DEF EditAffidavit, EInv, AloneIsAlone, Busy, Reading
<1>4. CalmIsAlone'
  BY DEF EditAffidavit, EInv, CalmIsAlone, Busy, Reading
<1>5. EditsAreCounted'
  BY Files, DisturbedTyped DEF EditAffidavit, RunTo, Fresh, EInv, TypeOK, RunState, ReaderState, Busy, Reading, Over, EditsAreCounted
<1>6. SealsAreKnown'
  BY Files, DisturbedTyped DEF EditAffidavit, RunTo, Fresh, EInv, TypeOK, RunState, ReaderState, Busy, Reading, Over, SealsAreKnown, ChecksHold, StagesHold, StageHolds
<1>7. StagesHold'
  BY Files, DisturbedTyped DEF EditAffidavit, RunTo, Fresh, EInv, TypeOK, RunState, ReaderState, Busy, Reading, Over, NothingYet, StagesHold, StageHolds, Late, AloneIsAlone, Fits
<1>8. QuietIsWhole'
  BY Files, DisturbedTyped DEF EditAffidavit, RunTo, Fresh, EInv, TypeOK, RunState, ReaderState, Busy, Reading, Over, Quiet, QuietIsWhole, AloneIsAlone, CalmIsAlone, StagesHold, StageHolds, Late, Fits, Pinned, ChecksHold, CheckHolds
<1>9. ChecksHold'
  BY Files, DisturbedTyped DEF EditAffidavit, RunTo, Fresh, EInv, TypeOK, RunState, ReaderState, Busy, Reading, Over, ChecksHold, CheckHolds, AloneIsAlone, CalmIsAlone, Fits, Pinned, Quiet, QuietIsWhole
<1>10. EditIsCaught'
  BY DEF EditAffidavit, EInv, EditIsCaught
<1>11. RejectionIsDeserved'
  BY DEF EditAffidavit, EInv, RejectionIsDeserved
<1> QED BY <1>1, <1>2, <1>3, <1>4, <1>5, <1>6, <1>7, <1>8, <1>9, <1>10, <1>11 DEF EInv

LEMMA InitHolds == Init => EInv
<1> SUFFICES ASSUME Init PROVE EInv
  OBVIOUS
<1>1. TypeOK
  <2>1. run \in [Run -> RunState]
    BY Files DEF Init, Fresh, RunState
  <2>2. reader \in [Reader -> ReaderState]
    BY Files DEF Init, ReaderState
  <2>3. Absent # Altered /\ NoProjection \in Projection /\ 0 \in 0..MaxEdits
    BY Files, EvidenceAssumption DEF Projection, NoProjection
  <2> QED BY <2>1, <2>2, <2>3, Files DEF Init, TypeOK
<1> QED BY <1>1, Files DEF Init, EInv, Fresh, AloneIsAlone, CalmIsAlone, EditsAreCounted, SealsAreKnown,
        NothingYet, StagesHold, QuietIsWhole, ChecksHold, Reading, Busy, Over, EditIsCaught, RejectionIsDeserved

LEMMA StepHolds == EInv /\ [Next]_vars => EInv'
<1> SUFFICES ASSUME EInv, [Next]_vars PROVE EInv'
  OBVIOUS
<1>1. ASSUME NEW r \in Run, Write(r) PROVE EInv'
  BY <1>1, OpenNativeKeeps, FillNativeKeeps, NativeFullKeeps, OpenAffidavitKeeps, FillAffidavitKeeps,
     AffidavitFullKeeps, HashKeeps, OpenProjectionKeeps, FillProjectionKeeps, CutShortKeeps DEF Write
<1>2. ASSUME NEW v \in Reader, Check(v) PROVE EInv'
  BY <1>2, ReadReceiptKeeps, CompareKeeps, OpenSealKeeps, FillSealKeeps, StopReadingKeeps DEF Check
<1>3. CASE EditReceipt \/ EditAffidavit
  BY <1>3, EditReceiptKeeps, EditAffidavitKeeps
<1>4. CASE UNCHANGED vars
  BY <1>4 DEF vars, EInv, TypeOK, AloneIsAlone, CalmIsAlone, EditsAreCounted, SealsAreKnown, NothingYet,
     StagesHold, StageHolds, Late, Fits, Pinned, QuietIsWhole, Quiet, ChecksHold, CheckHolds, Reading, Busy,
     EditIsCaught, RejectionIsDeserved
<1> QED BY <1>1, <1>2, <1>3, <1>4 DEF Next

LEMMA Holds == Spec => []EInv
BY InitHolds, StepHolds, PTL DEF Spec

(* The quiet files are those the property names. *)
LEMMA WholeFiles == EInv => EvidenceIsWhole
<1> SUFFICES ASSUME EInv, Quiet, ~upset, native # Absent
    PROVE  /\ native.by \in Run
           /\ affidavit = Altered \/ affidavit.by = native.by
           /\ Kind[native.by] # "release" =>
                 projection.of = native.by /\ projection.pins.by = native.by
  BY DEF EvidenceIsWhole
<1> QED BY Files DEF EInv, QuietIsWhole, Fits, Pinned

(* Every variable keeps its type, whatever is cut short, edited or sealed anew. *)
THEOREM TypeCorrect == Spec => []TypeOK
BY Holds, PTL DEF EInv

(* A receipt edited after it was sealed is accepted only if a certify sealed    *)
(* the edit, or if a disturbed run left no affidavit that can be read.          *)
THEOREM EditsAreCaught == Spec => []EditIsCaught
BY Holds, PTL DEF EInv

(* A rejection is of edited files, or of files of runs that were disturbed.     *)
THEOREM RejectionsAreDeserved == Spec => []RejectionIsDeserved
BY Holds, PTL DEF EInv

(* Undisturbed, the three files are of one run whenever nothing is at work.     *)
THEOREM EvidenceStaysWhole == Spec => []EvidenceIsWhole
BY Holds, WholeFiles, PTL
=============================================================================
