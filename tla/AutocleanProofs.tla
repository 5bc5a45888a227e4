----------------------------- MODULE AutocleanProofs -----------------------------
(* Proofs about Autoclean, for any number of runs, items, caps and seconds.     *)
EXTENDS Autoclean, TLAPS

(* Whatever the plan file or a run's memory holds, its approval covers no       *)
(* unsure item.                                                                 *)
Safe(p) == p.approval.given => p.approval.of \cap Unsure = {}

ApprovalsAreSafe ==
    /\ \A t \in Second : Safe(planFile[t].plan)
    /\ \A r \in Run : Safe(memory[r])

(* A run that has started has a second to name its files by.                    *)
Tagged ==
    \A r \in Run : IF pc[r] = "idle" THEN tag[r] = 0 ELSE tag[r] \in Second

SInv == TypeOK /\ Tagged /\ ApprovalsAreSafe /\ NothingUnsure

LEMMA SecondsAreTags == Second \subseteq 0..MaxClock
BY AutocleanAssumption DEF Second

LEMMA WithItemsTyped ==
    ASSUME NEW p \in Plan, NEW S \in SUBSET Item
    PROVE  WithItems(p, S) \in Plan /\ WithItems(p, S).items = S
                                    /\ WithItems(p, S).approval = p.approval
BY DEF WithItems, Plan

LEMMA SignedTyped ==
    ASSUME NEW p \in Plan
    PROVE  /\ Signed(p) \in Plan /\ Signed(p).items = p.items
           /\ Signed(p).approval.of = p.items
BY DEF Signed, Plan, Approval

LEMMA NoPlanTyped == NoPlan \in Plan /\ Safe(NoPlan) /\ NoApproval \in Approval
BY DEF NoPlan, Plan, NoApproval, Approval, Safe

LEMMA GroupedTyped ==
    ASSUME NEW rs \in Seq(Record), NEW t \in Second, NEW line \in Line
    PROVE  Grouped(rs, t, line) \in Seq(Record)
<1>1. CASE ~LastHas(rs, t)
  <2>1. [tag |-> t, outcome |-> IF line \in Chatter THEN "open" ELSE line] \in Record
    BY DEF Record, Line, Outcome
  <2> QED BY <1>1, <2>1 DEF Grouped
<1>2. CASE LastHas(rs, t) /\ line \in Outcome
  <2>1. Len(rs) \in 1..Len(rs) /\ rs \in [1..Len(rs) -> Record]
    BY <1>2 DEF LastHas
  <2> DEFINE last == [rs[Len(rs)] EXCEPT !.outcome = line]
  <2>2. last \in Record
    BY <1>2, <2>1 DEF Record
  <2>3. [rs EXCEPT ![Len(rs)].outcome = line] = [rs EXCEPT ![Len(rs)] = last]
    OBVIOUS
  <2> HIDE DEF last
  <2>4. [rs EXCEPT ![Len(rs)] = last] \in Seq(Record)
    BY <2>1, <2>2
  <2> QED BY <1>2, <2>3, <2>4 DEF Grouped
<1>3. CASE LastHas(rs, t) /\ line \notin Outcome
  BY <1>3 DEF Grouped
<1> QED BY <1>1, <1>2, <1>3

(* What a line changes, if it can be written. *)
LEMMA SayThenTyped ==
    ASSUME TypeOK, Tagged, NEW r \in Run, NEW line \in Line, Running(r),
           NEW l \in Stages \cup {"ended"}, SayThen(r, line, l)
    PROVE  /\ records' \in Seq(Record) /\ said' \in [Run -> Outcome \cup {"none"}]
           /\ \E m \in {l, "dead"} : Goto(r, m)
<1>1. tag[r] \in Second
  BY DEF Tagged, Running, Stages
<1>2. Grouped(records, tag[r], line) \in Seq(Record)
  BY <1>1, GroupedTyped DEF TypeOK
<1> QED BY <1>2 DEF SayThen, Say, TypeOK

LEMMA EndWithTyped ==
    ASSUME TypeOK, Tagged, NEW r \in Run, NEW line \in Outcome, Running(r), EndWith(r, line)
    PROVE  /\ records' \in Seq(Record) /\ said' \in [Run -> Outcome \cup {"none"}]
           /\ \E m \in {"ended", "dead"} : Goto(r, m)
           /\ evidence' \in [Second -> Outcome \cup {"none"}]
<1>1. line \in Line
  BY DEF Line, Outcome
<1> QED BY <1>1, SayThenTyped DEF EndWith, Emit, TypeOK

LEMMA Lines == Chatter \subseteq Line /\ {"done", "nothing", "SKIPPED", "REFUSED", "FAILED"} = Outcome
BY DEF Line, Chatter, Outcome, Decides

LEMMA InitSafe == Init => SInv
<1> SUFFICES ASSUME Init PROVE SInv
  OBVIOUS
<1>1. planFile \in [Second -> PlanFile] /\ \A t \in Second : Safe(planFile[t].plan)
  <2>1. [exists |-> FALSE, plan |-> NoPlan] \in PlanFile
    BY NoPlanTyped DEF PlanFile
  <2> QED BY <2>1, NoPlanTyped DEF Init
<1>2. memory \in [Run -> Plan] /\ \A r \in Run : Safe(memory[r])
  BY NoPlanTyped DEF Init
<1>3. records \in Seq(Record)
  BY DEF Init
<1>4. clock \in Second
  BY AutocleanAssumption DEF Init, Second
<1>5. TypeOK
  <2>1. pc \in [Run -> Stages \cup {"idle", "ended", "dead"}] /\ tag \in [Run -> 0..MaxClock]
    BY AutocleanAssumption DEF Init
  <2> QED BY <1>1, <1>2, <1>3, <1>4, <2>1 DEF Init, TypeOK
<1>6. Tagged /\ ApprovalsAreSafe /\ NothingUnsure
  BY <1>1, <1>2 DEF Init, Tagged, Running, Stages, ApprovalsAreSafe, NothingUnsure
<1> QED BY <1>5, <1>6 DEF SInv

(* Changes that leave the plans alone: the log, the evidence, the program       *)
(* counters of runs under way.                                                  *)
LEMMA BookkeepingKeepsSInv ==
    ASSUME SInv, NEW r \in Run, Running(r),
           NEW m \in Stages \cup {"ended", "dead"}, Goto(r, m),
           records' \in Seq(Record), said' \in [Run -> Outcome \cup {"none"}],
           evidence' \in [Second -> Outcome \cup {"none"}],
           planFile' \in [Second -> PlanFile], \A t \in Second : Safe(planFile'[t].plan),
           memory' \in [Run -> Plan], \A q \in Run : Safe(memory'[q]),
           handed' \in [Run -> SUBSET Item], \A q \in Run : handed'[q] \cap Unsure = {},
           spared' \in [Run -> SUBSET BuildDir],
           UNCHANGED <<clock, busy, tag, overlapped>>
    PROVE  SInv'
<1>1. TypeOK'
  BY DEF SInv, TypeOK, Goto
<1>2. Tagged'
  <2>1. pc'[r] # "idle" /\ \A q \in Run : q # r => pc'[q] = pc[q]
    BY DEF Goto, SInv, TypeOK, Stages
  <2> QED BY <2>1 DEF SInv, Tagged, Running, Stages
<1>3. ApprovalsAreSafe' /\ NothingUnsure'
  BY DEF ApprovalsAreSafe, NothingUnsure
<1> QED BY <1>1, <1>2, <1>3 DEF SInv

(* Writing a safe plan keeps every file safe. *)
LEMMA WriteKeepsSafe ==
    ASSUME SInv, NEW r \in Run, NEW p \in Plan, Safe(p), WritePlan(r, p)
    PROVE  planFile' \in [Second -> PlanFile] /\ \A t \in Second : Safe(planFile'[t].plan)
<1> DEFINE f == [exists |-> TRUE, plan |-> p]
<1>1. f \in PlanFile /\ f.plan = p
  BY DEF PlanFile
<1>2. planFile' = [planFile EXCEPT ![tag[r]] = f] /\ planFile \in [Second -> PlanFile]
  BY DEF WritePlan, SInv, TypeOK
<1> HIDE DEF f
<1> QED BY <1>1, <1>2 DEF SInv, ApprovalsAreSafe

LEMMA KeepMemory ==
    ASSUME SInv, NEW r \in Run, NEW p \in Plan, Safe(p), memory' = [memory EXCEPT ![r] = p]
    PROVE  memory' \in [Run -> Plan] /\ \A q \in Run : Safe(memory'[q])
BY DEF SInv, TypeOK, ApprovalsAreSafe

LEMMA EmitTyped ==
    ASSUME SInv, NEW r \in Run, NEW line \in Outcome, Emit(r, line)
    PROVE  evidence' \in [Second -> Outcome \cup {"none"}]
BY DEF SInv, TypeOK, Emit

(* Each stage of a run keeps what is proved about approvals. *)
LEMMA StepKeepsSInv ==
    ASSUME SInv, NEW r \in Run, Step(r)
    PROVE  SInv'
<1> USE Lines, AutocleanAssumption
<1>0. Running(r)
  BY DEF Step, Build, Read, Narrow, FitToCap, DropZeroByte, Veto, Approve, Execute, LogFreed, Done,
         Release, Running, Stages
<1>t. TypeOK /\ Tagged /\ ApprovalsAreSafe /\ NothingUnsure /\ tag[r] \in Second
  BY <1>0 DEF SInv, Tagged, Running, Stages
<1>s. \A line \in Line, l \in Stages \cup {"ended"} : SayThen(r, line, l) =>
         /\ records' \in Seq(Record) /\ said' \in [Run -> Outcome \cup {"none"}]
         /\ \E m \in Stages \cup {"ended", "dead"} : Goto(r, m)
  BY <1>0, <1>t, SayThenTyped
<1>e. \A line \in Outcome : EndWith(r, line) =>
         /\ records' \in Seq(Record) /\ said' \in [Run -> Outcome \cup {"none"}]
         /\ \E m \in Stages \cup {"ended", "dead"} : Goto(r, m)
         /\ evidence' \in [Second -> Outcome \cup {"none"}]
  BY <1>0, <1>t, EndWithTyped
<1>q. Quiet => /\ records' \in Seq(Record) /\ said' \in [Run -> Outcome \cup {"none"}]
               /\ evidence' \in [Second -> Outcome \cup {"none"}]
  BY <1>t DEF Quiet, TypeOK
<1>u. /\ UNCHANGED planFile =>
            planFile' \in [Second -> PlanFile] /\ \A t \in Second : Safe(planFile'[t].plan)
      /\ UNCHANGED memory => memory' \in [Run -> Plan] /\ \A q \in Run : Safe(memory'[q])
      /\ UNCHANGED handed => handed' \in [Run -> SUBSET Item]
                             /\ \A q \in Run : handed'[q] \cap Unsure = {}
      /\ UNCHANGED spared => spared' \in [Run -> SUBSET BuildDir]
      /\ UNCHANGED evidence => evidence' \in [Second -> Outcome \cup {"none"}]
      /\ UNCHANGED <<records, said>> =>
            records' \in Seq(Record) /\ said' \in [Run -> Outcome \cup {"none"}]
  BY <1>t DEF TypeOK, ApprovalsAreSafe, NothingUnsure
<1>f. planFile[tag[r]].plan \in Plan /\ Safe(planFile[tag[r]].plan)
  BY <1>t DEF TypeOK, PlanFile, ApprovalsAreSafe
<1>m. memory[r] \in Plan /\ Safe(memory[r])
  BY <1>t DEF TypeOK, ApprovalsAreSafe
<1>w. \A S \in SUBSET Item : WithItems(memory[r], S) \in Plan /\ Safe(WithItems(memory[r], S))
  BY <1>m, WithItemsTyped DEF Safe
<1>g. \A l \in Stages \cup {"ended", "dead"} : Goto(r, l) =>
            \E m \in Stages \cup {"ended", "dead"} : Goto(r, m)
  OBVIOUS
<1>1. CASE Build(r)
  <2>1. planFile' \in [Second -> PlanFile] /\ \A t \in Second : Safe(planFile'[t].plan)
    <3>1. ASSUME NEW S \in SUBSET Item, WritePlan(r, [items |-> S, approval |-> NoApproval])
          PROVE  <2>1
      <4>1. [items |-> S, approval |-> NoApproval] \in Plan
            /\ Safe([items |-> S, approval |-> NoApproval])
        BY NoPlanTyped DEF Plan, Safe, NoApproval
      <4> QED BY <3>1, <4>1, WriteKeepsSafe
    <3> QED BY <1>1, <1>u, <3>1 DEF Build
  <2>2. /\ records' \in Seq(Record) /\ said' \in [Run -> Outcome \cup {"none"}]
        /\ evidence' \in [Second -> Outcome \cup {"none"}]
        /\ \E m \in Stages \cup {"ended", "dead"} : Goto(r, m)
    BY <1>1, <1>e, <1>q, <1>u DEF Build, Stages, shared, Quiet
  <2> QED BY <1>0, <1>1, <1>u, <2>1, <2>2, BookkeepingKeepsSInv DEF Build
<1>2. CASE Read(r)
  <2>1. memory' \in [Run -> Plan] /\ \A q \in Run : Safe(memory'[q])
    BY <1>2, <1>f, <1>u, KeepMemory DEF Read
  <2>2. \E m \in Stages \cup {"ended", "dead"} : Goto(r, m)
    BY <1>2 DEF Read, Stages
  <2> QED BY <1>0, <1>2, <1>u, <2>1, <2>2, BookkeepingKeepsSInv DEF Read, shared
<1>3. CASE Narrow(r)
  <2>1. Narrowed(memory[r]) \in Plan /\ Safe(Narrowed(memory[r]))
    BY <1>m, <1>w DEF Narrowed, Plan
  <2>2. memory' \in [Run -> Plan] /\ \A q \in Run : Safe(memory'[q])
    BY <1>3, <2>1, <1>u, KeepMemory DEF Narrow
  <2>3. planFile' \in [Second -> PlanFile] /\ \A t \in Second : Safe(planFile'[t].plan)
    BY <1>3, <2>1, <1>u, WriteKeepsSafe DEF Narrow
  <2>4. /\ records' \in Seq(Record) /\ said' \in [Run -> Outcome \cup {"none"}]
        /\ evidence' \in [Second -> Outcome \cup {"none"}]
        /\ \E m \in Stages \cup {"ended", "dead"} : Goto(r, m)
        /\ spared' \in [Run -> SUBSET BuildDir]
    <3>1. CASE EndWith(r, "REFUSED") /\ UNCHANGED spared
      BY <3>1, <1>e, <1>u
    <3>2. CASE SayThen(r, "narrowed", "cap") /\ UNCHANGED evidence /\ spared' = [spared EXCEPT ![r] = busy]
      <4>1. "narrowed" \in Line /\ "cap" \in Stages
        BY DEF Line, Chatter, Stages
      <4> QED BY <3>2, <4>1, <1>s, <1>u, <1>t DEF TypeOK
    <3> QED BY <1>3, <3>1, <3>2 DEF Narrow
  <2> QED BY <1>0, <1>3, <1>u, <2>2, <2>3, <2>4, BookkeepingKeepsSInv DEF Narrow
<1>4. CASE FitToCap(r)
  <2>1. \A K \in Fitting(memory[r].items, Cap[r]) : K \in SUBSET Item
    BY <1>m DEF Fitting, Plan
  <2>2. memory' \in [Run -> Plan] /\ \A q \in Run : Safe(memory'[q])
    BY <1>4, <2>1, <1>u, <1>w, KeepMemory DEF FitToCap
  <2>3. planFile' \in [Second -> PlanFile] /\ \A t \in Second : Safe(planFile'[t].plan)
    BY <1>4, <2>1, <1>w, <1>u, WriteKeepsSafe DEF FitToCap
  <2>4. /\ records' \in Seq(Record) /\ said' \in [Run -> Outcome \cup {"none"}]
        /\ evidence' \in [Second -> Outcome \cup {"none"}]
        /\ \E m \in Stages \cup {"ended", "dead"} : Goto(r, m)
    <3>1. CASE EndWith(r, "nothing") \/ EndWith(r, "REFUSED")
      BY <3>1, <1>e
    <3>2. CASE SayThen(r, "trimmed", "drop") /\ UNCHANGED evidence
      <4>1. "trimmed" \in Line /\ "drop" \in Stages
        BY DEF Line, Chatter, Stages
      <4> QED BY <3>2, <4>1, <1>s, <1>u
    <3>3. CASE Goto(r, "drop") /\ Quiet
      BY <3>3, <1>q DEF Stages
    <3> QED BY <1>4, <3>1, <3>2, <3>3 DEF FitToCap
  <2> QED BY <1>0, <1>4, <1>u, <2>2, <2>3, <2>4, BookkeepingKeepsSInv DEF FitToCap
<1>5. CASE DropZeroByte(r)
  <2>1. memory' \in [Run -> Plan] /\ \A q \in Run : Safe(memory'[q])
    <3>1. memory[r].items \ ZeroByteUnsure(memory[r].items) \in SUBSET Item
      BY <1>m DEF Plan
    <3> QED BY <1>5, <3>1, <1>w, KeepMemory DEF DropZeroByte
  <2>2. "dropped" \in Line /\ "veto" \in Stages
    BY DEF Line, Chatter, Stages
  <2>3. /\ records' \in Seq(Record) /\ said' \in [Run -> Outcome \cup {"none"}]
        /\ \E m \in Stages \cup {"ended", "dead"} : Goto(r, m)
    BY <1>5, <2>2, <1>s, <1>u DEF DropZeroByte
  <2> QED BY <1>0, <1>5, <1>u, <2>1, <2>3, BookkeepingKeepsSInv DEF DropZeroByte
<1>6. CASE Veto(r)
  BY <1>0, <1>6, <1>u, <1>e, <1>q, BookkeepingKeepsSInv DEF Veto, Stages
<1>7. CASE Approve(r)
  <2>1. planFile' \in [Second -> PlanFile] /\ \A t \in Second : Safe(planFile'[t].plan)
    <3>1. CASE /\ planFile[tag[r]].plan.items \cap Unsure = {}
               /\ WritePlan(r, Signed(planFile[tag[r]].plan))
      BY <3>1, <1>f, SignedTyped, WriteKeepsSafe DEF Safe
    <3> QED BY <1>7, <1>u, <3>1 DEF Approve
  <2>3. /\ records' \in Seq(Record) /\ said' \in [Run -> Outcome \cup {"none"}]
        /\ evidence' \in [Second -> Outcome \cup {"none"}]
        /\ \E m \in Stages \cup {"ended", "dead"} : Goto(r, m)
    BY <1>7, <1>e, <1>q DEF Approve, Stages
  <2> QED BY <1>0, <1>7, <1>u, <2>1, <2>3, BookkeepingKeepsSInv DEF Approve
<1>8. CASE Execute(r)
  <2>1. handed' \in [Run -> SUBSET Item] /\ \A q \in Run : handed'[q] \cap Unsure = {}
    <3>1. CASE /\ planFile[tag[r]].plan.approval =
                     [given |-> TRUE, of |-> planFile[tag[r]].plan.items]
               /\ handed' = [handed EXCEPT ![r] = planFile[tag[r]].plan.items]
      <4>1. planFile[tag[r]].plan.items \cap Unsure = {}
        BY <3>1, <1>f DEF Safe
      <4> QED BY <3>1, <4>1, <1>f, <1>t DEF TypeOK, NothingUnsure, Plan
    <3> QED BY <1>8, <1>u, <3>1 DEF Execute
  <2>2. /\ records' \in Seq(Record) /\ said' \in [Run -> Outcome \cup {"none"}]
        /\ evidence' \in [Second -> Outcome \cup {"none"}]
        /\ \E m \in Stages \cup {"ended", "dead"} : Goto(r, m)
    BY <1>8, <1>e, <1>q DEF Execute, Stages
  <2> QED BY <1>0, <1>8, <1>u, <2>1, <2>2, BookkeepingKeepsSInv DEF Execute
<1>9. CASE LogFreed(r) \/ Done(r)
  <2>1. {"freed", "done"} \subseteq Line /\ {"done", "release"} \subseteq Stages
    BY DEF Line, Chatter, Stages, Decides
  <2>2. /\ records' \in Seq(Record) /\ said' \in [Run -> Outcome \cup {"none"}]
        /\ \E m \in Stages \cup {"ended", "dead"} : Goto(r, m)
    BY <1>9, <2>1, <1>s, <1>u DEF LogFreed, Done
  <2> QED BY <1>0, <1>9, <1>u, <2>2, BookkeepingKeepsSInv DEF LogFreed, Done
<1>10. CASE Release(r)
  <2>1. /\ records' \in Seq(Record) /\ said' \in [Run -> Outcome \cup {"none"}]
        /\ evidence' \in [Second -> Outcome \cup {"none"}]
    <3>1. Say(r, "released") => /\ records' \in Seq(Record)
                                /\ said' \in [Run -> Outcome \cup {"none"}]
      <4>1. "released" \in Line
        BY DEF Line, Chatter
      <4> QED BY <4>1, <1>t, GroupedTyped DEF Say, TypeOK
    <3> QED BY <1>10, <3>1, <1>q, <1>u, EmitTyped DEF Release
  <2>2. \E m \in Stages \cup {"ended", "dead"} : Goto(r, m)
    BY <1>10 DEF Release
  <2> QED BY <1>0, <1>10, <1>u, <2>1, <2>2, BookkeepingKeepsSInv DEF Release
<1> QED BY <1>1, <1>2, <1>3, <1>4, <1>5, <1>6, <1>7, <1>8, <1>9, <1>10 DEF Step

LEMMA OtherStepsKeepSInv ==
    ASSUME SInv, Tick \/ Work \/ (\E r \in Run : Start(r) \/ Kill(r)) \/ UNCHANGED vars
    PROVE  SInv'
<1> USE DEF SInv
<1>1. CASE Tick
  <2>1. clock' \in Second
    BY <1>1, AutocleanAssumption DEF Tick, TypeOK, Second
  <2> QED BY <1>1, <2>1
          DEF Tick, shared, TypeOK, Tagged, Running, ApprovalsAreSafe, NothingUnsure
<1>2. CASE Work
  <2>1. busy' \in SUBSET BuildDir
    BY <1>2 DEF Work, TypeOK
  <2> QED BY <1>2, <2>1
          DEF Work, shared, TypeOK, Tagged, Running, ApprovalsAreSafe, NothingUnsure
<1>3. ASSUME NEW r \in Run, Start(r) PROVE SInv'
  <2>1. TypeOK'
    BY <1>3, SecondsAreTags DEF Start, Goto, shared, TypeOK, Stages
  <2>2. Tagged'
    BY <1>3 DEF Start, Goto, TypeOK, Tagged, Running
  <2> QED BY <1>3, <2>1, <2>2 DEF Start, shared, ApprovalsAreSafe, NothingUnsure
<1>4. ASSUME NEW r \in Run, Kill(r) PROVE SInv'
  BY <1>4 DEF Kill, Goto, shared, TypeOK, Tagged, Running, Stages, ApprovalsAreSafe, NothingUnsure
<1>5. CASE UNCHANGED vars
  BY <1>5 DEF vars, shared, TypeOK, Tagged, Running, ApprovalsAreSafe, NothingUnsure
<1> QED BY <1>1, <1>2, <1>3, <1>4, <1>5

LEMMA NextKeepsSInv ==
    ASSUME SInv, [Next]_vars
    PROVE  SInv'
BY StepKeepsSInv, OtherStepsKeepSInv DEF Next

(* Every run keeps to its stages and every file to its type (autoclean.rs).     *)
THEOREM TypeCorrect == Spec => []TypeOK
<1>1. SInv => TypeOK
  BY DEF SInv
<1> QED BY <1>1, InitSafe, NextKeepsSInv, PTL DEF Spec

(* However runs interleave on the same files, none hands delete execute an      *)
(* item of unknown or irreversible reversibility: delete execute takes only     *)
(* what its approval covers, and plan approve covers no such item.              *)
THEOREM UnsureIsNeverDeleted == Spec => []NothingUnsure
<1>1. SInv => NothingUnsure
  BY DEF SInv
<1> QED BY <1>1, InitSafe, NextKeepsSInv, PTL DEF Spec

(* What a run with files of its own knows of them at each stage: until it cuts  *)
(* the plan to the cap, memory and file hold the same items; from then on the   *)
(* file fits the cap; and from narrowing on, a pressure run's file is narrow.   *)
Mine(r) ==
    LET filed == planFile[tag[r]].plan.items IN
    /\ pc[r] \in {"narrow", "cap"} => filed = memory[r].items
    /\ pc[r] \in {"drop", "veto", "approve", "execute"} => Total(filed) <= Cap[r]
    /\ r \in Narrowing /\ pc[r] \in {"cap", "drop", "veto", "approve", "execute"} =>
          filed \subseteq BuildDir \ spared[r]
    /\ handed[r] # {} => Total(handed[r]) <= Cap[r]
    /\ r \in Narrowing => handed[r] \subseteq BuildDir \ spared[r]

(* Nothing has been handed over before delete execute.                          *)
NotYet(r) ==
    pc[r] \in {"idle", "build", "read", "narrow", "cap", "drop", "veto", "approve", "execute"} =>
        handed[r] = {}

OwnInv == SInv /\ \A r \in Run : NotYet(r) /\ (Alone(r) => Mine(r))

(* A plan written by run q is of no concern to a run with another second. *)
LEMMA WriteElsewhere ==
    ASSUME SInv, NEW q \in Run, NEW p, WritePlan(q, p), NEW t, t # tag[q]
    PROVE  planFile'[t] = planFile[t]
BY DEF WritePlan, SInv, TypeOK

LEMMA WriteHere ==
    ASSUME SInv, NEW r \in Run, tag[r] \in Second, NEW p \in Plan, WritePlan(r, p)
    PROVE  planFile'[tag[r]].plan.items = p.items
BY DEF WritePlan, SInv, TypeOK

(* Wherever a run goes, the others stay. *)
LEMMA GotoLands ==
    ASSUME SInv, NEW r \in Run, NEW l, Goto(r, l)
    PROVE  pc'[r] = l /\ \A q \in Run : q # r => pc'[q] = pc[q]
BY DEF Goto, SInv, TypeOK

(* A step of q leaves what concerns any other run r as it was.                  *)
LEMMA OthersAreLeftAlone ==
    ASSUME SInv, NEW q \in Run, NEW r \in Run, q # r, Step(q)
    PROVE  /\ pc'[r] = pc[r] /\ memory'[r] = memory[r]
           /\ handed'[r] = handed[r] /\ spared'[r] = spared[r]
           /\ tag' = tag
           /\ tag[q] # tag[r] => planFile'[tag[r]] = planFile[tag[r]]
<1>1. \E l : Goto(q, l)
  BY DEF Step, Build, Read, Narrow, FitToCap, DropZeroByte, Veto, Approve, Execute, LogFreed, Done,
         Release, EndWith, SayThen
<1>2. pc'[r] = pc[r] /\ tag' = tag
  BY <1>1, GotoLands DEF Step, Build, Read, Narrow, FitToCap, DropZeroByte, Veto, Approve, Execute,
         LogFreed, Done, Release
<1>3. memory'[r] = memory[r] /\ handed'[r] = handed[r] /\ spared'[r] = spared[r]
  <2>1. /\ UNCHANGED memory \/ \E p : memory' = [memory EXCEPT ![q] = p]
        /\ UNCHANGED handed \/ \E p : handed' = [handed EXCEPT ![q] = p]
        /\ UNCHANGED spared \/ \E p : spared' = [spared EXCEPT ![q] = p]
    BY DEF Step, Build, Read, Narrow, FitToCap, DropZeroByte, Veto, Approve, Execute,
           LogFreed, Done, Release
  <2> QED BY <2>1 DEF SInv, TypeOK
<1>4. UNCHANGED planFile \/ \E p : WritePlan(q, p)
  BY DEF Step, Build, Read, Narrow, FitToCap, DropZeroByte, Veto, Approve, Execute,
         LogFreed, Done, Release, shared
<1> QED BY <1>2, <1>3, <1>4, WriteElsewhere

(* A step of r, of which no other run shares the second, keeps what it knows.   *)
LEMMA OwnStepsKeepMine ==
    ASSUME SInv, NEW r \in Run, NotYet(r), Mine(r), Step(r)
    PROVE  Mine(r)' /\ NotYet(r)'
<1> USE GotoLands
<1>0. tag' = tag /\ tag[r] \in Second
  BY DEF SInv, Tagged, Running, Stages, Step, Build, Read, Narrow, FitToCap, DropZeroByte, Veto,
         Approve, Execute, LogFreed, Done, Release
<1>m. memory[r] \in Plan /\ planFile[tag[r]].plan \in Plan
  BY <1>0 DEF SInv, TypeOK, PlanFile
<1>s. /\ \A line, l : SayThen(r, line, l) => pc'[r] \in {l, "dead"}
      /\ \A line : EndWith(r, line) => pc'[r] \in {"ended", "dead"}
  BY DEF SayThen, EndWith
<1>1. CASE Build(r)
  <2>1. pc'[r] \in {"read", "ended", "dead"}
    BY <1>1, <1>s DEF Build
  <2> QED BY <1>1, <2>1, <1>0 DEF Build, Mine, NotYet
<1>2. CASE Read(r)
  <2>1. CASE planFile[tag[r]].exists
    <3>1. /\ pc'[r] = IF r \in Narrowing THEN "narrow" ELSE "cap"
          /\ memory'[r] = planFile[tag[r]].plan /\ planFile' = planFile
          /\ handed' = handed /\ spared' = spared /\ handed[r] = {}
      BY <1>2, <2>1 DEF Read, NotYet, SInv, TypeOK, shared
    <3> QED BY <3>1, <1>0 DEF Mine, NotYet
  <2>2. CASE ~planFile[tag[r]].exists
    BY <1>2, <2>2, <1>0 DEF Read, NotYet, Mine, shared
  <2> QED BY <2>1, <2>2
<1>3. CASE Narrow(r)
  <2>0. handed'[r] = {} /\ pc[r] = "narrow"
    BY <1>3 DEF Narrow, NotYet
  <2>1. CASE pc'[r] \in {"ended", "dead"}
    BY <1>0, <2>0, <2>1 DEF Mine, NotYet
  <2>2. CASE pc'[r] \notin {"ended", "dead"}
    <3>1. /\ pc'[r] = "cap" /\ spared'[r] = busy
          /\ WritePlan(r, Narrowed(memory[r])) /\ memory'[r] = Narrowed(memory[r])
      BY <1>3, <2>2, <1>s DEF Narrow, SInv, TypeOK
    <3>2. /\ Narrowed(memory[r]) \in Plan
          /\ Narrowed(memory[r]).items = (memory[r].items \cap BuildDir) \ busy
      BY <1>m, WithItemsTyped DEF Narrowed, Plan
    <3>3. planFile'[tag'[r]].plan.items = (memory[r].items \cap BuildDir) \ busy
      BY <3>1, <3>2, <1>0, WriteHere
    <3> QED BY <2>0, <3>1, <3>2, <3>3 DEF Mine, NotYet
  <2> QED BY <2>1, <2>2
<1>4. CASE FitToCap(r)
  <2>0. /\ handed[r] = {} /\ pc[r] = "cap" /\ handed' = handed /\ spared' = spared
        /\ planFile[tag[r]].plan.items = memory[r].items
    BY <1>4 DEF FitToCap, NotYet, Mine
  <2>1. CASE pc'[r] \in {"ended", "dead"}
    BY <1>0, <2>0, <2>1 DEF Mine, NotYet
  <2>2. CASE pc'[r] \notin {"ended", "dead"}
    <3>1. /\ pc'[r] = "drop"
          /\ \/ Total(memory[r].items) <= Cap[r] /\ UNCHANGED planFile
             \/ \E K \in Fitting(memory[r].items, Cap[r]) : WritePlan(r, WithItems(memory[r], K))
      BY <1>4, <2>2, <1>s DEF FitToCap
    <3>2. CASE Total(memory[r].items) <= Cap[r] /\ UNCHANGED planFile
      BY <3>1, <3>2, <2>0, <1>0 DEF Mine, NotYet
    <3>3. ASSUME NEW K \in Fitting(memory[r].items, Cap[r]), WritePlan(r, WithItems(memory[r], K))
          PROVE  Mine(r)' /\ NotYet(r)'
      <4>1. K \subseteq memory[r].items /\ Total(K) <= Cap[r]
        BY DEF Fitting
      <4>2. planFile'[tag'[r]].plan.items = K
        BY <3>3, <4>1, <1>m, <1>0, WithItemsTyped, WriteHere DEF Plan
      <4> QED BY <3>1, <4>1, <4>2, <2>0, <1>0 DEF Mine, NotYet
    <3> QED BY <3>1, <3>2, <3>3
  <2> QED BY <2>1, <2>2
<1>5. CASE DropZeroByte(r) \/ Veto(r)
  <2>1. /\ planFile' = planFile /\ handed' = handed /\ spared' = spared /\ handed[r] = {}
        /\ pc[r] \in {"drop", "veto"} /\ pc'[r] \in {"veto", "approve", "ended", "dead"}
    BY <1>5, <1>s DEF DropZeroByte, Veto, NotYet
  <2> QED BY <2>1, <1>0 DEF Mine, NotYet
<1>6. CASE Approve(r)
  <2>1. /\ handed' = handed /\ spared' = spared /\ handed[r] = {} /\ pc[r] = "approve"
        /\ \/ pc'[r] \in {"ended", "dead"}
           \/ pc'[r] = "execute" /\ WritePlan(r, Signed(planFile[tag[r]].plan))
    BY <1>6, <1>s DEF Approve, NotYet
  <2>2. CASE pc'[r] \in {"ended", "dead"}
    BY <2>1, <2>2, <1>0 DEF Mine, NotYet
  <2>3. CASE pc'[r] = "execute" /\ WritePlan(r, Signed(planFile[tag[r]].plan))
    <3>1. planFile'[tag'[r]].plan.items = planFile[tag[r]].plan.items
      BY <2>3, <1>m, <1>0, SignedTyped, WriteHere
    <3> QED BY <2>1, <2>3, <3>1, <1>0 DEF Mine, NotYet
  <2> QED BY <2>1, <2>2, <2>3
<1>7. CASE Execute(r)
  <2>1. /\ pc[r] = "execute" /\ pc'[r] \in {"freed", "ended", "dead"} /\ spared' = spared
        /\ handed'[r] \in {planFile[tag[r]].plan.items, handed[r]} /\ handed[r] = {}
    BY <1>7, <1>s DEF Execute, NotYet, SInv, TypeOK
  <2> QED BY <2>1, <1>0 DEF Mine, NotYet
<1>8. CASE LogFreed(r) \/ Done(r) \/ Release(r)
  <2>1. /\ handed' = handed /\ spared' = spared
        /\ pc'[r] \in {"done", "release", "ended", "dead"}
    BY <1>8, <1>s DEF LogFreed, Done, Release
  <2> QED BY <2>1, <1>0 DEF Mine, NotYet
<1> QED BY <1>1, <1>2, <1>3, <1>4, <1>5, <1>6, <1>7, <1>8 DEF Step

LEMMA NextKeepsOwnInv ==
    ASSUME OwnInv, [Next]_vars
    PROVE  OwnInv'
<1>0. SInv /\ SInv'
  BY NextKeepsSInv DEF OwnInv
<1>1. ASSUME NEW q \in Run, Step(q) PROVE OwnInv'
  <2>1. ASSUME NEW r \in Run PROVE NotYet(r)' /\ (Alone(r)' => Mine(r)')
    <3>1. Alone(r)' => Alone(r)
      <4>1. tag' = tag
        BY <1>1 DEF Step, Build, Read, Narrow, FitToCap, DropZeroByte, Veto, Approve, Execute,
                    LogFreed, Done, Release
      <4> QED BY <4>1 DEF Alone
    <3>2. CASE q # r
      <4>1. Alone(r) => tag[q] # tag[r]
        BY <3>2 DEF Alone
      <4>2. /\ pc'[r] = pc[r] /\ memory'[r] = memory[r]
            /\ handed'[r] = handed[r] /\ spared'[r] = spared[r] /\ tag' = tag
            /\ Alone(r) => planFile'[tag[r]] = planFile[tag[r]]
        BY <1>0, <1>1, <3>2, <4>1, OthersAreLeftAlone
      <4> QED BY <3>1, <4>2 DEF OwnInv, NotYet, Mine
    <3>3. CASE q = r
      <4>1. CASE Alone(r)
        BY <1>0, <1>1, <3>3, <4>1, OwnStepsKeepMine DEF OwnInv
      <4>2. CASE ~Alone(r)
        <5>1. NotYet(r)'
          <6>1. CASE pc'[r] \in {"freed", "done", "release", "ended", "dead"}
            BY <6>1 DEF NotYet
          <6>2. CASE pc'[r] \notin {"freed", "done", "release", "ended", "dead"}
            <7>1. ~Execute(r) /\ ~LogFreed(r) /\ ~Done(r) /\ ~Release(r)
              BY <1>0, <6>2, GotoLands
                 DEF Execute, LogFreed, Done, Release, EndWith, SayThen
            <7>2. handed' = handed /\ handed[r] = {}
              BY <1>1, <3>3, <7>1
                 DEF OwnInv, NotYet, Step, Build, Read, Narrow, FitToCap, DropZeroByte, Veto, Approve
            <7> QED BY <7>2 DEF NotYet
          <6> QED BY <6>1, <6>2
        <5> QED BY <4>2, <5>1, <3>1
      <4> QED BY <4>1, <4>2
    <3> QED BY <3>2, <3>3
  <2> QED BY <1>0, <2>1 DEF OwnInv
<1>2. ASSUME NEW q \in Run, Start(q) PROVE OwnInv'
  <2>1. ASSUME NEW r \in Run PROVE NotYet(r)' /\ (Alone(r)' => Mine(r)')
    <3>1. CASE q = r
      <4>1. pc'[r] = "build" /\ handed'[r] = {}
        BY <1>0, <1>2, <3>1, GotoLands DEF Start, OwnInv, NotYet
      <4> QED BY <4>1 DEF NotYet, Mine
    <3>2. CASE q # r
      <4>1. /\ pc'[r] = pc[r] /\ tag'[r] = tag[r]
            /\ UNCHANGED <<memory, handed, spared, planFile>>
        BY <1>0, <1>2, <3>2, GotoLands DEF Start, SInv, TypeOK, shared
      <4>2. Alone(r)' => Alone(r) \/ tag[q] = tag[r]
        BY <1>0, <1>2 DEF Alone, Start, SInv, TypeOK
      <4>3. CASE Alone(r)
        BY <4>1, <4>3 DEF OwnInv, NotYet, Mine
      <4>4. CASE tag[q] = tag[r]
        <5>1. tag[q] = 0 /\ 0 \notin Second
          BY <1>0, <1>2 DEF SInv, Tagged, Start, Second
        <5>2. pc[r] = "idle"
          BY <1>0, <4>4, <5>1 DEF SInv, Tagged
        <5>3. handed'[r] = {} /\ pc'[r] = "idle"
          BY <4>1, <5>2 DEF OwnInv, NotYet
        <5> QED BY <5>3 DEF NotYet, Mine
      <4>5. NotYet(r)'
        BY <4>1 DEF OwnInv, NotYet
      <4> QED BY <4>2, <4>3, <4>4, <4>5
    <3> QED BY <3>1, <3>2
  <2> QED BY <1>0, <2>1 DEF OwnInv
<1>3. CASE \E q \in Run : Kill(q)
  <2>1. PICK q \in Run : Kill(q)
    BY <1>3
  <2>2. /\ UNCHANGED <<tag, memory, handed, spared, planFile>> /\ Goto(q, "dead")
    BY <2>1 DEF Kill, shared
  <2>3. \A r \in Run : NotYet(r)' /\ (Alone(r)' => Mine(r)')
    BY <1>0, <2>2, GotoLands DEF OwnInv, NotYet, Mine, Alone
  <2> QED BY <1>0, <2>3 DEF OwnInv
<1>4. CASE Tick \/ Work \/ UNCHANGED vars
  BY <1>0, <1>4 DEF Tick, Work, vars, shared, OwnInv, NotYet, Mine, Alone
<1> QED BY <1>1, <1>2, <1>3, <1>4 DEF Next

LEMMA InitOwnInv == Init => OwnInv
<1> SUFFICES ASSUME Init PROVE \A r \in Run : NotYet(r) /\ Mine(r)
  BY InitSafe DEF OwnInv
<1> QED BY DEF Init, NotYet, Mine

(* --max-reclaim-gb is a budget: the plan a run with files of its own hands to  *)
(* delete execute fits it, whatever else runs meanwhile.                        *)
THEOREM CapHolds == Spec => []CapIsBudget
<1>1. OwnInv => CapIsBudget
  BY DEF OwnInv, Mine, CapIsBudget
<1> QED BY <1>1, InitOwnInv, NextKeepsOwnInv, PTL DEF Spec

(* A pressure run with files of its own hands over build directories only, and  *)
(* none that was in use when it looked.                                         *)
THEOREM LiveWorkIsSpared == Spec => []LiveWorkSpared
<1>1. OwnInv => LiveWorkSpared
  BY AutocleanAssumption DEF OwnInv, Mine, LiveWorkSpared
<1> QED BY <1>1, InitOwnInv, NextKeepsOwnInv, PTL DEF Spec

------------------------------------------------------------------------------
(* The log: what a run has said is in it, and summarize_log can be trusted.     *)
LEMMA Ranks ==
    /\ Outcome \cap (Chatter \cup {"open", "none"}) = {}
    /\ Outcome \cup Chatter = Line
    /\ "FAILED" \in Outcome /\ "open" # "FAILED" /\ RankOf("open") = 0
    /\ \A o \in Outcome : RankOf(o) = Decides[o] /\ Decides[o] \in Nat /\ Decides[o] > 0
    /\ \A o \in Outcome \ {"FAILED"} : Decides[o] < Decides["FAILED"]
<1>1. Outcome = {"done", "nothing", "SKIPPED", "REFUSED", "FAILED"}
  BY Lines
<1>2. /\ Decides["done"] = 1 /\ Decides["nothing"] = 1 /\ Decides["SKIPPED"] = 2
      /\ Decides["REFUSED"] = 3 /\ Decides["FAILED"] = 4
  BY DEF Decides
<1> QED BY <1>1, <1>2 DEF Chatter, Line, Outcome, RankOf

(* A line extends the last record, if that is of its tag, or begins a record.   *)
Extends(g, rs, line) ==
    /\ Len(g) = Len(rs)
    /\ \A k \in 1..Len(rs) : g[k].tag = rs[k].tag /\ (k # Len(rs) => g[k] = rs[k])
    /\ g[Len(rs)].outcome =
          IF line \in Outcome /\ RankOf(rs[Len(rs)].outcome) < Decides[line]
          THEN line ELSE rs[Len(rs)].outcome
Begins(g, rs, t, line) ==
    /\ Len(g) = Len(rs) + 1
    /\ \A k \in 1..Len(rs) : g[k] = rs[k]
    /\ g[Len(g)].tag = t
    /\ g[Len(g)].outcome = IF line \in Chatter THEN "open" ELSE line

LEMMA GroupedIs ==
    ASSUME NEW rs \in Seq(Record), NEW t \in Second, NEW line \in Line,
           NEW g, g = Grouped(rs, t, line)
    PROVE  /\ g \in Seq(Record) /\ Len(rs) \in Nat /\ Len(g) \in Nat
           /\ IF LastHas(rs, t) THEN Len(rs) > 0 /\ Extends(g, rs, line)
                                ELSE Begins(g, rs, t, line)
<1>1. g \in Seq(Record)
  BY GroupedTyped
<1>2. CASE ~LastHas(rs, t)
  <2>1. g = Append(rs, [tag |-> t, outcome |-> IF line \in Chatter THEN "open" ELSE line])
    BY <1>2 DEF Grouped
  <2> QED BY <1>1, <1>2, <2>1 DEF Begins
<1>3. CASE LastHas(rs, t)
  <2>1. Len(rs) \in 1..Len(rs) /\ rs \in [1..Len(rs) -> Record] /\ Len(rs) > 0
    BY <1>3 DEF LastHas
  <2>2. CASE line \in Outcome /\ RankOf(rs[Len(rs)].outcome) < Decides[line]
    <3> DEFINE last == [rs[Len(rs)] EXCEPT !.outcome = line]
    <3>1. g = [rs EXCEPT ![Len(rs)] = last]
      BY <1>3, <2>2 DEF Grouped
    <3>2. last.tag = rs[Len(rs)].tag /\ last.outcome = line
      BY <2>1 DEF Record
    <3> HIDE DEF last
    <3>3. g \in Seq(Record) /\ Len(g) = Len(rs)
      BY <1>1, <2>1, <3>1
    <3>4. \A k \in 1..Len(rs) : g[k] = IF k = Len(rs) THEN last ELSE rs[k]
      BY <2>1, <3>1
    <3>5. \A k \in 1..Len(rs) : g[k].tag = rs[k].tag /\ (k # Len(rs) => g[k] = rs[k])
      BY <3>2, <3>4
    <3>6. g[Len(rs)].outcome = line
      BY <2>1, <3>2, <3>4
    <3>7. Extends(g, rs, line)
      BY <2>2, <3>3, <3>5, <3>6 DEF Extends
    <3> QED BY <1>1, <1>3, <2>1, <3>3, <3>7
  <2>3. CASE ~(line \in Outcome /\ RankOf(rs[Len(rs)].outcome) < Decides[line])
    <3>1. g = rs
      BY <1>3, <2>3 DEF Grouped
    <3> QED BY <1>3, <2>1, <2>3, <3>1 DEF Extends
  <2> QED BY <2>2, <2>3
<1> QED BY <1>2, <1>3

(* What a step of a run does to the log.                                        *)
Closing == {"release", "ended", "dead"}
Logs(r) ==
    \/ UNCHANGED <<records, said>>
    \/ \E line \in Line :
          Say(r, line) /\ (line \in Outcome => pc[r] # "release" /\ pc'[r] \in {"release", "ended"})

LEMMA StepLogs ==
    ASSUME SInv, NEW r \in Run, Step(r)
    PROVE  /\ Running(r) /\ UNCHANGED <<tag, overlapped>> /\ Logs(r)
           /\ \E m \in Stages \cup {"ended", "dead"} :
                 Goto(r, m) /\ (pc[r] = "release" => m \in {"ended", "dead"})
<1> USE Lines, Ranks DEF Running, Stages, Logs
<1>1. ASSUME NEW line \in Outcome, EndWith(r, line), pc[r] \in Stages, pc[r] # "release"
      PROVE  Logs(r) /\ \E m \in {"ended", "dead"} : Goto(r, m)
  BY <1>1 DEF EndWith, SayThen, Goto, SInv, TypeOK
<1>2. ASSUME NEW line \in Chatter, NEW l, SayThen(r, line, l)
      PROVE  Logs(r) /\ \E m \in {l, "dead"} : Goto(r, m)
  BY <1>2 DEF SayThen
<1>3. CASE Build(r)
  BY <1>1, <1>3 DEF Build, Quiet
<1>4. CASE Read(r)
  BY <1>4 DEF Read, shared
<1>5. CASE Narrow(r)
  BY <1>1, <1>2, <1>5 DEF Narrow, Chatter
<1>6. CASE FitToCap(r)
  BY <1>1, <1>2, <1>6 DEF FitToCap, Chatter, Quiet
<1>7. CASE DropZeroByte(r)
  BY <1>2, <1>7 DEF DropZeroByte, Chatter
<1>8. CASE Veto(r)
  BY <1>1, <1>8 DEF Veto, Quiet
<1>9. CASE Approve(r)
  BY <1>1, <1>9 DEF Approve, Quiet
<1>10. CASE Execute(r)
  BY <1>1, <1>10 DEF Execute, Quiet
<1>11. CASE LogFreed(r)
  BY <1>2, <1>11 DEF LogFreed, Chatter
<1>12. CASE Done(r)
  BY <1>12 DEF Done, SayThen, Goto, SInv, TypeOK
<1>13. CASE Release(r)
  BY <1>13 DEF Release, Chatter, Quiet
<1> QED BY <1>3, <1>4, <1>5, <1>6, <1>7, <1>8, <1>9, <1>10, <1>11, <1>12, <1>13 DEF Step

(* A failure that was said stays said: no line ranks above it.                  *)
Shown(rs, t) == \E k \in 1..Len(rs) : rs[k].tag = t /\ rs[k].outcome = "FAILED"

LEMMA FailuresStay ==
    ASSUME NEW rs \in Seq(Record), NEW t \in Second, NEW line \in Line, NEW u, Shown(rs, u)
    PROVE  Shown(Grouped(rs, t, line), u)
<1> SUFFICES ASSUME NEW g, g = Grouped(rs, t, line)
             PROVE  Shown(g, u)
  OBVIOUS
<1>1. PICK k \in 1..Len(rs) : rs[k].tag = u /\ rs[k].outcome = "FAILED"
  BY DEF Shown
<1>2. /\ Len(rs) \in Nat /\ Len(g) \in Nat
      /\ IF LastHas(rs, t) THEN Len(rs) > 0 /\ Extends(g, rs, line) ELSE Begins(g, rs, t, line)
  BY GroupedIs
<1>3. CASE LastHas(rs, t)
  <2>1. ~(line \in Outcome /\ RankOf("FAILED") < Decides[line])
    BY Ranks
  <2>2. k \in 1..Len(g) /\ g[k].tag = u /\ g[k].outcome = "FAILED"
    BY <1>1, <1>2, <1>3, <2>1 DEF Extends
  <2> QED BY <2>2 DEF Shown
<1>4. CASE ~LastHas(rs, t)
  BY <1>1, <1>2, <1>4 DEF Begins, Shown
<1> QED BY <1>3, <1>4

LEMMA FailuresAreShown ==
    ASSUME NEW rs \in Seq(Record), NEW t \in Second
    PROVE  Shown(Grouped(rs, t, "FAILED"), t)
<1> SUFFICES ASSUME NEW g, g = Grouped(rs, t, "FAILED")
             PROVE  Shown(g, t)
  OBVIOUS
<1>1. "FAILED" \in Line /\ "FAILED" \in Outcome /\ "FAILED" \notin Chatter
  BY Ranks
<1>2. /\ Len(rs) \in Nat /\ Len(g) \in Nat
      /\ IF LastHas(rs, t) THEN Len(rs) > 0 /\ Extends(g, rs, "FAILED")
                           ELSE Begins(g, rs, t, "FAILED")
  BY <1>1, GroupedIs
<1>3. CASE LastHas(rs, t)
  <2> DEFINE o == rs[Len(rs)].outcome
  <2>1. o \in Outcome \cup {"open"} /\ rs[Len(rs)].tag = t
    <3>1. Len(rs) \in 1..Len(rs) /\ rs \in [1..Len(rs) -> Record] /\ rs[Len(rs)].tag = t
      BY <1>2, <1>3 DEF LastHas
    <3>2. rs[Len(rs)] \in Record
      BY <3>1
    <3> QED BY <3>1, <3>2 DEF Record
  <2>2. o = "FAILED" \/ RankOf(o) < Decides["FAILED"]
    BY <2>1, Ranks
  <2>3. g[Len(rs)].outcome = "FAILED"
    BY <1>1, <1>2, <1>3, <2>2 DEF Extends
  <2>4. g[Len(rs)].tag = t /\ Len(rs) \in 1..Len(g)
    BY <1>2, <1>3, <2>1 DEF Extends
  <2> QED BY <2>3, <2>4 DEF Shown
<1>4. CASE ~LastHas(rs, t)
  BY <1>1, <1>2, <1>4 DEF Begins, Shown
<1> QED BY <1>3, <1>4

(* While the runs keep apart: their records are in the order of the runs, one   *)
(* of each, which the run may extend as long as it is under way, and which      *)
(* says what the run has said.                                                  *)
Apart == ~overlapped /\ \A r \in Run : Alone(r) \/ tag[r] = 0
OneAtATime == \A r, q \in Run : Running(r) /\ Running(q) => r = q
Known == \A k \in 1..Len(records) : \E r \in Run : records[k].tag = tag[r]
Once == \A j, k \in 1..Len(records) : records[j].tag = records[k].tag => j = k
Open == \A r \in Run, k \in 1..Len(records) :
            Running(r) /\ records[k].tag = tag[r] => k = Len(records)
Told == \A r \in Run : IF said[r] = "none"
            THEN \A k \in 1..Len(records) :
                     records[k].tag = tag[r] => records[k].outcome = "open"
            ELSE \E k \in 1..Len(records) :
                     records[k].tag = tag[r] /\ records[k].outcome = said[r]
Sorted == OneAtATime /\ Known /\ Once /\ Open /\ Told

SaidAtTheEnd == \A r \in Run : said[r] # "none" => pc[r] \in Closing
FailuresShown == \A r \in Run : said[r] = "FAILED" => Shown(records, tag[r])

LogInv == SInv /\ SaidAtTheEnd /\ FailuresShown /\ (Apart => Sorted)

(* Steps that say nothing and begin no run.                                     *)
LEMMA SilenceKeepsLogInv ==
    ASSUME LogInv, SInv', UNCHANGED <<records, said, tag, overlapped>>,
           \A r \in Run : /\ Running(r)' => Running(r)
                          /\ pc[r] \in Closing => pc'[r] \in Closing
    PROVE  LogInv'
<1>1. SaidAtTheEnd' /\ FailuresShown'
  BY DEF LogInv, SaidAtTheEnd, FailuresShown, Shown
<1>2. Apart' = Apart
  BY DEF Apart, Alone
<1>3. Sorted => Sorted'
  BY DEF Sorted, OneAtATime, Known, Once, Open, Told
<1> QED BY <1>1, <1>2, <1>3 DEF LogInv

LEMMA StartKeepsLogInv ==
    ASSUME LogInv, SInv', NEW r \in Run, Start(r)
    PROVE  LogInv'
<1> USE DEF LogInv, SInv, TypeOK
<1>1. /\ pc[r] = "idle" /\ tag[r] = 0 /\ said[r] = "none" /\ tag'[r] = clock /\ clock # 0
      /\ pc'[r] = "build" /\ records' = records /\ said' = said
      /\ \A q \in Run \ {r} : tag'[q] = tag[q] /\ pc'[q] = pc[q]
  <2>1. pc[r] = "idle" /\ tag' = [tag EXCEPT ![r] = clock] /\ pc' = [pc EXCEPT ![r] = "build"]
    BY DEF Start, Goto
  <2>2. said[r] = "none" /\ tag[r] = 0
    BY <2>1 DEF SaidAtTheEnd, Closing, Tagged
  <2>4. clock # 0
    BY AutocleanAssumption DEF Second
  <2>3. records' = records /\ said' = said
    BY DEF Start, shared
  <2>5. tag'[r] = clock /\ pc'[r] = "build"
    BY <2>1
  <2>6. \A q \in Run \ {r} : tag'[q] = tag[q] /\ pc'[q] = pc[q]
    BY <2>1
  <2> QED BY <2>1, <2>2, <2>3, <2>4, <2>5, <2>6
<1>2. SaidAtTheEnd' /\ FailuresShown'
  <2>1. \A q \in Run : said'[q] # "none" => q # r /\ said[q] = said'[q]
    BY <1>1
  <2>2. SaidAtTheEnd'
    BY <1>1, <2>1 DEF SaidAtTheEnd
  <2>3. \A q \in Run : said'[q] = "FAILED" => Shown(records', tag'[q])
    BY <1>1, <2>1 DEF FailuresShown
  <2> QED BY <2>2, <2>3 DEF FailuresShown, Shown
<1>3. ASSUME Apart'
      PROVE  Sorted'
  <2>1. ~overlapped /\ \A q \in Run : ~Running(q)
    BY <1>3 DEF Apart, Start
  <2>2. \A q \in Run \ {r} : tag[q] # clock
    BY <1>1, <1>3 DEF Apart, Alone
  <2>3. Apart
    BY <1>1, <1>3, <2>1 DEF Apart, Alone
  <2>4. Sorted
    BY <2>3
  <2>5. \A k \in 1..Len(records) : records[k].tag # clock /\
                                   \E q \in Run \ {r} : records[k].tag = tag[q]
    <3>1. records \in Seq(Record)
      OBVIOUS
    <3>2. \A k \in 1..Len(records) : records[k].tag # 0
      <4> SUFFICES ASSUME NEW k \in 1..Len(records) PROVE records[k].tag # 0
        OBVIOUS
      <4>1. records[k] \in Record
        BY <3>1
      <4>2. records[k].tag \in Second
        BY <4>1 DEF Record
      <4> QED BY <4>2, AutocleanAssumption DEF Second
    <3> QED BY <1>1, <2>2, <2>4, <3>2 DEF Sorted, Known
  <2>6. OneAtATime'
    BY <1>1, <2>1 DEF OneAtATime, Running
  <2>7. Known' /\ Once' /\ Open'
    BY <1>1, <2>1, <2>4, <2>5 DEF Sorted, Known, Once, Open, Running
  <2>8. Told'
    <3>1. \A q \in Run \ {r} : tag'[q] = tag[q]
      BY <1>1
    <3>2. said'[r] = "none" /\ \A k \in 1..Len(records) : records[k].tag # tag'[r]
      BY <1>1, <2>5
    <3>3. Told
      BY <2>4 DEF Sorted
    <3>4. \A q \in Run : IF said'[q] = "none"
            THEN \A k \in 1..Len(records') :
                     records'[k].tag = tag'[q] => records'[k].outcome = "open"
            ELSE \E k \in 1..Len(records') :
                     records'[k].tag = tag'[q] /\ records'[k].outcome = said'[q]
      <4> SUFFICES ASSUME NEW q \in Run
                   PROVE  IF said'[q] = "none"
            THEN \A k \in 1..Len(records) :
                     records[k].tag = tag'[q] => records[k].outcome = "open"
            ELSE \E k \in 1..Len(records) :
                     records[k].tag = tag'[q] /\ records[k].outcome = said'[q]
        BY <1>1
      <4>1. CASE q = r
        BY <3>2, <4>1
      <4>2. CASE q # r
        <5>1. tag'[q] = tag[q] /\ said'[q] = said[q]
          BY <1>1, <4>2
        <5> QED BY <3>3, <5>1 DEF Told
      <4> QED BY <4>1, <4>2
    <3> QED BY <3>4 DEF Told
  <2> QED BY <2>6, <2>7, <2>8 DEF Sorted
<1> QED BY <1>2, <1>3

(* A line a run under way says.                                                 *)
Speaks(r, line) ==
    /\ Running(r) /\ UNCHANGED <<tag, overlapped>> /\ Say(r, line)
    /\ \E m \in Stages \cup {"ended", "dead"} :
          Goto(r, m) /\ (pc[r] = "release" => m \in {"ended", "dead"})
    /\ line \in Outcome => pc[r] # "release" /\ pc'[r] \in {"release", "ended"}

LEMMA SpeechIs ==
    ASSUME LogInv, NEW r \in Run, NEW line \in Line, Speaks(r, line)
    PROVE  /\ tag[r] \in Second /\ records \in Seq(Record)
           /\ records' = Grouped(records, tag[r], line)
           /\ \A q \in Run : q # r => pc'[q] = pc[q] /\ said'[q] = said[q]
           /\ said'[r] = IF line \in Outcome THEN line ELSE said[r]
           /\ line \in Outcome => said[r] = "none"
           /\ SaidAtTheEnd' /\ FailuresShown'
<1> USE DEF LogInv, SInv
<1>1. tag[r] \in Second /\ records \in Seq(Record)
  BY DEF Speaks, Tagged, Running, Stages, TypeOK
<1>2. records' = Grouped(records, tag[r], line) /\ tag' = tag
  BY DEF Speaks, Say
<1>3. /\ \A q \in Run : q # r => said'[q] = said[q]
      /\ said'[r] = IF line \in Outcome THEN line ELSE said[r]
  BY DEF Speaks, Say, TypeOK
<1>4. \A q \in Run : q # r => pc'[q] = pc[q]
  BY GotoLands DEF Speaks
<1>5. pc[r] \in Stages /\ (pc[r] = "release" => pc'[r] \in {"ended", "dead"})
  BY GotoLands DEF Speaks, Running
<1>6. line \in Outcome => said[r] = "none"
  BY <1>5 DEF SaidAtTheEnd, Speaks, Stages, Closing
<1>7. SaidAtTheEnd'
  <2>1. \A q \in Run : q # r /\ said'[q] # "none" => pc'[q] \in Closing
    BY <1>3, <1>4 DEF SaidAtTheEnd
  <2>2. CASE line \in Outcome
    BY <2>1, <2>2 DEF SaidAtTheEnd, Speaks, Closing
  <2>3. CASE line \notin Outcome
    <3>1. said'[r] # "none" => pc'[r] \in Closing
      BY <1>3, <1>5, <2>3 DEF SaidAtTheEnd, Stages, Closing
    <3> QED BY <2>1, <3>1 DEF SaidAtTheEnd
  <2> QED BY <2>2, <2>3
<1>8. FailuresShown'
  <2> SUFFICES ASSUME NEW q \in Run, said'[q] = "FAILED"
               PROVE  Shown(Grouped(records, tag[r], line), tag[q])
    BY <1>2 DEF FailuresShown, Shown
  <2>1. CASE said[q] = "FAILED"
    BY <1>1, <2>1, FailuresStay DEF FailuresShown
  <2>2. CASE said[q] # "FAILED"
    <3>1. q = r /\ line = "FAILED"
      BY <1>3, <2>2
    <3> QED BY <1>1, <3>1, FailuresAreShown
  <2> QED BY <2>1, <2>2
<1> QED BY <1>1, <1>2, <1>3, <1>4, <1>6, <1>7, <1>8

(* The run that speaks is the one under way, so it extends its own record, the  *)
(* last, or begins its only one.                                                *)
LEMMA SpeechKeepsSorted ==
    ASSUME LogInv, NEW r \in Run, NEW line \in Line, Speaks(r, line), Apart'
    PROVE  Sorted'
<1> DEFINE g == records'
           L == Len(records)
<1>1. /\ tag[r] \in Second /\ records \in Seq(Record) /\ g = Grouped(records, tag[r], line)
      /\ \A q \in Run : q # r => pc'[q] = pc[q] /\ said'[q] = said[q]
      /\ said'[r] = IF line \in Outcome THEN line ELSE said[r]
      /\ line \in Outcome => said[r] = "none"
  BY SpeechIs
<1>2. Running(r) /\ tag' = tag /\ overlapped' = overlapped
  BY DEF Speaks
<1>3. Sorted
  <2>1. Apart
    BY <1>2 DEF Apart, Alone
  <2> QED BY <2>1 DEF LogInv
<1>4. \A q \in Run : q # r => tag[q] # tag[r] /\ ~Running(q)
  <2>1. tag[r] # 0
    BY <1>1, AutocleanAssumption DEF Second
  <2>2. Alone(r)
    BY <1>2, <2>1 DEF Apart, Alone
  <2> QED BY <1>2, <1>3, <2>2 DEF Alone, Sorted, OneAtATime
<1>5. \A q \in Run : q # r => ~Running(q)'
  BY <1>1, <1>4 DEF Running
<1>6. OneAtATime'
  BY <1>5 DEF OneAtATime
<1>7. /\ L \in Nat /\ Len(g) \in Nat
      /\ IF LastHas(records, tag[r]) THEN L > 0 /\ Extends(g, records, line)
                                     ELSE Begins(g, records, tag[r], line)
  BY <1>1, GroupedIs
<1>8. /\ \A k \in 1..L : \E q \in Run : records[k].tag = tag[q]
      /\ \A j, k \in 1..L : records[j].tag = records[k].tag => j = k
      /\ \A k \in 1..L : records[k].tag = tag[r] => k = L
      /\ \A q \in Run : IF said[q] = "none"
            THEN \A k \in 1..L : records[k].tag = tag[q] => records[k].outcome = "open"
            ELSE \E k \in 1..L : records[k].tag = tag[q] /\ records[k].outcome = said[q]
  BY <1>2, <1>3 DEF Sorted, Known, Once, Open, Told
<1> SUFFICES /\ \A k \in 1..Len(g) : \E q \in Run : g[k].tag = tag[q]
             /\ \A j, k \in 1..Len(g) : g[j].tag = g[k].tag => j = k
             /\ \A k \in 1..Len(g) : g[k].tag = tag[r] => k = Len(g)
             /\ \A q \in Run : IF said'[q] = "none"
                  THEN \A k \in 1..Len(g) : g[k].tag = tag[q] => g[k].outcome = "open"
                  ELSE \E k \in 1..Len(g) : g[k].tag = tag[q] /\ g[k].outcome = said'[q]
  BY <1>2, <1>5, <1>6 DEF Sorted, Known, Once, Open, Told
<1> HIDE DEF g, L
<1>9. CASE LastHas(records, tag[r])
  <2>1. /\ L > 0 /\ Len(g) = L /\ records[L].tag = tag[r]
        /\ \A k \in 1..L : g[k].tag = records[k].tag /\ (k # L => g[k] = records[k])
        /\ g[L].outcome = IF line \in Outcome /\ RankOf(records[L].outcome) < Decides[line]
                          THEN line ELSE records[L].outcome
    BY <1>7, <1>9 DEF Extends, LastHas, L
  <2>2. /\ \A k \in 1..Len(g) : \E q \in Run : g[k].tag = tag[q]
        /\ \A j, k \in 1..Len(g) : g[j].tag = g[k].tag => j = k
        /\ \A k \in 1..Len(g) : g[k].tag = tag[r] => k = Len(g)
    BY <1>8, <2>1
  <2>3. ASSUME NEW q \in Run, q # r
        PROVE  \A k \in 1..L : records[k].tag = tag[q] => g[k] = records[k]
    BY <1>4, <2>1, <2>3
  <2>4. ASSUME NEW q \in Run, q # r
        PROVE  IF said'[q] = "none"
                  THEN \A k \in 1..Len(g) : g[k].tag = tag[q] => g[k].outcome = "open"
                  ELSE \E k \in 1..Len(g) : g[k].tag = tag[q] /\ g[k].outcome = said'[q]
    BY <1>1, <1>8, <2>1, <2>3, <2>4
  <2>5. IF said'[r] = "none"
          THEN \A k \in 1..Len(g) : g[k].tag = tag[r] => g[k].outcome = "open"
          ELSE \E k \in 1..Len(g) : g[k].tag = tag[r] /\ g[k].outcome = said'[r]
    <3>0. L \in 1..L /\ L \in 1..Len(g) /\ g[L].tag = tag[r]
      BY <1>7, <2>1
    <3>1. CASE line \in Outcome
      <4>1. records[L].outcome = "open" /\ line # "none"
        BY <1>1, <1>8, <2>1, <3>0, <3>1, Ranks
      <4>2. g[L].outcome = line
        BY <2>1, <3>1, <4>1, Ranks
      <4> QED BY <1>1, <3>0, <3>1, <4>1, <4>2
    <3>2. CASE line \notin Outcome
      <4>1. \A k \in 1..L : g[k].tag = tag[r] => k = L
        BY <2>1, <2>2
      <4>2. g[L].outcome = records[L].outcome /\ said'[r] = said[r]
        BY <1>1, <2>1, <3>2
      <4>3. IF said[r] = "none" THEN records[L].outcome = "open"
                                ELSE records[L].outcome = said[r]
        BY <1>8, <2>1, <3>0
      <4> QED BY <2>1, <3>0, <4>1, <4>2, <4>3
    <3> QED BY <3>1, <3>2
  <2> QED BY <2>2, <2>4, <2>5
<1>10. CASE ~LastHas(records, tag[r])
  <2>1. /\ Len(g) = L + 1 /\ g[L + 1].tag = tag[r]
        /\ \A k \in 1..L : g[k] = records[k]
        /\ g[L + 1].outcome = IF line \in Chatter THEN "open" ELSE line
    BY <1>7, <1>10 DEF Begins, L
  <2>2. \A k \in 1..L : records[k].tag # tag[r]
    <3>1. ASSUME NEW k \in 1..L, records[k].tag = tag[r] PROVE FALSE
      <4>1. k = L
        BY <1>8, <3>1
      <4>2. records # <<>>
        BY <1>1, <1>7, <3>1 DEF L
      <4> QED BY <1>10, <3>1, <4>1, <4>2 DEF LastHas, L
    <3> QED BY <3>1
  <2>3. said[r] = "none"
    BY <1>8, <2>2
  <2>0. 1..Len(g) = 1..L \cup {L + 1}
    BY <1>7, <2>1
  <2>4. \A k \in 1..Len(g) : \E q \in Run : g[k].tag = tag[q]
    BY <1>8, <2>0, <2>1
  <2>5. \A k \in 1..Len(g) : g[k].tag = tag[r] => k = Len(g)
    BY <2>0, <2>1, <2>2
  <2>6. \A j, k \in 1..Len(g) : g[j].tag = g[k].tag => j = k
    <3> SUFFICES ASSUME NEW j \in 1..Len(g), NEW k \in 1..Len(g), g[j].tag = g[k].tag
                 PROVE  j = k
      OBVIOUS
    <3>1. CASE j \in 1..L /\ k \in 1..L
      BY <1>8, <2>1, <3>1
    <3>2. CASE j = L + 1 \/ k = L + 1
      BY <2>1, <2>5, <3>2
    <3> QED BY <2>0, <3>1, <3>2
  <2>7. ASSUME NEW q \in Run, q # r
        PROVE  IF said'[q] = "none"
                  THEN \A k \in 1..Len(g) : g[k].tag = tag[q] => g[k].outcome = "open"
                  ELSE \E k \in 1..Len(g) : g[k].tag = tag[q] /\ g[k].outcome = said'[q]
    <3>1. g[L + 1].tag # tag[q] /\ said'[q] = said[q]
      BY <1>1, <1>4, <2>1, <2>7
    <3>2. \A k \in 1..Len(g) : g[k].tag = tag[q] => k \in 1..L
      BY <2>0, <3>1
    <3> QED BY <1>8, <2>0, <2>1, <3>1, <3>2
  <2>8. IF said'[r] = "none"
          THEN \A k \in 1..Len(g) : g[k].tag = tag[r] => g[k].outcome = "open"
          ELSE \E k \in 1..Len(g) : g[k].tag = tag[r] /\ g[k].outcome = said'[r]
    <3>1. CASE line \in Outcome
      <4>1. line \notin Chatter /\ line # "none"
        BY <3>1, Ranks
      <4>2. L + 1 \in 1..Len(g)
        BY <2>0
      <4> QED BY <1>1, <2>1, <3>1, <4>1, <4>2
    <3>2. CASE line \notin Outcome
      <4>1. line \in Chatter
        BY <3>2, Ranks
      <4> QED BY <1>1, <2>1, <2>3, <2>5, <3>2, <4>1
    <3> QED BY <3>1, <3>2
  <2> QED BY <2>4, <2>5, <2>6, <2>7, <2>8
<1> QED BY <1>9, <1>10

LEMMA NextKeepsLogInv ==
    ASSUME LogInv, [Next]_vars
    PROVE  LogInv'
<1>0. SInv /\ SInv'
  BY NextKeepsSInv DEF LogInv
<1>1. ASSUME NEW r \in Run, Step(r) PROVE LogInv'
  <2>1. /\ Running(r) /\ UNCHANGED <<tag, overlapped>> /\ Logs(r)
        /\ \E m \in Stages \cup {"ended", "dead"} :
              Goto(r, m) /\ (pc[r] = "release" => m \in {"ended", "dead"})
    BY <1>0, <1>1, StepLogs
  <2>2. CASE UNCHANGED <<records, said>>
    <3>1. \A q \in Run : /\ Running(q)' => Running(q)
                         /\ pc[q] \in Closing => pc'[q] \in Closing
      BY <1>0, <2>1, GotoLands DEF Running, Stages, Closing
    <3> QED BY <1>0, <2>1, <2>2, <3>1, SilenceKeepsLogInv
  <2>3. ASSUME NEW line \in Line, Speaks(r, line) PROVE LogInv'
    BY <1>0, <2>3, SpeechIs, SpeechKeepsSorted DEF LogInv
  <2>4. UNCHANGED <<records, said>> \/ \E line \in Line : Speaks(r, line)
    BY <2>1 DEF Logs, Speaks
  <2> QED BY <2>2, <2>3, <2>4
<1>2. ASSUME NEW r \in Run, Start(r) PROVE LogInv'
  BY <1>0, <1>2, StartKeepsLogInv
<1>3. ASSUME NEW r \in Run, Kill(r) PROVE LogInv'
  <2>1. UNCHANGED <<records, said, tag, overlapped>> /\ Goto(r, "dead")
    BY <1>3 DEF Kill, shared
  <2>2. \A q \in Run : /\ Running(q)' => Running(q)
                       /\ pc[q] \in Closing => pc'[q] \in Closing
    BY <1>0, <2>1, GotoLands DEF Running, Stages, Closing
  <2> QED BY <1>0, <2>1, <2>2, SilenceKeepsLogInv
<1>4. CASE Tick \/ Work \/ UNCHANGED vars
  <2>1. UNCHANGED <<records, said, tag, overlapped, pc>>
    BY <1>4 DEF Tick, Work, vars, shared
  <2> QED BY <1>0, <2>1, SilenceKeepsLogInv DEF Running
<1> QED BY <1>1, <1>2, <1>3, <1>4 DEF Next

LEMMA InitLogInv == Init => LogInv
<1> SUFFICES ASSUME Init PROVE LogInv
  OBVIOUS
<1>1. SaidAtTheEnd /\ FailuresShown
  BY DEF Init, SaidAtTheEnd, FailuresShown
<1>2. records = <<>> /\ (\A r \in Run : said[r] = "none" /\ ~Running(r))
  BY DEF Init, Running, Stages
<1>3. Sorted
  BY <1>2 DEF Sorted, OneAtATime, Known, Once, Open, Told
<1> QED BY <1>1, <1>3, InitSafe DEF LogInv

(* However runs interleave in the log, autoclean status hides no failure; and   *)
(* it lists each run once, with its outcome, as long as runs do not overlap.    *)
THEOREM StandingsAreHonest == Spec => []StandingIsHonest
<1>1. LogInv => StandingIsHonest
  <2> SUFFICES ASSUME LogInv PROVE StandingIsHonest
    OBVIOUS
  <2>1. /\ records \in Seq(Record) /\ DOMAIN records = 1..Len(records)
        /\ \A k \in 1..Len(records) : records[k] \in Record
    BY DEF LogInv, SInv, TypeOK
  <2>2. \A k \in 1..Len(records) :
            records[k] = [tag |-> records[k].tag, outcome |-> records[k].outcome]
    BY <2>1 DEF Record
  <2>3. FailureIsShown
    BY <2>1, <2>2 DEF LogInv, FailuresShown, Shown, FailureIsShown
  <2>4. RunsAreListedOnce
    <3> SUFFICES ASSUME Apart, NEW r \in Run, said[r] # "none"
                 PROVE  \E k \in DOMAIN records :
                           /\ records[k] = [tag |-> tag[r], outcome |-> said[r]]
                           /\ \A j \in DOMAIN records : records[j].tag = tag[r] => j = k
      BY DEF RunsAreListedOnce, Apart
    <3>1. Told /\ Once
      BY DEF LogInv, Sorted
    <3>2. PICK k \in 1..Len(records) : records[k].tag = tag[r] /\ records[k].outcome = said[r]
      BY <3>1 DEF Told
    <3>3. \A j \in 1..Len(records) : records[j].tag = tag[r] => j = k
      BY <3>1, <3>2 DEF Once
    <3> QED BY <2>1, <2>2, <3>2, <3>3
  <2> QED BY <2>3, <2>4 DEF StandingIsHonest
<1> QED BY <1>1, InitLogInv, NextKeepsLogInv, PTL DEF Spec
================================================================================
