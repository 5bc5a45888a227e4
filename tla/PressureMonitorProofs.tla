------------------------- MODULE PressureMonitorProofs -------------------------
(* Proofs about PressureMonitor, for any number of monitors and any thresholds, *)
(* cooldowns and sizes.                                                         *)
EXTENDS PressureMonitor, TLAPS

Under == {"truncate", "write", "start"}
Is(m, stages, k) == mon[m].pc[1] \in stages /\ mon[m].pc[2] = k

(* No age is below what the clock has been set back by.                         *)
AgesAreBounded ==
    /\ \A k \in Kind : stamp[k].held => stamp[k].age >= -back
    /\ \A m \in Monitor : mon[m].nowAge >= -back

(* A monitor is only ever at the kinds that its command line selects.           *)
OwnKinds == \A m \in Monitor : mon[m].pc # Rest => mon[m].pc[2] \in kinds[m]

(* What a monitor decides on was called for, and so is a budget it has.         *)
BudgetsAreCalledFor ==
    \A m \in Monitor :
        /\ Is(m, {"decide"}, "builds") => need[m] >= Need(free)
        /\ Is(m, Under \cup {"job"}, "builds") => mon[m].budget <= need[m] /\ need[m] > 0

(* The wall clock never shows a decision as older than it is.                   *)
Truthful(age, real) == age <= real \/ real >= Cooldown
LagsAreTruthful == \A m \in Monitor : Truthful(mon[m].nowAge, mon[m].lag)

(* Of a kind that one monitor has to itself: the last job is as old as its      *)
(* stamp says, or older than a cooldown when there is none; and older than a    *)
(* cooldown from the decision until the stamp for the next one is there.        *)
Spaced(m, k) ==
    /\ Is(m, Under \cup {"job"}, k) => mon[m].gap >= Cooldown
    /\ Is(m, Under, k) => since[k] >= Cooldown
    /\ Is(m, {"start"}, k) => stamp[k].held /\ Truthful(stamp[k].age, mon[m].lag)
    /\ IF stamp[k].held THEN Truthful(stamp[k].age, since[k]) ELSE since[k] >= Cooldown
JobsAreSpaced == \A m \in Monitor, k \in Kind : Sole(m, k) => Spaced(m, k)

PInv ==
    /\ TypeOK /\ AgesAreBounded /\ OwnKinds
    /\ BudgetsAreCalledFor /\ LagsAreTruthful /\ JobsAreSpaced

LEMMA Stages ==
    /\ Rest \in Stage /\ Rest[1] = "rest" /\ Rest[2] = "none"
    /\ \A s \in {"decide"} \cup Under \cup {"job"}, k \in Kind :
          At(s, k) \in Stage /\ At(s, k)[1] = s /\ At(s, k)[2] = k /\ At(s, k) # Rest
    /\ \A p \in Stage : p # Rest => p = At(p[1], p[2]) /\ p[2] \in Kind
BY DEF Stage, Rest, At, Under, Kind

LEMMA Constants ==
    /\ Threshold \in Nat /\ Margin \in Nat /\ MaxBudget \in Nat /\ Cooldown \in Nat
    /\ MaxFree \in Nat /\ MaxBack \in Nat /\ MaxOrphans \in Nat /\ Aged \in Nat
    /\ 0 \in Age /\ \A c \in Configurations : c \subseteq Kind
BY MonitorAssumption DEF Aged, Age, Kind

LEMMA NeedTyped == \A f \in 0..MaxFree : Need(f) \in 0..Threshold + Margin
BY Constants DEF Need

LEMMA AfterTyped ==
    ASSUME TypeOK, NEW m \in Monitor, NEW k \in Kind \cup {"none"}
    PROVE  \/ After(m, k) = Rest
           \/ \E n \in kinds[m] : n \in Kind /\ After(m, k) = At("decide", n)
<1>1. kinds[m] \subseteq Kind
  BY Constants DEF TypeOK
<1> QED BY <1>1 DEF After, Kind

(* The part of the invariant that is about the monitors' own records.           *)
MonitorsHold == OwnKinds /\ BudgetsAreCalledFor /\ LagsAreTruthful
                /\ \A m \in Monitor : mon[m].nowAge >= -back

(* A monitor's step keeps that part, if its new record does.                    *)
LEMMA BecomeKeeps ==
    ASSUME TypeOK, MonitorsHold, NEW m \in Monitor, NEW r \in MonitorState, NEW f \in 0..MaxFree,
           Become(m, r, f), UNCHANGED <<kinds, back>>,
           r.nowAge >= -back, Truthful(r.nowAge, r.lag),
           r.pc # Rest => r.pc[2] \in kinds[m],
           r.pc[1] \in Under \cup {"job"} /\ r.pc[2] = "builds" =>
              /\ mon[m].pc[2] = "builds"
              /\ r.budget <= need[m] /\ need[m] > 0
    PROVE  /\ mon' \in [Monitor -> MonitorState] /\ free' = f
           /\ need' \in [Monitor -> 0..Threshold + Margin]
           /\ mon'[m] = r /\ \A n \in Monitor : n # m => mon'[n] = mon[n]
           /\ MonitorsHold'
<1>1. mon' \in [Monitor -> MonitorState] /\ mon'[m] = r /\ \A n \in Monitor : n # m => mon'[n] = mon[n]
  BY DEF Become, TypeOK
<1>2. need' \in [Monitor -> 0..Threshold + Margin]
  BY NeedTyped, Constants DEF Become, TypeOK
<1>3. OwnKinds' /\ LagsAreTruthful' /\ \A n \in Monitor : mon'[n].nowAge >= -back'
  BY <1>1 DEF MonitorsHold, OwnKinds, LagsAreTruthful
<1>4. ASSUME NEW n \in Monitor, Is(n, {"decide"}, "builds")'
      PROVE  need'[n] >= Need(f)
  <2>1. OnBuilds(mon'[n]) /\ Deciding(mon'[n])
    BY <1>1, <1>4, Stages DEF Is, OnBuilds, Deciding, Kind, MonitorState
  <2>2. need[n] \in Int /\ Need(f) \in Int
    BY NeedTyped, Constants DEF TypeOK
  <2> QED BY <2>1, <2>2 DEF Become
<1>5. ASSUME NEW n \in Monitor, Is(n, Under \cup {"job"}, "builds")'
      PROVE  mon'[n].budget <= need'[n] /\ need'[n] > 0
  <2>1. OnBuilds(mon'[n]) /\ ~Deciding(mon'[n])
    BY <1>5 DEF Is, OnBuilds, Deciding, At, Under
  <2>2. need'[n] = need[n]
    BY <2>1 DEF Become
  <2>3. CASE n = m
    BY <1>1, <1>5, <2>2, <2>3 DEF Is
  <2>4. CASE n # m
    BY <1>1, <1>5, <2>2, <2>4 DEF Is, MonitorsHold, BudgetsAreCalledFor
  <2> QED BY <2>3, <2>4
<1>6. BudgetsAreCalledFor'
  BY <1>4, <1>5 DEF BudgetsAreCalledFor, Become
<1> QED BY <1>1, <1>2, <1>3, <1>6 DEF MonitorsHold, Become

(* Stamps and the real time since the last jobs stay as they are, and so does   *)
(* the spacing, unless the monitor's new record says otherwise.                 *)
LEMMA SpacingKept ==
    ASSUME PInv, NEW m \in Monitor, UNCHANGED <<kinds, stamp, since>>,
           \A n \in Monitor : n # m => mon'[n] = mon[n],
           \A k \in Kind : Sole(m, k) =>
              /\ mon'[m].pc[1] \in Under \cup {"job"} /\ mon'[m].pc[2] = k => mon'[m].gap >= Cooldown
              /\ mon'[m].pc[1] \in Under /\ mon'[m].pc[2] = k => since[k] >= Cooldown
              /\ mon'[m].pc[1] = "start" /\ mon'[m].pc[2] = k =>
                    stamp[k].held /\ Truthful(stamp[k].age, mon'[m].lag)
    PROVE  JobsAreSpaced'
<1> SUFFICES ASSUME NEW n \in Monitor, NEW k \in Kind, Sole(n, k)' PROVE Spaced(n, k)'
  BY DEF JobsAreSpaced
<1>1. Sole(n, k) /\ Spaced(n, k)
  BY DEF Sole, PInv, JobsAreSpaced
<1>2. CASE n = m
  BY <1>1, <1>2 DEF Spaced, Is
<1>3. CASE n # m
  BY <1>1, <1>3 DEF Spaced, Is
<1> QED BY <1>2, <1>3

LEMMA FromMonitors ==
    PInv <=> TypeOK /\ MonitorsHold /\ (\A k \in Kind : stamp[k].held => stamp[k].age >= -back)
             /\ JobsAreSpaced
BY DEF PInv, MonitorsHold, AgesAreBounded

LEMMA FromMonitorsPrimed ==
    TypeOK' /\ MonitorsHold' /\ (\A k \in Kind : stamp'[k].held => stamp'[k].age >= -back')
        /\ JobsAreSpaced' => PInv'
BY DEF PInv, MonitorsHold, AgesAreBounded

(* A step back to rest, or on to a decision. *)
LEMMA MovesOn ==
    ASSUME PInv, NEW m \in Monitor, NEW r \in MonitorState, NEW f \in 0..MaxFree, Become(m, r, f),
           r.pc = Rest \/ \E k \in kinds[m] : k \in Kind /\ r.pc = At("decide", k),
           r.nowAge >= -back, Truthful(r.nowAge, r.lag),
           UNCHANGED <<kinds, back, stamp, since>>,
           calm' \in BOOLEAN, orphans' \in [Kind -> 0..MaxOrphans]
    PROVE  PInv'
<1>1. /\ r.pc[1] \notin Under \cup {"job"}
      /\ r.pc # Rest => r.pc[2] \in kinds[m]
  BY Stages DEF Under
<1>2. TypeOK /\ MonitorsHold
  BY FromMonitors
<1>3. /\ mon' \in [Monitor -> MonitorState] /\ free' = f
      /\ need' \in [Monitor -> 0..Threshold + Margin]
      /\ mon'[m] = r /\ \A n \in Monitor : n # m => mon'[n] = mon[n]
      /\ MonitorsHold'
  BY <1>1, <1>2, BecomeKeeps
<1>4. TypeOK'
  BY <1>2, <1>3 DEF TypeOK
<1>5. JobsAreSpaced'
  BY <1>1, <1>3, SpacingKept DEF Under
<1> QED BY <1>3, <1>4, <1>5, FromMonitors, FromMonitorsPrimed

LEMMA RestingTyped ==
    ASSUME NEW p \in Stage, NEW s \in 0..MaxFree
    PROVE  /\ [Resting EXCEPT !.pc = p, !.sample = s] \in MonitorState /\ Resting \in MonitorState
           /\ [Resting EXCEPT !.pc = p, !.sample = s].pc = p
           /\ [Resting EXCEPT !.pc = p, !.sample = s].nowAge = 0
           /\ [Resting EXCEPT !.pc = p, !.sample = s].lag = 0
           /\ Resting.pc = Rest /\ Resting.nowAge = 0 /\ Resting.lag = 0
<1>1. Rest \in Stage /\ 0 \in Age /\ 0 \in 0..Cooldown /\ 0 \in 0..MaxFree /\ 0 \in 0..MaxBudget
  BY Constants, Stages
<1> QED BY <1>1 DEF Resting, MonitorState

LEMMA BackTyped == TypeOK => back \in Nat /\ 0 >= -back /\ Truthful(0, 0)
BY Constants DEF TypeOK, Truthful

LEMMA SampleKeeps == ASSUME PInv, NEW m \in Monitor, Sample(m) PROVE PInv'
<1> DEFINE r == [mon[m] EXCEPT !.pc = After(m, "none"), !.sample = free]
<1>1. After(m, "none") = Rest \/ \E n \in kinds[m] : n \in Kind /\ After(m, "none") = At("decide", n)
  BY AfterTyped DEF PInv
<1>2. After(m, "none") \in Stage
  BY <1>1, Stages
<1>3. /\ r \in MonitorState /\ r.pc = After(m, "none") /\ r.nowAge = mon[m].nowAge
      /\ r.lag = mon[m].lag
  BY <1>2 DEF PInv, TypeOK, MonitorState
<1>4. Become(m, r, free) /\ free \in 0..MaxFree /\ UNCHANGED <<kinds, back, stamp, since, calm, orphans>>
  BY DEF Sample, PInv, TypeOK
<1>5. r.nowAge >= -back /\ Truthful(r.nowAge, r.lag)
  BY <1>3 DEF PInv, AgesAreBounded, LagsAreTruthful
<1> HIDE DEF r
<1>6. calm' \in BOOLEAN /\ orphans' \in [Kind -> 0..MaxOrphans]
  BY <1>4 DEF PInv, TypeOK
<1> QED BY <1>1, <1>3, <1>4, <1>5, <1>6, MovesOn

LEMMA DecideKeeps == ASSUME PInv, NEW m \in Monitor, NEW k \in Kind, Decide(m, k) PROVE PInv'
<1> DEFINE f == IF k = "builds" THEN free ELSE mon[m].sample
<1>1. f \in 0..MaxFree /\ free \in 0..MaxFree /\ since[k] \in 0..Cooldown
  BY DEF PInv, TypeOK, MonitorState
<1>2. UNCHANGED <<kinds, back, stamp, since, calm, orphans>> /\ mon[m].pc = At("decide", k)
      /\ k \in kinds[m]
  BY Stages DEF Decide, PInv, OwnKinds
<1>3. CASE Acts(k, f)
  <2> DEFINE budget == Smaller(Need(f), MaxBudget)
  <2> DEFINE r == [mon[m] EXCEPT !.pc = At("truncate", k), !.nowAge = 0, !.lag = 0,
                                 !.gap = since[k], !.budget = budget]
  <2>1. Become(m, r, free)
    BY <1>3 DEF Decide
  <2>2. budget \in 0..MaxBudget /\ budget <= Need(f) /\ Need(f) > 0
    BY <1>1, <1>3, NeedTyped, Constants DEF Smaller, Acts, Need
  <2>3. /\ r \in MonitorState /\ r.pc = At("truncate", k) /\ r.nowAge = 0 /\ r.lag = 0
        /\ r.gap = since[k] /\ r.budget = budget
    <3>1. At("truncate", k) \in Stage /\ 0 \in Age /\ 0 \in 0..Cooldown
      BY Stages, Constants DEF Under
    <3>2. mon[m] \in MonitorState
      BY DEF PInv, TypeOK
    <3> HIDE DEF budget
    <3> QED BY <1>1, <2>2, <3>1, <3>2 DEF MonitorState
  <2> HIDE DEF r, budget
  <2>4. r.pc[1] = "truncate" /\ r.pc[2] = k /\ r.pc[2] \in kinds[m]
    BY <1>2, <2>3, Stages DEF Under
  <2>5. k = "builds" => mon[m].pc[2] = "builds" /\ budget <= need[m] /\ need[m] > 0
    <3>1. ASSUME k = "builds" PROVE Is(m, {"decide"}, "builds") /\ f = free
      BY <1>2, <3>1, Stages DEF Is
    <3>2. need[m] \in Int /\ Need(f) \in Int
      BY <1>1, NeedTyped, Constants DEF PInv, TypeOK
    <3> QED BY <2>2, <3>1, <3>2, Constants DEF PInv, BudgetsAreCalledFor, Is
  <2>6. TypeOK /\ MonitorsHold
    BY FromMonitors
  <2>7. r.nowAge >= -back /\ Truthful(r.nowAge, r.lag)
    BY <2>3, <2>6, BackTyped
  <2>8. /\ mon' \in [Monitor -> MonitorState] /\ free' = free
        /\ need' \in [Monitor -> 0..Threshold + Margin]
        /\ mon'[m] = r /\ \A n \in Monitor : n # m => mon'[n] = mon[n]
        /\ MonitorsHold'
    BY <1>1, <1>2, <2>1, <2>3, <2>4, <2>5, <2>6, <2>7, BecomeKeeps
  <2>9. TypeOK'
    BY <1>2, <2>6, <2>8 DEF TypeOK
  <2>10. Sole(m, k) => since[k] >= Cooldown
    BY <1>1, <1>3, Constants DEF PInv, JobsAreSpaced, Spaced, Truthful, Acts, CooledDown, TypeOK, Stamp, Age
  <2>11. JobsAreSpaced'
    BY <1>2, <2>3, <2>4, <2>8, <2>10, SpacingKept
  <2> QED BY <1>2, <2>8, <2>9, <2>11, FromMonitors, FromMonitorsPrimed
<1>4. CASE ~Acts(k, f)
  <2> DEFINE s == IF After(m, k) = Rest THEN 0 ELSE mon[m].sample
  <2> DEFINE r == [mon[m] EXCEPT !.pc = After(m, k), !.sample = s]
  <2>1. After(m, k) = Rest \/ \E n \in kinds[m] : n \in Kind /\ After(m, k) = At("decide", n)
    BY AfterTyped DEF PInv
  <2>2. After(m, k) \in Stage
    BY <2>1, Stages
  <2>3. s \in 0..MaxFree
    BY Constants DEF PInv, TypeOK, MonitorState
  <2>4. Become(m, r, free)
    BY <1>4 DEF Decide
  <2> HIDE DEF s
  <2>5. /\ r \in MonitorState /\ r.pc = After(m, k) /\ r.nowAge = mon[m].nowAge
        /\ r.lag = mon[m].lag
    BY <2>2, <2>3 DEF PInv, TypeOK, MonitorState
  <2>6. r.nowAge >= -back /\ Truthful(r.nowAge, r.lag)
    BY <2>5 DEF PInv, AgesAreBounded, LagsAreTruthful
  <2>7. calm' \in BOOLEAN /\ orphans' \in [Kind -> 0..MaxOrphans]
    BY <1>2 DEF PInv, TypeOK
  <2> HIDE DEF r
  <2> QED BY <1>1, <1>2, <2>1, <2>4, <2>5, <2>6, <2>7, MovesOn
<1> QED BY <1>3, <1>4

(* What a monitor does to the files of a kind is no other monitor's business,   *)
(* if one monitor has the kind to itself.                                       *)
LEMMA NobodyElse ==
    ASSUME PInv, NEW m \in Monitor, NEW k \in Kind, mon[m].pc[1] # "rest", mon[m].pc[2] = k
    PROVE  k \in kinds[m] /\ \A n \in Monitor : Sole(n, k) => n = m
BY Stages DEF PInv, OwnKinds, Sole

(* A step of m at kind k that leaves the space alone, keeps its budget and what *)
(* it decided, and goes on in the same kind.                                    *)
LEMMA GoesOn ==
    ASSUME PInv, NEW m \in Monitor, NEW k \in Kind, NEW r \in MonitorState, Become(m, r, free),
           mon[m].pc[1] \in Under, mon[m].pc[2] = k, r.pc[1] \in Under \cup {"job"}, r.pc[2] = k,
           r.budget = mon[m].budget, r.nowAge >= -back, Truthful(r.nowAge, r.lag),
           UNCHANGED <<kinds, back, calm, orphans>>,
           stamp' \in [Kind -> Stamp], since' \in [Kind -> 0..Cooldown],
           \A j \in Kind : stamp'[j].held => stamp'[j].age >= -back,
           \A j \in Kind : j # k => stamp'[j] = stamp[j] /\ since'[j] = since[j],
           Sole(m, k) =>
              /\ r.gap >= Cooldown
              /\ r.pc[1] \in Under => since'[k] >= Cooldown
              /\ r.pc[1] = "start" => stamp'[k].held /\ Truthful(stamp'[k].age, r.lag)
              /\ IF stamp'[k].held THEN Truthful(stamp'[k].age, since'[k]) ELSE since'[k] >= Cooldown
    PROVE  PInv'
<1>1. TypeOK /\ MonitorsHold /\ free \in 0..MaxFree
  BY FromMonitors DEF TypeOK
<1>2. k \in kinds[m] /\ \A n \in Monitor : Sole(n, k) => n = m
  BY NobodyElse DEF Under
<1>3. k = "builds" => r.budget <= need[m] /\ need[m] > 0
  BY <1>1 DEF MonitorsHold, BudgetsAreCalledFor, Is
<1>4. /\ mon' \in [Monitor -> MonitorState] /\ free' = free
      /\ need' \in [Monitor -> 0..Threshold + Margin]
      /\ mon'[m] = r /\ \A n \in Monitor : n # m => mon'[n] = mon[n]
      /\ MonitorsHold'
  BY <1>1, <1>2, <1>3, BecomeKeeps
<1>5. TypeOK'
  BY <1>1, <1>4 DEF TypeOK
<1>6. ASSUME NEW n \in Monitor, NEW j \in Kind, Sole(n, j)' PROVE Spaced(n, j)'
  <2>1. Sole(n, j) /\ Spaced(n, j)
    BY <1>6 DEF Sole, PInv, JobsAreSpaced
  <2>2. CASE j = k
    <3>1. n = m
      BY <1>2, <2>1, <2>2
    <3> QED BY <1>4, <2>1, <2>2, <3>1 DEF Spaced, Is, Under
  <2>3. CASE j # k /\ n = m
    BY <1>4, <2>1, <2>3 DEF Spaced, Is
  <2>4. CASE j # k /\ n # m
    BY <1>4, <2>1, <2>4 DEF Spaced, Is
  <2> QED BY <2>2, <2>3, <2>4
<1> QED BY <1>4, <1>5, <1>6, FromMonitorsPrimed DEF JobsAreSpaced

LEMMA TruncateKeeps == ASSUME PInv, NEW m \in Monitor, NEW k \in Kind, Truncate(m, k) PROVE PInv'
<1> DEFINE r == [mon[m] EXCEPT !.pc = At("write", k)]
<1>1. At("write", k) \in Stage /\ At("write", k)[1] = "write" /\ At("write", k)[2] = k
      /\ mon[m].pc[1] = "truncate" /\ mon[m].pc[2] = k
  BY Stages DEF Truncate, Under
<1>2. /\ r \in MonitorState /\ r.pc = At("write", k) /\ r.budget = mon[m].budget
      /\ r.nowAge = mon[m].nowAge /\ r.lag = mon[m].lag /\ r.gap = mon[m].gap
  BY <1>1 DEF PInv, TypeOK, MonitorState
<1>3. Become(m, r, free) /\ UNCHANGED <<kinds, back, calm, orphans, since>>
      /\ stamp' = [stamp EXCEPT ![k] = NoStamp]
  BY DEF Truncate, Goto
<1>4. stamp' \in [Kind -> Stamp] /\ since' \in [Kind -> 0..Cooldown] /\ ~stamp'[k].held
      /\ \A j \in Kind : j # k => stamp'[j] = stamp[j]
  BY <1>3, Constants DEF PInv, TypeOK, NoStamp, Stamp
<1>5. \A j \in Kind : stamp'[j].held => stamp'[j].age >= -back
  BY <1>4 DEF PInv, AgesAreBounded
<1>6. Sole(m, k) => r.gap >= Cooldown /\ since'[k] >= Cooldown
  BY <1>1, <1>2, <1>3 DEF PInv, JobsAreSpaced, Spaced, Is, Under
<1>7. r.nowAge >= -back /\ Truthful(r.nowAge, r.lag)
  BY <1>2 DEF PInv, AgesAreBounded, LagsAreTruthful
<1> HIDE DEF r
<1> QED BY <1>1, <1>2, <1>3, <1>4, <1>5, <1>6, <1>7, GoesOn DEF Under

LEMMA WriteKeeps == ASSUME PInv, NEW m \in Monitor, NEW k \in Kind, Write(m, k) PROVE PInv'
<1> DEFINE r == [mon[m] EXCEPT !.pc = At("start", k)]
<1> DEFINE written == [held |-> TRUE, age |-> IF k = "trigger" THEN 0 ELSE mon[m].nowAge]
<1>1. At("start", k) \in Stage /\ At("start", k)[1] = "start" /\ At("start", k)[2] = k
      /\ mon[m].pc[1] = "write" /\ mon[m].pc[2] = k
  BY Stages DEF Write, Under
<1>2. /\ r \in MonitorState /\ r.pc = At("start", k) /\ r.budget = mon[m].budget
      /\ r.nowAge = mon[m].nowAge /\ r.lag = mon[m].lag /\ r.gap = mon[m].gap
  BY <1>1 DEF PInv, TypeOK, MonitorState
<1>3. Become(m, r, free) /\ UNCHANGED <<kinds, back, calm, orphans, since>>
      /\ stamp' = [stamp EXCEPT ![k] = written]
  BY DEF Write, Goto
<1>4. r.nowAge >= -back /\ Truthful(r.nowAge, r.lag) /\ r.lag \in Nat /\ back \in Nat
  BY <1>2, Constants DEF PInv, AgesAreBounded, LagsAreTruthful, TypeOK, MonitorState
<1>5. written \in Stamp /\ written.held /\ written.age >= -back /\ Truthful(written.age, r.lag)
  BY <1>2, <1>4, Constants DEF Stamp, Truthful, MonitorState
<1> HIDE DEF r, written
<1>6. stamp' \in [Kind -> Stamp] /\ since' \in [Kind -> 0..Cooldown] /\ stamp'[k] = written
      /\ \A j \in Kind : j # k => stamp'[j] = stamp[j]
  BY <1>3, <1>5 DEF PInv, TypeOK
<1>7. \A j \in Kind : stamp'[j].held => stamp'[j].age >= -back
  BY <1>5, <1>6 DEF PInv, AgesAreBounded
<1>8. Sole(m, k) => r.gap >= Cooldown /\ since'[k] >= Cooldown
  BY <1>1, <1>2, <1>3 DEF PInv, JobsAreSpaced, Spaced, Is, Under
<1>9. Sole(m, k) => Truthful(stamp'[k].age, since'[k])
  BY <1>8 DEF Truthful
<1> QED BY <1>1, <1>2, <1>3, <1>4, <1>5, <1>6, <1>7, <1>8, <1>9, GoesOn DEF Under

LEMMA StartKeeps == ASSUME PInv, NEW m \in Monitor, NEW k \in Kind, Start(m, k) PROVE PInv'
<1> DEFINE r == [mon[m] EXCEPT !.pc = At("job", k), !.nowAge = 0, !.lag = 0]
<1>1. At("job", k) \in Stage /\ At("job", k)[1] = "job" /\ At("job", k)[2] = k
      /\ mon[m].pc[1] = "start" /\ mon[m].pc[2] = k /\ mon[m].lag \in 0..Cooldown
  BY Stages DEF Start, Under, PInv, TypeOK, MonitorState
<1>2. /\ r \in MonitorState /\ r.pc = At("job", k) /\ r.budget = mon[m].budget
      /\ r.nowAge = 0 /\ r.lag = 0 /\ r.gap = mon[m].gap
  <2>1. At("job", k) \in Stage /\ 0 \in Age /\ 0 \in 0..Cooldown
    BY <1>1, Constants
  <2>2. mon[m] \in MonitorState
    BY DEF PInv, TypeOK
  <2> QED BY <2>1, <2>2 DEF MonitorState
<1>3. Become(m, r, free) /\ UNCHANGED <<kinds, back, calm, orphans, stamp>>
      /\ since' = [since EXCEPT ![k] = mon[m].lag]
  BY DEF Start
<1>4. r.nowAge >= -back /\ Truthful(r.nowAge, r.lag)
  BY <1>2, BackTyped DEF PInv
<1> HIDE DEF r
<1>5. stamp' \in [Kind -> Stamp] /\ since' \in [Kind -> 0..Cooldown] /\ since'[k] = mon[m].lag
      /\ \A j \in Kind : j # k => since'[j] = since[j]
  BY <1>1, <1>3 DEF PInv, TypeOK
<1>6. \A j \in Kind : stamp'[j].held => stamp'[j].age >= -back
  BY <1>3 DEF PInv, AgesAreBounded
<1>7. Sole(m, k) => r.gap >= Cooldown /\ stamp'[k].held /\ Truthful(stamp'[k].age, since'[k])
  BY <1>1, <1>2, <1>3, <1>5 DEF PInv, JobsAreSpaced, Spaced, Is, Under
<1> QED BY <1>1, <1>2, <1>3, <1>4, <1>5, <1>6, <1>7, GoesOn DEF Under

LEMMA JobEndsKeeps == ASSUME PInv, NEW m \in Monitor, NEW k \in Kind, JobEnds(m, k) PROVE PInv'
<1> PICK f \in Freeable(k, mon[m].budget) :
         Become(m, [Resting EXCEPT !.pc = After(m, k),
                                   !.sample = IF After(m, k) = Rest THEN 0 ELSE mon[m].sample], f)
  BY DEF JobEnds
<1> DEFINE s == IF After(m, k) = Rest THEN 0 ELSE mon[m].sample
<1> DEFINE r == [Resting EXCEPT !.pc = After(m, k), !.sample = s]
<1>1. After(m, k) = Rest \/ \E n \in kinds[m] : n \in Kind /\ After(m, k) = At("decide", n)
  BY AfterTyped DEF PInv
<1>2. After(m, k) \in Stage /\ s \in 0..MaxFree
  <2>1. After(m, k) \in Stage
    BY <1>1, Stages
  <2>2. mon[m].sample \in 0..MaxFree /\ 0 \in 0..MaxFree
    BY Constants DEF PInv, TypeOK, MonitorState
  <2> QED BY <2>1, <2>2
<1>3. f \in 0..MaxFree
  BY Constants DEF Freeable, Smaller, PInv, TypeOK, MonitorState
<1> HIDE DEF s
<1>4. r \in MonitorState /\ r.pc = After(m, k) /\ r.nowAge = 0 /\ r.lag = 0
  BY <1>2, RestingTyped
<1> HIDE DEF r
<1>5. Become(m, r, f) /\ UNCHANGED <<kinds, back, stamp, since, calm, orphans>>
  BY DEF JobEnds, r, s
<1>6. r.nowAge >= -back /\ Truthful(r.nowAge, r.lag)
  BY <1>4, BackTyped DEF PInv
<1>7. calm' \in BOOLEAN /\ orphans' \in [Kind -> 0..MaxOrphans]
  BY <1>5 DEF PInv, TypeOK
<1> QED BY <1>1, <1>3, <1>4, <1>5, <1>6, <1>7, MovesOn

LEMMA TickFailsKeeps ==
    ASSUME PInv, NEW m \in Monitor, TickFails(m), UNCHANGED <<kinds, back, stamp, since>>,
           calm' \in BOOLEAN, orphans' \in [Kind -> 0..MaxOrphans]
    PROVE  PInv'
<1>1. free \in 0..MaxFree /\ 0 \in 0..MaxFree
  BY Constants DEF PInv, TypeOK
<1>2. Resting \in MonitorState /\ Resting.pc = Rest /\ Resting.nowAge = 0 /\ Resting.lag = 0
  BY <1>1, Stages, RestingTyped
<1>3. Resting.nowAge >= -back /\ Truthful(Resting.nowAge, Resting.lag)
  BY <1>2, BackTyped DEF PInv
<1> QED BY <1>1, <1>2, <1>3, MovesOn DEF TickFails

LEMMA FailKeeps == ASSUME PInv, NEW m \in Monitor, Fail(m) PROVE PInv'
BY TickFailsKeeps DEF Fail, PInv, TypeOK

LEMMA KillKeeps == ASSUME PInv, NEW m \in Monitor, Kill(m) PROVE PInv'
<1>1. orphans' \in [Kind -> 0..MaxOrphans]
  BY Constants DEF Kill, PInv, TypeOK
<1> QED BY <1>1, TickFailsKeeps DEF Kill, PInv, TypeOK

LEMMA UseKeeps == ASSUME PInv, Use PROVE PInv'
<1> PICK m \in Monitor, f \in {free - 1, free + 1} \cap 0..MaxFree :
         Become(m, mon[m], f) /\ UNCHANGED <<kinds, back, calm, stamp, orphans, since>>
  BY DEF Use
<1>1. TypeOK /\ MonitorsHold /\ mon[m] \in MonitorState
  BY FromMonitors DEF TypeOK
<1>2. /\ mon[m].nowAge >= -back /\ Truthful(mon[m].nowAge, mon[m].lag)
      /\ mon[m].pc # Rest => mon[m].pc[2] \in kinds[m]
      /\ mon[m].pc[1] \in Under \cup {"job"} /\ mon[m].pc[2] = "builds" =>
            mon[m].budget <= need[m] /\ need[m] > 0
  BY DEF PInv, AgesAreBounded, LagsAreTruthful, OwnKinds, BudgetsAreCalledFor, Is
<1>3. /\ mon' \in [Monitor -> MonitorState] /\ free' = f
      /\ need' \in [Monitor -> 0..Threshold + Margin]
      /\ mon'[m] = mon[m] /\ \A n \in Monitor : n # m => mon'[n] = mon[n]
      /\ MonitorsHold'
  BY <1>1, <1>2, BecomeKeeps
<1>4. TypeOK'
  BY <1>1, <1>3 DEF TypeOK
<1>5. JobsAreSpaced'
  BY <1>3 DEF PInv, JobsAreSpaced, Spaced, Sole, Is
<1> QED BY <1>3, <1>4, <1>5, FromMonitors, FromMonitorsPrimed

LEMMA CalmDownKeeps == ASSUME PInv, CalmDown PROVE PInv'
BY DEF CalmDown, PInv, TypeOK, AgesAreBounded, OwnKinds, BudgetsAreCalledFor, LagsAreTruthful,
       JobsAreSpaced, Spaced, Sole, Is

LEMMA OrphanEndsKeeps == ASSUME PInv, NEW k \in Kind, OrphanEnds(k) PROVE PInv'
<1>1. orphans' \in [Kind -> 0..MaxOrphans]
  BY Constants DEF OrphanEnds, PInv, TypeOK
<1> QED
  BY <1>1 DEF OrphanEnds, PInv, TypeOK, AgesAreBounded, OwnKinds, BudgetsAreCalledFor,
              LagsAreTruthful, JobsAreSpaced, Spaced, Sole, Is

(* Of steps that pass or set back time: every age and every real time move, and *)
(* no monitor goes anywhere.                                                    *)
LEMMA TimeMoves ==
    ASSUME PInv, UNCHANGED <<kinds, free, calm, orphans, need>>, back' \in 0..MaxBack,
           stamp' \in [Kind -> Stamp], since' \in [Kind -> 0..Cooldown],
           mon' \in [Monitor -> MonitorState],
           \A k \in Kind : stamp'[k].held =>
              /\ stamp[k].held /\ stamp'[k].age >= -back'
              /\ \A real \in 0..Cooldown, later \in 0..Cooldown :
                    since[k] = real /\ since'[k] = later /\ Truthful(stamp[k].age, real)
                       => Truthful(stamp'[k].age, later),
           \A k \in Kind : stamp'[k].held = stamp[k].held,
           \A k \in Kind : since[k] >= Cooldown => since'[k] >= Cooldown,
           \A m \in Monitor :
              /\ mon'[m].pc = mon[m].pc /\ mon'[m].gap = mon[m].gap
              /\ mon'[m].budget = mon[m].budget
              /\ mon'[m].nowAge >= -back' /\ Truthful(mon'[m].nowAge, mon'[m].lag)
              /\ \A k \in Kind : Is(m, {"start"}, k) /\ stamp[k].held
                    /\ Truthful(stamp[k].age, mon[m].lag) => Truthful(stamp'[k].age, mon'[m].lag)
    PROVE  PInv'
<1>1. TypeOK'
  BY DEF PInv, TypeOK
<1>2. AgesAreBounded' /\ OwnKinds' /\ LagsAreTruthful'
  BY DEF PInv, AgesAreBounded, OwnKinds, LagsAreTruthful
<1>3. BudgetsAreCalledFor'
  BY DEF PInv, BudgetsAreCalledFor, Is
<1>4. ASSUME NEW m \in Monitor, NEW k \in Kind, Sole(m, k)' PROVE Spaced(m, k)'
  <2>1. Sole(m, k) /\ Spaced(m, k) /\ since[k] \in 0..Cooldown /\ since'[k] \in 0..Cooldown
    BY <1>4 DEF Sole, PInv, JobsAreSpaced, TypeOK
  <2> QED BY <2>1 DEF Spaced, Is
<1> QED BY <1>1, <1>2, <1>3, <1>4 DEF PInv, JobsAreSpaced

LEMMA OlderTyped ==
    /\ \A a \in Age : Older(a) \in Age /\ Older(a) >= a /\ Older(a) <= a + 1
    /\ \A t \in 0..Cooldown : /\ Smaller(t + 1, Cooldown) \in 0..Cooldown
                              /\ Smaller(t + 1, Cooldown) = t + 1 \/ Smaller(t + 1, Cooldown) = Cooldown
BY Constants DEF Age, Aged, Older, Smaller

LEMMA TickKeeps == ASSUME PInv, Tick PROVE PInv'
<1> USE Constants
<1>1. ASSUME NEW a \in Age, NEW t \in 0..Cooldown, Truthful(a, t)
      PROVE  Truthful(Older(a), Smaller(t + 1, Cooldown))
  BY <1>1, OlderTyped DEF Truthful, Age
<1>2. stamp \in [Kind -> Stamp] /\ mon \in [Monitor -> MonitorState] /\ since \in [Kind -> 0..Cooldown]
      /\ back \in 0..MaxBack
  BY DEF PInv, TypeOK
<1>3. ASSUME NEW k \in Kind
      PROVE  /\ stamp'[k] \in Stamp /\ stamp'[k].held = stamp[k].held
             /\ stamp[k].held => stamp'[k].age = Older(stamp[k].age)
             /\ since'[k] = Smaller(since[k] + 1, Cooldown)
             /\ stamp[k].age \in Age
  <2>1. stamp[k] \in Stamp /\ stamp[k].age \in Age /\ stamp[k].held \in BOOLEAN
    BY <1>2 DEF Stamp
  <2> DEFINE older == IF stamp[k].held THEN Older(stamp[k].age) ELSE stamp[k].age
  <2>2. older \in Age
    BY <2>1, OlderTyped
  <2>3. stamp'[k] = [stamp[k] EXCEPT !.age = older] /\ since'[k] = Smaller(since[k] + 1, Cooldown)
    BY <2>1 DEF Tick, Stamp
  <2>4. stamp[k].held => older = Older(stamp[k].age)
    OBVIOUS
  <2> HIDE DEF older
  <2>5. stamp'[k] \in Stamp /\ stamp'[k].held = stamp[k].held /\ stamp'[k].age = older
    BY <2>1, <2>2, <2>3 DEF Stamp
  <2> QED BY <2>1, <2>3, <2>4, <2>5
<1>4. ASSUME NEW m \in Monitor
      PROVE  /\ mon'[m] \in MonitorState /\ mon'[m].pc = mon[m].pc /\ mon'[m].gap = mon[m].gap
             /\ mon'[m].budget = mon[m].budget
             /\ IF mon[m].pc[1] \in Under
                THEN mon'[m].nowAge = Older(mon[m].nowAge) /\ mon'[m].lag = Smaller(mon[m].lag + 1, Cooldown)
                ELSE mon'[m] = mon[m]
             /\ mon[m].nowAge \in Age /\ mon[m].lag \in 0..Cooldown
  <2>1. mon[m] \in MonitorState /\ mon[m].nowAge \in Age /\ mon[m].lag \in 0..Cooldown
    BY <1>2 DEF MonitorState
  <2>2. Older(mon[m].nowAge) \in Age /\ Smaller(mon[m].lag + 1, Cooldown) \in 0..Cooldown
    BY <2>1, OlderTyped
  <2> DEFINE older == Older(mon[m].nowAge)
             later == Smaller(mon[m].lag + 1, Cooldown)
             r == [mon[m] EXCEPT !.nowAge = older, !.lag = later]
  <2>3. mon'[m] = IF mon[m].pc[1] \in Under THEN r ELSE mon[m]
    BY <2>1 DEF Tick, Under, MonitorState
  <2>4. older \in Age /\ later \in 0..Cooldown
    BY <2>2
  <2> HIDE DEF older, later
  <2>5. /\ r \in MonitorState /\ r.pc = mon[m].pc /\ r.gap = mon[m].gap
        /\ r.budget = mon[m].budget /\ r.nowAge = older /\ r.lag = later
    BY <2>1, <2>4 DEF MonitorState
  <2> HIDE DEF r
  <2>6. mon'[m] \in MonitorState /\ mon'[m].pc = mon[m].pc /\ mon'[m].gap = mon[m].gap
        /\ mon'[m].budget = mon[m].budget
    BY <2>1, <2>3, <2>5
  <2>7. IF mon[m].pc[1] \in Under THEN mon'[m].nowAge = older /\ mon'[m].lag = later
                                  ELSE mon'[m] = mon[m]
    BY <2>3, <2>5
  <2> QED BY <2>1, <2>6, <2>7 DEF older, later
<1>5. UNCHANGED <<kinds, free, back, calm, orphans, need>> /\ back' \in 0..MaxBack
  BY <1>2 DEF Tick
<1>6. stamp' \in [Kind -> Stamp] /\ since' \in [Kind -> 0..Cooldown]
  BY <1>2, <1>3, OlderTyped DEF Tick
<1>7. mon' \in [Monitor -> MonitorState]
  <2>1. mon' = [m \in Monitor |-> mon'[m]]
    BY DEF Tick
  <2> QED BY <1>4, <2>1
<1>8. ASSUME NEW k \in Kind, stamp'[k].held
      PROVE  /\ stamp[k].held /\ stamp'[k].age >= -back'
             /\ Truthful(stamp[k].age, since[k]) => Truthful(stamp'[k].age, since'[k])
  <2>1. stamp[k].age >= -back /\ Older(stamp[k].age) >= stamp[k].age /\ Older(stamp[k].age) \in Age
    BY <1>3, <1>8, OlderTyped DEF PInv, AgesAreBounded
  <2>2. stamp'[k].age >= -back'
    BY <1>2, <1>3, <1>5, <1>8, <2>1 DEF Age
  <2> QED BY <1>1, <1>2, <1>3, <1>8, <2>2
<1>9. \A k \in Kind : since[k] >= Cooldown => since'[k] >= Cooldown
  BY <1>2, <1>3, OlderTyped
<1>10. ASSUME NEW m \in Monitor
       PROVE  /\ mon'[m].nowAge >= -back' /\ Truthful(mon'[m].nowAge, mon'[m].lag)
              /\ \A k \in Kind : Is(m, {"start"}, k) /\ stamp[k].held
                    /\ Truthful(stamp[k].age, mon[m].lag) => Truthful(stamp'[k].age, mon'[m].lag)
  <2>1. mon[m].nowAge >= -back /\ Truthful(mon[m].nowAge, mon[m].lag)
    BY DEF PInv, AgesAreBounded, LagsAreTruthful
  <2>2. Older(mon[m].nowAge) >= mon[m].nowAge /\ Older(mon[m].nowAge) \in Age
    BY <1>4, OlderTyped
  <2>3. mon'[m].nowAge >= -back' /\ Truthful(mon'[m].nowAge, mon'[m].lag)
    BY <1>1, <1>2, <1>4, <1>5, <2>1, <2>2 DEF Age
  <2>4. ASSUME NEW k \in Kind, Is(m, {"start"}, k), stamp[k].held, Truthful(stamp[k].age, mon[m].lag)
        PROVE  Truthful(stamp'[k].age, mon'[m].lag)
    BY <1>1, <1>3, <1>4, <2>4 DEF Is, Under
  <2> QED BY <2>3, <2>4
<1> HIDE DEF Tick
<1> QED BY <1>3, <1>4, <1>5, <1>6, <1>7, <1>8, <1>9, <1>10, TimeMoves

LEMMA SetBackKeeps == ASSUME PInv, SetBack PROVE PInv'
<1> USE Constants
<1>1. stamp \in [Kind -> Stamp] /\ mon \in [Monitor -> MonitorState] /\ since \in [Kind -> 0..Cooldown]
      /\ back \in 0..MaxBack
  BY DEF PInv, TypeOK
<1>2. back' = back + 1 /\ back' \in 0..MaxBack /\ UNCHANGED <<kinds, free, calm, orphans, since, need>>
  BY <1>1 DEF SetBack
<1>3. ASSUME NEW a \in Age, a >= -back PROVE a - 1 \in Age /\ a - 1 >= -back'
  BY <1>1, <1>2, <1>3 DEF Age
<1>4. ASSUME NEW k \in Kind
      PROVE  /\ stamp'[k] \in Stamp /\ stamp'[k].held = stamp[k].held /\ stamp[k].age \in Age
             /\ stamp[k].held => stamp'[k].age = stamp[k].age - 1 /\ stamp'[k].age >= -back'
  <2>1. stamp[k] \in Stamp /\ stamp[k].age \in Age
    BY <1>1 DEF Stamp
  <2>2. CASE stamp[k].held
    <3>1. stamp[k].age - 1 \in Age /\ stamp[k].age - 1 >= -back'
      BY <1>3, <2>1, <2>2 DEF PInv, AgesAreBounded
    <3> QED BY <2>1, <2>2, <3>1 DEF SetBack, Stamp
  <2>3. CASE ~stamp[k].held
    BY <2>1, <2>3 DEF SetBack, Stamp
  <2> QED BY <2>2, <2>3
<1>5. ASSUME NEW m \in Monitor
      PROVE  /\ mon'[m] \in MonitorState /\ mon'[m].pc = mon[m].pc /\ mon'[m].gap = mon[m].gap
             /\ mon'[m].budget = mon[m].budget /\ mon'[m].lag = mon[m].lag
             /\ mon'[m].nowAge \in {mon[m].nowAge, mon[m].nowAge - 1}
             /\ mon'[m].nowAge >= -back' /\ mon[m].nowAge \in Age
  <2>1. mon[m] \in MonitorState /\ mon[m].nowAge \in Age /\ mon[m].nowAge >= -back
    BY <1>1 DEF MonitorState, PInv, AgesAreBounded
  <2>2. mon[m].nowAge - 1 \in Age /\ mon[m].nowAge - 1 >= -back'
    BY <1>3, <2>1
  <2> DEFINE earlier == mon[m].nowAge - 1
             r == [mon[m] EXCEPT !.nowAge = earlier]
  <2>3. mon'[m] = IF mon[m].pc[1] \in Under THEN r ELSE mon[m]
    BY <2>1 DEF SetBack, Under, MonitorState
  <2>4. earlier \in Age
    BY <2>2
  <2> HIDE DEF earlier
  <2>5. /\ r \in MonitorState /\ r.pc = mon[m].pc /\ r.gap = mon[m].gap
        /\ r.budget = mon[m].budget /\ r.nowAge = earlier /\ r.lag = mon[m].lag
    BY <2>1, <2>4 DEF MonitorState
  <2>6. mon[m].nowAge >= -back' /\ earlier >= -back'
    BY <1>1, <1>2, <2>1, <2>2 DEF earlier, Age
  <2>7. mon'[m] \in MonitorState /\ mon'[m].pc = mon[m].pc /\ mon'[m].gap = mon[m].gap
        /\ mon'[m].budget = mon[m].budget /\ mon'[m].lag = mon[m].lag
        /\ mon'[m].nowAge \in {mon[m].nowAge, earlier}
    <3> HIDE DEF r
    <3> QED BY <2>1, <2>3, <2>5
  <2> HIDE DEF r
  <2> QED BY <2>1, <2>6, <2>7 DEF earlier
<1>6. stamp' \in [Kind -> Stamp] /\ since' \in [Kind -> 0..Cooldown]
  BY <1>1, <1>2, <1>4 DEF SetBack
<1>7. mon' \in [Monitor -> MonitorState]
  <2>1. mon' = [m \in Monitor |-> mon'[m]]
    BY DEF SetBack
  <2> QED BY <1>5, <2>1
<1>8. ASSUME NEW k \in Kind, stamp'[k].held
      PROVE  /\ stamp[k].held /\ stamp'[k].age >= -back'
             /\ Truthful(stamp[k].age, since[k]) => Truthful(stamp'[k].age, since'[k])
  BY <1>1, <1>2, <1>4, <1>8 DEF Truthful, Age
<1>9. ASSUME NEW m \in Monitor
      PROVE  /\ Truthful(mon'[m].nowAge, mon'[m].lag)
             /\ \A k \in Kind : Is(m, {"start"}, k) /\ stamp[k].held
                   /\ Truthful(stamp[k].age, mon[m].lag) => Truthful(stamp'[k].age, mon'[m].lag)
  <2>1. Truthful(mon[m].nowAge, mon[m].lag) /\ mon[m].lag \in 0..Cooldown
    BY <1>1 DEF PInv, LagsAreTruthful, MonitorState
  <2>2. Truthful(mon'[m].nowAge, mon'[m].lag)
    BY <1>5, <2>1 DEF Truthful, Age
  <2> QED BY <1>4, <1>5, <2>1, <2>2 DEF Truthful, Age
<1> HIDE DEF SetBack
<1> QED BY <1>2, <1>4, <1>5, <1>6, <1>7, <1>8, <1>9, TimeMoves

LEMMA InitHolds == Init => PInv
<1> SUFFICES ASSUME Init PROVE PInv
  OBVIOUS
<1>1. Resting \in MonitorState /\ Resting.pc = Rest /\ Resting.nowAge = 0 /\ Resting.lag = 0
  <2>1. Rest \in Stage /\ 0 \in 0..MaxFree
    BY Constants, Stages
  <2> QED BY <2>1, RestingTyped
<1>2. TypeOK
  <2>1. mon \in [Monitor -> MonitorState]
    BY <1>1 DEF Init
  <2>2. stamp \in [Kind -> Stamp]
    BY Constants DEF Init, NoStamp, Stamp
  <2>3. free \in 0..MaxFree /\ back \in 0..MaxBack
    BY Constants DEF Init
  <2>6. calm \in BOOLEAN /\ kinds \in [Monitor -> Configurations]
    BY DEF Init
  <2>4. 0 \in 0..MaxOrphans /\ Cooldown \in 0..Cooldown /\ 0 \in 0..Threshold + Margin
    BY Constants
  <2>5. /\ orphans \in [Kind -> 0..MaxOrphans] /\ since \in [Kind -> 0..Cooldown]
        /\ need \in [Monitor -> 0..Threshold + Margin]
    BY <2>4 DEF Init
  <2> QED BY <2>1, <2>2, <2>3, <2>5, <2>6 DEF TypeOK
<1>3. \A m \in Monitor : mon[m] = Resting /\ mon[m].pc[1] = "rest"
  BY <1>1, Stages DEF Init
<1>4. AgesAreBounded /\ OwnKinds /\ BudgetsAreCalledFor /\ LagsAreTruthful
  BY <1>1, <1>3, Constants
     DEF Init, AgesAreBounded, OwnKinds, BudgetsAreCalledFor, LagsAreTruthful, Truthful, Is, Under, NoStamp
<1>5. JobsAreSpaced
  BY <1>3, Constants DEF Init, JobsAreSpaced, Spaced, Is, Under, NoStamp
<1> QED BY <1>2, <1>4, <1>5 DEF PInv

LEMMA StepHolds == PInv /\ [Next]_vars => PInv'
<1> SUFFICES ASSUME PInv, [Next]_vars PROVE PInv'
  OBVIOUS
<1>1. ASSUME NEW m \in Monitor, Moves(m) PROVE PInv'
  <2>1. CASE Sample(m)
    BY <2>1, SampleKeeps
  <2>2. ASSUME NEW k \in Kind, Works(m, k) PROVE PInv'
    BY <2>2, DecideKeeps, TruncateKeeps, WriteKeeps, StartKeeps, JobEndsKeeps DEF Works
  <2> QED BY <1>1, <2>1, <2>2 DEF Moves
<1>2. ASSUME NEW m \in Monitor, Fail(m) \/ Kill(m) PROVE PInv'
  BY <1>2, FailKeeps, KillKeeps
<1>3. ASSUME NEW k \in Kind, OrphanEnds(k) PROVE PInv'
  BY <1>3, OrphanEndsKeeps
<1>4. CASE Use \/ Tick \/ SetBack \/ CalmDown
  BY <1>4, UseKeeps, TickKeeps, SetBackKeeps, CalmDownKeeps
<1>5. CASE UNCHANGED vars
  BY <1>5 DEF vars, PInv, TypeOK, AgesAreBounded, OwnKinds, BudgetsAreCalledFor, LagsAreTruthful,
              JobsAreSpaced, Spaced, Sole, Is
<1> QED BY <1>1, <1>2, <1>3, <1>4, <1>5 DEF Next

LEMMA Holds == Spec => []PInv
BY InitHolds, StepHolds, PTL DEF Spec

(* Every variable keeps its type, whatever is sampled, fails, dies or is set back. *)
THEOREM TypeCorrect == Spec => []TypeOK
<1>1. PInv => TypeOK
  BY DEF PInv
<1> QED BY <1>1, Holds, PTL

(* monitor.rs holds each kind of job back by a cooldown, which stands however   *)
(* many monitors there are, as long as only one of them has the kind.           *)
THEOREM CooldownHolds == Spec => []KeepsCooldown
<1>1. PInv => KeepsCooldown
  <2> SUFFICES ASSUME PInv, NEW m \in Monitor, NEW k \in Kind, Sole(m, k), mon[m].pc = At("job", k)
               PROVE  mon[m].gap >= Cooldown
    BY DEF KeepsCooldown
  <2>1. Is(m, Under \cup {"job"}, k)
    BY Stages DEF Is
  <2> QED BY <2>1 DEF PInv, JobsAreSpaced, Spaced
<1> QED BY <1>1, Holds, PTL

(* The budget of a builds reclaim was called for by the free space at some      *)
(* moment of its decision, for any threshold, margin and cap.                   *)
THEOREM BudgetsHold == Spec => []BudgetIsCalledFor
<1>1. PInv => BudgetIsCalledFor
  <2> SUFFICES ASSUME PInv, NEW m \in Monitor, mon[m].pc = At("job", "builds")
               PROVE  mon[m].budget <= need[m] /\ need[m] > 0
    BY DEF BudgetIsCalledFor
  <2>1. Is(m, Under \cup {"job"}, "builds")
    BY Stages DEF Is, Kind
  <2> QED BY <2>1 DEF PInv, BudgetsAreCalledFor
<1> QED BY <1>1, Holds, PTL
==============================================================================
