---------------------------- MODULE PressureMonitor ----------------------------
(***************************************************************************)
(* oclnr monitor (src/src/nouns/monitor.rs): processes that sample the     *)
(* free space and, under pressure, thin the snapshots, reclaim build       *)
(* directories or trigger autoclean, each kind of action held back by a    *)
(* cooldown stamp in a file of its own.                                    *)
(* Times are kept as ages, so that behaviours need no end: a stamp's age   *)
(* is the wall clock minus the stamp, negative when the clock was set      *)
(* back.  An age no smaller than Aged counts as Aged.                      *)
(***************************************************************************)
EXTENDS Integers

CONSTANTS
    Monitor,
    Configurations, \* what --reclaim may select, or {"trigger"} for --trigger-autoclean
    Threshold,      \* --threshold-gb
    Margin,         \* --margin-gb
    MaxBudget,      \* builds_max_reclaim_gb
    Cooldown,       \* of every kind, in units of time
    MaxFree,        \* bound: the size of the volume
    MaxBack,        \* bound: how far, in all, the clock is ever set back
    MaxOrphans      \* bound: jobs of a kind that have lost their monitor

Kind == {"thin", "builds", "trigger"}

ASSUME MonitorAssumption ==
    /\ Configurations \subseteq SUBSET Kind \ {{}}
    /\ \A c \in Configurations : "trigger" \in c => c = {"trigger"}
    /\ {Threshold, Margin, MaxBudget, Cooldown, MaxFree, MaxBack, MaxOrphans} \subseteq Nat

VARIABLES
    kinds,      \* kinds[m]: what m's command line selects
    free,       \* the available space of the volume
    back,       \* how far the clock has been set back so far
    stamp,      \* stamp[k]: the last-action file of kind k
    mon,        \* the monitor processes
    orphans,    \* jobs of each kind that outlive their monitor
    since,      \* history: real time since the decision behind the last job of each kind
    calm,       \* whether nothing fails or dies any more
    need        \* history: the most the pressure called for while m came to its builds decision

vars == <<kinds, free, back, stamp, mon, orphans, calm, since, need>>

Aged == Cooldown + MaxBack
Age == -MaxBack..Aged
Older(a) == IF a < Aged THEN a + 1 ELSE a

(* A stamp file is absent, or empty between its truncation and its write,      *)
(* which read the same, or holds a time.                                       *)
Stamp == [held : BOOLEAN, age : Age]
NoStamp == [held |-> FALSE, age |-> 0]

Need(f) == IF f < Threshold THEN Threshold - f + Margin ELSE 0

(* pc is "rest", or what the monitor is at and the kind it is about.           *)
At(what, k) == <<what, k>>
Rest == At("rest", "none")
Resting == [pc |-> Rest, sample |-> 0, nowAge |-> 0, lag |-> 0, gap |-> 0, budget |-> 0]

Init ==
    /\ kinds \in [Monitor -> Configurations]
    /\ free \in 0..MaxFree
    /\ back = 0
    /\ stamp = [k \in Kind |-> NoStamp]
    /\ mon = [m \in Monitor |-> Resting]
    /\ orphans = [k \in Kind |-> 0]
    /\ calm = FALSE
    /\ since = [k \in Kind |-> Cooldown]
    /\ need = [m \in Monitor |-> 0]

(* The free space becomes f and monitor m goes to p (its record becomes r):    *)
(* what the others saw called for while they decide is remembered.             *)
OnBuilds(r) == r.pc[2] = "builds"
Deciding(r) == r.pc = At("decide", "builds")
Become(m, r, f) ==
    /\ mon' = [mon EXCEPT ![m] = r]
    /\ free' = f
    /\ need' = [n \in Monitor |->
                  IF ~OnBuilds(mon'[n]) THEN 0
                  ELSE IF ~Deciding(mon'[n]) THEN need[n]
                  ELSE IF Deciding(mon[n]) /\ need[n] > Need(f) THEN need[n]
                  ELSE Need(f)]

Goto(m, p) == Become(m, [mon[m] EXCEPT !.pc = p], free)
TickFails(m) == Become(m, Resting, free)

(* Where a tick goes after dealing with kind k, or at its start ("none").      *)
After(m, k) ==
    IF k = "none" /\ "trigger" \in kinds[m] THEN At("decide", "trigger")
    ELSE IF k = "none" /\ "thin" \in kinds[m] THEN At("decide", "thin")
    ELSE IF k \in {"none", "thin"} /\ "builds" \in kinds[m] THEN At("decide", "builds")
    ELSE Rest

------------------------------------------------------------------------------
(* The tick samples the free space and notifies.  Sampling can fail, and in    *)
(* trigger mode so can the tick when the notification does.                    *)
Sample(m) ==
    /\ mon[m].pc = Rest
    /\ Become(m, [mon[m] EXCEPT !.pc = After(m, "none"), !.sample = free], free)
    /\ UNCHANGED <<kinds, back, calm, stamp, orphans, since>>

CooledDown(k) == stamp[k].held => stamp[k].age >= Cooldown

(* Not the code: a stamp ahead of the clock does not count. *)
ActsOnFuture(k, f) == f < Threshold /\ (CooledDown(k) \/ stamp[k].age < 0)

(* Not the code: without a stamp there is no action. *)
ActsOnlyAgain(k, f) == f < Threshold /\ stamp[k].held /\ CooledDown(k)

(* decide_reclaim and should_trigger_pressure_autoclean, on a sample f.        *)
Acts(k, f) == f < Threshold /\ CooledDown(k)

Smaller(a, b) == IF a < b THEN a ELSE b

(* Not the code: builds are decided on the sample the tick began with. *)
DecideOnOldSample(m, k) ==
    LET f == mon[m].sample IN
    /\ mon[m].pc = At("decide", k)
    /\ IF Acts(k, f)
       THEN Become(m, [mon[m] EXCEPT !.pc = At("truncate", k), !.nowAge = 0, !.lag = 0,
                                     !.gap = since[k], !.budget = Smaller(Need(f), MaxBudget)],
                   free)
       ELSE Become(m, [mon[m] EXCEPT !.pc = After(m, k),
                                     !.sample = IF After(m, k) = Rest THEN 0 ELSE @], free)
    /\ UNCHANGED <<kinds, back, calm, stamp, orphans, since>>

(* A kind is decided on the tick's sample, builds on a new one; the clock is   *)
(* read with the stamp.                                                        *)
Decide(m, k) ==
    LET f == IF k = "builds" THEN free ELSE mon[m].sample IN
    /\ mon[m].pc = At("decide", k)
    /\ IF Acts(k, f)
       THEN Become(m, [mon[m] EXCEPT !.pc = At("truncate", k), !.nowAge = 0, !.lag = 0,
                                     !.gap = since[k], !.budget = Smaller(Need(f), MaxBudget)],
                   free)
       ELSE Become(m, [mon[m] EXCEPT !.pc = After(m, k),
                                     !.sample = IF After(m, k) = Rest THEN 0 ELSE @], free)
    /\ UNCHANGED <<kinds, back, calm, stamp, orphans, since>>

(* write_stamp truncates the file, then writes it: the time of the decision,   *)
(* or in trigger mode the time of the write.                                   *)
Truncate(m, k) ==
    /\ mon[m].pc = At("truncate", k)
    /\ stamp' = [stamp EXCEPT ![k] = NoStamp]
    /\ Goto(m, At("write", k))
    /\ UNCHANGED <<kinds, back, calm, orphans, since>>

Write(m, k) ==
    /\ mon[m].pc = At("write", k)
    /\ stamp' = [stamp EXCEPT ![k] =
                   [held |-> TRUE, age |-> IF k = "trigger" THEN 0 ELSE mon[m].nowAge]]
    /\ Goto(m, At("start", k))
    /\ UNCHANGED <<kinds, back, calm, orphans, since>>

(* thin_and_seal, run_builds_reclaim or trigger_autoclean_run begins.          *)
Start(m, k) ==
    /\ mon[m].pc = At("start", k)
    /\ since' = [since EXCEPT ![k] = mon[m].lag]
    /\ Become(m, [mon[m] EXCEPT !.pc = At("job", k), !.nowAge = 0, !.lag = 0], free)
    /\ UNCHANGED <<kinds, back, calm, stamp, orphans>>

(* A job ends, well or not: thinning and autoclean may free anything, a builds *)
(* reclaim no more than its budget.                                            *)
Freeable(k, budget) ==
    IF k = "builds" THEN free..Smaller(free + budget, MaxFree) ELSE free..MaxFree

JobEnds(m, k) ==
    /\ mon[m].pc = At("job", k)
    /\ \E f \in Freeable(k, mon[m].budget) :
          Become(m, [Resting EXCEPT !.pc = After(m, k),
                                    !.sample = IF After(m, k) = Rest THEN 0 ELSE mon[m].sample], f)
    /\ UNCHANGED <<kinds, back, calm, stamp, orphans, since>>

(* statvfs, a stamp write, the notification, the receipt directory or a spawn  *)
(* fails: the tick is over, the loop goes on.                                  *)
Fail(m) ==
    /\ ~calm
    /\ mon[m].pc # Rest
    /\ mon[m].pc[1] # "job"
    /\ TickFails(m)
    /\ UNCHANGED <<kinds, back, calm, stamp, orphans, since>>

(* The process is killed, and launchd starts it again; a job it was waiting    *)
(* for goes on without it.                                                     *)
Kill(m) ==
    /\ ~calm
    /\ mon[m].pc # Rest
    /\ LET k == mon[m].pc[2] IN
       IF mon[m].pc[1] = "job"
       THEN orphans[k] < MaxOrphans /\ orphans' = [orphans EXCEPT ![k] = @ + 1]
       ELSE UNCHANGED orphans
    /\ TickFails(m)
    /\ UNCHANGED <<kinds, back, calm, stamp, since>>

OrphanEnds(k) ==
    /\ orphans[k] > 0
    /\ orphans' = [orphans EXCEPT ![k] = @ - 1]
    /\ UNCHANGED <<kinds, free, back, calm, stamp, mon, since, need>>

------------------------------------------------------------------------------
(* Everyone else writes and removes files.                                     *)
Use ==
    \E m \in Monitor, f \in {free - 1, free + 1} \cap 0..MaxFree :
        Become(m, mon[m], f) /\ UNCHANGED <<kinds, back, calm, stamp, orphans, since>>

Tick ==
    /\ stamp' = [k \in Kind |-> [stamp[k] EXCEPT !.age = IF stamp[k].held THEN Older(@) ELSE @]]
    /\ since' = [k \in Kind |-> Smaller(since[k] + 1, Cooldown)]
    /\ mon' = [m \in Monitor |->
                 IF mon[m].pc[1] \in {"truncate", "write", "start"}
                 THEN [mon[m] EXCEPT !.nowAge = Older(@), !.lag = Smaller(@ + 1, Cooldown)]
                 ELSE mon[m]]
    /\ UNCHANGED <<kinds, free, back, calm, orphans, need>>

(* The wall clock is set back by one unit. *)
SetBack ==
    /\ back < MaxBack
    /\ back' = back + 1
    /\ stamp' = [k \in Kind |-> [stamp[k] EXCEPT !.age = IF stamp[k].held THEN @ - 1 ELSE @]]
    /\ mon' = [m \in Monitor |->
                 IF mon[m].pc[1] \in {"truncate", "write", "start"}
                 THEN [mon[m] EXCEPT !.nowAge = @ - 1] ELSE mon[m]]
    /\ UNCHANGED <<kinds, free, calm, orphans, since, need>>

CalmDown ==
    /\ ~calm /\ calm' = TRUE
    /\ UNCHANGED <<kinds, free, back, stamp, mon, orphans, since, need>>

Works(m, k) == Decide(m, k) \/ Truncate(m, k) \/ Write(m, k) \/ Start(m, k) \/ JobEnds(m, k)
Moves(m) == Sample(m) \/ \E k \in Kind : Works(m, k)

Next ==
    \/ \E m \in Monitor : Moves(m) \/ Fail(m) \/ Kill(m)
    \/ \E k \in Kind : OrphanEnds(k)
    \/ Use \/ Tick \/ SetBack \/ CalmDown

(* Time passes, and a monitor's loop goes on: launchd starts it again, its     *)
(* system calls return, and its jobs end.                                      *)
Fairness == WF_vars(Tick) /\ \A m \in Monitor : WF_vars(Moves(m))

Spec == Init /\ [][Next]_vars
FairSpec == Spec /\ Fairness

------------------------------------------------------------------------------
Stage == {Rest} \cup ({"decide", "truncate", "write", "start", "job"} \X Kind)
MonitorState == [pc : Stage, sample : 0..MaxFree, nowAge : Age, lag : 0..Cooldown,
                 gap : 0..Cooldown, budget : 0..MaxBudget]

TypeOK ==
    /\ kinds \in [Monitor -> Configurations]
    /\ free \in 0..MaxFree /\ back \in 0..MaxBack
    /\ stamp \in [Kind -> Stamp]
    /\ mon \in [Monitor -> MonitorState]
    /\ calm \in BOOLEAN
    /\ orphans \in [Kind -> 0..MaxOrphans]
    /\ since \in [Kind -> 0..Cooldown]
    /\ need \in [Monitor -> 0..Threshold + Margin]

(* When one monitor has a kind to itself, two jobs of the kind are decided at  *)
(* least a cooldown of real time apart, whatever dies, fails or tears in       *)
(* between and wherever the clock is set back to.                              *)
Sole(m, k) == \A n \in Monitor \ {m} : k \notin kinds[n]
KeepsCooldown ==
    \A m \in Monitor, k \in Kind :
        Sole(m, k) /\ mon[m].pc = At("job", k) => mon[m].gap >= Cooldown

(* A builds reclaim has a budget no larger than what the pressure called for   *)
(* at some moment since the snapshots were thinned: a thin that cleared the    *)
(* pressure does not also cost build directories.                              *)
BudgetIsCalledFor ==
    \A m \in Monitor :
        mon[m].pc = At("job", "builds") => mon[m].budget <= need[m] /\ need[m] > 0

(* Pressure that lasts is answered: whatever failed, died or tore before, once *)
(* nothing does any more a monitor comes to its first kind of job, again and   *)
(* again, while the space stays short.                                         *)
PressureIsAnswered ==
    \A m \in Monitor :
        calm ~> (free >= Threshold \/ mon[m].pc = At("job", After(m, "none")[2]))
================================================================================
