-------------------------- MODULE DaemonInstallProofs --------------------------
(* Proofs about DaemonInstall, for any agents, builds, commands and bounds.     *)
EXTENDS DaemonInstall, TLAPS

Ends == Over \cup {"idle"}
Fits(flags) == Accepts(binary, flags) \/ flags \in stranded

(* What launchd will load, and what an installation is about to write, fits the *)
(* installed binary or was left behind by a later change of it.                 *)
PlistsFit == \A l \in Label : plist[l].is = "whole" /\ plist[l].here => Fits(plist[l].flags)
PendingFit == \A i \in Installer : proc[i].at \in {"open", "fill"} => Fits(proc[i].flags)

(* A command at work is about an agent.                                         *)
Named == \A p \in Proc : proc[p].at \notin Ends => proc[p].label \in Label

(* What is loaded once an installation has bootstrapped, it has written.        *)
PrintedIsNew ==
    \A i \in Installer : proc[i].at = "print" /\ job[proc[i].label].is # "none" =>
        i \in job[proc[i].label].after

DInv ==
    /\ TypeOK /\ JobsFitTheirBinary
    /\ PlistsFit /\ PendingFit /\ Named /\ PrintedIsNew

LEMMA Records ==
    /\ \A f \in SUBSET Flag : Whole(f) \in Contents
    /\ Torn \in Contents /\ NoPlist \in Contents /\ Legacy \in Contents
    /\ Torn.is = "torn" /\ Torn.flags = {} /\ NoPlist.is = "absent" /\ NoPlist.flags = {}
    /\ \A f : Whole(f).is = "whole" /\ Whole(f).flags = f
    /\ NoJob \in JobState /\ NoJob.is = "none" /\ [NoJob EXCEPT !.is = "up"] \in JobState
    /\ [NoJob EXCEPT !.is = "up"].here = FALSE /\ [NoJob EXCEPT !.is = "up"].is = "up"
BY DEF Whole, Torn, NoPlist, Legacy, Contents, NoJob, JobState

LEMMA Stages == /\ Over \subseteq At /\ "idle" \in At /\ Past \subseteq At
                /\ {"binary", "preflight", "open", "fill", "confirm", "read", "unload", "remove"}
                      \subseteq At \ Ends
                /\ Past \cap Ends = {} /\ "failed" \in Over
BY DEF At, Over, Past, Ends

LEMMA NoProcTyped ==
    \A at \in At, own \in BOOLEAN, l \in Label \cup {"none"}, f \in SUBSET Flag :
        /\ [NoProc EXCEPT !.at = at] \in ProcState
        /\ [NoProc EXCEPT !.at = at, !.label = l] \in ProcState
        /\ [NoProc EXCEPT !.at = at, !.own = own, !.label = l, !.flags = f] \in ProcState
<1>1. 0 \in 0..MaxWaits /\ {} \in SUBSET Flag /\ FALSE \in BOOLEAN /\ "none" \in Label \cup {"none"}
  BY DaemonAssumption
<1> QED BY <1>1 DEF NoProc, ProcState

(* A command goes on, or ends.                                                  *)
LEMMA Goes ==
    ASSUME TypeOK, NEW p \in Proc, NEW at \in At, Goto(p, at)
    PROVE  /\ proc' \in [Proc -> ProcState] /\ \A q \in Proc : q # p => proc'[q] = proc[q]
           /\ proc'[p].at = at
           /\ at \notin Ends => proc'[p].label = proc[p].label
           /\ at \notin Over \cup {"confirm"} => proc'[p].flags = proc[p].flags
<1>1. proc[p] \in ProcState
  BY DEF TypeOK
<1> DEFINE over == [NoProc EXCEPT !.at = at]
           still == [NoProc EXCEPT !.at = at, !.label = proc[p].label]
           on == [proc[p] EXCEPT !.at = at, !.own = FALSE]
<1>2. over \in ProcState /\ still \in ProcState /\ on \in ProcState
  BY <1>1, NoProcTyped DEF ProcState
<1>3. /\ over.at = at /\ still.at = at /\ still.label = proc[p].label
      /\ on.at = at /\ on.label = proc[p].label /\ on.flags = proc[p].flags
  BY <1>1 DEF NoProc, ProcState
<1>4. proc' = [proc EXCEPT ![p] = CASE at \in Over \ {"skipped"}      -> over
                                    [] at \in {"skipped", "confirm"} -> still
                                    [] OTHER                         -> on]
  BY <1>1 DEF Goto, TypeOK, ProcState
<1> HIDE DEF over, still, on
<1>5. CASE at \in Over \ {"skipped"}
  <2>1. proc' = [proc EXCEPT ![p] = over]
    BY <1>4, <1>5 DEF Over
  <2> QED BY <1>2, <1>3, <1>5, <2>1 DEF TypeOK, Ends
<1>6. CASE at \in {"skipped", "confirm"}
  <2>1. proc' = [proc EXCEPT ![p] = still]
    BY <1>4, <1>6 DEF Over
  <2> QED BY <1>2, <1>3, <1>6, <2>1 DEF TypeOK, Over
<1>7. CASE at \notin Over \cup {"confirm"}
  <2>1. proc' = [proc EXCEPT ![p] = on]
    BY <1>4, <1>7 DEF Over
  <2> QED BY <1>2, <1>3, <1>7, <2>1 DEF TypeOK
<1> QED BY <1>5, <1>6, <1>7

(* A step that changes one command, and neither the binary, the plists nor the  *)
(* jobs, but may find that a command line is no longer stranded.                *)
LEMMA CommandKeeps ==
    ASSUME DInv, NEW p \in Proc, UNCHANGED <<binary, plist, job, reboots>>,
           proc' \in [Proc -> ProcState], \A q \in Proc : q # p => proc'[q] = proc[q],
           proc'[p].at \notin Ends => proc'[p].label \in Label,
           stranded' \subseteq stranded, \A f \in stranded \ stranded' : Accepts(binary, f),
           p \in Installer /\ proc'[p].at \in {"open", "fill"} => Fits(proc'[p].flags),
           p \in Installer /\ proc'[p].at = "print" /\ job[proc'[p].label].is # "none" =>
              p \in job[proc'[p].label].after
    PROVE  DInv'
<1>1. \A f : Fits(f) => Accepts(binary', f) \/ f \in stranded'
  BY DEF Fits, Accepts
<1>2. TypeOK'
  BY DEF DInv, TypeOK
<1>3. JobsFitTheirBinary'
  BY <1>1 DEF DInv, JobsFitTheirBinary, Fits
<1>4. PlistsFit'
  BY <1>1 DEF DInv, PlistsFit, Fits
<1>5. PendingFit'
  BY <1>1 DEF DInv, PendingFit, Fits, Proc
<1>6. Named' /\ PrintedIsNew'
  BY DEF DInv, Named, PrintedIsNew, Proc
<1> QED BY <1>2, <1>3, <1>4, <1>5, <1>6 DEF DInv

(* The same, when the command goes to a stage that asks nothing of it.          *)
LEMMA GotoKeeps ==
    ASSUME DInv, NEW p \in Proc, NEW at \in At \ {"open", "fill", "print"}, Goto(p, at),
           UNCHANGED <<binary, plist, job, stranded, reboots>>, proc[p].at \notin Ends
    PROVE  DInv'
<1>1. /\ proc' \in [Proc -> ProcState] /\ \A q \in Proc : q # p => proc'[q] = proc[q]
      /\ proc'[p].at = at /\ (at \notin Ends => proc'[p].label = proc[p].label)
  BY Goes DEF DInv
<1>2. at \notin Ends => proc'[p].label \in Label
  BY <1>1 DEF DInv, Named
<1> QED BY <1>1, <1>2, CommandKeeps

LEMMA FailKeeps ==
    ASSUME DInv, NEW p \in Proc, Fail(p), UNCHANGED <<binary, plist, job, stranded, reboots>>,
           proc[p].at \notin Ends
    PROVE  DInv'
BY Stages, GotoKeeps DEF Fail, Over, At

LEMMA BeginKeeps == ASSUME DInv, NEW i \in Installer, Begin(i) PROVE DInv'
<1> PICK b \in Build, l \in Label : \E o \in Options[b], own \in {FALSE, binary = b} :
         proc' = [proc EXCEPT ![i] = [NoProc EXCEPT !.at = "binary", !.own = own, !.label = l, !.flags = o]]
  BY DEF Begin
<1> PICK o \in Options[b], own \in {FALSE, binary = b} :
         proc' = [proc EXCEPT ![i] = [NoProc EXCEPT !.at = "binary", !.own = own, !.label = l, !.flags = o]]
  OBVIOUS
<1> DEFINE r == [NoProc EXCEPT !.at = "binary", !.own = own, !.label = l, !.flags = o]
<1>1. i \in Proc /\ "binary" \in At /\ own \in BOOLEAN /\ o \in SUBSET Flag
  <2>1. i \in Proc /\ "binary" \in At
    BY Stages DEF Proc
  <2>2. own \in BOOLEAN
    OBVIOUS
  <2>3. o \subseteq Takes[b] /\ Takes[b] \subseteq Flag
    BY DaemonAssumption DEF Flag
  <2> QED BY <2>1, <2>2, <2>3
<1>2. r \in ProcState /\ r.at = "binary" /\ r.label = l
  BY <1>1, NoProcTyped DEF NoProc
<1>3. proc' = [proc EXCEPT ![i] = r] /\ UNCHANGED <<binary, plist, job, stranded, reboots>>
  BY DEF Begin, Keeps
<1> HIDE DEF r
<1>4. proc' \in [Proc -> ProcState] /\ proc'[i] = r /\ \A q \in Proc : q # i => proc'[q] = proc[q]
  BY <1>1, <1>2, <1>3 DEF DInv, TypeOK
<1> QED BY <1>1, <1>2, <1>3, <1>4, CommandKeeps

LEMMA InstallBinaryKeeps == ASSUME DInv, NEW i \in Installer, InstallBinary(i) PROVE DInv'
<1>1. i \in Proc /\ proc[i].at = "binary" /\ proc[i].at \notin Ends
      /\ UNCHANGED <<plist, job, reboots>> /\ TypeOK
  BY Stages DEF Proc, InstallBinary, Keeps, DInv
<1>2. CASE UNCHANGED <<binary, stranded>>
  <2>1. CASE Goto(i, "preflight")
    BY <1>1, <1>2, <2>1, Stages, GotoKeeps
  <2>2. CASE Fail(i)
    BY <1>1, <1>2, <2>2, FailKeeps
  <2> QED BY <1>2, <2>1, <2>2 DEF InstallBinary
<1>3. ASSUME NEW b \in Build, binary' = b, stranded' = stranded \cup LeftBehind(b), Goto(i, "preflight"),
             b # binary
      PROVE  DInv'
  <2>1. /\ proc' \in [Proc -> ProcState] /\ \A q \in Proc : q # i => proc'[q] = proc[q]
        /\ proc'[i].at = "preflight" /\ proc'[i].label = proc[i].label
    BY <1>1, <1>3, Stages, Goes DEF DInv
  <2>2. /\ \A l \in Label : plist[l].is = "whole" => plist[l].flags \in stranded'
        /\ \A l \in Label : job[l].is # "none" => job[l].flags \in stranded'
        /\ \A j \in Installer : proc[j].at \in {"open", "fill"} => proc[j].flags \in stranded'
    BY <1>3 DEF LeftBehind
  <2>3. LeftBehind(b) \subseteq SUBSET Flag
    BY <1>1 DEF LeftBehind, TypeOK, Contents, JobState, ProcState, Proc
  <2>4. TypeOK'
    BY <1>1, <1>3, <2>1, <2>3 DEF TypeOK
  <2>5. JobsFitTheirBinary' /\ PlistsFit'
    BY <1>1, <2>2 DEF JobsFitTheirBinary, PlistsFit, Fits
  <2>6. PendingFit'
    BY <2>1, <2>2 DEF PendingFit, Fits, Proc
  <2>7. Named' /\ PrintedIsNew'
    BY <1>1, <2>1 DEF DInv, Named, PrintedIsNew, Proc
  <2> QED BY <2>4, <2>5, <2>6, <2>7 DEF DInv
<1>4. ASSUME NEW b \in Build, binary' = b, stranded' = stranded \cup LeftBehind(b), Goto(i, "preflight"),
             b = binary
      PROVE  DInv'
  <2>1. UNCHANGED <<binary, stranded>>
    BY <1>4 DEF LeftBehind
  <2> QED BY <1>2, <2>1
<1> QED BY <1>2, <1>3, <1>4 DEF InstallBinary

LEMMA PreflightKeeps == ASSUME DInv, NEW i \in Installer, Preflight(i) PROVE DInv'
<1>1. i \in Proc /\ proc[i].at = "preflight" /\ proc[i].at \notin Ends
      /\ UNCHANGED <<binary, plist, job, reboots>> /\ TypeOK
  BY Stages DEF Proc, Preflight, Keeps, DInv
<1>2. CASE Accepts(binary, proc[i].flags) /\ Goto(i, "open") /\ stranded' = stranded \ {proc[i].flags}
  <2>1. /\ proc' \in [Proc -> ProcState] /\ \A q \in Proc : q # i => proc'[q] = proc[q]
        /\ proc'[i].at = "open" /\ proc'[i].label = proc[i].label /\ proc'[i].flags = proc[i].flags
    BY <1>1, <1>2, Stages, Goes DEF DInv, Over
  <2>2. proc'[i].label \in Label /\ Fits(proc'[i].flags)
    BY <1>1, <1>2, <2>1 DEF DInv, Named, Fits
  <2>3. stranded' \subseteq stranded /\ \A f \in stranded \ stranded' : Accepts(binary, f)
    BY <1>2
  <2> QED BY <1>1, <2>1, <2>2, <2>3, CommandKeeps
<1>3. CASE Fail(i) /\ UNCHANGED stranded
  BY <1>1, <1>3, FailKeeps
<1> QED BY <1>2, <1>3 DEF Preflight

(* A step that writes one plist and moves one command on.                       *)
LEMMA PlistKeeps ==
    ASSUME DInv, NEW p \in Proc, NEW at \in At \ {"print"}, Goto(p, at), proc[p].at \notin Ends,
           UNCHANGED <<binary, job, stranded, reboots>>,
           p \in Installer /\ at \in {"open", "fill"} => Fits(proc[p].flags),
           plist' \in [Label -> Contents],
           \A l \in Label : \/ plist'[l] = plist[l]
                            \/ plist'[l].is # "whole" /\ plist'[l].flags = {}
                            \/ plist'[l].is = "whole" /\ Fits(plist'[l].flags)
    PROVE  DInv'
<1>1. /\ proc' \in [Proc -> ProcState] /\ \A q \in Proc : q # p => proc'[q] = proc[q]
      /\ proc'[p].at = at /\ (at \notin Ends => proc'[p].label = proc[p].label)
      /\ at \notin Over \cup {"confirm"} => proc'[p].flags = proc[p].flags
  BY Goes DEF DInv
<1>2. \A f : Fits(f) => Accepts(binary', f) \/ f \in stranded'
  BY DEF Fits, Accepts
<1>3. TypeOK'
  BY <1>1 DEF DInv, TypeOK
<1>4. JobsFitTheirBinary' /\ PrintedIsNew' /\ Named'
  BY <1>1 DEF DInv, JobsFitTheirBinary, PrintedIsNew, Named, Proc
<1>5. PlistsFit'
  BY <1>2 DEF DInv, PlistsFit, Fits
<1>6. PendingFit'
  BY <1>1, <1>2, Stages DEF DInv, PendingFit, Fits, Proc, Over
<1> QED BY <1>3, <1>4, <1>5, <1>6 DEF DInv

LEMMA OpenPlistKeeps == ASSUME DInv, NEW i \in Installer, OpenPlist(i) PROVE DInv'
<1>1. i \in Proc /\ proc[i].at = "open" /\ proc[i].at \notin Ends /\ "fill" \in At \ {"print"}
      /\ UNCHANGED <<binary, job, stranded, reboots>>
  BY Stages DEF Proc, OpenPlist, Keeps
<1>2. CASE plist' = [plist EXCEPT ![proc[i].label] = Torn] /\ Goto(i, "fill")
  <2>1. plist' \in [Label -> Contents] /\ \A l \in Label : plist'[l] \in {plist[l], Torn}
    BY <1>2, Records DEF DInv, TypeOK
  <2>2. Fits(proc[i].flags)
    BY <1>1 DEF DInv, PendingFit
  <2> QED BY <1>1, <1>2, <2>1, <2>2, Records, PlistKeeps
<1>3. CASE Fail(i) /\ UNCHANGED plist
  BY <1>1, <1>3, FailKeeps
<1> QED BY <1>2, <1>3 DEF OpenPlist

LEMMA FillPlistKeeps == ASSUME DInv, NEW i \in Installer, FillPlist(i) PROVE DInv'
<1>1. i \in Proc /\ proc[i].at = "fill" /\ proc[i].at \notin Ends /\ "confirm" \in At \ {"print"}
      /\ UNCHANGED <<binary, job, stranded, reboots>>
  BY Stages DEF Proc, FillPlist, Keeps
<1>2. CASE Goto(i, "confirm") /\ ~Fail(i)
  <2>1. PICK f \in {Whole(proc[i].flags), Torn, NoPlist} : plist' = [plist EXCEPT ![proc[i].label] = f]
    BY <1>2 DEF FillPlist
  <2>2. proc[i].flags \in SUBSET Flag /\ Fits(proc[i].flags)
    BY <1>1 DEF DInv, TypeOK, ProcState, PendingFit
  <2>3. plist' \in [Label -> Contents] /\ \A l \in Label : plist'[l] \in {plist[l], f}
    BY <2>1, <2>2, Records DEF DInv, TypeOK
  <2>4. (f.is = "whole" /\ Fits(f.flags)) \/ (f.is # "whole" /\ f.flags = {})
    BY <2>2, Records
  <2> QED BY <1>1, <1>2, <2>3, <2>4, PlistKeeps
<1>3. CASE Fail(i) /\ UNCHANGED plist
  BY <1>1, <1>3, FailKeeps
<1>4. CASE Fail(i) /\ Goto(i, "confirm")
  <2>1. Goto(i, "failed") /\ Goto(i, "confirm") /\ TypeOK /\ "failed" \in At
    BY <1>4, Stages DEF Fail, DInv
  <2>2. proc'[i].at = "failed" /\ proc'[i].at = "confirm"
    BY <1>1, <2>1, Goes
  <2> QED BY <2>2
<1> QED BY <1>2, <1>3, <1>4 DEF FillPlist

LEMMA ConfirmKeeps == ASSUME DInv, NEW i \in Installer, Confirm(i) PROVE DInv'
<1>1. i \in Proc /\ proc[i].at \notin Ends /\ UNCHANGED <<binary, plist, job, stranded, reboots>>
      /\ {"read", "skipped"} \subseteq At \ {"open", "fill", "print"}
  BY Stages DEF Proc, Confirm, Keeps, Over, At
<1> QED BY <1>1, GotoKeeps DEF Confirm

LEMMA LookKeeps == ASSUME DInv, NEW i \in Installer, Look(i) PROVE DInv'
<1>1. i \in Proc /\ proc[i].at \notin Ends /\ UNCHANGED <<binary, plist, job, stranded, reboots>>
      /\ {"bootstrap", "bootout"} \subseteq At \ {"open", "fill", "print"}
  BY Stages DEF Proc, Look, Reload, Keeps, Past, At
<1>2. Goto(i, "bootstrap") \/ Goto(i, "bootout") \/ Fail(i)
  BY DEF Look, Reload
<1> QED BY <1>1, <1>2, GotoKeeps, FailKeeps

(* A step that changes one job and moves one command on.                        *)
LEMMA JobKeeps ==
    ASSUME DInv, NEW p \in Proc, NEW at \in At \ {"open", "fill"}, Goto(p, at), proc[p].at \notin Ends,
           UNCHANGED <<binary, plist, stranded, reboots>>,
           NEW l \in Label, job' \in [Label -> JobState], \A x \in Label : x # l => job'[x] = job[x],
           job'[l].is = "none" => job'[l] = NoJob,
           job'[l].is # "none" /\ job'[l].here => Fits(job'[l].flags),
           p \in Installer /\ at = "print" => proc[p].label = l /\ p \in job'[l].after,
           \A i \in Installer : proc[i].at = "print" /\ proc[i].label = l /\ job'[l].is # "none"
                                  => i \in job'[l].after
    PROVE  DInv'
<1>1. /\ proc' \in [Proc -> ProcState] /\ \A q \in Proc : q # p => proc'[q] = proc[q]
      /\ proc'[p].at = at /\ (at \notin Ends => proc'[p].label = proc[p].label)
  BY Goes DEF DInv
<1>2. \A f : Fits(f) => Accepts(binary', f) \/ f \in stranded'
  BY DEF Fits, Accepts
<1>3. TypeOK'
  BY <1>1 DEF DInv, TypeOK
<1>4. JobsFitTheirBinary'
  BY <1>2 DEF DInv, JobsFitTheirBinary, Fits
<1>5. PlistsFit' /\ PendingFit'
  BY <1>1 DEF DInv, PlistsFit, PendingFit, Fits, Proc
<1>6. Named'
  BY <1>1 DEF DInv, Named
<1>7. PrintedIsNew'
  <2> SUFFICES ASSUME NEW i \in Installer, proc'[i].at = "print", job'[proc'[i].label].is # "none"
               PROVE  i \in job'[proc'[i].label].after
    BY DEF PrintedIsNew
  <2>1. CASE i = p
    BY <1>1, <1>2, <2>1, Stages DEF Past
  <2>2. CASE i # p
    <3>1. proc'[i] = proc[i] /\ proc[i].label \in Label
      BY <1>1, <2>2, Stages DEF DInv, Named, Proc, Past
    <3> QED BY <1>2, <3>1 DEF DInv, PrintedIsNew
  <2> QED BY <2>1, <2>2
<1> QED BY <1>3, <1>4, <1>5, <1>6, <1>7 DEF DInv

LEMMA BootoutKeeps == ASSUME DInv, NEW i \in Installer, Bootout(i) PROVE DInv'
<1>1. i \in Proc /\ proc[i].at \notin Ends /\ UNCHANGED <<binary, plist, stranded, reboots>>
      /\ "wait" \in At \ {"open", "fill", "print"}
  BY Stages DEF Proc, Bootout, Keeps, Past, At
<1> PICK l \in Label : l = proc[i].label
  BY <1>1 DEF DInv, Named
<1>2. job[l] \in JobState /\ job \in [Label -> JobState]
  BY DEF DInv, TypeOK
<1> PICK j \in JobState : j = [job[l] EXCEPT !.is = "leaving"]
  BY <1>2 DEF JobState
<1>3. CASE job[l].is = "up" /\ job' = [job EXCEPT ![l].is = "leaving"] /\ Goto(i, "wait")
  <2>1. /\ j.is = "leaving" /\ j.here = job[l].here /\ j.flags = job[l].flags
        /\ j.after = job[l].after
    BY <1>2 DEF JobState
  <2>2. job' \in [Label -> JobState] /\ job'[l] = j /\ \A x \in Label : x # l => job'[x] = job[x]
    BY <1>2, <1>3
  <2>3. j.here => Fits(j.flags)
    BY <1>2, <1>3, <2>1 DEF DInv, JobsFitTheirBinary, Fits
  <2>4. \A x \in Installer : proc[x].at = "print" /\ proc[x].label = l => x \in j.after
    BY <1>2, <1>3, <2>1 DEF DInv, PrintedIsNew
  <2> QED BY <1>1, <1>3, <2>1, <2>2, <2>3, <2>4, JobKeeps
<1>4. CASE Fail(i) /\ UNCHANGED job
  BY <1>1, <1>4, FailKeeps
<1> QED BY <1>3, <1>4 DEF Bootout

LEMMA WaitKeeps == ASSUME DInv, NEW i \in Installer, Wait(i) PROVE DInv'
<1>1. i \in Proc /\ proc[i].at = "wait" /\ proc[i].at \notin Ends
      /\ UNCHANGED <<binary, plist, job, stranded, reboots>>
      /\ "bootstrap" \in At \ {"open", "fill", "print"} /\ proc[i] \in ProcState
  BY Stages DEF Proc, Wait, Keeps, Past, At, DInv, TypeOK
<1>2. CASE Goto(i, "bootstrap") \/ Fail(i)
  BY <1>1, <1>2, GotoKeeps, FailKeeps
<1>3. CASE proc[i].waits # MaxWaits /\ proc' = [proc EXCEPT ![i].waits = @ + 1]
  <2> DEFINE waits == proc[i].waits + 1
             r == [proc[i] EXCEPT !.waits = waits]
  <2>1. waits \in 0..MaxWaits
    BY <1>1, <1>3, DaemonAssumption DEF ProcState
  <2>2. proc' = [proc EXCEPT ![i] = r]
    BY <1>1, <1>3 DEF DInv, TypeOK
  <2> HIDE DEF waits
  <2>3. r \in ProcState /\ r.at = "wait" /\ r.label = proc[i].label
    BY <1>1, <2>1 DEF ProcState
  <2> HIDE DEF r
  <2>4. proc' \in [Proc -> ProcState] /\ proc'[i] = r /\ \A q \in Proc : q # i => proc'[q] = proc[q]
    BY <1>1, <2>2, <2>3 DEF DInv, TypeOK
  <2>5. proc'[i].label \in Label
    BY <1>1, <2>3, <2>4 DEF DInv, Named
  <2> QED BY <1>1, <2>3, <2>4, <2>5, CommandKeeps
<1> QED BY <1>2, <1>3 DEF Wait

(* What launchd loads for a whole plist.                                        *)
LEMMA LoadedFits ==
    ASSUME DInv, NEW l \in Label, plist[l].is = "whole"
    PROVE  /\ JobOf(l) \in JobState /\ JobOf(l).is = "up"
           /\ JobOf(l).here => Fits(JobOf(l).flags)
           /\ \A i \in Installer : proc[i].at \in Past /\ proc[i].label = l => i \in JobOf(l).after
<1>1. plist[l] \in Contents
  BY DEF DInv, TypeOK
<1>2. JobOf(l) \in JobState /\ JobOf(l).is = "up"
  BY <1>1 DEF JobOf, JobState, Contents, Wrote
<1>3. JobOf(l).here => Fits(JobOf(l).flags)
  BY DEF DInv, PlistsFit, JobOf, Fits
<1>4. \A i \in Installer : proc[i].at \in Past /\ proc[i].label = l => i \in JobOf(l).after
  BY DEF JobOf, Wrote
<1> QED BY <1>2, <1>3, <1>4

LEMMA BootstrapKeeps == ASSUME DInv, NEW i \in Installer, Bootstrap(i) PROVE DInv'
<1>1. i \in Proc /\ proc[i].at = "bootstrap" /\ proc[i].at \notin Ends
      /\ UNCHANGED <<binary, plist, stranded, reboots>>
      /\ "print" \in At \ {"open", "fill"} /\ {"bootstrap", "print"} \subseteq Past
  BY Stages DEF Proc, Bootstrap, Keeps, Past, At
<1> PICK l \in Label : l = proc[i].label
  BY <1>1 DEF DInv, Named
<1>3. CASE plist[l].is = "whole" /\ job' = [job EXCEPT ![l] = JobOf(l)] /\ Goto(i, "print")
  <2> PICK j \in JobState : j = JobOf(l)
    BY <1>3, LoadedFits
  <2>1. j.is = "up" /\ j.is # "none" /\ (j.here => Fits(j.flags))
        /\ i \in j.after
        /\ \A x \in Installer : proc[x].at = "print" /\ proc[x].label = l => x \in j.after
    BY <1>1, <1>3, LoadedFits
  <2>2. job' \in [Label -> JobState] /\ job'[l] = j /\ \A x \in Label : x # l => job'[x] = job[x]
    BY <1>3 DEF DInv, TypeOK
  <2> QED BY <1>1, <1>3, <2>1, <2>2, JobKeeps
<1>4. CASE Fail(i) /\ UNCHANGED job
  BY <1>1, <1>4, FailKeeps
<1> QED BY <1>3, <1>4 DEF Bootstrap

LEMMA PrintBackKeeps == ASSUME DInv, NEW i \in Installer, PrintBack(i) PROVE DInv'
<1>1. i \in Proc /\ proc[i].at \notin Ends /\ UNCHANGED <<binary, plist, job, stranded, reboots>>
      /\ {"loaded", "failed"} \subseteq At \ {"open", "fill", "print"}
  BY Stages DEF Proc, PrintBack, Keeps, Past, Over, At
<1>2. Goto(i, "loaded") \/ Goto(i, "failed")
  BY DEF PrintBack
<1> QED BY <1>1, <1>2, GotoKeeps

LEMMA InstallKeeps == ASSUME DInv, NEW i \in Installer, Install(i) PROVE DInv'
BY InstallBinaryKeeps, PreflightKeeps, OpenPlistKeeps, FillPlistKeeps, ConfirmKeeps, LookKeeps,
   BootoutKeeps, WaitKeeps, BootstrapKeeps, PrintBackKeeps DEF Install

LEMMA BeginRemovalKeeps == ASSUME DInv, NEW r \in Remover, BeginRemoval(r) PROVE DInv'
<1> PICK l \in Label :
         proc' = [proc EXCEPT ![r].at = IF plist[l].is = "absent" THEN "removed" ELSE "unload",
                              ![r].label = l]
  BY DEF BeginRemoval
<1> DEFINE at == IF plist[l].is = "absent" THEN "removed" ELSE "unload"
           s == [proc[r] EXCEPT !.at = at, !.label = l]
<1>1. r \in Proc /\ at \in At \ {"open", "fill", "print"}
      /\ UNCHANGED <<binary, plist, job, stranded, reboots>> /\ proc[r] \in ProcState
  BY Stages DEF Proc, BeginRemoval, Keeps, Over, Past, At, DInv, TypeOK
<1>2. proc' = [proc EXCEPT ![r] = s]
  BY <1>1 DEF DInv, TypeOK
<1> HIDE DEF at
<1>3. s \in ProcState /\ s.at = at /\ s.label = l
  BY <1>1 DEF ProcState
<1> HIDE DEF s
<1>4. proc' \in [Proc -> ProcState] /\ proc'[r] = s /\ \A q \in Proc : q # r => proc'[q] = proc[q]
  BY <1>1, <1>2, <1>3 DEF DInv, TypeOK
<1> QED BY <1>1, <1>3, <1>4, CommandKeeps

LEMMA UninstallKeeps == ASSUME DInv, NEW r \in Remover, Uninstall(r) PROVE DInv'
<1> DEFINE l == proc[r].label
<1>1. r \in Proc /\ proc[r].at \notin Ends /\ l \in Label /\ r \notin Installer
  BY Stages, DaemonAssumption DEF Proc, Uninstall, Unload, Remove, DInv, Named
<1>2. {"remove", "removed"} \subseteq At \ {"open", "fill", "print"}
  BY DEF At, Over, Past
<1>3. CASE Unload(r)
  <2>1. UNCHANGED <<binary, plist, stranded, reboots>> /\ Goto(r, "remove")
    BY <1>3 DEF Unload, Keeps
  <2>2. CASE UNCHANGED job
    BY <1>1, <1>2, <2>1, <2>2, GotoKeeps
  <2>3. CASE job' = [job EXCEPT ![l] = NoJob]
    <3>1. job' \in [Label -> JobState] /\ job'[l] = NoJob /\ \A x \in Label : x # l => job'[x] = job[x]
      BY <1>1, <2>3, Records DEF DInv, TypeOK
    <3>2. "remove" \in At \ {"open", "fill"} /\ NoJob.is = "none"
      BY <1>2, Records
    <3> HIDE DEF l
    <3> QED BY <1>1, <2>1, <3>1, <3>2, JobKeeps
  <2> QED BY <1>3, <2>2, <2>3 DEF Unload
<1>4. CASE Remove(r)
  <2>1. UNCHANGED <<binary, job, stranded, reboots>>
    BY <1>4 DEF Remove, Keeps
  <2>2. CASE Fail(r) /\ UNCHANGED plist
    BY <1>1, <2>1, <2>2, FailKeeps
  <2>3. CASE plist' = [plist EXCEPT ![l] = NoPlist] /\ Goto(r, "removed")
    <3>1. plist' \in [Label -> Contents] /\ \A x \in Label : plist'[x] \in {plist[x], NoPlist}
      BY <2>3, Records DEF DInv, TypeOK
    <3> QED BY <1>1, <1>2, <2>1, <2>3, <3>1, Records, PlistKeeps
  <2> QED BY <1>4, <2>2, <2>3 DEF Remove
<1> QED BY <1>3, <1>4 DEF Uninstall

(* A step of launchd or the user that changes one job.                          *)
LEMMA LaunchdKeeps ==
    ASSUME DInv, NEW l \in Label, NEW j \in JobState, job' = [job EXCEPT ![l] = j],
           j.is = "none" => j = NoJob, j.is # "none" /\ j.here => Fits(j.flags),
           \A i \in Installer : proc[i].at = "print" /\ proc[i].label = l /\ j.is # "none" => i \in j.after,
           UNCHANGED <<binary, plist, proc, stranded, reboots>>
    PROVE  DInv'
<1>1. job' \in [Label -> JobState] /\ \A x \in Label : job'[x] = IF x = l THEN j ELSE job[x]
  BY DEF DInv, TypeOK
<1>2. TypeOK'
  BY <1>1 DEF DInv, TypeOK
<1>3. JobsFitTheirBinary'
  BY <1>1 DEF DInv, JobsFitTheirBinary, Fits
<1>4. PlistsFit' /\ PendingFit' /\ Named'
  BY DEF DInv, PlistsFit, PendingFit, Fits, Named
<1>5. PrintedIsNew'
  <2> SUFFICES ASSUME NEW i \in Installer, proc[i].at = "print", job'[proc[i].label].is # "none"
               PROVE  i \in job'[proc[i].label].after
    BY DEF PrintedIsNew
  <2>1. proc[i].label \in Label
    BY Stages DEF DInv, Named, Proc, Past
  <2> QED BY <1>1, <2>1 DEF DInv, PrintedIsNew
<1> QED BY <1>2, <1>3, <1>4, <1>5 DEF DInv

LEMMA LeaveKeeps == ASSUME DInv, NEW l \in Label, Leave(l) PROVE DInv'
BY Records, LaunchdKeeps DEF Leave, Keeps

LEMMA LoadByHandKeeps == ASSUME DInv, NEW l \in Label, LoadByHand(l) PROVE DInv'
<1>1. "print" \in Past
  BY DEF Past
<1>2. plist[l].is = "whole" /\ job' = [job EXCEPT ![l] = JobOf(l)]
      /\ UNCHANGED <<binary, plist, proc, stranded, reboots>>
  BY DEF LoadByHand, Keeps
<1>3. /\ JobOf(l) \in JobState /\ JobOf(l).is = "up" /\ JobOf(l).is # "none"
      /\ JobOf(l).here => Fits(JobOf(l).flags)
      /\ \A i \in Installer : proc[i].at = "print" /\ proc[i].label = l => i \in JobOf(l).after
  BY <1>1, <1>2, LoadedFits
<1> QED BY <1>2, <1>3, LaunchdKeeps

LEMMA KillKeeps == ASSUME DInv, NEW p \in Proc, Kill(p) PROVE DInv'
BY FailKeeps DEF Kill, Keeps, Ends

LEMMA RebootKeeps == ASSUME DInv, Reboot PROVE DInv'
<1> DEFINE dead == [NoProc EXCEPT !.at = "failed"]
<1>1. dead \in ProcState /\ dead.at = "failed" /\ "failed" \in Ends
  <2>1. "failed" \in At /\ "failed" \in Ends
    BY Stages DEF Ends
  <2> QED BY <2>1, NoProcTyped DEF NoProc
<1>2. \A p \in Proc : proc'[p] = IF proc[p].at \in Ends THEN proc[p] ELSE dead
  BY DEF Reboot, Ends
<1>3. proc' \in [Proc -> ProcState]
  <2>1. proc' = [p \in Proc |-> IF proc[p].at \in Ends THEN proc[p] ELSE dead]
    BY DEF Reboot, Ends
  <2> HIDE DEF dead
  <2> QED BY <1>1, <2>1 DEF DInv, TypeOK
<1> HIDE DEF dead
<1>4. \A l \in Label : plist[l].is = "whole" =>
         /\ [JobOf(l) EXCEPT !.after = {}] \in JobState /\ [JobOf(l) EXCEPT !.after = {}].is = "up"
         /\ [JobOf(l) EXCEPT !.after = {}].here => Fits([JobOf(l) EXCEPT !.after = {}].flags)
  <2> SUFFICES ASSUME NEW l \in Label, plist[l].is = "whole"
               PROVE  /\ [JobOf(l) EXCEPT !.after = {}] \in JobState
                      /\ [JobOf(l) EXCEPT !.after = {}].is = "up"
                      /\ [JobOf(l) EXCEPT !.after = {}].here => Fits([JobOf(l) EXCEPT !.after = {}].flags)
    OBVIOUS
  <2>1. JobOf(l) \in JobState /\ JobOf(l).is = "up" /\ (JobOf(l).here => Fits(JobOf(l).flags))
    BY LoadedFits
  <2> DEFINE j == [JobOf(l) EXCEPT !.after = {}]
  <2>2. j \in JobState /\ j.is = "up" /\ j.here = JobOf(l).here /\ j.flags = JobOf(l).flags
    BY <2>1 DEF JobState
  <2> QED BY <2>1, <2>2
<1>5. \A l \in Label : job'[l] = IF plist[l].is = "whole" THEN [JobOf(l) EXCEPT !.after = {}] ELSE NoJob
  BY DEF Reboot
<1>6. job' \in [Label -> JobState] /\ \A l \in Label : job'[l].is = "none" => job'[l] = NoJob
  <2>1. job' = [l \in Label |-> job'[l]]
    BY DEF Reboot
  <2>2. \A l \in Label : job'[l] \in JobState /\ (job'[l].is = "none" => job'[l] = NoJob)
    BY <1>4, <1>5, Records
  <2> QED BY <2>1, <2>2
<1>7. UNCHANGED <<binary, plist, stranded>> /\ reboots' \in 0..MaxReboots
  BY DaemonAssumption DEF Reboot, DInv, TypeOK
<1>8. TypeOK'
  BY <1>3, <1>6, <1>7 DEF DInv, TypeOK
<1>9. JobsFitTheirBinary'
  BY <1>4, <1>5, <1>7, Records DEF JobsFitTheirBinary, Fits
<1>10. PlistsFit'
  BY <1>7 DEF DInv, PlistsFit, Fits
<1>11. PendingFit' /\ Named' /\ PrintedIsNew'
  BY <1>1, <1>2, Stages DEF PendingFit, Named, PrintedIsNew, Proc, Past
<1> QED BY <1>8, <1>9, <1>10, <1>11 DEF DInv

LEMMA InitHolds == Init => DInv
<1> SUFFICES ASSUME Init PROVE DInv
  OBVIOUS
<1>1. NoProc \in ProcState /\ NoProc.at = "idle" /\ "idle" \in Ends
  <2>1. 0 \in 0..MaxWaits /\ {} \in SUBSET Flag /\ "idle" \in At
    BY DaemonAssumption, Stages
  <2> QED BY <2>1 DEF NoProc, ProcState, Ends
<1>2. proc \in [Proc -> ProcState] /\ \A p \in Proc : proc[p].at = "idle"
  BY <1>1 DEF Init
<1>3. /\ plist \in [Label -> Contents] /\ \A l \in Label : plist[l].flags = {} /\ ~plist[l].here
      /\ job \in [Label -> JobState] /\ \A l \in Label : ~job[l].here
      /\ \A l \in Label : job[l].is = "none" => job[l] = NoJob
  BY Records DEF Init, NoJob, Legacy, NoPlist
<1>4. TypeOK
  BY <1>2, <1>3, DaemonAssumption DEF Init, TypeOK
<1>5. JobsFitTheirBinary /\ PlistsFit
  BY <1>3 DEF JobsFitTheirBinary, PlistsFit
<1>6. PendingFit /\ Named /\ PrintedIsNew
  BY <1>1, <1>2 DEF PendingFit, Named, PrintedIsNew, Proc
<1> QED BY <1>4, <1>5, <1>6 DEF DInv

LEMMA StepHolds == DInv /\ [Next]_vars => DInv'
<1> SUFFICES ASSUME DInv, [Next]_vars PROVE DInv'
  OBVIOUS
<1>1. CASE \E i \in Installer : Begin(i) \/ Install(i)
  BY <1>1, BeginKeeps, InstallKeeps
<1>2. CASE \E r \in Remover : BeginRemoval(r) \/ Uninstall(r)
  BY <1>2, BeginRemovalKeeps, UninstallKeeps
<1>3. CASE \E l \in Label : Leave(l) \/ LoadByHand(l)
  BY <1>3, LeaveKeeps, LoadByHandKeeps
<1>4. CASE (\E p \in Proc : Kill(p)) \/ Reboot
  BY <1>4, KillKeeps, RebootKeeps
<1>5. CASE UNCHANGED vars
  BY <1>5 DEF vars, DInv, TypeOK, JobsFitTheirBinary, PlistsFit, PendingFit, Named, PrintedIsNew, Fits
<1> QED BY <1>1, <1>2, <1>3, <1>4, <1>5 DEF Next

LEMMA Holds == Spec => []DInv
BY InitHolds, StepHolds, PTL DEF Spec

(* Every variable keeps its type, whatever overlaps, dies or reboots.           *)
THEOREM TypeCorrect == Spec => []TypeOK
<1>1. DInv => TypeOK
  BY DEF DInv
<1> QED BY <1>1, Holds, PTL

(* preflight_plist does its work for any number of agents, builds and commands: *)
(* a job that its binary does not take was left behind by a later binary.       *)
THEOREM JobsFit == Spec => []JobsFitTheirBinary
<1>1. DInv => JobsFitTheirBinary
  BY DEF DInv
<1> QED BY <1>1, Holds, PTL

(* An installation answers "Loaded" of a job that was loaded after it had       *)
(* written its plist, whoever installs or removes the same agent meanwhile.     *)
THEOREM LoadedIsAlwaysNew == Spec => LoadedIsNew
<1> DEFINE New == \A i \in Installer : proc[i].at = "print" /\ proc'[i].at = "loaded" =>
                     i \in job[proc[i].label].after /\ job[proc[i].label].here
<1>1. ASSUME DInv, [Next]_vars PROVE [New]_vars
  <2> SUFFICES ASSUME Next, NEW i \in Installer, proc[i].at = "print", proc'[i].at = "loaded"
               PROVE  i \in job[proc[i].label].after /\ job[proc[i].label].here
    BY <1>1
  <2>1. i \in Proc /\ TypeOK /\ {"loaded", "failed"} \subseteq At
    BY <1>1 DEF Proc, DInv, At, Over
  <2>2. CASE PrintBack(i)
    <3>1. Goto(i, "loaded") \/ Goto(i, "failed")
      BY <2>2 DEF PrintBack
    <3>2. CASE job[proc[i].label].is # "none" /\ job[proc[i].label].here
      BY <1>1, <3>2 DEF DInv, PrintedIsNew
    <3>3. CASE ~(job[proc[i].label].is # "none" /\ job[proc[i].label].here)
      <4>1. Goto(i, "failed")
        BY <2>2, <3>3 DEF PrintBack
      <4> QED BY <2>1, <4>1, Goes
    <3> QED BY <3>2, <3>3
  <2>3. CASE \E p \in Proc : Kill(p)
    <3>1. PICK p \in Proc : Goto(p, "failed")
      BY <2>3 DEF Kill, Fail
    <3> QED BY <2>1, <3>1, Goes
  <2>4. CASE Reboot
    BY <2>1, <2>4 DEF Reboot, NoProc
  <2>5. CASE \E l \in Label : Leave(l) \/ LoadByHand(l)
    BY <2>5 DEF Leave, LoadByHand
  <2>6. CASE \E r \in Remover : BeginRemoval(r) \/ Uninstall(r)
    <3> PICK r \in Remover : BeginRemoval(r) \/ Uninstall(r)
      BY <2>6
    <3>1. r # i /\ r \in Proc
      BY DaemonAssumption DEF Proc
    <3>2. CASE BeginRemoval(r)
      BY <2>1, <3>1, <3>2 DEF BeginRemoval, TypeOK
    <3>3. CASE Uninstall(r)
      <4>1. \E at \in At : Goto(r, at)
        BY <3>3, Stages DEF Uninstall, Unload, Remove, Fail, At, Over
      <4> QED BY <2>1, <3>1, <4>1, Goes
    <3> QED BY <3>2, <3>3
  <2>7. ASSUME NEW j \in Installer, Begin(j) PROVE FALSE
    <3>1. proc'[i] = proc[i] \/ proc'[i].at = "binary"
      BY <2>1, <2>7 DEF Begin, NoProc, TypeOK
    <3> QED BY <3>1
  <2>8. ASSUME NEW j \in Installer, Install(j), ~PrintBack(i) PROVE FALSE
    <3>1. CASE j = i
      BY <2>8, <3>1 DEF Install, InstallBinary, Preflight, OpenPlist, FillPlist, Confirm, Look,
                        Reload, Bootout, Wait, Bootstrap
    <3>2. CASE j # i
      <4>1. j \in Proc /\ proc'[i] = proc[i]
        <5>1. j \in Proc
          BY DEF Proc
        <5>2. CASE \E at \in At : Goto(j, at)
          BY <2>1, <3>2, <5>1, <5>2, Goes
        <5>3. CASE proc' = [proc EXCEPT ![j].waits = @ + 1]
          BY <2>1, <3>2, <5>1, <5>3 DEF TypeOK
        <5>4. (\E at \in At : Goto(j, at)) \/ proc' = [proc EXCEPT ![j].waits = @ + 1]
          <6>1. {"preflight", "open", "fill", "confirm", "read", "skipped", "bootstrap", "bootout", "wait",
                 "print", "loaded", "failed"} \subseteq At
            BY DEF At, Over, Past
          <6> QED
            BY <2>8, <6>1 DEF Install, InstallBinary, Preflight, OpenPlist, FillPlist, Confirm, Look,
                              Reload, Bootout, Wait, Bootstrap, PrintBack, Fail
        <5> QED BY <5>2, <5>3, <5>4
      <4> QED BY <4>1
    <3> QED BY <3>1, <3>2
  <2> QED BY <2>2, <2>3, <2>4, <2>5, <2>6, <2>7, <2>8 DEF Next
<1> QED BY <1>1, Holds, PTL DEF Spec, LoadedIsNew
==============================================================================
