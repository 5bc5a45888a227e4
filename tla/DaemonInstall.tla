--------------------------- MODULE DaemonInstall ---------------------------
(***************************************************************************)
(* The launchd agents of src/src/nouns/daemon.rs.  An installation copies  *)
(* the program to ~/.oclnr/bin/oclnr, asks that copy whether it takes the  *)
(* command line of the agent's plist, writes the plist and reloads the     *)
(* agent.  The copy is one file for all agents, nothing is locked, and     *)
(* installations and removals, of one agent or of several and by several   *)
(* builds of the program, may overlap and die anywhere.                    *)
(***************************************************************************)
EXTENDS Naturals, FiniteSets

CONSTANTS
    Label,      \* the agents
    Old,        \* those that an older release has installed
    Build,      \* the builds of oclnr
    Takes,      \* the command-line flags that each build takes
    Options,    \* the sets of flags that each build puts into a plist
    Installer,  \* the install commands
    Remover,    \* the uninstall commands
    MaxWaits,   \* bound: the 50 looks of reload_agent for a job to leave
    MaxReboots  \* bound: how often the machine restarts

Flag == UNION {Takes[b] : b \in Build}

ASSUME DaemonAssumption ==
    /\ \A b \in Build : Options[b] \subseteq SUBSET Takes[b]
    /\ Old \subseteq Label /\ Installer \cap Remover = {} /\ MaxWaits \in Nat /\ MaxReboots \in Nat

VARIABLES
    binary,     \* the build at ~/.oclnr/bin/oclnr, or "none"
    plist,      \* each agent's plist
    job,        \* what launchd has loaded for each label
    proc,       \* the commands
    reboots,    \* restarts so far
    stranded    \* history: the command lines left behind by a change of binary

vars == <<binary, plist, job, proc, reboots, stranded>>

Proc == Installer \cup Remover

(* A plist is absent, torn by an unfinished write, or whole; one of an      *)
(* older installation names a binary elsewhere.                             *)
NoPlist == [is |-> "absent", flags |-> {}, here |-> FALSE]
Torn == [is |-> "torn", flags |-> {}, here |-> TRUE]
Whole(flags) == [is |-> "whole", flags |-> flags, here |-> TRUE]
Legacy == [is |-> "whole", flags |-> {}, here |-> FALSE]

(* after: the installers that had written their plist when it was loaded. *)
NoJob == [is |-> "none", flags |-> {}, here |-> FALSE, after |-> {}]
NoProc == [at |-> "idle", own |-> FALSE, label |-> "none", flags |-> {}, waits |-> 0]

Past == {"bootout", "wait", "bootstrap", "print"}
Over == {"loaded", "skipped", "failed", "removed"}
Wrote == {i \in Installer : proc[i].at \in Past \cup {"confirm", "read"}}
JobOf(l) == [is |-> "up", flags |-> plist[l].flags, here |-> plist[l].here,
             after |-> {i \in Wrote : proc[i].label = l}]

Init ==
    /\ binary = "none"
    /\ plist = [l \in Label |-> IF l \in Old THEN Legacy ELSE NoPlist]
    /\ job = [l \in Label |-> IF l \in Old THEN [NoJob EXCEPT !.is = "up"] ELSE NoJob]
    /\ proc = [p \in Proc |-> NoProc] /\ reboots = 0 /\ stranded = {}

(* What a command knows ends with it; its command line is in the plist. *)
Goto(p, at) ==
    proc' = [proc EXCEPT ![p] =
                CASE at \in Over \ {"skipped"}      -> [NoProc EXCEPT !.at = at]
                  [] at \in {"skipped", "confirm"} -> [NoProc EXCEPT !.at = at, !.label = proc[p].label]
                  [] OTHER                         -> [@ EXCEPT !.at = at, !.own = FALSE]]
Fail(p) == Goto(p, "failed")
Keeps == UNCHANGED <<reboots>>

-----------------------------------------------------------------------------
(* daemon install, install-autoclean and install-pressure-monitor. *)

(* The command is given; own: it runs from ~/.oclnr/bin itself. *)
Begin(i) ==
    /\ proc[i].at = "idle"
    /\ \E b \in Build, l \in Label : \E o \in Options[b], own \in {FALSE, binary = b} :
         proc' = [proc EXCEPT ![i] = [NoProc EXCEPT !.at = "binary", !.own = own, !.label = l,
                                                    !.flags = o]]
    /\ UNCHANGED <<binary, plist, job, stranded>> /\ Keeps

(* install_self: a copy beside the file, renamed over it; none when the     *)
(* program runs from there.  What is copied is the file the program was     *)
(* started from, which may have been rebuilt since.                         *)
LeftBehind(b) ==
    IF b = binary THEN {}
    ELSE {plist[l].flags : l \in {x \in Label : plist[x].is = "whole"}}
         \cup {job[l].flags : l \in {x \in Label : job[x].is # "none"}}
         \cup {proc[i].flags : i \in {x \in Installer : proc[x].at \in {"open", "fill"}}}

InstallBinary(i) ==
    /\ proc[i].at = "binary"
    /\ \/ /\ proc[i].own
          /\ Goto(i, "preflight") /\ UNCHANGED <<binary, stranded>>
       \/ /\ ~proc[i].own
          /\ \E b \in Build : binary' = b /\ stranded' = stranded \cup LeftBehind(b)
          /\ Goto(i, "preflight")
       \/ Fail(i) /\ UNCHANGED <<binary, stranded>>
    /\ UNCHANGED <<plist, job>> /\ Keeps

Accepts(b, flags) == b # "none" /\ flags \subseteq Takes[b]

(* Not the code: the answer of --help is not looked at. *)
PreflightDeaf(i) ==
    /\ proc[i].at = "preflight"
    /\ Goto(i, "open")
    /\ UNCHANGED <<binary, plist, job, stranded>> /\ Keeps

(* preflight_plist: the copy, as it is by now, is run with --help. *)
Preflight(i) ==
    /\ proc[i].at = "preflight"
    /\ \/ /\ Accepts(binary, proc[i].flags)
          /\ Goto(i, "open") /\ stranded' = stranded \ {proc[i].flags}
       \/ Fail(i) /\ UNCHANGED stranded
    /\ UNCHANGED <<binary, plist, job>> /\ Keeps

OpenPlist(i) ==
    /\ proc[i].at = "open"
    /\ \/ /\ plist' = [plist EXCEPT ![proc[i].label] = Torn]
          /\ Goto(i, "fill")
       \/ Fail(i) /\ UNCHANGED plist
    /\ UNCHANGED <<binary, job, stranded>> /\ Keeps

(* Into a file that another command has filled meanwhile the text may not   *)
(* fit; into one that was removed it is written unseen.                     *)
FillPlist(i) ==
    LET l == proc[i].label IN
    /\ proc[i].at = "fill"
    /\ \/ /\ plist' \in {[plist EXCEPT ![l] = f] :
                          f \in CASE plist[l].is = "torn"  -> {Whole(proc[i].flags)}
                                  [] plist[l].is = "whole" -> {Whole(proc[i].flags), Torn}
                                  [] OTHER                 -> {NoPlist}}
          /\ Goto(i, "confirm")
       \/ Fail(i) /\ UNCHANGED plist
    /\ UNCHANGED <<binary, job, stranded>> /\ Keeps

Confirm(i) ==
    /\ proc[i].at = "confirm"
    /\ \E at \in {"read", "skipped"} : Goto(i, at)
    /\ UNCHANGED <<binary, plist, job, stranded>> /\ Keeps

-----------------------------------------------------------------------------
(* reload_agent. *)
(* The plist is read for its program; what it holds by now is of any        *)
(* command for this agent.  A loaded label is booted out.                   *)
Reload(i, loaded) ==
    LET l == proc[i].label IN
    /\ proc[i].at = "read"
    /\ \/ plist[l].is # "absent" /\ Goto(i, IF job[l].is = "none" THEN "bootstrap" ELSE loaded)
       \/ plist[l].is # "whole" /\ Fail(i)
    /\ UNCHANGED <<binary, plist, job, stranded>> /\ Keeps

(* Not the code, but launchctl load: a loaded label is taken for done. *)
LookAndLeave(i) == Reload(i, "print")

Look(i) == Reload(i, "bootout")

Bootout(i) ==
    LET l == proc[i].label IN
    /\ proc[i].at = "bootout"
    /\ \/ /\ job[l].is = "up"
          /\ job' = [job EXCEPT ![l].is = "leaving"]
          /\ Goto(i, "wait")
       \/ Fail(i) /\ UNCHANGED job
    /\ UNCHANGED <<binary, plist, stranded>> /\ Keeps

(* Not the code: it looks until the job is gone. *)
WaitForever(i) ==
    /\ proc[i].at = "wait"
    /\ IF job[proc[i].label].is = "none" THEN Goto(i, "bootstrap") ELSE UNCHANGED proc
    /\ UNCHANGED <<binary, plist, job, stranded>> /\ Keeps

Wait(i) ==
    /\ proc[i].at = "wait"
    /\ IF job[proc[i].label].is = "none" THEN Goto(i, "bootstrap")
       ELSE IF proc[i].waits = MaxWaits THEN Fail(i)
       ELSE proc' = [proc EXCEPT ![i].waits = @ + 1]
    /\ UNCHANGED <<binary, plist, job, stranded>> /\ Keeps

(* launchd takes a whole plist whose label is not loaded, unless it fails,  *)
(* as for a label that unload -w has disabled.                              *)
Bootstrap(i) ==
    LET l == proc[i].label IN
    /\ proc[i].at = "bootstrap"
    /\ \/ /\ job[l].is = "none" /\ plist[l].is = "whole"
          /\ job' = [job EXCEPT ![l] = JobOf(l)]
          /\ Goto(i, "print")
       \/ Fail(i) /\ UNCHANGED job
    /\ UNCHANGED <<binary, plist, stranded>> /\ Keeps

(* The program that launchd names must be the one of the plist. *)
PrintBack(i) ==
    /\ proc[i].at = "print"
    /\ LET j == job[proc[i].label] IN
       Goto(i, IF j.is # "none" /\ j.here THEN "loaded" ELSE "failed")
    /\ UNCHANGED <<binary, plist, job, stranded>> /\ Keeps

Install(i) ==
    \/ InstallBinary(i) \/ Preflight(i) \/ OpenPlist(i) \/ FillPlist(i) \/ Confirm(i)
    \/ Look(i) \/ Bootout(i) \/ Wait(i) \/ Bootstrap(i) \/ PrintBack(i)

-----------------------------------------------------------------------------
(* daemon uninstall and its two siblings. *)
BeginRemoval(r) ==
    /\ proc[r].at = "idle"
    /\ \E l \in Label :
         proc' = [proc EXCEPT ![r].at = IF plist[l].is = "absent" THEN "removed" ELSE "unload",
                              ![r].label = l]
    /\ UNCHANGED <<binary, plist, job, stranded>> /\ Keeps

(* launchctl unload -w: whether it worked is not asked. *)
Unload(r) ==
    LET l == proc[r].label IN
    /\ proc[r].at = "unload"
    /\ \/ /\ plist[l].is = "whole"
          /\ job' = [job EXCEPT ![l] = NoJob]
       \/ UNCHANGED job
    /\ Goto(r, "remove")
    /\ UNCHANGED <<binary, plist, stranded>> /\ Keeps

Remove(r) ==
    LET l == proc[r].label IN
    /\ proc[r].at = "remove"
    /\ \/ /\ plist[l].is # "absent"
          /\ plist' = [plist EXCEPT ![l] = NoPlist]
          /\ Goto(r, "removed")
       \/ Fail(r) /\ UNCHANGED plist
    /\ UNCHANGED <<binary, job, stranded>> /\ Keeps

Uninstall(r) == Unload(r) \/ Remove(r)

-----------------------------------------------------------------------------
(* launchd, the user and the machine. *)
Leave(l) ==
    /\ job[l].is = "leaving"
    /\ job' = [job EXCEPT ![l] = NoJob]
    /\ UNCHANGED <<binary, plist, proc, stranded>> /\ Keeps

(* launchctl load -w, which the commands and doctor tell the user to run. *)
LoadByHand(l) ==
    /\ job[l].is = "none" /\ plist[l].is = "whole"
    /\ \E i \in Installer : proc[i].at = "skipped" /\ proc[i].label = l
    /\ job' = [job EXCEPT ![l] = JobOf(l)]
    /\ UNCHANGED <<binary, plist, proc, stranded>> /\ Keeps

Kill(p) ==
    /\ proc[p].at \notin Over \cup {"idle"}
    /\ Fail(p)
    /\ UNCHANGED <<binary, plist, job, stranded>> /\ Keeps

(* The commands die; at the next login launchd loads what it finds. *)
Reboot ==
    /\ reboots < MaxReboots
    /\ reboots' = reboots + 1
    /\ proc' = [p \in Proc |-> IF proc[p].at \in Over \cup {"idle"} THEN proc[p]
                               ELSE [NoProc EXCEPT !.at = "failed"]]
    /\ job' = [l \in Label |-> IF plist[l].is = "whole"
                               THEN [JobOf(l) EXCEPT !.after = {}] ELSE NoJob]
    /\ UNCHANGED <<binary, plist, stranded>>

Next ==
    \/ \E i \in Installer : Begin(i) \/ Install(i)
    \/ \E r \in Remover : BeginRemoval(r) \/ Uninstall(r)
    \/ \E l \in Label : Leave(l) \/ LoadByHand(l)
    \/ \E p \in Proc : Kill(p)
    \/ Reboot

Spec == Init /\ [][Next]_vars

(* A command that was given goes on, and its question is answered. *)
FairSpec ==
    /\ Spec
    /\ \A i \in Installer : WF_vars(Install(i))
    /\ \A r \in Remover : WF_vars(Uninstall(r))

-----------------------------------------------------------------------------
Contents == [is : {"absent", "torn", "whole"}, flags : SUBSET Flag, here : BOOLEAN]
JobState == [is : {"none", "up", "leaving"}, flags : SUBSET Flag, here : BOOLEAN,
             after : SUBSET Installer]
At == Over \cup Past \cup {"idle", "binary", "preflight", "open", "fill", "confirm", "read",
                           "unload", "remove"}
ProcState == [at : At, own : BOOLEAN, label : Label \cup {"none"}, flags : SUBSET Flag,
              waits : 0..MaxWaits]

(* Every variable is of its type; only a whole plist has a command line,    *)
(* and a label that is not loaded nothing.                                  *)
TypeOK ==
    /\ binary \in Build \cup {"none"}
    /\ plist \in [Label -> Contents]
    /\ job \in [Label -> JobState]
    /\ \A l \in Label : /\ job[l].is = "none" => job[l] = NoJob
                        /\ plist[l].is # "whole" => plist[l].flags = {}
    /\ proc \in [Proc -> ProcState]
    /\ reboots \in 0..MaxReboots /\ stranded \subseteq SUBSET Flag

(* A job that would crash-loop, since the installed binary does not take    *)
(* its command line, was left behind by a later change of that binary: no   *)
(* installation, overlapping with others or cut short anywhere, brings one  *)
(* about by itself, be it that launchd loads it at a login.                 *)
JobsFitTheirBinary ==
    \A l \in Label :
        job[l].is # "none" /\ job[l].here /\ ~Accepts(binary, job[l].flags) => job[l].flags \in stranded

(* An install that answers "Loaded" leaves no older instance running: the   *)
(* job that it saw was loaded after it had written its plist, and from the  *)
(* installed binary.  That is what reload_agent is for.                     *)
LoadedIsNew ==
    [][\A i \in Installer : proc[i].at = "print" /\ proc'[i].at = "loaded" =>
           i \in job[proc[i].label].after /\ job[proc[i].label].here]_vars

(* However long launchd takes to let the old instance go, and whoever       *)
(* reinstalls or removes the same agent meanwhile, a command comes to an    *)
(* end.                                                                     *)
CommandsEnd == \A p \in Proc : proc[p].at # "idle" ~> proc[p].at \in Over
=============================================================================
