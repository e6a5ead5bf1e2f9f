---------------------------- MODULE SetupScripts ----------------------------
(***************************************************************************)
(* The scripts that mount a file system for a test: setup_nova.sh,         *)
(* setup_nvdedup.sh, fio_nova.sh, fio_nvdedup.sh and aging_amount.sh.      *)
(* Each checks a branch out of one of two git repositories, points its     *)
(* setup.sh to pmem0, runs it and puts it back, with /tmp/setups as the    *)
(* copy to put back.  The test drivers start them one after another; a     *)
(* user may interrupt one anywhere, and a reboot empties /tmp.             *)
(* A setup.sh is a version and the device it names.  The measurements that *)
(* follow the setup in some of the scripts touch none of this state.       *)
(***************************************************************************)
EXTENDS Naturals

CONSTANTS
    NovaBranches, NvdedupBranches,      \* of Light-Dedup-J and of nv-dedup
    Swapping,       \* branches whose name contains regulate or pm-table
    Versions        \* of setup.sh

ASSUME BranchesAssumption ==
    /\ NovaBranches \cap NvdedupBranches = {}
    /\ Swapping \subseteq NovaBranches
    /\ 0 \notin Versions

Repos == {"Light-Dedup-J", "nv-dedup"}
BranchesOf(r) == IF r = "nv-dedup" THEN NvdedupBranches ELSE NovaBranches
SetupSh == [version : Versions, device : {"pmem", "pmem0"}]
Absent == [version |-> 0, device |-> "none"]

\* The scripts by what tells them apart: the setup_ and the fio_ script of a
\* repository set up alike, and aging_amount.sh starts with "set -e".
Scripts == {"nova", "nvdedup", "aging"}
RepoOf(s) == IF s = "nvdedup" THEN "nv-dedup" ELSE "Light-Dedup-J"
ExitsOnError(s) == s = "aging"

VARIABLES
    committed,      \* setup.sh of every branch, which no script changes
    head,           \* the branch checked out in each repository
    work,           \* setup.sh in the working tree of each
    setups,         \* /tmp/setups
    pc, script, branch,     \* the next step of the script that runs, if any
    cut             \* repositories where a script ended early and none has
                    \* put setup.sh back since (history, for the properties)

vars == <<committed, head, work, setups, pc, script, branch, cut>>

Steps == {"idle", "checkout", "restore", "save", "sed1", "sed2", "setup",
          "restore again", "clean"}
Repo == RepoOf(script)

\* Fresh clones after a boot.
Init ==
    /\ committed \in [NovaBranches \cup NvdedupBranches -> SetupSh]
    /\ head \in [Repos -> NovaBranches \cup NvdedupBranches]
    /\ \A r \in Repos : head[r] \in BranchesOf(r)
    /\ work = [r \in Repos |-> committed[head[r]]]
    /\ setups = Absent
    /\ pc = "idle"
    /\ script \in Scripts
    /\ branch = head[Repo]
    /\ cut = {}

Start(s, b) ==
    /\ pc = "idle"
    /\ b \in BranchesOf(RepoOf(s))
    /\ script' = s /\ branch' = b
    /\ pc' = "checkout"
    /\ UNCHANGED <<committed, head, work, setups, cut>>

Goto(step) == pc' = step /\ UNCHANGED <<committed, script, branch>>

\* A command that fails ends a script only under set -e.
Fails(next) ==
    /\ IF ExitsOnError(script) THEN Goto("idle") /\ cut' = cut \cup {Repo}
                               ELSE Goto(next) /\ cut' = cut
    /\ UNCHANGED <<head, work, setups>>

\* nova scripts skip the copying on branches that swap.
AfterCheckout == IF script = "nova" /\ branch \in Swapping THEN "setup" ELSE "restore"

Modified(r) == work[r] # committed[head[r]]

\* git refuses a branch with another setup.sh while setup.sh is modified, and
\* keeps a modified setup.sh otherwise.
Refused == Modified(Repo) /\ committed[branch] # committed[head[Repo]]

git_checkout ==
    /\ pc = "checkout"
    /\ ~Refused
    /\ head' = [head EXCEPT ![Repo] = branch]
    /\ work' = [work EXCEPT ![Repo] = IF Modified(Repo) THEN @ ELSE committed[branch]]
    /\ Goto(AfterCheckout)
    /\ UNCHANGED <<setups, cut>>

git_checkout_fails == pc = "checkout" /\ Refused /\ Fails(AfterCheckout)

\* Mutant: the copy is not used.
NotRestored == work[Repo]

\* cp /tmp/setups setup.sh
Restored == setups

restore_pmem(from, to) ==
    /\ pc = from
    /\ setups # Absent
    /\ work' = [work EXCEPT ![Repo] = Restored]
    /\ Goto(to)
    /\ UNCHANGED <<head, setups, cut>>

restore_pmem_fails(from, to) == pc = from /\ setups = Absent /\ Fails(to)

\* set_pmem: cp setup.sh /tmp/setups, then two seds.
set_pmem_cp ==
    /\ pc = "save"
    /\ setups' = work[Repo]
    /\ Goto("sed1")
    /\ UNCHANGED <<head, work, cut>>

\* s/pmem0/pmem/g
Generic(device) == IF device = "pmem0" THEN "pmem" ELSE device

\* Mutant: the device is not put in again.
StillGeneric(device) == device

\* s/pmem/pmem0/g, which would turn pmem0 into pmem00.
Specific(device) == IF device = "pmem" THEN "pmem0" ELSE "pmem00"

sed1 ==
    /\ pc = "sed1"
    /\ work' = [work EXCEPT ![Repo].device = Generic(@)]
    /\ Goto("sed2")
    /\ UNCHANGED <<head, setups, cut>>

sed2 ==
    /\ pc = "sed2"
    /\ work' = [work EXCEPT ![Repo].device = Specific(@)]
    /\ Goto("setup")
    /\ UNCHANGED <<head, setups, cut>>

\* The end of a script that leaves setup.sh alone.
AfterSetup == IF AfterCheckout = "setup" THEN "idle" ELSE "restore again"

\* sudo bash setup.sh, which may fail.
setup ==
    /\ pc = "setup"
    /\ \/ Goto(AfterSetup) /\ UNCHANGED <<head, work, setups, cut>>
       \/ Fails(AfterSetup)

\* Mutant: setup.sh stays as restore_pmem left it.
NotCheckedOut == work[Repo]

\* git checkout -- setup.sh
CheckedOut == committed[head[Repo]]

clean ==
    /\ pc = "clean"
    /\ work' = [work EXCEPT ![Repo] = CheckedOut]
    /\ cut' = cut \ {Repo}
    /\ Goto("idle")
    /\ UNCHANGED <<head, setups>>

Interrupted ==
    /\ pc # "idle"
    /\ cut' = cut \cup {Repo}
    /\ Goto("idle")
    /\ UNCHANGED <<head, work, setups>>

Reboot ==
    /\ setups' = Absent
    /\ cut' = IF pc = "idle" THEN cut ELSE cut \cup {Repo}
    /\ Goto("idle")
    /\ UNCHANGED <<head, work>>

Next ==
    \/ \E s \in Scripts, b \in NovaBranches \cup NvdedupBranches : Start(s, b)
    \/ git_checkout \/ git_checkout_fails
    \/ restore_pmem("restore", "save") \/ restore_pmem_fails("restore", "save")
    \/ set_pmem_cp \/ sed1 \/ sed2 \/ setup
    \/ restore_pmem("restore again", "clean")
    \/ clean
    \/ Interrupted \/ Reboot

Spec == Init /\ [][Next]_vars
-----------------------------------------------------------------------------
\* In particular no setup.sh ever names a device that does not exist.
TypeOK ==
    /\ committed \in [NovaBranches \cup NvdedupBranches -> SetupSh]
    /\ \A r \in Repos : head[r] \in BranchesOf(r) /\ work[r] \in SetupSh
    /\ setups \in SetupSh \cup {Absent}
    /\ pc \in Steps /\ script \in Scripts /\ branch \in BranchesOf(Repo)
    /\ cut \subseteq Repos

\* README.md:70, "we configure the tested pmem to /dev/pmem0 as default": the
\* setup.sh that runs names pmem0, whatever branch, earlier script or
\* interruption its text comes from; only the branches that swap run the
\* setup.sh they find.  (All variables keep their types.)
PmemIsTested ==
    /\ TypeOK
    /\ (pc = "setup" /\ AfterCheckout # "setup") => work[Repo].device = "pmem0"

\* A script that nothing disturbed leaves a tree that the next checkout accepts:
\* the file system set up is that of the branch asked for, unless a script
\* ended early in that repository and none has run to its end since.  Then git
\* may refuse, and only aging_amount.sh notices; the others go on with the
\* branch of before.
BranchAsAsked == (pc \notin {"idle", "checkout"} /\ Repo \notin cut) => head[Repo] = branch

\* restore_pmem runs before set_pmem saves, so the first setup.sh saved after a
\* boot replaces those of all branches of both repositories until the next
\* boot; and since aging_amount.sh stops at a restore without a copy, it is
\* never the script that saves it.
FirstSetupWins ==
    [][/\ (setups # Absent /\ setups' # Absent) => setups'.version = setups.version
       /\ (setups = Absent /\ setups' # Absent) => ~ExitsOnError(script)]_vars
=============================================================================
