------------------------- MODULE SetupScripts_proofs -------------------------
(***************************************************************************)
(* The setup scripts put the right setup.sh and the right branch in place, *)
(* for every set of branches and versions, any number of scripts, and      *)
(* interruptions and reboots anywhere.                                     *)
(***************************************************************************)
EXTENDS SetupScripts, TLAPS

\* TypeOK with the domains of the functions, which its quantifiers leave open.
TypeInv ==
    /\ TypeOK
    /\ head \in [Repos -> NovaBranches \cup NvdedupBranches]
    /\ work \in [Repos -> SetupSh]

\* What the steps of a script know of setup.sh: the copying steps belong to the
\* branches that do not swap, the first sed leaves the generic device and the
\* second the tested one, and the copy saved is the one just restored if there
\* was one; without one, the script is not under set -e.  From set_pmem on there
\* is a copy, so the second restore_pmem of a script never fails.
CopyInv ==
    /\ pc \in {"restore", "save", "sed1", "sed2", "restore again", "clean"} =>
          AfterCheckout = "restore"
    /\ pc = "sed2" => work[Repo].device = "pmem"
    /\ pc = "setup" /\ AfterCheckout # "setup" => work[Repo].device = "pmem0"
    /\ pc = "save" /\ setups # Absent => work[Repo] = setups
    /\ pc = "save" /\ setups = Absent => ~ExitsOnError(script)
    /\ pc \in {"sed1", "sed2", "setup", "restore again"} /\ AfterCheckout = "restore" =>
          setups # Absent

\* A repository that no script has left early has an unmodified setup.sh, but
\* for the repository of the script that is between its checkout and its end,
\* and that one has the branch asked for.
CleanInv ==
    \A r \in Repos \ cut :
        /\ (r # Repo \/ pc \in {"idle", "checkout"} \/ AfterCheckout = "setup")
              => ~Modified(r)
        /\ (r = Repo /\ pc \notin {"idle", "checkout"}) => head[r] = branch

-----------------------------------------------------------------------------
\* Repo is a repository, and its branches are branches.
LEMMA RepoType ==
    ASSUME TypeInv
    PROVE  /\ Repo \in Repos
           /\ branch \in NovaBranches \cup NvdedupBranches
           /\ \A r \in Repos : committed[head[r]] \in SetupSh
           /\ committed[branch] \in SetupSh
<1>1. Repo \in Repos /\ branch \in NovaBranches \cup NvdedupBranches
  BY DEF TypeInv, TypeOK, Repo, RepoOf, Repos, BranchesOf
<1>2. QED
  BY <1>1 DEF TypeInv, TypeOK

\* An absent /tmp/setups is no setup.sh.
LEMMA AbsentIsNone == Absent \notin SetupSh
BY DEF Absent, SetupSh

\* Fresh clones after a boot.
LEMMA InitType == Init => TypeInv /\ CopyInv /\ CleanInv
<1> SUFFICES ASSUME Init PROVE TypeInv /\ CopyInv /\ CleanInv
  OBVIOUS
<1>1. TypeInv
  BY DEF Init, TypeInv, TypeOK, Repos, BranchesOf, Steps, Repo, RepoOf, Scripts
<1>2. CopyInv
  BY DEF Init, CopyInv
<1>3. CleanInv
  BY DEF Init, CleanInv, Modified
<1>4. QED
  BY <1>1, <1>2, <1>3

-----------------------------------------------------------------------------
\* A failing command changes no file.
LEMMA FailsType ==
    ASSUME TypeInv, NEW to \in Steps, Fails(to)
    PROVE  TypeInv'
BY RepoType DEF TypeInv, TypeOK, Fails, Goto, Steps, Repo, RepoOf

\* Every command leaves setup.sh with one of the two devices.
LEMMA NextType == TypeInv /\ CopyInv /\ [Next]_vars => TypeInv'
<1> SUFFICES ASSUME TypeInv, CopyInv, [Next]_vars PROVE TypeInv'
  OBVIOUS
<1> USE RepoType, AbsentIsNone
<1>1. CASE \E s \in Scripts, b \in NovaBranches \cup NvdedupBranches : Start(s, b)
  BY <1>1 DEF Start, TypeInv, TypeOK, Steps, Repo
<1>2. AfterCheckout \in Steps /\ AfterSetup \in Steps
  BY DEF AfterCheckout, AfterSetup, Steps
<1>3. CASE git_checkout
  <2>1. head' \in [Repos -> NovaBranches \cup NvdedupBranches]
        /\ \A r \in Repos : head'[r] \in BranchesOf(r)
    BY <1>3 DEF git_checkout, TypeInv, TypeOK
  <2>2. work' \in [Repos -> SetupSh]
    BY <1>3 DEF git_checkout, TypeInv
  <2>3. QED
    BY <1>2, <1>3, <2>1, <2>2 DEF git_checkout, Goto, TypeInv, TypeOK, Repo
<1>4. CASE git_checkout_fails
  BY <1>2, <1>4, FailsType DEF git_checkout_fails
<1>5. CASE \/ restore_pmem("restore", "save")
           \/ restore_pmem("restore again", "clean")
  <2>1. work' \in [Repos -> SetupSh]
    BY <1>5 DEF restore_pmem, Restored, TypeInv, TypeOK
  <2>2. QED
    BY <1>5, <2>1 DEF restore_pmem, Goto, TypeInv, TypeOK, Repo, Steps
<1>6. CASE restore_pmem_fails("restore", "save")
  BY <1>6, FailsType DEF restore_pmem_fails, Steps
<1>7. CASE set_pmem_cp
  BY <1>7 DEF set_pmem_cp, Goto, TypeInv, TypeOK, Repo, Steps
<1>8. CASE sed1
  <2>1. work[Repo] \in SetupSh /\ Generic(work[Repo].device) \in {"pmem", "pmem0"}
    BY DEF TypeInv, SetupSh, Generic
  <2>2. work' \in [Repos -> SetupSh]
    BY <1>8, <2>1 DEF sed1, TypeInv, SetupSh
  <2>3. QED
    BY <1>8, <2>2 DEF sed1, Goto, TypeInv, TypeOK, Repo, Steps
<1>9. CASE sed2
  <2>1. work[Repo] \in SetupSh /\ Specific(work[Repo].device) \in {"pmem", "pmem0"}
    BY <1>9 DEF TypeInv, SetupSh, Specific, CopyInv, sed2
  <2>2. work' \in [Repos -> SetupSh]
    BY <1>9, <2>1 DEF sed2, TypeInv, SetupSh
  <2>3. QED
    BY <1>9, <2>2 DEF sed2, Goto, TypeInv, TypeOK, Repo, Steps
<1>10. CASE setup
  <2>1. CASE Fails(AfterSetup)
    BY <1>2, <2>1, FailsType
  <2>2. CASE Goto(AfterSetup) /\ UNCHANGED <<head, work, setups, cut>>
    BY <1>2, <2>2 DEF Goto, TypeInv, TypeOK, Repo
  <2>3. QED
    BY <1>10, <2>1, <2>2 DEF setup
<1>11. CASE clean
  BY <1>11 DEF clean, CheckedOut, Goto, TypeInv, TypeOK, Repo, Steps
<1>12. CASE Interrupted
  BY <1>12 DEF Interrupted, Goto, TypeInv, TypeOK, Repo, Steps
<1>13. CASE Reboot
  BY <1>13 DEF Reboot, Goto, TypeInv, TypeOK, Repo, Steps
<1>14. CASE UNCHANGED vars
  BY <1>14 DEF vars, TypeInv, TypeOK, Repo
<1>15. QED
  BY <1>1, <1>3, <1>4, <1>5, <1>6, <1>7, <1>8, <1>9, <1>10, <1>11, <1>12, <1>13,
     <1>14 DEF Next

-----------------------------------------------------------------------------
\* A failing command goes to the next step only without set -e.
LEMMA NextCopy == TypeInv /\ CopyInv /\ [Next]_vars => CopyInv'
<1> SUFFICES ASSUME TypeInv, CopyInv, [Next]_vars PROVE CopyInv'
  OBVIOUS
<1> USE RepoType, AbsentIsNone DEF ExitsOnError
<1>1. CASE \E s \in Scripts, b \in NovaBranches \cup NvdedupBranches : Start(s, b)
  BY <1>1 DEF Start, CopyInv
<1>2. CASE git_checkout
  BY <1>2 DEF git_checkout, CopyInv, Goto, Repo, AfterCheckout
<1>3. CASE git_checkout_fails
  <2>1. CASE ExitsOnError(script)
    BY <1>3, <2>1 DEF git_checkout_fails, Fails, CopyInv, Goto, Repo, AfterCheckout
  <2>2. CASE ~ExitsOnError(script)
    BY <1>3, <2>2 DEF git_checkout_fails, Fails, CopyInv, Goto, Repo, AfterCheckout
  <2>3. QED
    BY <2>1, <2>2
<1>4. CASE restore_pmem("restore", "save")
  <2>1. work'[Repo] = setups
    BY <1>4 DEF restore_pmem, Restored, TypeInv
  <2>2. QED
    BY <1>4, <2>1 DEF restore_pmem, CopyInv, Goto, Repo, AfterCheckout, Restored
<1>5. CASE restore_pmem("restore again", "clean")
  BY <1>5 DEF restore_pmem, CopyInv, Goto, Repo, AfterCheckout
<1>6. CASE restore_pmem_fails("restore", "save")
  <2>1. CASE ExitsOnError(script)
    BY <1>6, <2>1 DEF restore_pmem_fails, Fails, CopyInv, Goto, Repo, AfterCheckout
  <2>2. CASE ~ExitsOnError(script)
    <3>1. script' = script /\ setups' = setups
      BY <1>6, <2>2 DEF restore_pmem_fails, Fails, Goto
    <3>2. QED
      BY <1>6, <2>2, <3>1 DEF restore_pmem_fails, Fails, CopyInv, Goto, Repo, AfterCheckout
  <2>3. QED
    BY <2>1, <2>2
<1>7. CASE set_pmem_cp
  <2>1. setups' \in SetupSh
    BY <1>7 DEF set_pmem_cp, TypeInv
  <2>2. QED
    BY <1>7, <2>1 DEF set_pmem_cp, CopyInv, Goto, Repo, AfterCheckout
<1>8. CASE sed1
  <2>1. work[Repo] \in SetupSh /\ Generic(work[Repo].device) = "pmem"
    BY DEF TypeInv, SetupSh, Generic
  <2>2. work'[Repo].device = "pmem"
    BY <1>8, <2>1 DEF sed1, TypeInv, SetupSh
  <2>3. QED
    BY <1>8, <2>2 DEF sed1, CopyInv, Goto, Repo, AfterCheckout
<1>9. CASE sed2
  <2>1. work[Repo] \in SetupSh /\ Specific(work[Repo].device) = "pmem0"
    BY <1>9 DEF TypeInv, SetupSh, Specific, CopyInv, sed2
  <2>2. work'[Repo].device = "pmem0"
    BY <1>9, <2>1 DEF sed2, TypeInv, SetupSh
  <2>3. QED
    BY <1>9, <2>2 DEF sed2, CopyInv, Goto, Repo, AfterCheckout
<1>10. CASE setup
  <2>1. AfterSetup = "idle" \/ (AfterSetup = "restore again" /\ AfterCheckout = "restore")
    BY DEF AfterSetup, AfterCheckout
  <2>2. \/ pc' = "idle"
        \/ /\ pc' = "restore again" /\ AfterCheckout = "restore"
           /\ Repo' = Repo /\ AfterCheckout' = AfterCheckout
           /\ setups' = setups /\ setups # Absent
    BY <1>10, <2>1 DEF setup, Fails, Goto, Repo, AfterCheckout, CopyInv
  <2>3. QED
    BY <2>2 DEF CopyInv
<1>11. CASE clean \/ Interrupted \/ Reboot
  BY <1>11 DEF clean, Interrupted, Reboot, CopyInv, Goto, Repo, AfterCheckout
<1>12. CASE UNCHANGED vars
  BY <1>12 DEF vars, CopyInv, Repo, AfterCheckout
<1>13. QED
  BY <1>1, <1>2, <1>3, <1>4, <1>5, <1>6, <1>7, <1>8, <1>9, <1>10, <1>11, <1>12
  DEF Next

\* Only the script that runs modifies a setup.sh, and its last command undoes it.
LEMMA NextClean == TypeInv /\ CopyInv /\ CleanInv /\ [Next]_vars => CleanInv'
<1> SUFFICES ASSUME TypeInv, CopyInv, CleanInv, [Next]_vars PROVE CleanInv'
  OBVIOUS
<1> USE RepoType
<1>1. CASE \E s \in Scripts, b \in NovaBranches \cup NvdedupBranches : Start(s, b)
  BY <1>1 DEF Start, CleanInv, Modified
<1>2. ASSUME NEW to, Goto(to)
      PROVE  /\ Repo' = Repo /\ AfterCheckout' = AfterCheckout /\ pc' = to
             /\ committed' = committed /\ branch' = branch
  BY <1>2 DEF Goto, Repo, AfterCheckout
\* A script that ends early takes its repository out of the statement.
<1>3. ASSUME NEW to, Goto(to), UNCHANGED <<head, work>>, cut' = cut \cup {Repo}
      PROVE  CleanInv'
  BY <1>2, <1>3 DEF CleanInv, Modified
<1>4. CASE git_checkout
  <2>1. /\ Repo' = Repo /\ AfterCheckout' = AfterCheckout /\ pc' = AfterCheckout
        /\ committed' = committed /\ branch' = branch /\ cut' = cut
    BY <1>2, <1>4 DEF git_checkout
  <2>2. pc = "checkout" /\ AfterCheckout \in {"setup", "restore"}
    BY <1>4 DEF git_checkout, AfterCheckout
  <2>3. SUFFICES ASSUME NEW r \in Repos \ cut
                 PROVE  /\ (r # Repo \/ AfterCheckout = "setup") => ~Modified(r)'
                        /\ r = Repo => head'[r] = branch
    BY <2>1, <2>2 DEF CleanInv
  <2>4. CASE r = Repo
    <3>1. head'[r] = branch
      BY <1>4, <2>4 DEF git_checkout, TypeInv
    <3>2. ~Modified(Repo)
      BY <2>2, <2>3, <2>4 DEF CleanInv
    <3>3. work'[r] = committed[branch]
      BY <1>4, <2>4, <3>2 DEF git_checkout, TypeInv
    <3>4. QED
      BY <2>1, <3>1, <3>3 DEF Modified
  <2>5. CASE r # Repo
    <3>1. head'[r] = head[r] /\ work'[r] = work[r]
      BY <1>4, <2>5 DEF git_checkout, TypeInv
    <3>2. QED
      BY <2>1, <2>3, <2>5, <3>1 DEF CleanInv, Modified
  <2>6. QED
    BY <2>4, <2>5
\* Git refuses only where setup.sh is modified, so in a repository left early.
<1>5. CASE git_checkout_fails
  <2>1. Repo \in cut
    BY <1>5 DEF git_checkout_fails, Refused, CleanInv
  <2>2. CASE ExitsOnError(script)
    BY <1>3, <1>5, <2>2 DEF git_checkout_fails, Fails
  <2>3. CASE ~ExitsOnError(script)
    BY <1>2, <1>5, <2>1, <2>3 DEF git_checkout_fails, Fails, CleanInv, Modified
  <2>4. QED
    BY <2>2, <2>3
\* Steps between the checkout and the end that change at most the setup.sh of Repo.
<1>6. ASSUME NEW to, Goto(to), to \notin {"idle", "checkout"},
             pc \notin {"idle", "checkout"}, AfterCheckout = "restore",
             UNCHANGED <<head, cut>>, \A r \in Repos \ {Repo} : work'[r] = work[r]
      PROVE  CleanInv'
  BY <1>2, <1>6 DEF CleanInv, Modified
<1>7. CASE restore_pmem("restore", "save") \/ restore_pmem("restore again", "clean")
  <2>1. \A r \in Repos \ {Repo} : work'[r] = work[r]
    BY <1>7 DEF restore_pmem, TypeInv
  <2>2. AfterCheckout = "restore"
    BY <1>7 DEF restore_pmem, CopyInv
  <2>3. QED
    BY <1>6, <1>7, <2>1, <2>2 DEF restore_pmem
<1>8. CASE restore_pmem_fails("restore", "save")
  <2>1. CASE ExitsOnError(script)
    BY <1>3, <1>8, <2>1 DEF restore_pmem_fails, Fails
  <2>2. CASE ~ExitsOnError(script)
    BY <1>6, <1>8, <2>2 DEF restore_pmem_fails, Fails, CopyInv
  <2>3. QED
    BY <2>1, <2>2
<1>9. CASE set_pmem_cp
  BY <1>6, <1>9 DEF set_pmem_cp, CopyInv
<1>10. CASE sed1 \/ sed2
  <2>1. \A r \in Repos \ {Repo} : work'[r] = work[r]
    BY <1>10 DEF sed1, sed2, TypeInv
  <2>2. AfterCheckout = "restore"
    BY <1>10 DEF sed1, sed2, CopyInv
  <2>3. QED
    BY <1>6, <1>10, <2>1, <2>2 DEF sed1, sed2
<1>11. CASE setup
  <2>1. \/ AfterSetup = "idle" /\ AfterCheckout = "setup"
        \/ AfterSetup = "restore again" /\ AfterCheckout = "restore"
    BY DEF AfterSetup, AfterCheckout
  <2>2. CASE Goto(AfterSetup) /\ UNCHANGED <<head, work, cut>>
    <3>1. CASE AfterCheckout = "restore"
      BY <1>6, <1>11, <2>1, <2>2, <3>1 DEF setup
    <3>2. CASE AfterCheckout = "setup"
      BY <1>2, <1>11, <2>1, <2>2, <3>2 DEF setup, CleanInv, Modified
    <3>3. QED
      BY <2>1, <3>1, <3>2
  <2>3. CASE Goto("idle") /\ UNCHANGED <<head, work>> /\ cut' = cut \cup {Repo}
    BY <1>3, <2>3
  <2>4. QED
    BY <1>11, <2>2, <2>3 DEF setup, Fails
<1>12. CASE clean
  <2>1. work'[Repo] = committed[head[Repo]]
        /\ \A r \in Repos \ {Repo} : work'[r] = work[r]
    BY <1>12 DEF clean, CheckedOut, TypeInv
  <2>2. QED
    BY <1>2, <1>12, <2>1 DEF clean, CleanInv, Modified
<1>13. CASE Interrupted
  BY <1>3, <1>13 DEF Interrupted
<1>14. CASE Reboot
  <2>1. CASE pc = "idle"
    BY <1>2, <1>14, <2>1 DEF Reboot, CleanInv, Modified
  <2>2. CASE pc # "idle"
    BY <1>3, <1>14, <2>2 DEF Reboot
  <2>3. QED
    BY <2>1, <2>2
<1>15. CASE UNCHANGED vars
  BY <1>15 DEF vars, CleanInv, Modified, Repo, AfterCheckout
<1>16. QED
  BY <1>1, <1>4, <1>5, <1>7, <1>8, <1>9, <1>10, <1>11, <1>12, <1>13, <1>14, <1>15
  DEF Next

-----------------------------------------------------------------------------
\* The inductive invariant of the scripts.
LEMMA Invariants == Spec => [](TypeInv /\ CopyInv /\ CleanInv)
BY InitType, NextType, NextCopy, NextClean, PTL DEF Spec

\* The setup.sh that a script runs names pmem0 (set_pmem), whatever branch,
\* earlier script or interruption its text comes from.
THEOREM PmemTested == Spec => []PmemIsTested
<1>1. TypeInv /\ CopyInv /\ CleanInv => PmemIsTested
  BY DEF TypeInv, CopyInv, PmemIsTested
<1>2. QED
  BY <1>1, Invariants, PTL

\* The file system set up is that of the branch asked for, unless a script ended
\* early in its repository.
THEOREM BranchSafe == Spec => []BranchAsAsked
<1>1. TypeInv /\ CopyInv /\ CleanInv => BranchAsAsked
  BY RepoType DEF CleanInv, BranchAsAsked
<1>2. QED
  BY <1>1, Invariants, PTL

\* /tmp/setups keeps the version first saved after a boot, and aging_amount.sh
\* never saves it first: restore_pmem comes before set_pmem.
THEOREM FirstSetupStays == Spec => FirstSetupWins
<1> DEFINE Keeps == (setups # Absent /\ setups' # Absent) => setups'.version = setups.version
           Saves == (setups = Absent /\ setups' # Absent) => ~ExitsOnError(script)
<1>1. TypeInv /\ CopyInv /\ CleanInv /\ [Next]_vars => [Keeps /\ Saves]_vars
  <2> SUFFICES ASSUME TypeInv, CopyInv, Next PROVE Keeps /\ Saves
    OBVIOUS
  <2>1. CASE set_pmem_cp
    BY <2>1 DEF set_pmem_cp, CopyInv
  <2>2. CASE Reboot
    BY <2>2 DEF Reboot
  <2>3. CASE setups' = setups
    BY <2>3
  <2>4. QED
    BY <2>1, <2>2, <2>3 DEF Next, Start, git_checkout, git_checkout_fails, restore_pmem,
       restore_pmem_fails, sed1, sed2, setup, clean, Interrupted, Fails
<1>2. QED
  BY <1>1, Invariants, PTL DEF Spec, FirstSetupWins
=============================================================================
