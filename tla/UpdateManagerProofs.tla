------------------------ MODULE UpdateManagerProofs ------------------------
(***************************************************************************)
(* Proofs about UpdateManager, for any number of goroutines and releases.  *)
(***************************************************************************)
EXTENDS UpdateManager, TLAPS

(* writeMemory leaves a memory behind, on disk too.                        *)
LEMMA WriteMemoryType ==
    ASSUME saved \in Memory, NEW m \in Memory, WriteMemory(m)
    PROVE  memory' = m /\ memory' \in Memory /\ saved' \in Memory
BY DEF WriteMemory, Memory

(* Every step keeps the types.                                             *)
LEMMA TypeStep ==
    ASSUME TypeOK, [Next]_vars
    PROVE  TypeOK'
<1> USE UpdateAssumption DEF TypeOK, Steps, CheckSteps, DownloadSteps, ApplySteps, Phases,
        session, disk, view, guards, locals
<1>0. 1 \in Versions /\ Versions \subseteq Nat /\ Memory = Versions \cup {None}
  BY DEF Versions, Memory
<1>1. CASE UNCHANGED vars
  BY <1>1 DEF vars
<1>2. ASSUME NEW p \in Procs, Operation(p) PROVE TypeOK'
  <2>1. CASE Check(p)
    BY <2>1 DEF Check, Publish, Goto
  <2>2. CASE MirrorAnswers(p)
    BY <2>2, WriteMemoryType DEF MirrorAnswers, Goto
  <2>3. CASE CheckFails(p)
    BY <1>0, <2>3, WriteMemoryType DEF CheckFails, SetError, Publish, Return
  <2>4. CASE CheckFindsNothing(p)
    BY <1>0, <2>4, WriteMemoryType DEF CheckFindsNothing, Publish, Return
  <2>5. ASSUME NEW v \in Versions, CheckFinds(p, v) PROVE TypeOK'
    <3>1. memory' \in Memory /\ saved' \in Memory
      BY <1>0, <2>5, WriteMemoryType DEF CheckFinds
    <3>2. QED
      <4>1. phase' \in Phases /\ pending' \in Phases
        BY <2>5 DEF CheckFinds, Publish
      <4>2. pc' \in [Procs -> Steps] /\ target' \in [Procs -> Versions]
        BY <1>0, <2>5 DEF CheckFinds, Goto, Return
      <4>3. QED
        BY <1>0, <2>5, <3>1, <4>1, <4>2 DEF CheckFinds
  <2>6. CASE RecheckFails(p)
    BY <1>0, <2>6 DEF RecheckFails, SetError, Publish, Return
  <2>7. CASE Recheck(p)
    <3>1. CASE Return(p)
      BY <1>0, <2>7, <3>1 DEF Recheck, Return
    <3>2. ASSUME NEW v \in Versions, Goto(p, "start"),
                 target' = [target EXCEPT ![p] = v]
          PROVE  TypeOK'
      BY <2>7, <3>2 DEF Recheck, Goto
    <3>3. QED
      BY <2>7, <3>1, <3>2 DEF Recheck
  <2>8. CASE Download(p)
    BY <2>8 DEF Download, Goto
  <2>9. CASE DownloadRefused(p)
    BY <1>0, <2>9 DEF DownloadRefused, SetError, Publish, Return
  <2>10. CASE DownloadStarts(p)
    BY <2>10 DEF DownloadStarts, Publish, Goto
  <2>11. CASE Sweep(p)
    BY <2>11 DEF Sweep, Goto
  <2>12. CASE FetchCancelled(p)
    BY <2>12 DEF FetchCancelled, Publish, Goto
  <2>13. CASE DownloadDone(p)
    BY <1>0, <2>13, WriteMemoryType DEF DownloadDone, Publish, Goto
  <2>14. CASE Release(p)
    BY <1>0, <2>14 DEF Release, Return
  <2>15. CASE Fetch(p)
    BY <2>15 DEF Fetch, Goto
  <2>16. CASE FetchFails(p)
    BY <2>16 DEF FetchFails, SetError, Publish, Goto
  <2>17. CASE Install(p)
    BY <1>0, <2>17 DEF Install, Publish, Goto
  <2>18. CASE InstallFails(p)
    BY <1>0, <2>18 DEF InstallFails, SetError, Publish, Return
  <2>19. CASE Apply(p, "apply", "applied") \/ Apply(p, "quitApply", "quitApplied")
    BY <2>19 DEF Apply, Goto
  <2>20. CASE Installed(p)
    BY <1>0, <2>20, WriteMemoryType DEF Installed, ForgetReady, Return
  <2>21. CASE InstallOnQuit(p)
    BY <1>0, <2>21 DEF InstallOnQuit, Goto
  <2>22. CASE QuitFails(p)
    BY <2>22 DEF QuitFails, Goto
  <2>23. CASE QuitInstalled(p)
    BY <1>0, <2>23, WriteMemoryType DEF QuitInstalled, ForgetReady, Goto
  <2>24. CASE Progress(p)
    BY <2>24 DEF Progress, Publish
  <2>25. QED
    BY <1>2, <2>24, <2>1, <2>2, <2>3, <2>4, <2>5, <2>6, <2>7, <2>8, <2>9, <2>10, <2>11, <2>12,
       <2>13, <2>14, <2>15, <2>16, <2>17, <2>18, <2>19, <2>20, <2>21, <2>22, <2>23
       DEF Operation, Checking, Downloading
<1>3. CASE Cancel
  BY <1>3 DEF Cancel
<1>4. CASE Skip
  BY <1>0, <1>4, WriteMemoryType DEF Skip, Publish
<1>5. CASE Restart
  <2>1. memory' \in Memory /\ saved' \in Memory
    BY <1>0, <1>5, WriteMemoryType DEF Restart
  <2>2. phase' \in Phases /\ latest' \in Versions \cup {None} /\ packages' \in SUBSET Versions
    BY <1>0, <1>5 DEF Restart
  <2>3. QED
    BY <1>0, <1>5, <2>1, <2>2 DEF Restart
<1>6. ASSUME NEW v \in Versions, UserInstalls(v) PROVE TypeOK'
  BY <1>6 DEF UserInstalls
<1>7. QED
  BY <1>1, <1>2, <1>3, <1>4, <1>5, <1>6 DEF Next
(* busy and its holder, goroutine by goroutine.                            *)
HeldPointwise ==
    /\ busy => \E p \in Procs : \A q \in Procs :
                  pc[q] \in CheckSteps \cup DownloadSteps <=> q = p
    /\ ~busy => \A q \in Procs : pc[q] \notin CheckSteps \cup DownloadSteps

LEMMA HeldEquivalent ==
    BusyIsHeld <=> HeldPointwise
<1>1. \A p \in Procs : Holders = {p} <=>
          \A q \in Procs : pc[q] \in CheckSteps \cup DownloadSteps <=> q = p
  BY DEF Holders
<1>2. Holders = {} <=> \A q \in Procs : pc[q] \notin CheckSteps \cup DownloadSteps
  BY DEF Holders
<1>3. QED
  BY <1>1, <1>2 DEF BusyIsHeld, HeldPointwise

(* Only Check and DownloadStarts take busy, from a goroutine that sees it    *)
(* free, and only its holder gives it back; cancel goes with the download.   *)
LEMMA GuardStep ==
    ASSUME TypeOK, HeldPointwise, CancelReachesDownload, [Next]_vars
    PROVE  HeldPointwise' /\ CancelReachesDownload'
<1> DEFINE Goal == HeldPointwise' /\ CancelReachesDownload'
<1> USE UpdateAssumption DEF HeldPointwise, CancelReachesDownload, CheckSteps, DownloadSteps,
        guards, locals
<1>0. /\ pc \in [Procs -> Steps] /\ busy \in BOOLEAN /\ cancel \in Procs \cup {None}
      /\ None \notin Procs
  BY DEF TypeOK
<1>1. CASE UNCHANGED vars
  BY <1>1 DEF vars
<1>2. ASSUME NEW p \in Procs, Operation(p) PROVE Goal
  <2>1. CASE Check(p)
    BY <1>0, <2>1 DEF Check, Goto
  <2>2. ASSUME NEW v \in Versions, CheckFinds(p, v) PROVE Goal
    BY <1>0, <2>2 DEF CheckFinds, Goto, Return
  <2>3. CASE MirrorAnswers(p)
    BY <1>0, <2>3 DEF MirrorAnswers, Goto
  <2>4. CASE CheckFails(p)
    BY <1>0, <2>4 DEF CheckFails, Return
  <2>5. CASE CheckFindsNothing(p)
    BY <1>0, <2>5 DEF CheckFindsNothing, Return
  <2>6. CASE RecheckFails(p) \/ Recheck(p)
    BY <1>0, <2>6 DEF RecheckFails, Recheck, Return, Goto
  <2>7. CASE Download(p)
    BY <1>0, <2>7 DEF Download, Goto
  <2>8. CASE DownloadRefused(p)
    BY <1>0, <2>8 DEF DownloadRefused, Return
  <2>9. CASE DownloadStarts(p)
    BY <1>0, <2>9 DEF DownloadStarts, Goto
  <2>10. CASE Sweep(p) \/ Fetch(p) \/ FetchFails(p) \/ Progress(p)
    BY <1>0, <2>10 DEF Sweep, Fetch, FetchFails, Progress, Goto
  <2>11. CASE FetchCancelled(p) \/ DownloadDone(p)
    BY <1>0, <2>11 DEF FetchCancelled, DownloadDone, Goto
  <2>12. CASE Release(p)
    BY <1>0, <2>12 DEF Release, Return
  <2>13. CASE Install(p) \/ InstallFails(p) \/ Installed(p)
    BY <1>0, <2>13 DEF Install, InstallFails, Installed, Goto, Return
  <2>14. CASE Apply(p, "apply", "applied") \/ Apply(p, "quitApply", "quitApplied")
    BY <1>0, <2>14 DEF Apply, Goto
  <2>15. CASE InstallOnQuit(p) \/ QuitFails(p) \/ QuitInstalled(p)
    BY <1>0, <2>15 DEF InstallOnQuit, QuitFails, QuitInstalled, Goto
  <2>16. QED
    BY <1>2, <2>1, <2>2, <2>3, <2>4, <2>5, <2>6, <2>7, <2>8, <2>9, <2>10, <2>11, <2>12,
       <2>13, <2>14, <2>15
       DEF Operation, Checking, Downloading
<1>3. CASE Cancel
  BY <1>3 DEF Cancel
<1>4. CASE Skip
  BY <1>4 DEF Skip
<1>5. CASE Restart
  BY <1>0, <1>5 DEF Restart
<1>6. ASSUME NEW v \in Versions, UserInstalls(v) PROVE Goal
  BY <1>6 DEF UserInstalls
<1>7. QED
  BY <1>1, <1>2, <1>3, <1>4, <1>5, <1>6 DEF Next
(* Whatever the updater remembers, downloads or applies is newer than the    *)
(* running build: a release enters through a comparison with it and leaves   *)
(* when the build changes, and the panel names the release that is ready.   *)
LEMMA VersionStep ==
    ASSUME TypeOK, TypeOK', HeldPointwise, NewerInv, ReadyIsNewer, [Next]_vars
    PROVE  NewerInv' /\ ReadyIsNewer'
<1> DEFINE Goal == NewerInv' /\ ReadyIsNewer'
<1> USE UpdateAssumption DEF NewerInv, ReadyIsNewer, HeldPointwise, CheckSteps, DownloadSteps,
        ApplySteps, session, disk, view, guards, locals
<1>0. /\ version \in Nat /\ Versions \subseteq Nat /\ None \notin Versions
      /\ pc \in [Procs -> Steps] /\ target \in [Procs -> Versions]
      /\ memory \in Memory /\ saved \in Memory /\ memory \in Versions \cup {None}
  <2>1. Versions \subseteq Nat /\ None \notin Versions
    BY DEF Versions
  <2>2. memory \in Versions \cup {None}
    BY DEF TypeOK, Memory
  <2>3. QED
    BY <2>1, <2>2 DEF TypeOK
<1>1. CASE UNCHANGED vars
  BY <1>1 DEF vars
<1>2. ASSUME NEW p \in Procs, Operation(p) PROVE Goal
  <2>1. CASE Check(p)
    BY <1>0, <2>1 DEF Check, Publish, Goto
  <2>2. ASSUME NEW v \in Versions, CheckFinds(p, v) PROVE Goal
    <3>1. memory' = memory
      BY <2>2 DEF CheckFinds, WriteMemory, TypeOK, Memory
    <3>2. \A q \in Procs : pc[q] \in DownloadSteps => FALSE
      BY <2>2 DEF CheckFinds
    <3>3. /\ v > version /\ latest' = v /\ version' = version
          /\ phase' = "ready" => memory = v
      BY <2>2 DEF CheckFinds, Publish
    <3>4. /\ target' \in [Procs -> Versions]
          /\ \A q \in Procs \ {p} : pc'[q] = pc[q] /\ target'[q] = target[q]
          /\ pc'[p] = "idle" \/ (pc'[p] = "start" /\ target'[p] = v)
      BY <1>0, <2>2 DEF CheckFinds, Goto, Return, TypeOK
    <3>5. NewerInv'
      BY <1>0, <3>1, <3>2, <3>3, <3>4
    <3>6. QED
      BY <1>0, <3>1, <3>3, <3>5
  <2>3. CASE MirrorAnswers(p)
    BY <1>0, <2>3 DEF WriteMemory, MirrorAnswers, Goto
  <2>4. CASE CheckFails(p)
    BY <1>0, <2>4 DEF WriteMemory, CheckFails, SetError, Publish, Return
  <2>5. CASE CheckFindsNothing(p)
    BY <1>0, <2>5 DEF WriteMemory, CheckFindsNothing, Publish, Return
  <2>6. CASE RecheckFails(p)
    BY <1>0, <2>6 DEF RecheckFails, SetError, Publish, Return
  <2>7. CASE Recheck(p)
    BY <1>0, <2>7 DEF Recheck, Return, Goto
  <2>8. CASE Download(p)
    BY <1>0, <2>8 DEF Download, Goto
  <2>9. CASE DownloadRefused(p)
    BY <1>0, <2>9 DEF DownloadRefused, SetError, Publish, Return
  <2>10. CASE DownloadStarts(p)
    BY <1>0, <2>10 DEF DownloadStarts, Publish, Goto
  <2>11. CASE Sweep(p) \/ Fetch(p) \/ Progress(p)
    BY <1>0, <2>11 DEF Sweep, Fetch, Progress, Publish, Goto
  <2>12. CASE FetchFails(p)
    BY <1>0, <2>12 DEF FetchFails, SetError, Publish, Goto
  <2>13. CASE FetchCancelled(p)
    BY <1>0, <2>13 DEF FetchCancelled, Publish, Goto
  <2>14. CASE DownloadDone(p)
    <3>1. memory' = target[p]
      BY <1>0, <2>14 DEF DownloadDone, WriteMemory, Memory
    <3>2. QED
      BY <1>0, <2>14, <3>1 DEF DownloadDone, Publish, Goto
  <2>15. CASE Release(p)
    BY <1>0, <2>15 DEF Release, Return
  <2>16. CASE Install(p)
    BY <1>0, <2>16 DEF Install, Publish, Goto
  <2>17. CASE InstallFails(p)
    BY <1>0, <2>17 DEF InstallFails, SetError, Publish, Return
  <2>18. CASE Installed(p)
    <3>1. memory' = None
      BY <1>0, <2>18 DEF Installed, ForgetReady, WriteMemory, Memory
    <3>2. QED
      BY <1>0, <2>18, <3>1 DEF Installed, ForgetReady, Return
  <2>19. CASE Apply(p, "apply", "applied") \/ Apply(p, "quitApply", "quitApplied")
    BY <1>0, <2>19 DEF Apply, Goto
  <2>20. CASE InstallOnQuit(p)
    BY <1>0, <2>20 DEF InstallOnQuit, Goto
  <2>21. CASE QuitFails(p)
    BY <1>0, <2>21 DEF QuitFails, Goto
  <2>22. CASE QuitInstalled(p)
    <3>1. memory' = None
      BY <1>0, <2>22 DEF QuitInstalled, ForgetReady, WriteMemory, Memory
    <3>2. QED
      BY <1>0, <2>22, <3>1 DEF QuitInstalled, ForgetReady, Goto
  <2>23. QED
    BY <1>2, <2>1, <2>2, <2>3, <2>4, <2>5, <2>6, <2>7, <2>8, <2>9, <2>10, <2>11, <2>12,
       <2>13, <2>14, <2>15, <2>16, <2>17, <2>18, <2>19, <2>20, <2>21, <2>22
       DEF Operation, Checking, Downloading
<1>3. CASE Cancel
  BY <1>0, <1>3 DEF Cancel
<1>4. CASE Skip
  <2>1. memory' = memory
    BY <1>0, <1>4 DEF Skip, WriteMemory, Memory
  <2>2. QED
    BY <1>0, <1>4, <2>1 DEF Skip, Publish
<1>5. CASE Restart
  <2>1. version' = image /\ \A q \in Procs : pc'[q] = "idle"
    BY <1>5 DEF Restart
  <2>2. CASE saved # None /\ StillGood(saved, image)
    <3>1. memory' = saved /\ phase' = "ready" /\ latest' = saved /\ image < saved
      BY <1>5, <2>2 DEF Restart, StillGood
    <3>2. saved \in Nat /\ image \in Nat
      BY <1>0, <2>2 DEF TypeOK, Memory
    <3>3. QED
      BY <2>1, <2>2, <3>1, <3>2
  <2>3. CASE ~(saved # None /\ StillGood(saved, image))
    <3>1. memory' = None /\ phase' = "idle"
      BY <1>0, <1>5, <2>3 DEF Restart, WriteMemory, Memory
    <3>2. QED
      BY <2>1, <3>1
  <2>4. QED
    BY <2>2, <2>3
<1>6. ASSUME NEW v \in Versions, UserInstalls(v) PROVE Goal
  BY <1>0, <1>6 DEF UserInstalls
<1>7. QED
  BY <1>1, <1>2, <1>3, <1>4, <1>5, <1>6 DEF Next

(* Only Fetch adds a package, and it runs after the sweep of its own         *)
(* download: no other download can have put one there meanwhile.           *)
LEMMA PackageStep ==
    ASSUME TypeOK, HeldPointwise, HeldPointwise', SweptInv, OnePackage, [Next]_vars
    PROVE  SweptInv' /\ OnePackage'
<1> DEFINE Goal == SweptInv' /\ OnePackage'
<1> USE DEF SweptInv, OnePackage, HeldPointwise, CheckSteps, DownloadSteps, session, disk, view,
        guards, locals
<1>0. /\ pc \in [Procs -> Steps] /\ target \in [Procs -> Versions]
      /\ packages \in SUBSET Versions /\ stuck \in BOOLEAN
  BY DEF TypeOK
<1>1. CASE UNCHANGED vars
  BY <1>1 DEF vars
<1>2. ASSUME NEW p \in Procs, Operation(p) PROVE Goal
  <2>1. CASE Check(p)
    BY <1>0, <2>1 DEF Check, Goto
  <2>2. ASSUME NEW v \in Versions, CheckFinds(p, v) PROVE Goal
    BY <1>0, <2>2 DEF CheckFinds, Goto, Return
  <2>3. CASE MirrorAnswers(p) \/ CheckFails(p) \/ CheckFindsNothing(p)
    BY <1>0, <2>3 DEF MirrorAnswers, CheckFails, CheckFindsNothing, Goto, Return
  <2>4. CASE RecheckFails(p) \/ Recheck(p) \/ Download(p)
    BY <1>0, <2>4 DEF RecheckFails, Recheck, Download, Return, Goto
  <2>5. CASE DownloadRefused(p) \/ DownloadStarts(p)
    BY <1>0, <2>5 DEF DownloadRefused, DownloadStarts, Goto, Return
  <2>6. CASE Sweep(p)
    BY <1>0, <2>6 DEF Sweep, Goto
  <2>7. CASE Fetch(p)
    BY <1>0, <2>7 DEF Fetch, Goto
  <2>8. CASE Progress(p)
    BY <1>0, <2>8 DEF Progress
  <2>9. CASE FetchFails(p)
    BY <1>0, <2>9 DEF FetchFails, Goto
  <2>10. CASE FetchCancelled(p) \/ DownloadDone(p) \/ Release(p)
    BY <1>0, <2>10 DEF FetchCancelled, DownloadDone, Release, Goto, Return
  <2>11. CASE Install(p) \/ InstallFails(p) \/ InstallOnQuit(p) \/ QuitFails(p)
    BY <1>0, <2>11 DEF Install, InstallFails, InstallOnQuit, QuitFails, Goto, Return
  <2>12. CASE Apply(p, "apply", "applied") \/ Apply(p, "quitApply", "quitApplied")
    BY <1>0, <2>12 DEF Apply, Goto
  <2>13. CASE Installed(p)
    BY <1>0, <2>13 DEF Installed, ForgetReady, Return
  <2>14. CASE QuitInstalled(p)
    BY <1>0, <2>14 DEF QuitInstalled, ForgetReady, Goto
  <2>15. QED
    BY <1>2, <2>1, <2>2, <2>3, <2>4, <2>5, <2>6, <2>7, <2>8, <2>9, <2>10, <2>11, <2>12, <2>13, <2>14
       DEF Operation, Checking, Downloading
<1>3. CASE Cancel
  BY <1>0, <1>3 DEF Cancel
<1>4. CASE Skip
  BY <1>0, <1>4 DEF Skip
<1>5. CASE Restart
  BY <1>0, <1>5 DEF Restart
<1>6. ASSUME NEW v \in Versions, UserInstalls(v) PROVE Goal
  BY <1>0, <1>6 DEF UserInstalls
<1>7. QED
  BY <1>1, <1>2, <1>3, <1>4, <1>5, <1>6 DEF Next

(* An operation that ends while its phase is shown shows another; one that   *)
(* was overtaken finds its phase gone and does not bring it back.          *)
LEMMA PhaseStep ==
    ASSUME TypeOK, HeldPointwise, PendingInv, SpinnerIsReal, [Next]_vars
    PROVE  PendingInv' /\ SpinnerIsReal'
<1> DEFINE Goal == PendingInv' /\ SpinnerIsReal'
<1> USE DEF PendingInv, SpinnerIsReal, Unannounced, HeldPointwise, CheckSteps, DownloadSteps, session, disk, view,
        guards, locals
<1>0. pc \in [Procs -> Steps]
  BY DEF TypeOK
<1>1. CASE UNCHANGED vars
  BY <1>1 DEF vars
<1>2. ASSUME NEW p \in Procs, Operation(p) PROVE Goal
  <2>1. CASE Check(p)
    BY <1>0, <2>1 DEF Check, Publish, Goto
  <2>2. ASSUME NEW v \in Versions, CheckFinds(p, v) PROVE Goal
    BY <1>0, <2>2 DEF CheckFinds, Publish, Goto, Return
  <2>3. CASE MirrorAnswers(p)
    BY <1>0, <2>3 DEF MirrorAnswers, Goto
  <2>4. CASE CheckFails(p) \/ CheckFindsNothing(p)
    BY <1>0, <2>4 DEF CheckFails, CheckFindsNothing, SetError, Publish, Return
  <2>5. CASE RecheckFails(p) \/ InstallFails(p)
    BY <1>0, <2>5 DEF RecheckFails, InstallFails, SetError, Publish, Return
  <2>6. CASE Recheck(p) \/ Download(p)
    BY <1>0, <2>6 DEF Recheck, Download, Goto, Return
  <2>7. CASE DownloadRefused(p)
    BY <1>0, <2>7 DEF DownloadRefused, SetError, Publish, Return
  <2>8. CASE DownloadStarts(p)
    BY <1>0, <2>8 DEF DownloadStarts, Publish, Goto
  <2>9. CASE Sweep(p) \/ Fetch(p)
    BY <1>0, <2>9 DEF Sweep, Fetch, Goto
  <2>10. CASE Progress(p)
    BY <1>0, <2>10 DEF Progress, Publish
  <2>11. CASE FetchFails(p) \/ FetchCancelled(p) \/ DownloadDone(p)
    BY <1>0, <2>11 DEF FetchFails, FetchCancelled, DownloadDone, SetError, Publish, Goto
  <2>12. CASE Release(p)
    BY <1>0, <2>12 DEF Release, Return
  <2>13. CASE Install(p) \/ InstallOnQuit(p)
    BY <1>0, <2>13 DEF Install, InstallOnQuit, Publish, Goto
  <2>14. CASE Apply(p, "apply", "applied") \/ Apply(p, "quitApply", "quitApplied")
    BY <1>0, <2>14 DEF Apply, Goto
  <2>15. CASE QuitFails(p)
    BY <1>0, <2>15 DEF QuitFails, Goto
  <2>16. CASE Installed(p) \/ QuitInstalled(p)
    BY <1>0, <2>16 DEF Installed, QuitInstalled, ForgetReady, Goto, Return
  <2>17. QED
    BY <1>2, <2>1, <2>2, <2>3, <2>4, <2>5, <2>6, <2>7, <2>8, <2>9, <2>10, <2>11, <2>12,
       <2>13, <2>14, <2>15, <2>16
       DEF Operation, Checking, Downloading
<1>3. CASE Cancel
  BY <1>0, <1>3 DEF Cancel
<1>4. CASE Skip
  BY <1>0, <1>4 DEF Skip, Publish
<1>5. CASE Restart
  BY <1>0, <1>5 DEF Restart
<1>6. ASSUME NEW v \in Versions, UserInstalls(v) PROVE Goal
  BY <1>0, <1>6 DEF UserInstalls
<1>7. QED
  BY <1>1, <1>2, <1>3, <1>4, <1>5, <1>6 DEF Next

-----------------------------------------------------------------------------
(* The inductive invariant of the updater.                                 *)
THEOREM UpdateInvariance == Spec => []IInv
<1>1. Init => IInv
  <2> SUFFICES ASSUME Init PROVE IInv
    OBVIOUS
  <2>1. 1 \in Versions /\ None \in Memory /\ "idle" \in Steps /\ "idle" \in Phases
    BY UpdateAssumption DEF Versions, Memory, Steps, Phases
  <2>2. TypeOK
    BY <2>1 DEF Init, TypeOK
  <2>3. HeldPointwise /\ CancelReachesDownload
    BY UpdateAssumption DEF Init, HeldPointwise, CancelReachesDownload, CheckSteps, DownloadSteps
  <2>4. NewerInv /\ SweptInv
    BY <2>1 DEF Init, NewerInv, SweptInv, DownloadSteps, ApplySteps
  <2>5. PendingInv /\ ReadyIsNewer /\ OnePackage /\ SpinnerIsReal
    BY DEF Init, PendingInv, ReadyIsNewer, OnePackage, SpinnerIsReal
  <2>6. QED
    BY <2>2, <2>3, <2>4, <2>5, HeldEquivalent DEF IInv
<1>2. IInv /\ [Next]_vars => IInv'
  <2> SUFFICES ASSUME IInv, [Next]_vars PROVE IInv'
    OBVIOUS
  <2>1. HeldPointwise
    BY HeldEquivalent DEF IInv
  <2>2. TypeOK'
    BY TypeStep DEF IInv
  <2>3. HeldPointwise' /\ CancelReachesDownload'
    BY <2>1, GuardStep DEF IInv
  <2>4. BusyIsHeld'
    <3>1. \A p \in Procs : Holders' = {p} <=>
              \A q \in Procs : pc'[q] \in CheckSteps \cup DownloadSteps <=> q = p
      BY DEF Holders
    <3>2. Holders' = {} <=> \A q \in Procs : pc'[q] \notin CheckSteps \cup DownloadSteps
      BY DEF Holders
    <3>3. QED
      BY <2>3, <3>1, <3>2 DEF BusyIsHeld, HeldPointwise
  <2>5. NewerInv' /\ ReadyIsNewer'
    BY <2>1, <2>2, VersionStep DEF IInv
  <2>6. SweptInv' /\ OnePackage'
    BY <2>1, <2>3, PackageStep DEF IInv
  <2>7. PendingInv' /\ SpinnerIsReal'
    BY <2>1, PhaseStep DEF IInv
  <2>8. QED
    BY <2>2, <2>3, <2>4, <2>5, <2>6, <2>7 DEF IInv
<1>3. QED
  BY <1>1, <1>2, PTL DEF Spec

(* Type correctness of the manager's state.                                *)
THEOREM UpdateTypeCorrect == Spec => []TypeOK
<1>1. IInv => TypeOK
  BY DEF IInv
<1>2. QED
  BY <1>1, UpdateInvariance, PTL

(* A package the panel calls ready is newer than the running build and is    *)
(* the release it names (restoreReady, Check, Download, forgetReady).       *)
THEOREM ReadyPackageIsNewer == Spec => []ReadyIsNewer
<1>1. IInv => ReadyIsNewer
  BY DEF IInv
<1>2. QED
  BY <1>1, UpdateInvariance, PTL

(* The download directory never holds two packages (fetch and sweep).      *)
THEOREM OnePackageOnly == Spec => []OnePackage
<1>1. IInv => OnePackage
  BY DEF IInv
<1>2. QED
  BY <1>1, UpdateInvariance, PTL

(* busy is set exactly while one goroutine checks or downloads, whatever     *)
(* path the operation leaves by.                                           *)
THEOREM BusyHasOneHolder == Spec => []BusyIsHeld
<1>1. IInv => BusyIsHeld
  BY DEF IInv
<1>2. QED
  BY <1>1, UpdateInvariance, PTL

(* Manager.cancel belongs to the download under way.                       *)
THEOREM CancelIsCurrent == Spec => []CancelReachesDownload
<1>1. IInv => CancelReachesDownload
  BY DEF IInv
<1>2. QED
  BY <1>1, UpdateInvariance, PTL

(* A check or a download the panel was last told of is under way, and so is  *)
(* an installation unless it went through and forgetReady, which publishes    *)
(* nothing, was the last to change the phase.                              *)
THEOREM NoIdleSpinner == Spec => []SpinnerIsReal
<1>1. IInv => SpinnerIsReal
  BY DEF IInv
<1>2. QED
  BY <1>1, UpdateInvariance, PTL

(* The updater never replaces the installation by a release that is not      *)
(* newer than the running build (Install, InstallOnQuit).                   *)
THEOREM NeverDowngrades == Spec => UpgradesOnly
<1>1. ASSUME IInv, [Next]_vars
      PROVE  [image' # image /\ ~(\E v \in Versions : UserInstalls(v)) => image' > version]_vars
  <2> USE DEF session, disk, view, guards, locals
  <2>1. CASE UNCHANGED vars
    BY <2>1
  <2>2. ASSUME NEW p \in Procs, Operation(p), image' # image PROVE image' > version
    <3>1. \/ Apply(p, "apply", "applied") \/ Apply(p, "quitApply", "quitApplied")
      BY <2>2 DEF Operation, Checking, Downloading, Check, MirrorAnswers, CheckFails,
         CheckFindsNothing, CheckFinds, RecheckFails, Recheck, Download, DownloadRefused,
         DownloadStarts, Sweep, Progress, Fetch, FetchFails, FetchCancelled, DownloadDone, Release,
         Install, InstallFails, Installed, InstallOnQuit, QuitFails, QuitInstalled
    <3>2. image' = target[p] /\ pc[p] \in ApplySteps
      BY <2>2, <3>1 DEF Apply, ApplySteps
    <3>3. QED
      BY <1>1, <2>2, <3>2 DEF IInv, NewerInv
  <2>3. CASE Cancel \/ Skip \/ Restart
    BY <2>3 DEF Cancel, Skip, Restart
  <2>4. QED
    <3>1. ASSUME NEW v \in Versions, UserInstalls(v)
          PROVE  \E w \in Versions : UserInstalls(w)
      BY <3>1
    <3>2. QED
      BY <1>1, <2>1, <2>2, <2>3, <3>1 DEF Next
<1>2. QED
  BY <1>1, UpdateInvariance, PTL DEF Spec, UpgradesOnly
=============================================================================
