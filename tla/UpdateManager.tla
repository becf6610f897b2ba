---------------------------- MODULE UpdateManager ----------------------------
(***************************************************************************)
(* The in-app updater: Manager of internal/update/manager.go, with the     *)
(* package files it downloads and the installation it replaces.            *)
(*                                                                         *)
(* Check, Download, Install and Skip are called by the renderer, Check also *)
(* by the schedule of Start, and InstallOnQuit by the shutdown hook of      *)
(* main.go.  Nothing keeps them apart but Manager.mu, which is held for one *)
(* critical section at a time (one step here) and never across the network *)
(* or an installer, and the flag busy, which only a check and a download    *)
(* take.                                                                   *)
(*                                                                         *)
(* Data.  A release is its version number, a package file is known by its   *)
(* release, and a mirror's answer is any release or an error.  The policy   *)
(* is a setting the user may change at any moment, so a step that reads it  *)
(* may find either answer.  Which release is skipped decides the same thing *)
(* as the policy, whether an automatic check goes on to download, and       *)
(* nothing else: it is left out, with Check's parameter manual, which only  *)
(* takes a release off the skip list; the writes and the events they cause  *)
(* are not.  Release notes, progress, mirror names, error texts and         *)
(* CheckedAt are left out too: no step depends on them.                    *)
(***************************************************************************)
EXTENDS Integers, FiniteSets

CONSTANTS
    Procs,          \* goroutines inside the manager
    MaxVersion,     \* bound on release numbers (the code has none)
    None

ASSUME UpdateAssumption ==
    /\ MaxVersion \in Nat \ {0}
    /\ None \notin Nat
    /\ None \notin Procs

Versions == 1..MaxVersion

Phases == {"idle", "checking", "available", "downloading", "ready", "installing", "error"}

(* The part of Manager.memory that decides anything: the finished download   *)
(* (ReadyVersion and ReadyPath, always set together), if there is one.     *)
Memory == Versions \cup {None}

VARIABLES
    version,      \* the build that is running
    image,        \* the build the next launch runs
    canInstall,   \* Location.CanInstall
    phase,        \* State.Phase
    latest,       \* State.LatestVersion
    pending,      \* the phase last handed to the emitter by publish
    memory,       \* Manager.memory
    saved,        \* update.json
    packages,     \* releases whose verified package is in the download directory
    stuck,        \* the last sweep left a package the system would not remove
    busy,         \* Manager.busy
    cancel,       \* the goroutine whose download Manager.cancel stops
    cancelled,    \* that download's context is done
    pc,           \* where each goroutine is
    target        \* the release its operation is about

disk == <<saved, packages, stuck, image>>
view == <<phase, latest, pending>>
guards == <<busy, cancel, cancelled>>
session == <<version, canInstall>>
locals == <<pc, target>>
vars == <<session, disk, view, memory, guards, locals>>

(* "check" and "recheck": inside runCheck, of Check and of Download;         *)
(* "checked" and "rechecked": back from it with a release.  "start":         *)
(* Download has yet to take the lock.  "sweep", "fetch" and "fetched":       *)
(* inside fetch.  "release": before Download's deferred function.  "apply"   *)
(* and "applied": inside Install.  "quitApply", "quitApplied" and "quit":    *)
(* inside the shutdown hook.                                               *)
CheckSteps == {"check", "checked"}

DownloadSteps == {"sweep", "fetch", "fetched", "release"}

ApplySteps == {"apply", "applied", "quitApply", "quitApplied"}

Steps == CheckSteps \cup DownloadSteps \cup ApplySteps
           \cup {"idle", "recheck", "rechecked", "start", "quit"}

TypeOK ==
    /\ version \in Versions /\ image \in Versions
    /\ canInstall \in BOOLEAN
    /\ phase \in Phases /\ pending \in Phases
    /\ latest \in Versions \cup {None}
    /\ memory \in Memory /\ saved \in Memory
    /\ packages \in SUBSET Versions /\ stuck \in BOOLEAN
    /\ busy \in BOOLEAN /\ cancelled \in BOOLEAN
    /\ cancel \in Procs \cup {None}
    /\ pc \in [Procs -> Steps]
    /\ target \in [Procs -> Versions]
-----------------------------------------------------------------------------
(***************************************************************************)
(* Helpers.                                                                *)
(***************************************************************************)
Goto(p, step) == pc' = [pc EXCEPT ![p] = step]

(* The locals of an operation are gone when it returns.                    *)
Return(p) ==
    /\ pc' = [pc EXCEPT ![p] = "idle"]
    /\ target' = [target EXCEPT ![p] = 1]

(* writeMemory: os.WriteFile truncates the file first and its error is       *)
(* ignored, so the write may succeed, not happen, or leave nothing readable. *)
WriteMemory(m) ==
    /\ memory' = m
    /\ saved' \in {m, saved, None}

(* Set a phase and publish it.                                             *)
Publish(ph) == phase' = ph /\ pending' = ph

(* Mutant: a phase of its own, which the renderer does not know.           *)
SetError_Unknown == Publish("failed")

(* setError.                                                               *)
SetError == Publish("error")

(* forgetReady.  The package stays on disk where the system refuses to       *)
(* remove it: a Windows installer still runs from it.  Nothing is published. *)
ForgetReady ==
    /\ packages' = packages \ {memory} \/ UNCHANGED packages
    /\ WriteMemory(None)
    /\ phase' = "idle"
    /\ UNCHANGED <<latest, pending>>
-----------------------------------------------------------------------------
(***************************************************************************)
(* Check.                                                                  *)
(***************************************************************************)

(* A call that finds busy set returns at once.                             *)
Check(p) ==
    /\ pc[p] = "idle" /\ ~busy
    /\ busy' = TRUE
    /\ Publish("checking")
    /\ Goto(p, "check")
    /\ UNCHANGED <<session, disk, latest, memory, cancel, cancelled, target>>

(* runCheck has an answer from a mirror: rememberMirror writes the memory.  *)
MirrorAnswers(p) ==
    /\ \/ pc[p] = "check" /\ Goto(p, "checked")
       \/ pc[p] = "recheck" /\ Goto(p, "rechecked")
    /\ WriteMemory(memory)
    /\ UNCHANGED <<session, packages, stuck, image, view, guards, target>>

CheckFails(p) ==
    /\ pc[p] = "check"
    /\ busy' = FALSE
    /\ WriteMemory(memory)
    /\ SetError
    /\ Return(p)
    /\ UNCHANGED <<session, packages, stuck, image, latest, cancel, cancelled>>

(* StatusCurrent or StatusAhead.                                           *)
CheckFindsNothing(p) ==
    /\ pc[p] = "checked"
    /\ busy' = FALSE
    /\ WriteMemory(memory)
    /\ Publish("idle")
    /\ latest' = None
    /\ Return(p)
    /\ UNCHANGED <<session, packages, stuck, image, cancel, cancelled>>

(* StatusAvailable.  Under a policy that downloads, and unless the release   *)
(* is skipped, the goroutine goes on as the background download.           *)
CheckFinds(p, v) ==
    /\ pc[p] = "checked" /\ v > version
    /\ busy' = FALSE
    /\ WriteMemory(memory)
    /\ latest' = v
    /\ LET kept == phase = "ready" /\ memory = v
       IN  /\ Publish(IF kept THEN "ready" ELSE "available")
           /\ \/ Return(p)
              \/ /\ ~kept /\ canInstall
                 /\ Goto(p, "start")
                 /\ target' = [target EXCEPT ![p] = v]
    /\ UNCHANGED <<session, packages, stuck, image, cancel, cancelled>>
-----------------------------------------------------------------------------
(***************************************************************************)
(* Download.                                                               *)
(***************************************************************************)

(* The renderer's button passes no release: it is looked up first, without   *)
(* taking busy.                                                            *)
Download(p) ==
    /\ pc[p] = "idle"
    /\ Goto(p, "recheck")
    /\ UNCHANGED <<session, disk, view, memory, guards, target>>

RecheckFails(p) ==
    /\ pc[p] = "recheck"
    /\ SetError
    /\ Return(p)
    /\ UNCHANGED <<session, disk, latest, memory, guards>>

(* Mutant: the status of the release is not looked at.                     *)
Recheck_AnyRelease(p) ==
    /\ pc[p] = "rechecked"
    /\ \E v \in Versions : Goto(p, "start") /\ target' = [target EXCEPT ![p] = v]
    /\ UNCHANGED <<session, disk, view, memory, guards>>

(* A release that is not newer ends the call.                              *)
Recheck(p) ==
    /\ pc[p] = "rechecked"
    /\ \/ Return(p)
       \/ \E v \in Versions :
             /\ v > version
             /\ Goto(p, "start")
             /\ target' = [target EXCEPT ![p] = v]
    /\ UNCHANGED <<session, disk, view, memory, guards>>

(* Download under the lock: refused while busy or where nothing can be       *)
(* replaced.                                                               *)
DownloadRefused(p) ==
    /\ pc[p] = "start"
    /\ \/ busy /\ UNCHANGED <<phase, pending>>
       \/ ~busy /\ ~canInstall /\ SetError
    /\ Return(p)
    /\ UNCHANGED <<session, disk, latest, memory, guards>>

(* Mutant: busy is not looked at again after the recheck.                  *)
DownloadStarts_AlsoBusy(p) ==
    /\ pc[p] = "start" /\ canInstall
    /\ busy' = TRUE
    /\ cancel' = p
    /\ cancelled' = FALSE
    /\ Publish("downloading")
    /\ latest' = target[p]
    /\ Goto(p, "sweep")
    /\ UNCHANGED <<session, disk, memory, target>>

DownloadStarts(p) ==
    /\ pc[p] = "start" /\ ~busy /\ canInstall
    /\ busy' = TRUE
    /\ cancel' = p
    /\ cancelled' = FALSE
    /\ Publish("downloading")
    /\ latest' = target[p]
    /\ Goto(p, "sweep")
    /\ UNCHANGED <<session, disk, memory, target>>

(* Mutant: old packages are left where they are.                           *)
Sweep_Nothing(p) ==
    /\ pc[p] = "sweep"
    /\ Goto(p, "fetch")
    /\ UNCHANGED <<session, disk, view, memory, guards, target>>

(* fetch: every other package is removed before the first byte, file by      *)
(* file; the system may refuse any of them, and that error is ignored.     *)
Sweep(p) ==
    /\ pc[p] = "sweep"
    /\ \E refused \in SUBSET packages : packages' = (packages \cap {target[p]}) \cup refused
    /\ stuck' = ~(packages' \subseteq {target[p]})
    /\ Goto(p, "fetch")
    /\ UNCHANGED <<session, saved, image, view, memory, guards, target>>

(* fetch publishes the state at every mirror it tries and every chunk of the  *)
(* download it reads, with whatever phase it finds.                        *)
Progress(p) ==
    /\ pc[p] = "fetch"
    /\ pending # phase
    /\ Publish(phase)
    /\ UNCHANGED <<session, disk, latest, memory, guards, locals>>

(* A mirror served bytes with the published digest and they were renamed     *)
(* into place.  Other bytes are dropped and the next mirror is tried.      *)
Fetch(p) ==
    /\ pc[p] = "fetch"
    /\ packages' = packages \cup {target[p]}
    /\ Goto(p, "fetched")
    /\ UNCHANGED <<session, saved, stuck, image, view, memory, guards, target>>

(* The manifest lists no package, every mirror failed, or the rename failed  *)
(* after the earlier file of that name had been removed.                   *)
FetchFails(p) ==
    /\ \/ pc[p] = "sweep" /\ UNCHANGED packages
       \/ pc[p] = "fetch" /\ packages' \in {packages, packages \ {target[p]}}
    /\ SetError
    /\ Goto(p, "release")
    /\ UNCHANGED <<session, saved, stuck, image, latest, memory, guards, target>>

(* Mutant: a cancel counts as the failure of one mirror.                   *)
FetchCancelled_NextMirror(p) ==
    /\ pc[p] = "fetch" /\ cancelled
    /\ UNCHANGED vars

(* Mutant: the phase is left as it was.                                    *)
FetchCancelled_StillDownloading(p) ==
    /\ pc[p] = "fetch" /\ cancelled
    /\ Goto(p, "release")
    /\ UNCHANGED <<session, disk, view, memory, guards, target>>

(* A cancel is the user's answer and applies to every mirror.              *)
FetchCancelled(p) ==
    /\ pc[p] = "fetch" /\ cancelled
    /\ Publish("available")
    /\ Goto(p, "release")
    /\ UNCHANGED <<session, disk, latest, memory, guards, target>>

DownloadDone(p) ==
    /\ pc[p] = "fetched"
    /\ WriteMemory(target[p])
    /\ Publish("ready")
    /\ Goto(p, "release")
    /\ UNCHANGED <<session, packages, stuck, image, latest, guards, target>>

(* Mutant: the cancel function of the ended download is kept.              *)
Release_KeepsCancel(p) ==
    /\ pc[p] = "release"
    /\ busy' = FALSE
    /\ Return(p)
    /\ UNCHANGED <<session, disk, view, memory, cancel, cancelled>>

(* The deferred function, in a critical section of its own.                *)
Release(p) ==
    /\ pc[p] = "release"
    /\ busy' = FALSE
    /\ cancel' = None
    /\ cancelled' = FALSE
    /\ Return(p)
    /\ UNCHANGED <<session, disk, view, memory>>

(* Cancel, by the renderer or by Close.                                    *)
Cancel ==
    /\ cancel # None /\ ~cancelled
    /\ cancelled' = TRUE
    /\ UNCHANGED <<session, disk, view, memory, busy, cancel, locals>>

(* Skip, of any release: the memory is written and the state published.     *)
Skip ==
    /\ WriteMemory(memory)
    /\ Publish(phase)
    /\ UNCHANGED <<session, packages, stuck, image, latest, guards, locals>>
-----------------------------------------------------------------------------
(***************************************************************************)
(* Install and InstallOnQuit.  Neither looks at busy.                      *)
(***************************************************************************)
Install(p) ==
    /\ pc[p] = "idle" /\ phase = "ready" /\ memory # None
    /\ Publish("installing")
    /\ target' = [target EXCEPT ![p] = memory]
    /\ Goto(p, "apply")
    /\ UNCHANGED <<session, disk, latest, memory, guards>>

(* Apply returned no error: the installation was replaced, or on Windows an  *)
(* installer was started that the user may still abort.                    *)
Apply(p, from, to) ==
    /\ pc[p] = from /\ canInstall
    /\ target[p] \in packages
    /\ image' \in {image, target[p]}
    /\ Goto(p, to)
    /\ UNCHANGED <<session, saved, packages, stuck, view, memory, guards, target>>

(* The phase is set to ready and then, by setError, to error.              *)
InstallFails(p) ==
    /\ pc[p] = "apply"
    /\ SetError
    /\ Return(p)
    /\ UNCHANGED <<session, disk, latest, memory, guards>>

(* Relaunch follows, and the application quits (Restart) unless it fails:    *)
(* then the application stays up, with the panel where Install left it.    *)
Installed(p) ==
    /\ pc[p] = "applied"
    /\ ForgetReady
    /\ Return(p)
    /\ UNCHANGED <<session, stuck, image, guards>>

(* The shutdown hook finds a package and the auto policy.                  *)
InstallOnQuit(p) ==
    /\ pc[p] = "idle" /\ phase = "ready" /\ memory # None
    /\ target' = [target EXCEPT ![p] = memory]
    /\ Goto(p, "quitApply")
    /\ UNCHANGED <<session, disk, view, memory, guards>>

(* The error is only logged.                                               *)
QuitFails(p) ==
    /\ pc[p] = "quitApply"
    /\ Goto(p, "quit")
    /\ UNCHANGED <<session, disk, view, memory, guards, target>>

QuitInstalled(p) ==
    /\ pc[p] = "quitApplied"
    /\ ForgetReady
    /\ Goto(p, "quit")
    /\ UNCHANGED <<session, stuck, image, guards, target>>
-----------------------------------------------------------------------------
(***************************************************************************)
(* The process ends at any point and is started again.                     *)
(***************************************************************************)

(* Mutant: the running build is not compared.                              *)
StillGood_AnyVersion(v, build) == v \in packages

(* restoreReady finds the package of a release newer than the build.       *)
StillGood(v, build) == v \in packages /\ build < v

(* New: a finished download is picked up again, or its package removed.     *)
Restart ==
    /\ version' = image
    /\ canInstall' \in BOOLEAN
    /\ IF saved # None /\ StillGood(saved, image)
       THEN /\ phase' = "ready" /\ latest' = saved
            /\ memory' = saved
            /\ UNCHANGED <<saved, packages>>
       ELSE /\ phase' = "idle" /\ latest' = None
            /\ packages' \in {packages \ {saved}, packages}
            /\ IF saved # None THEN WriteMemory(None)
                                     ELSE memory' = saved /\ UNCHANGED saved
    /\ pending' = phase'
    /\ busy' = FALSE /\ cancel' = None /\ cancelled' = FALSE
    /\ pc' = [p \in Procs |-> "idle"]
    /\ target' = [p \in Procs |-> 1]
    /\ UNCHANGED <<stuck, image>>

(* Outside the program, the user installs some release by hand.            *)
UserInstalls(v) ==
    /\ image # v
    /\ image' = v
    /\ UNCHANGED <<session, saved, packages, stuck, view, memory, guards, locals>>
-----------------------------------------------------------------------------
Init ==
    /\ version = 1 /\ image = 1
    /\ canInstall \in BOOLEAN
    /\ phase = "idle" /\ pending = "idle" /\ latest = None
    /\ memory = None /\ saved = None
    /\ packages = {} /\ stuck = FALSE
    /\ busy = FALSE /\ cancel = None /\ cancelled = FALSE
    /\ pc = [p \in Procs |-> "idle"]
    /\ target = [p \in Procs |-> 1]

Checking(p) ==
    \/ MirrorAnswers(p) \/ CheckFails(p) \/ CheckFindsNothing(p)
    \/ \E v \in Versions : CheckFinds(p, v)
    \/ RecheckFails(p) \/ Recheck(p)

(* Steps of a download that wait for nothing but the lock and the disk.    *)
Downloading(p) ==
    \/ DownloadRefused(p) \/ DownloadStarts(p) \/ Sweep(p)
    \/ FetchCancelled(p) \/ DownloadDone(p) \/ Release(p)

Operation(p) ==
    \/ Check(p) \/ Checking(p)
    \/ Download(p) \/ Downloading(p) \/ Progress(p) \/ Fetch(p) \/ FetchFails(p)
    \/ Install(p) \/ InstallFails(p) \/ Apply(p, "apply", "applied") \/ Installed(p)
    \/ InstallOnQuit(p) \/ QuitFails(p) \/ Apply(p, "quitApply", "quitApplied")
    \/ QuitInstalled(p)

Next ==
    \/ \E p \in Procs : Operation(p)
    \/ Cancel \/ Skip \/ Restart
    \/ \E v \in Versions : UserInstalls(v)

Spec == Init /\ [][Next]_vars

(* A check ends: RaceManifest gives all mirrors together twelve seconds.     *)
(* The rest of a download waits for the lock and the disk only, or, once     *)
(* cancelled, for a read whose context is done.  Nothing makes Fetch or      *)
(* FetchFails happen: the package is read without a timeout.               *)
FairSpec == Spec /\ \A p \in Procs : WF_vars(Checking(p)) /\ WF_vars(Downloading(p))
-----------------------------------------------------------------------------
(***************************************************************************)
(* Properties.                                                             *)
(***************************************************************************)

(* A package the panel calls ready is newer than the running build and is    *)
(* the release the panel names, across restarts, upgrades by hand and        *)
(* torn writes of update.json.                                             *)
ReadyIsNewer ==
    phase = "ready" =>
        memory # None /\ memory > version /\ latest = memory

(* "the largest thing the app ever writes" (fetch): the download directory   *)
(* never holds two packages, although a crash, a failed write or a refused   *)
(* removal may orphan one that no memory names; the exception is a package   *)
(* that the sweep of the last download could not remove.                   *)
OnePackage == ~stuck => \A v, w \in packages : v = w

(* The goroutines that took busy.                                          *)
Holders == {p \in Procs : pc[p] \in CheckSteps \cup DownloadSteps}

(* busy is set exactly while one goroutine checks or downloads: no early     *)
(* return leaves it set, which would silence the updater until a restart,    *)
(* and no operation clears it for another.                                 *)
BusyIsHeld == IF busy THEN \E p \in Procs : Holders = {p} ELSE Holders = {}

(* Manager.cancel always belongs to the download that is under way: Cancel   *)
(* is never lost on it and never kept for a later one.                     *)
CancelReachesDownload == \A p \in Procs : pc[p] \in DownloadSteps <=> cancel = p

(* forgetReady has put the manager back to idle and nothing has been         *)
(* published since: the one change of State that emits no Event.           *)
Unannounced == phase = "idle" /\ pending # "idle"

(* What the panel was last told is under way is under way: an operation      *)
(* whose phase was overwritten by another one does not come back to it, and  *)
(* a check or a download that ends is always announced.  An installation is  *)
(* not: once it went through, and Relaunch failed, the panel is left on      *)
(* "installing" until something else is published.  That case, and no other, *)
(* is let through here.                                                    *)
SpinnerIsReal ==
    /\ pending = "checking" => \E p \in Procs : pc[p] \in CheckSteps
    /\ pending = "downloading" => \E p \in Procs : pc[p] \in {"sweep", "fetch", "fetched"}
    /\ pending = "installing" =>
          Unannounced \/ \E p \in Procs : pc[p] \in {"apply", "applied"}

(* The updater replaces the installation only by a release newer than the    *)
(* running build.                                                          *)
UpgradesOnly ==
    [][image' # image /\ ~(\E v \in Versions : UserInstalls(v)) => image' > version]_vars

(* The flag busy comes back: every check ends, and every download the user   *)
(* cancels.                                                                *)
UpdaterRecovers == busy /\ (cancel = None \/ cancelled) ~> ~busy

(* "PhaseReady means a verified package is waiting to be installed."  An     *)
(* install that ends while the same release is downloaded again removes the  *)
(* new file.                                                               *)
ReadyHasPackage == phase = "ready" => memory \in packages

-----------------------------------------------------------------------------
(***************************************************************************)
(* The inductive invariant.                                                *)
(***************************************************************************)

(* Whatever is remembered, downloaded or applied is newer than the running   *)
(* build, and a download is of the release the panel names.                *)
NewerInv ==
    /\ memory # None => memory > version
    /\ \A p \in Procs :
          /\ pc[p] \in DownloadSteps \cup ApplySteps \cup {"start"} => target[p] > version
          /\ pc[p] \in DownloadSteps => latest = target[p]

(* From a sweep that worked on only the package being fetched is there.    *)
SweptInv ==
    \A p \in Procs :
        pc[p] \in {"fetch", "fetched"} /\ ~stuck => packages \subseteq {target[p]}

(* The panel has been told of every phase but forgetReady's, so that Skip,   *)
(* which publishes the phase it finds, brings back no ended work.          *)
PendingInv == pending # phase => phase = "idle"

IInv ==
    /\ TypeOK /\ BusyIsHeld /\ CancelReachesDownload /\ NewerInv /\ SweptInv
    /\ PendingInv /\ ReadyIsNewer /\ OnePackage /\ SpinnerIsReal
=============================================================================
