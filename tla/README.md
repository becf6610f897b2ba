# A TLA+ verification of MQ Studio

MQ Studio (repository rocket-leaf) is a desktop client for message brokers: a Go
backend (`internal/`) behind a React frontend (`frontend/`), joined by Wails.
This directory holds TLA+ models of the parts of the backend that keep state and
are used by several goroutines at once, and of the frontend's boards, dialogs,
connection forms and live streams; the TLC configurations that check them on
small instances; and TLAPS proofs of the main results for every instance.

To check: `tlc -config connections.cfg MCConnectionService` (and likewise for the
other runs listed in `PROJECT.json`), and `tlapm ConnectionServiceProofs.tla` (and
the other `*Proofs.tla`).

## 1. Inventory

| Component | State | Operations | What is hard |
|---|---|---|---|
| Connection service, `internal/service/connection` | profile map, `nextID`, `reconnectReload`, `connections.json` | add, edit, set option, delete, set default, connect, disconnect, test, reload, replace | two locks, one held across a dial; failing saves and dials; restart |
| Driver registry, `internal/driver/registry.go`, `internal/app/runtime.go` | open clients, active id | open, close, close all, set active | driven by the above; must agree with it |
| Connection file, `persistence.go`, `internal/model/profile.go` | the list on disk | load, prepare an import, save | old and hand-written lists, repeated ids, round trip |
| Update manager, `internal/update/manager.go` | phase, memory (`update.json`), packages, `busy`, `cancel` | check, download, cancel, skip, install, install on quit, restore | overlapping operations, torn writes, crash, stale phase |
| Update mirrors and download, `mirror.go`, `download.go`, `update.go` | none kept | race mirrors, fetch, verify | cancel, partial failure |
| Update installation, `apply.go`, `target.go` | the installed application | swap bundle, AppImage, installer | crash between two renames |
| Configuration import, `internal/service/configuration` | none of its own | import, export, roll back | several steps, one fails; stale copy to roll back to |
| Settings, `internal/service/settings` | one record | update, notify | two writers of the whole record |
| Tray, `internal/tray`, `main.go` | the menu's copy | set connections, preferences, shell | notifications out of order |
| Collector and history, `internal/service/collector`, `cluster` | bounded history | sample, stop | stop against a sample |
| Key file and storage, `internal/crypto`, `internal/storage` | `secret.key`, files | create, read, atomic write | crash in the middle |
| Connection forms, `frontend/src/design/boards/connections`, `internal/bridge/connection.go` | a draft; stored secrets only as "there are some" | open, type, blank, switch mechanism, clear, save | blank means keep, or means none; one mode for all secrets |
| Boards, `frontend/src/design/boards/*`, `hooks/useBrokerData.ts` | what each read shows, the selection, a generation | poll, refresh, select, some 150 operations on fifteen families | replies out of order, closures of an earlier render, lost connections |
| Board dialogs | a draft, busy, the flag that opens it | open, type, submit, close | effects that refill, submissions that end after the dialog was closed or reopened |
| Live streams, `hooks/*/use*Stream.ts`, `useMessageTail.ts` | cursor, reference to a stream, messages shown | start, stop, adopt, poll, clear | calls without waiting, overlapping polls, a stream that outlives its page |
| Live subscriptions, `internal/driver/mqtt`, `nats`, `activemq` | streams with a bounded ring, subscriptions of the session | start, poll, stop, deliver; reads of topics and of `$SYS` on the same session | overflow, a stop against a start on the same filter, other unsubscribers |
| Broker drivers, per-family services, bridge | none or vendor state | forwarding, conversion | external libraries |
| Frontend shell | tabs, copies of the profiles and settings | navigation, alerts | stale copies |

How they interact: the renderer calls the bridge, each call on a goroutine of its
own, so two calls of one page are carried out and answered in any order; the
bridge calls the services; the connection service calls the registry
through `registryRuntime`; configuration import calls `ReplaceConnections` and
`Reload`; `app.New` starts `ConnectDefault` in the background; listeners
(`OnChange`) tell the tray; the update manager is called by the renderer, by its
own schedule and by the shutdown hook of `main.go`.

What makes each part correct:

* connection service: the status shown is the truth about the client, a client
  was dialled with what its profile says, the file and memory agree, there is
  exactly one default, ids are fresh, no operation blocks the others for ever;
* connection file: no profile is lost, ids are kept where they can be, the result
  is normalised and a second load changes nothing, authentication survives;
* update manager: what is offered is newer and is there, at most one package is
  kept, `busy` and `cancel` belong to an operation that is under way, the panel
  shows no work nobody does, the application is never downgraded;
* forms: a secret in use that nobody touched is kept, a cleared one and one that
  was turned off are gone, the mechanism agrees with the secrets;
* boards: what is shown never goes back in time, includes what the board itself
  wrote, is about what is selected, and neither stays behind nor spins for good;
* dialogs: what is submitted was filled and typed for this entry in this opening,
  and is submitted once;
* streams: messages in order and once, one stream per page, and a stream that is
  running is subscribed.

`PROJECT.json` lists every component with its status and every hazard at its line.

## 2. Modules

| Module | Models | Role |
|---|---|---|
| `ConnectionService` | connection service and driver registry | specification, properties, inductive invariant |
| `ConnectionDirectory` | what the service promises, with atomic operations | abstract specification |
| `MCConnectionService` | two goroutines, three imports | TLC instance |
| `ConnectionServiceProofs` | invariance proofs, refinement proof | TLAPS |
| `ConnectionLoad` | `buildConnectionState`, `prepareReplacement`, round trip | specification of an algorithm |
| `MCConnectionLoad` | authentications of a list | TLC instance |
| `NaturalSets`, `ConnectionLoadProofs` | facts about Min and Max, invariance proofs | TLAPS |
| `UpdateManager` | update manager, package directory, installed build | specification, properties, inductive invariant |
| `MCUpdateManager` | two goroutines, three releases | TLC instance |
| `UpdateManagerProofs` | invariance proofs | TLAPS |
| `ConnectionForms` | the fifteen forms: fields, submission rules, requirements | catalogue |
| `ConnectionForm`, `MCConnectionForm` | the dialog on one profile, the bridge's credentials mode | specification, properties, inductive invariant, TLC instance |
| `ConnectionFormProofs` | well-formedness of the fifteen forms, invariance proofs | TLAPS |
| `BoardShapes` | the vocabulary in which boards and dialogs are described | constructors |
| `TopicDialogs`, `ConsumerDialogs` | the dialogs of destinations and of consumers | catalogue |
| `TopicBoards`, `ConsumerBoards`, `MessageBoards`, `AdminBoards`, `ClusterBoards` | every board of the window | catalogue |
| `BrokerData` | the hook `useBrokerData` | the state of one read, as functions |
| `Board`, `MCBoard` | a board at work | specification, properties, inductive invariant, TLC instance over the catalogue |
| `BoardProofs` | facts about `useBrokerData`, invariance proofs for any set of boards | TLAPS |
| `BoardDialog`, `MCBoardDialog` | a dialog at work | specification, properties, inductive invariant, TLC instance over the catalogue |
| `BoardDialogProofs` | invariance proofs for any set of dialogs | TLAPS |
| `LiveStream`, `MCLiveStream` | stream hooks, workbenches and the driver's streams | specification, properties, inductive invariant, TLC instance |
| `LiveStreamProofs` | invariance proofs for any set of hooks | TLAPS |

Definitions named `X_Y` beside a definition `X` are deliberately wrong variants of
it (a dropped guard, a missing reset). They are used
by no specification and serve to show that a property would notice the mistake.

### ConnectionService

A goroutine is a member of `Procs` with a program counter. `runtimeMu` is a
variable that holds its owner. `mu` is held for one critical section at a time, so
a critical section is one step and no variable is needed, except in
`DeleteConnection`, which keeps `mu` while it closes the client: `MuFree` is false
during those steps and every step that takes `mu` is guarded by it.

| Action | Code |
|---|---|
| `AddConnection`, `SetDefaultConnection` | under `mu` alone: they interleave with a dial |
| `UpdateConnection`, `SetOption` | one step up to the save; then `CloseClient`, `PromoteActive`, `Resolve`, dial, `MarkOnline` if the client must be redialled |
| `DeleteConnection` | the same, with `mu` kept |
| `Connect`, `ConnectDefault` | take `runtimeMu`; `Resolve` (first section of `connectRuntimeLocked`), `OpenClient` or `DialFails`, `SetActive`, `MarkOnline` (second section) |
| `Disconnect` | `CloseClient`, `PromoteActive`, `MarkOffline` |
| `TestConnection`, `TestDone` | dial of its own, nothing kept |
| `Reload`, `ReplaceConnections` | `ReplaceMap`, `CloseAll`, dial of the default, `ClearReload` |
| `Restart` | the process ends at any point and `New` reads the file |

Data: the dial parameters of a profile are a pair, the part
`dialParametersChanged` compares and the part it leaves out (mechanism, family).
Names, groups, remarks and time stamps are left out. Calls that fail validation
change nothing and are left out. The file never holds the status: it is written,
but every load resets it. A save either replaces the file or fails and changes
nothing (`atomicfile.Write`). `Resolve` takes the stored parameters as they are:
the application settings that fill a blank timeout or ACL pair at a dial
(`lifecycle.go:57`) are not modelled and do not change, so a client that is open
across a change of the global settings is outside. A file that does not exist
(`persistence.go:27`) is an empty one, as it is until the first save; one removed
by hand while the program runs is outside, and so is one that `Restart` could not
read (`service.go:48`).

### ConnectionLoad

The state is the loop of `buildConnectionState`: a place in the list, the map so
far, `nextID`, `hasDefault`. A second pass reads what the first one saved, as a
restart does and as `ReplaceConnections` does with the result of
`prepareReplacement`. An id 0 stands for every id that is not positive.
`ConnectionService` uses the result as `Normalised`: imports are normalised maps,
and the highest id plus one is `nextID`.

### UpdateManager

One step per critical section of `Manager.mu` and one per outside effect (mirror
answer, sweep, fetch, apply). `busy` is taken by a check and a download only.
The policy is read at different moments and may change, so a step that depends on
it may go either way. `image` is the build the next launch runs: `Apply` or a
user with an installer changes it. `writeMemory` may succeed, fail or leave an
unreadable file, as `os.WriteFile` without checking its error may. A removal may be
refused (Windows, while an installer runs from the file); a sweep removes file by
file, so it may remove some and not others, and `stuck` remembers that the last
sweep met a refusal. `Skip` takes any version; what is kept of it is that
it writes the memory and publishes: after a check the download that a policy asks
for may start or not, whatever was skipped. Development builds, for which `Check` returns at once, are left
out. `pending` is the phase last given to `publish`, which is what the panel
shows: `forgetReady` changes the phase without giving it to `publish`.

### ConnectionForms and ConnectionForm

`ConnectionForms` gives for each family, with the lines it comes from: the secrets
a form has, when each field is shown, what a submission sends, how it infers the
mechanism and the credentials mode, and what `draftInvalidReason` requires.
`ConnectionForm` is the life of one profile: `Open` (the effect of
`NewConnectionDialog`), `Type`, `Erase`, `ChooseMechanism`, `ChangeAddress`,
`ClearCredentials`, `Save` (validation, `toSubmission`, `applyCredentialsMode`,
`normalizeACLConfig`), `Cancel`. The value of a secret is the opening in which it
was typed, so that "kept" and "typed again" differ.

### The catalogue, BrokerData and Board

A board is a React component; its control is always put together from the same
parts, so the boards are data in the vocabulary of `BoardShapes`, and one machine
gives them behaviour. For a board `X` of the catalogue, `X` is its state and its
handlers, `X_Header` and `X_Panel` are what it offers; the comment above each
definition names file and lines. What the description says of an operation: does
it ask first, does it clear the selection, which reads does it refresh (with the
closures of the render it was pressed in), which only after the first have ended
(`SubscriptionsPulsar`), which also when the call fails (`DlqRocketMQ`), is a
second click refused. What it says of a list: has its query a switch of the toolbar
in it (`scoped`). What it says of a panel: how the chosen entry is found at a
render, and whether an effect selects the first row (`PelRedis`). Columns, search, sorting,
wording and formatting are left out.

`BrokerData` has a read as a record: what is shown, the requests in the air, of
which at most one is current, and whether it spins. `Board` has two reads, the
list and the one that follows the selection. The broker is the sequence of the
sets of entries it has had; a reply is any version from the request on, so a
stale reply is really stale. The query of a scoped list is not kept: `Requery`
only starts the reads over. The passive effect after a render (`useBrokerData.ts:74`)
is part of the step that renders: React runs it before it renders again, and clears
what a reply in between would have shown.

| Action | Code |
|---|---|
| `Poll`, `PollSecond` | interval and refresh button |
| `ListAnswers`, `ListFails`, `SecondAnswers`, `SecondFails` | the rest of `run` after its `await` |
| `Select`, `Unselect` | a row, the panel's close button; `Render` is the effect that follows |
| `Begin`, `Succeed`, `Reread`, `Fail` | a handler before its call, after it, after the refresh it awaits first, in its `catch` |
| `Requery` | a switch or the namespace of the toolbar |
| `Execute`, `Change` | the broker carries it out; another client changes something (external) |
| `Switch` | the connection is closed or dialled again under the mounted board |

### BoardDialog

A draft is the entry it was filled from, the opening in which that happened and
what was typed since. The shape of a dialog says on what its filling effect
depends (`watch`: opening only, the subject, an array that is new after every
refresh, or at every render), whether the effect also resets `saving` (`fresh`),
how the board finds the subject and when a submission that succeeded closes it.
The subject is `Held` by the flag that opens the dialog; `Derived`, looked up at
every render; `Chosen`, the selection, without which the dialog is not rendered;
`Found`, a row without which it is not rendered either, and neither when it is
closed (the reassignment of `TopicsKafka`); or `Selected`, the selection at the
moment of the submission (`setOneQueueOffset` of `ConsumersRocketMQ`), which a
deletion that ends may have cleared (`Deselect`): nothing is sent then. A dialog
that is not rendered loses its draft and `saving`; the submissions it had made run
on as orphans, whose end it does not hear of.

### LiveStream

A call is made, carried out and answered in three steps; `requests` holds the ones
under way. `streams` and `heard` are the driver and the broker's subscriptions:
for MQTT a filter is subscribed once per session, for NATS and ActiveMQ a stream
has a subscription of its own. A message is its stream and sequence number; the
ring keeps the last `Buffer`. `reads` are the other users of the MQTT session:
`collectRetainedFrom`, which lists topics, and `readSys`, which reads `$SYS/#` for
the cluster board; each subscribes (`Read`), collects, and unsubscribes (`LetGo`),
the first unless a stream wants the filter (`Collected`), the second always. One
read of a filter runs at a time. `Remove` looks for other streams in the step that
takes its own out, where `subscribe.go:229-249` takes the lock twice: a start that
comes in between is an overlap either way. The list of streams does not fail by
itself: drivers read it from memory (`subscribe.go:257`). `lapses` remembers what the hooks do not guard
against: a poll made before the previous one was answered (`slow`), a start or a
departure before a start or the listing was answered (`hasty`), a start under way
together with a stop or with a listing of its filter (`overlap`). The properties say what holds without them, so
they also say which lapse each guarantee depends on. `useMessageTail` guards
against the first, and `InOrder` needs no exception for it.

## 3. Runs

| Run | Instance | Distinct states | Shows |
|---|---|---|---|
| `connections` | 2 goroutines, 3 ids, 2 compared values, 1 mechanism | 251,749 | the safety properties, `ReloadRestores`, the refinement `ImplementsDirectory` and `OperationsEnd` |
| `connections_mechanism` | 1 id, 2 mechanisms | violation | finding 2 |
| `load` | lists up to 3, ids 0..2 | 226,695 | `TypeOK` and the six properties of the loader |
| `load_mechanism` | same | violation | finding 1 |
| `updates` | 2 goroutines, 3 releases | 479,181 | the safety properties, `UpgradesOnly` and `UpdaterRecovers` |
| `updates_ready` | 2 releases | violation | finding 3 |
| `forms` | 15 forms, 3 openings, 2 secrets typed at a time | 42,716 | `TypeOK` and the three properties of the forms |
| `forms_shown` | 2 openings | violation | finding 4 |
| `forms_off` | 2 openings | violation | finding 5 |
| `boards` | 43 shapes of boards, 2 entries, 2 versions of the broker, 1 operation and 2 requests in the air before another is added | 526,438 | the five properties of the boards |
| `dialogs` | 24 shapes of dialogs, 2 entries, 3 openings, 2 submissions | 493,676 | the two properties of the dialogs |
| `streams` | 4 hooks, 3 streams, 2 visits, a ring of 2, 2 polls; for MQTT `$SYS/#` and another filter, for the others 1 filter and 3 messages | 3,968,963 | the three properties of the streams |

Why the bounds are enough. Two goroutines already give every pair of overlapping
operations; `runtimeMu` and `busy` let no third one take part in what the two do.
Three ids allow a default, another open connection and one that is
added, deleted or imported meanwhile. Two compared values tell an edited profile
from the one dialled. Three releases allow a running build, a downloaded release
and a newer one, and an upgrade past the downloaded one. Lists of three allow a
repeated id that collides with the id given to an earlier repetition. The proofs
remove the bounds for what they cover.

Three openings of a form allow a profile that is created, edited and edited
again; two secrets typed fill every pair that a requirement speaks of. Two
versions of the broker are enough to tell an old reply from a new one, two entries
to tell a selection from another; boards that differ from another only in having
fewer operations are left out of `boards`, since they can do nothing more
(`Covers` in `MCBoard`). Three openings of a dialog allow a submission of the
first to end in the third, on the same entry or another. Three streams allow one
that runs, one that is being stopped and one that is started; a ring of two and
three messages let the ring overflow. The hook of MQTT differs from the others in
its subscriptions only, so there two filters and no message are used, and the
order of messages is checked on the others.

`load` and `streams` end, so their configurations turn the deadlock check off (a
user may simply stop); the other runs keep it.

Fairness. `connections`: an operation that holds `runtimeMu` goes on, since
every wait in it is a dial with a timeout or a critical section of `mu`; a queued
`Connect` gets the mutex in the end, since Go's mutex hands itself to a starved
waiter. Whether a dial succeeds is not assumed. `updates`: a check ends
(`RaceTimeout`), and so does every step of a download that waits for the lock or
the disk only, and a download that was cancelled. Nothing is assumed of a package
transfer, which the code starts without a timeout (`download.go:87`): a mirror that
stalls keeps `busy` until the user cancels. `boards`: a request in the air is
answered or fails, since every call of a driver has a deadline. When is not
assumed, nor that the interval fires. With a timeout of up to 300 s
(`settings/normalize.go:37`) under a poll every 30 s each request may be superseded
before its answer arrives, and the board then spins and stays behind. `SpinnerEnds`
and `CatchesUp` say that this is the only way: a list that is not asked again and
again comes to rest, and one that is answered in time again and again shows the
broker as it is again and again.

### Properties

`ConnectionService`: `StatusTracksClient` (online exactly when open, between
operations), `ClientDialledAsStored`, `InFlightDialIsCurrent`, `OneDefault`,
`FileMirrorsMemory`, `ActiveFollowsOpen`, `NextIDFresh`, `ReloadRestores` (the
wish to reconnect is dropped only once the default is connected or there is
none), `ImplementsDirectory`, `OperationsEnd`.

`ConnectionLoad`: `LoadIsNormalised`, `NothingLost`, `IdKept`,
`SecondLoadAgrees`, `ACLMeansKeys`, `LoadKeepsMechanism`.

`UpdateManager`: `ReadyIsNewer`, `OnePackage`, `BusyIsHeld`,
`CancelReachesDownload`, `SpinnerIsReal`, `UpgradesOnly`, `UpdaterRecovers`.

`SpinnerIsReal` is about what was published, and lets one case through, an
installation that went through and whose end nobody announced (`Unannounced`, end of
this section).

`ConnectionForm`: `MechanismMatchesSecrets`, `EditKeepsTheRest` (of the fields in
use), `ClearedIsGone` (with nothing typed after the clear control).

`Board`: `NeverGoesBack` (a reply never replaces a newer state by an older one),
`WriteIsSeen` (after its refresh a board shows what it wrote), `ShownIsAsked` (the
panel's data is about the chosen entry), `SpinnerEnds` and `CatchesUp` (liveness).

`BoardDialog`: `SubmittedIsTyped`, and `OneAtATime`, which has three parts: one
submission of its own for a dialog that does not reset `saving` when it opens, no
other for one that stays mounted, and for every dialog that `busy` has a submission
that will end it. Neither is about a dialog that looks its row up again or fills
again while somebody types.

`LiveStream`: `InOrder` (until polls overlap), `OneStream` (until somebody hurries)
and `StillHeard` (until a start runs beside a stop or a listing of its filter, and
not for `$SYS/#`).

### Findings

1. `MechanismSurvives`: importing profiles turns those of other families into
   anonymous ones, since `prepareReplacement` calls `SetACL` without putting the
   mechanism back (`persistence.go:197`). `LoadKeepsMechanism` shows that
   loading the file does put it back.
2. `ClientDialledWithMechanism`: an edit of the mechanism or the family alone
   leaves the old client open (`mutation.go:122`).
3. `ReadyHasPackage`: `Install` overlaps with a download of the same release and
   deletes its file (`manager.go:662`).
4. `CredentialsAsShown`: typing one of the two stored credentials of a RabbitMQ,
   Kafka or Redis profile erases the other, beside a field that says "Saved — leave
   blank to keep it" (`connectionDraft.ts:338`, `374`, `415`). `EditKeepsTheRest`
   shows that the families that preserve do keep it.
5. `OffIsDropped`: where a mechanism or an address was turned off, the form submits
   the credentials that belong to it blank, to drop them (`connectionDraft.ts:834`,
   and for NATS `530`, for IBM MQ `1215`), and the mode "preserve" of the same
   submission fills them again in the bridge (line 845). For the same reason the
   second pair of IBM MQ and Solace is not "written as typed, including empty"
   (`1218`, `1298`).

Seen while modelling, without a run of its own:

* `Check` tests a phase it has itself overwritten, so a release that is already
  downloaded is announced, and downloaded, again (`manager.go:460`, against the
  comment at line 64);
* `forgetReady` changes the phase without an event (`manager.go:691`, against
  line 24: "Event is emitted whenever State changes"): when `Relaunch` fails after
  an installation that went through, the panel is left on "installing";
* a handler that refreshes the panel's read after the selection has moved requests
  the previous entry as the latest request (`TopicsKafka.tsx:147`); a board that
  polls that read corrects itself at the next poll, `SubscriptionsPulsar` does not.
  `ShownIsAsked` is therefore stated for boards whose operations leave the second
  read alone;
* some reads have no generation at all (`DlqRocketMQ.tsx:101`,
  `useServiceBusDeadLetters.ts:76`, `useKinesisShards.ts:26`,
  `useKafkaMessages.ts:104`);
* dialogs whose effect depends on an array that every refresh renews lose what is
  being typed (`ResetOffsetDialogKafka.tsx:97`, `ReassignDialogKafka.tsx`,
  `QuotaDialogKafka.tsx`, `SubscriptionDialogPulsar.tsx`); those that look their
  row up again become an empty form, name unlocked, when the row goes
  (`TopicsRocketMQ.tsx:162`); a late success closes a dialog that was opened again;
  a dialog that is unmounted when it closes (`TopicsKafka.tsx:382`), or that resets
  `saving` when it opens (`TopicDialog.tsx:90`), allows a second submission beside
  the first;
* the streams poll every 400 ms without waiting for the previous answer
  (`useMqttStream.ts:137`): overlapping answers repeat messages; two starts before
  the first answer leave a stream nobody stops (line 97); an MQTT stop and a start
  on the same filter can leave the new stream unsubscribed (`subscribe.go:246`);
  `readSys` unsubscribes `$SYS/#` also when a stream watches it
  (`sysmetrics.go:138`), which leaves that stream deaf after the next look at the
  cluster;
  and the comment at `useMqttStream.ts:59` says that unmounting stops a stream,
  which the comment at line 166 and the code contradict.

## 4. Proofs

All theorems are proved for arbitrary constants under the named assumptions of
the modules, which TLC evaluates on every run (`ConstantsAssumption`,
`LoadAssumption`, `UpdateAssumption`, `BoundsAssumption`, `DialogsAssumption`,
`BoardsAssumption`, `HooksAssumption`): the bounds are natural numbers, `None` is no value of the
sets it is added to, imports are normalised, a dialog is a record of the shapes
`BoardShapes` builds and one that clears its draft once it has been sent closes at
that moment, a read of a board that follows the selection has a generation,
as `useBrokerData` has, and a stream hook that starts nothing shares no session.

`ConnectionServiceProofs`. None of the properties is inductive: what holds
"between operations" says nothing about the middle of one. `IInv` adds
`HolderInv` (a goroutine is inside an operation exactly when it owns
`runtimeMu`), `AfterInv` (which continuation goes with which step), `TargetInv`
(what the owner knows of its target: its client is open or closed, its profile is
stored and offline, or deleted) and `SettledInv` and `ActiveInv` (status
and client agree for every id but those the owner is working on). One lemma per
action, then `Invariance`, then one short theorem per property. `ReloadRestores`
needs one part more, `RestoreInv`, about what a reload knows at its end: either it
has dialled nothing, or the default it dialled is online and stays so, since
every operation that could take it offline waits for `runtimeMu`.

Its last part shows `Spec => ImplementsDirectory`: the mapping sends
the profile map to its persisted form and the clients to themselves; every step is
one abstract step or a stutter. `OpenClient` needs `InFlightDialIsCurrent`, since the abstract
step dials what the directory says at that moment; `Reload` and `Restart` need
`FileMirrorsMemory`.

`ConnectionLoadProofs` proves the loop invariant (every id in the map is below
`nextID`, the map has at most one default and `hasDefault` says whether it has
one) and that the second pass rebuilds the first map id by id, in ascending
order, which gives `LoadIsIdempotent`. `NothingLost`, `IdKept` and
`LoadKeepsMechanism` compare the finished map with the whole list and need to know
where each profile came from. `OriginInv` says that the map holds the entries read
so far (`Holds`): each of them once, under its own id or beside an earlier one that
has that id, with the mechanism it came with; the second pass starts from a map
that holds the whole list and, by `LoadIsIdempotent`'s invariant, ends with it.

`UpdateManagerProofs` splits the step into four lemmas: who holds `busy` and
`cancel` (`GuardStep`), which releases may be remembered or applied
(`VersionStep`, strengthened by `NewerInv`), what is in the directory
(`PackageStep`, strengthened by `SweptInv`), and what the panel shows
(`PhaseStep`, strengthened by `PendingInv`).

`BoardDialogProofs` is about any set of dialogs, so it covers a dialog that the
catalogue does not have yet. `SubmittedIsTyped` speaks of submissions that were
made in earlier openings and says nothing of the form itself; `IInv` adds
`DraftInv` (the draft of an open, mounted dialog is the one this opening filled,
its locked fields untouched) and `BusyInv` (only a dialog that is not always
rendered leaves an orphaned submission, and when it is gone it has no other; one
that is never declared idle by its effect is busy as long as its own submission
runs, so there is no second one). `FillFacts` and
`RenderFacts` say once what the effect and a render leave, and every action that
renders the board cites them.

`BoardProofs` is likewise about any set of boards. Four lemmas say what `Run`,
`Effect` and `Settle` do to a read; the list and the second read are then
treated apart. `WriteIsSeen` speaks of a list at rest; `ListInv` adds what is true
while requests are in the air: the current one was made when the broker was at
least as far as what is shown and as what is owed, so that any reply it may get is
new enough (`ListStep`, which also gives `NeverGoesBack`). `SecondInv` says the
same of what the second read asks for: the current request is about the entry of
the panel. A step either leaves that entry alone (`KeyKept`: it depends on what
the list shows, the selection and versions the broker has had) or renders, and
then the effect starts the read over (`RenderFacts`).

`ConnectionFormProofs` separates the forms from the dialog. `WellFormed` says how
the rules of one form must fit together (a mechanism is inferred only where
stored secrets can be kept; a form that preserves recognises every profile it has
saved; anonymous clears only where the mechanism is chosen and then sends nothing),
and `FamiliesWellFormed` shows it for each of the fifteen. The rest uses
`WellFormed` alone: a sixteenth form with these rules has the same properties.
`IInv` adds `DraftInv` (what the draft was told of the stored credentials is still
true when it is saved) and `ProfileInv` (a stored mechanism is one the form could
have submitted, so that `credentialsStored` misses no stored secret).

`LiveStreamProofs` is about any set of hooks of the two kinds. Of the parts of
`IInv`, `StreamInv` says what every call under way refers to and that only a poll
of the run that is on still counts. `TurnInv` says that a page nobody hurries
waits for one answer at a time, with nothing on screen; `OneInv` that the driver's
one stream belongs to the page, to the call that is asked for it or to a stop;
`HeardInv` that a stop beside a start is about a stream that is gone, and that
nobody watches what a stop is about to unsubscribe; `ReadInv` that no start is
beside a listing of its filter and nobody watches what a listing is about to
unsubscribe; `OrderInv` that the one poll
that counts goes on where the screen ends. Steps that touch no call but polls are
treated together (`Quiet`); the others are one case each. `AnswerFacts`,
`OrderedJoin` and `OrderedShow` say what the driver's ring answers and what the
page makes of it, for every size of both. The three properties end with the first
lapse they name; beyond it the code has no guard that would keep them (end of
section 3).

Model-checked only: `OperationsEnd`, `UpdaterRecovers`, `SpinnerEnds` and
`CatchesUp` stay with TLC, since liveness under fairness is beyond the proof system. Every invariant and
action property that a passing run checks is stated by a theorem.

## 5. Not modelled

A connection file that cannot be read at start-up or is removed by hand, the
settings a dial fills blanks from, encryption, JSON, the steps
inside an atomic write; the mirrors' race and the digest check; the renames of
`applyBundle`; listeners and the tray; settings; configuration import beyond the
two operations it calls; the collector; broker drivers but for their live streams.

Of the frontend: the shell (tabs, the copy of the profile list, settings page,
alert rules); of the boards, what is layout or formatting, search and sorting; of
the dialogs, the validation of single fields; of the streams, a session that is
lost and found again. The generated bindings and the tables of protocols, icons
and translations have no control. `PROJECT.json` gives the reason for each part
and the hazards it brings.

## 6. Plan

1. Done: `ConnectionService`, `ConnectionDirectory`, proofs.
2. Done: `ConnectionLoad`, proofs of all its properties.
3. Done: `UpdateManager`, proofs.
4. Done: forms, boards, dialogs, streams, model-checked and proved.
5. `StatePump`: `publish` and `pump` of the update manager; the last state
   reaches the renderer and none arrives out of order.
6. `ConfigurationImport` composed with `ConnectionService`'s operations and the
   settings; `ConnectionNotify`: listeners and the tray's list.
7. `Storage`: the atomic write, `secret.key`, start-up with an unreadable file;
   `BundleSwap`: the renames of `applyBundle`, each with a crash between steps.
8. The mirrors' race, the collector and the throughput history, the shell's copy
   of the profiles, the alert rules.
