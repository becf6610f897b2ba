-------------------------- MODULE ConnectionService --------------------------
(***************************************************************************)
(* The connection service of MQ Studio together with the driver registry   *)
(* it drives (internal/service/connection, internal/app/runtime.go,        *)
(* internal/driver/registry.go).                                           *)
(*                                                                         *)
(* Any number of goroutines call the service: one per request of the       *)
(* renderer, the background ConnectDefault of app.New, the configuration   *)
(* service.  Two locks order them.  runtimeMu is held by a whole lifecycle *)
(* operation, across the network dial.  mu protects the profile map and    *)
(* is held for one critical section at a time, so a critical section of mu *)
(* is one step here; the exception is DeleteConnection, which keeps mu     *)
(* while it closes the client (see MuFree).  AddConnection and             *)
(* SetDefaultConnection take mu alone and so interleave with a dial that   *)
(* is in flight.                                                           *)
(*                                                                         *)
(* Data.  A profile's dial parameters are a pair: "compared" stands for    *)
(* the endpoints, timeout, ACL switch, options and secrets, which          *)
(* dialParametersChanged compares; "mechanism" for the authentication      *)
(* mechanism and the family, which the drivers also read and the           *)
(* comparison leaves out.  Name, group, remark and LastCheck are labels    *)
(* no step depends on and are left out.                                    *)
(***************************************************************************)
EXTENDS Integers, FiniteSetsExt

CONSTANTS
    Procs,          \* goroutines that call the service
    MaxID,          \* bound on profile ids (the code has none)
    Compared,       \* values of the compared dial parameters
    Mechanisms,     \* values of the parameters that are not compared
    Imports,        \* prepared profile maps ReplaceConnections may be given
    None            \* no profile, no client, no lock holder

Ids == 1..MaxID

Dial == [compared : Compared, mechanism : Mechanisms]

Profile == [dial : Dial, online : BOOLEAN, isDefault : BOOLEAN]

(* A profile as connections.json keeps it: Status is written as well, but   *)
(* every load resets it to offline.                                        *)
Record == [dial : Dial, isDefault : BOOLEAN]

Store == [Ids -> Profile \cup {None}]

Stored(m) == {id \in Ids : m[id] # None}

Defaults(m) == {id \in Stored(m) : m[id].isDefault}

(* One default profile as soon as there is any profile.                    *)
SingleDefault(m) == Stored(m) # {} => \E id \in Ids : Defaults(m) = {id}

(* What buildConnectionState makes of a list of profiles: all offline and   *)
(* exactly one default.  Module ConnectionLoad checks that it does.        *)
Normalised(m) ==
    /\ m \in Store
    /\ SingleDefault(m)
    /\ \A id \in Stored(m) : ~m[id].online

ASSUME ConstantsAssumption ==
    /\ MaxID \in Nat \ {0}
    /\ None \notin Procs
    /\ None \notin Dial
    /\ None \notin Profile
    /\ None \notin Record
    /\ \A m \in Imports : Normalised(m)

VARIABLES
    connections,      \* Service.connections
    nextID,           \* Service.nextID
    reconnectReload,  \* Service.reconnectReload
    file,             \* connections.json
    clients,          \* Registry.conns: the parameters each open client was dialled with
    activeID,         \* Registry.activeID
    runtimeMu,        \* the goroutine that holds Service.runtimeMu
    pc,               \* where each goroutine is
    target,           \* the profile id its operation is about
    resolved,         \* the parameters it resolved for the dial
    after             \* what it does once the client is closed or opened

store == <<connections, nextID, reconnectReload, file>>
registry == <<clients, activeID>>
locals == <<target, resolved, after>>
vars == <<store, registry, runtimeMu, pc, locals>>

(* Steps of an operation that run under runtimeMu.                         *)
RuntimeSteps == {"resolve", "dial", "opened", "connected", "close", "promote",
                 "offline", "closeAll", "clear", "test"}

(* "connectCall": ConnectDefault has read the default id and has yet to    *)
(* take runtimeMu in Connect.                                              *)
Steps == RuntimeSteps \cup {"idle", "connectCall"}

(* Continuations: "return", "redial" (UpdateConnection and SetOption),     *)
(* "offline" (Disconnect), "deleted" (DeleteConnection, which still holds  *)
(* mu), "restore" (restoreRuntimeLocked).                                  *)
Continuations == {"return", "redial", "offline", "deleted", "restore"}

TypeOK ==
    /\ connections \in Store
    /\ nextID \in 1..(MaxID + 1)
    /\ reconnectReload \in BOOLEAN
    /\ file \in [Ids -> Record \cup {None}]
    /\ clients \in [Ids -> Dial \cup {None}]
    /\ activeID \in Ids \cup {0}
    /\ runtimeMu \in Procs \cup {None}
    /\ pc \in [Procs -> Steps]
    /\ target \in [Procs -> Ids]
    /\ resolved \in [Procs -> Dial \cup {None}]
    /\ after \in [Procs -> Continuations]
-----------------------------------------------------------------------------
(***************************************************************************)
(* Helpers of the store.                                                   *)
(***************************************************************************)

(* encodeConnectionsForDisk: what saveConnectionsLocked writes.            *)
Persisted(m) ==
    [id \in Ids |-> IF m[id] = None THEN None
                    ELSE [dial |-> m[id].dial, isDefault |-> m[id].isDefault]]

(* loadConnectionsFromFile: every profile comes back offline.              *)
Loaded(f) ==
    [id \in Ids |-> IF f[id] = None THEN None
                    ELSE [dial |-> f[id].dial, online |-> FALSE,
                          isDefault |-> f[id].isDefault]]

(* Mutants: nextID is the last id handed out; nextID is advanced twice.    *)
NextFree_LastUsed(m) == IF Stored(m) = {} THEN 1 ELSE Max(Stored(m))
NextFree_Twice(m) == IF Stored(m) = {} THEN 1 ELSE Max(Stored(m)) + 2

(* The id buildConnectionState hands out next.                             *)
NextFree(m) == IF Stored(m) = {} THEN 1 ELSE Max(Stored(m)) + 1

DefaultID(m) == CHOOSE id \in Defaults(m) : TRUE

(* Mutant: an edit never counts as a change of the dial parameters.        *)
dialParametersChanged_Never(previous, current) == FALSE

dialParametersChanged(previous, current) == previous.compared # current.compared

AnyOnline == \E id \in Stored(connections) : connections[id].online

(* mu is free unless a DeleteConnection is closing its client.             *)
MuFree ==
    \A p \in Procs : ~(pc[p] \in {"close", "promote"} /\ after[p] = "deleted")

(* Mutant: a failed save leaves the new map in memory.                     *)
SaveOrRollback_NoRollback(m) ==
    connections' = m /\ (file' = Persisted(m) \/ UNCHANGED file)

(* saveConnectionsLocked of a mutated map.  The write is atomic (temporary  *)
(* file and rename); when it fails the caller puts the map back.           *)
SaveOrRollback(m) ==
    \/ connections' = m /\ file' = Persisted(m)
    \/ UNCHANGED <<connections, file>>
-----------------------------------------------------------------------------
(***************************************************************************)
(* Control flow of one goroutine.                                          *)
(***************************************************************************)

(* Take runtimeMu for an operation on id and go to its first step.         *)
Acquire(p, id, step, continuation) ==
    /\ runtimeMu = None
    /\ runtimeMu' = p
    /\ pc' = [pc EXCEPT ![p] = step]
    /\ target' = [target EXCEPT ![p] = id]
    /\ after' = [after EXCEPT ![p] = continuation]
    /\ UNCHANGED resolved

(* Go on inside the operation.                                             *)
Goto(p, step) ==
    /\ pc' = [pc EXCEPT ![p] = step]
    /\ UNCHANGED <<runtimeMu, target, after>>

(* Return: the deferred unlock of runtimeMu runs on every path, and the     *)
(* operation's local variables are gone.                                   *)
Return(p) ==
    /\ runtimeMu' = None
    /\ pc' = [pc EXCEPT ![p] = "idle"]
    /\ target' = [target EXCEPT ![p] = 1]
    /\ resolved' = [resolved EXCEPT ![p] = None]
    /\ after' = [after EXCEPT ![p] = "return"]

Idle(p) == pc[p] = "idle"
-----------------------------------------------------------------------------
(***************************************************************************)
(* Operations that take mu alone.                                          *)
(***************************************************************************)

AddConnection(p, d) ==
    /\ Idle(p) /\ MuFree
    /\ nextID \in Ids
    /\ \/ /\ connections' = [connections EXCEPT ![nextID] =
                [dial |-> d, online |-> FALSE, isDefault |-> Stored(connections) = {}]]
          /\ file' = Persisted(connections')
          /\ nextID' = nextID + 1
       \/ UNCHANGED <<connections, file, nextID>>      \* save failed: entry deleted
    /\ UNCHANGED <<reconnectReload, registry, runtimeMu, pc, locals>>

(* Mutant: the flag of the previous default is not cleared.                *)
WithDefault_KeepsPrevious(m, id) == [m EXCEPT ![id].isDefault = TRUE]

(* The map with the default flag moved to id.                              *)
WithDefault(m, id) ==
    [i \in Ids |-> IF m[i] = None THEN None ELSE [m[i] EXCEPT !.isDefault = (i = id)]]

SetDefaultConnection(p, id) ==
    /\ Idle(p) /\ MuFree
    /\ id \in Stored(connections)
    /\ ~connections[id].isDefault
    /\ SaveOrRollback(WithDefault(connections, id))
    /\ UNCHANGED <<nextID, reconnectReload, registry, runtimeMu, pc, locals>>

(* ConnectDefault reads the default id under mu, lets go of it and calls    *)
(* Connect, which queues for runtimeMu.                                    *)
ConnectDefault(p) ==
    /\ Idle(p) /\ MuFree
    /\ Defaults(connections) # {}
    /\ pc' = [pc EXCEPT ![p] = "connectCall"]
    /\ target' = [target EXCEPT ![p] = DefaultID(connections)]
    /\ after' = [after EXCEPT ![p] = "return"]
    /\ UNCHANGED <<store, registry, runtimeMu, resolved>>
-----------------------------------------------------------------------------
(***************************************************************************)
(* Operations under runtimeMu.                                             *)
(***************************************************************************)

(* Mutant: the profile is marked offline and its client left open.         *)
StoreEdit_NoRemove(p, id, edited, redial) ==
    /\ connections' = [connections EXCEPT ![id] = edited]
    /\ file' = Persisted(connections')
    /\ UNCHANGED <<runtimeMu, pc, locals>>

(* The common second half of UpdateConnection and SetOption: the edited     *)
(* profile is saved, and an open client it invalidates is closed and        *)
(* dialled again.  A failed save restores the previous profile.            *)
StoreEdit(p, id, edited, redial) ==
    \/ /\ connections' = [connections EXCEPT ![id] = edited]
       /\ file' = Persisted(connections')
       /\ IF redial THEN Acquire(p, id, "close", "redial")
                    ELSE UNCHANGED <<runtimeMu, pc, locals>>
    \/ UNCHANGED <<connections, file, runtimeMu, pc, locals>>

(* Mutant: an edit that needs no redial does not wait for runtimeMu.       *)
UpdateConnection_NoRuntimeMu(p, id, d) ==
    /\ Idle(p) /\ MuFree
    /\ id \in Stored(connections)
    /\ ~connections[id].online
    /\ connections' = [connections EXCEPT ![id].dial = d]
    /\ file' = Persisted(connections')
    /\ UNCHANGED <<nextID, reconnectReload, registry, runtimeMu, pc, locals>>

UpdateConnection(p, id, d) ==
    /\ Idle(p) /\ MuFree /\ runtimeMu = None
    /\ id \in Stored(connections)
    /\ LET previous == connections[id]
           changed == dialParametersChanged(previous.dial, d)
       IN  StoreEdit(p, id,
                     [previous EXCEPT !.dial = d, !.online = @ /\ ~changed],
                     changed /\ previous.online)
    /\ UNCHANGED <<nextID, reconnectReload, registry>>

(* Only the options change, and an equal value returns before the save.    *)
SetOption(p, id, d) ==
    /\ Idle(p) /\ MuFree /\ runtimeMu = None
    /\ id \in Stored(connections)
    /\ d.mechanism = connections[id].dial.mechanism
    /\ d.compared # connections[id].dial.compared
    /\ LET previous == connections[id]
       IN  StoreEdit(p, id, [previous EXCEPT !.dial = d, !.online = FALSE], previous.online)
    /\ UNCHANGED <<nextID, reconnectReload, registry>>

(* The default profile can go only as the last one, so the code that would  *)
(* pick another default after the deletion never runs.  The client is       *)
(* closed with both locks held.                                            *)
DeleteConnection(p, id) ==
    /\ Idle(p) /\ MuFree /\ runtimeMu = None
    /\ id \in Stored(connections)
    /\ ~(connections[id].isDefault /\ Stored(connections) # {id})
    /\ \/ /\ connections' = [connections EXCEPT ![id] = None]
          /\ file' = Persisted(connections')
          /\ IF connections[id].online THEN Acquire(p, id, "close", "deleted")
                                       ELSE UNCHANGED <<runtimeMu, pc, locals>>
       \/ UNCHANGED <<connections, file, runtimeMu, pc, locals>>
    /\ UNCHANGED <<nextID, reconnectReload, registry>>

(* Connect, from the bridge and from ConnectDefault.                       *)
Connect(p, id) ==
    /\ \/ Idle(p)
       \/ pc[p] = "connectCall" /\ target[p] = id
    /\ Acquire(p, id, "resolve", "return")
    /\ UNCHANGED <<store, registry>>

Disconnect(p, id) ==
    /\ Idle(p) /\ MuFree
    /\ id \in Stored(connections)
    /\ Acquire(p, id, "close", "offline")
    /\ UNCHANGED <<store, registry>>

TestConnection(p, id) ==
    /\ Idle(p) /\ MuFree
    /\ id \in Stored(connections)
    /\ runtimeMu = None
    /\ runtimeMu' = p
    /\ pc' = [pc EXCEPT ![p] = "test"]
    /\ target' = [target EXCEPT ![p] = id]
    /\ resolved' = [resolved EXCEPT ![p] = connections[id].dial]
    /\ after' = [after EXCEPT ![p] = "return"]
    /\ UNCHANGED <<store, registry>>

(* reloadPlanLocked and finalizeReloadPlanLocked, around the replacement of *)
(* the map.  reconnectReload then is the plan's shouldReconnect until this  *)
(* operation clears it: nothing else writes it under runtimeMu.            *)
ReplaceMap(p, m) ==
    /\ reconnectReload' = (reconnectReload \/ AnyOnline)
    /\ connections' = m
    /\ nextID' = NextFree(m)
    /\ Acquire(p, target[p], "closeAll", "restore")

(* Reload: a file that cannot be read leaves everything as it was.  A file   *)
(* that does not exist is one without profiles: nothing was ever saved, and  *)
(* nothing is in memory.  Somebody who removes the file by hand while the    *)
(* program runs is not modelled.                                           *)
Reload(p) ==
    /\ Idle(p) /\ MuFree /\ runtimeMu = None
    /\ \/ ReplaceMap(p, Loaded(file)) /\ UNCHANGED file
       \/ UNCHANGED <<store, runtimeMu, pc, locals>>
    /\ UNCHANGED registry

(* ReplaceConnections of profiles prepareReplacement has already prepared. *)
ReplaceConnections(p, m) ==
    /\ Idle(p) /\ MuFree /\ runtimeMu = None
    /\ \/ ReplaceMap(p, m) /\ file' = Persisted(m)
       \/ UNCHANGED <<store, runtimeMu, pc, locals>>
    /\ UNCHANGED registry
-----------------------------------------------------------------------------
(***************************************************************************)
(* The steps of those operations.                                          *)
(***************************************************************************)

(* connectRuntimeLocked, first critical section: resolvedProfileLocked.  The *)
(* application settings, which fill a blank timeout and a blank ACL pair at  *)
(* every dial, do not change here: what is dialled is a function of what is  *)
(* stored, and stands for it.                                              *)
Resolve(p) ==
    /\ pc[p] = "resolve" /\ MuFree
    /\ IF target[p] \in Stored(connections)
       THEN /\ resolved' = [resolved EXCEPT ![p] = connections[target[p]].dial]
            /\ Goto(p, "dial")
       ELSE Return(p)
    /\ UNCHANGED <<store, registry>>

(* Mutant: restoreRuntimeLocked ignores the error of the dial.             *)
DialFails_Ignored(p) ==
    /\ pc[p] = "dial"
    /\ IF after[p] = "restore" THEN Goto(p, "clear") /\ UNCHANGED resolved ELSE Return(p)
    /\ UNCHANGED <<store, registry>>

(* The dial fails or times out; the client that was open stays open.       *)
DialFails(p) ==
    /\ pc[p] = "dial"
    /\ Return(p)
    /\ UNCHANGED <<store, registry>>

(* Mutant: the registry keeps one shared client.                           *)
OpenClient_Shared(p) ==
    /\ pc[p] = "dial"
    /\ clients' = [id \in Ids |-> IF id = target[p] THEN resolved[p] ELSE None]
    /\ Goto(p, "opened")
    /\ UNCHANGED <<store, activeID, resolved>>

(* Registry.Open: the dialled client replaces the one open before.         *)
OpenClient(p) ==
    /\ pc[p] = "dial"
    /\ clients' = [clients EXCEPT ![target[p]] = resolved[p]]
    /\ Goto(p, "opened")
    /\ UNCHANGED <<store, activeID, resolved>>

(* Registry.SetActive from registryRuntime.Connect.                        *)
SetActive(p) ==
    /\ pc[p] = "opened"
    /\ clients[target[p]] # None
    /\ activeID' = target[p]
    /\ Goto(p, "connected")
    /\ UNCHANGED <<store, clients, resolved>>

(* connectRuntimeLocked, second critical section.  A failed save leaves the *)
(* profile online and returns an error, which ends restoreRuntimeLocked    *)
(* before it clears reconnectReload.                                       *)
MarkOnline(p) ==
    /\ pc[p] = "connected" /\ MuFree
    /\ connections' = IF target[p] \in Stored(connections)
                      THEN [connections EXCEPT ![target[p]].online = TRUE]
                      ELSE connections
    /\ \/ /\ file' = Persisted(connections')
          /\ IF after[p] = "restore" THEN Goto(p, "clear") /\ UNCHANGED resolved
                                    ELSE Return(p)
       \/ file' = file /\ Return(p)
    /\ UNCHANGED <<nextID, reconnectReload, registry>>

(* Mutant: the closed connection stays the active one.                     *)
CloseClient_StaysActive(p) ==
    /\ pc[p] = "close"
    /\ clients' = [clients EXCEPT ![target[p]] = None]
    /\ Goto(p, "promote")
    /\ UNCHANGED <<store, activeID, resolved>>

(* Registry.Close.                                                         *)
CloseClient(p) ==
    /\ pc[p] = "close"
    /\ clients' = [clients EXCEPT ![target[p]] = None]
    /\ activeID' = IF activeID = target[p] THEN 0 ELSE activeID
    /\ Goto(p, "promote")
    /\ UNCHANGED <<store, resolved>>

Open(c) == {id \in Ids : c[id] # None}

(* Mutant: Remove asks the service something and so waits for mu, which     *)
(* DeleteConnection holds.                                                 *)
PromoteActive_WaitsForMu(p) ==
    /\ pc[p] = "promote" /\ MuFree
    /\ activeID' = IF activeID \notin Open(clients) /\ Open(clients) # {}
                   THEN Min(Open(clients)) ELSE activeID
    /\ \/ after[p] = "redial" /\ Goto(p, "resolve") /\ UNCHANGED resolved
       \/ after[p] = "offline" /\ Goto(p, "offline") /\ UNCHANGED resolved
       \/ after[p] = "deleted" /\ Return(p)
    /\ UNCHANGED <<store, clients>>

(* The rest of registryRuntime.Remove: with no active client the open one   *)
(* with the lowest id becomes active; then the caller goes on.             *)
PromoteActive(p) ==
    /\ pc[p] = "promote"
    /\ activeID' = IF activeID \notin Open(clients) /\ Open(clients) # {}
                   THEN Min(Open(clients)) ELSE activeID
    /\ \/ after[p] = "redial" /\ Goto(p, "resolve") /\ UNCHANGED resolved
       \/ after[p] = "offline" /\ Goto(p, "offline") /\ UNCHANGED resolved
       \/ after[p] = "deleted" /\ Return(p)
    /\ UNCHANGED <<store, clients>>

(* disconnectRuntimeLocked after the removal; a failed save only reports.  *)
MarkOffline(p) ==
    /\ pc[p] = "offline" /\ MuFree
    /\ connections' = IF target[p] \in Stored(connections)
                      THEN [connections EXCEPT ![target[p]].online = FALSE]
                      ELSE connections
    /\ \/ file' = Persisted(connections')
       \/ file' = file
    /\ Return(p)
    /\ UNCHANGED <<nextID, reconnectReload, registry>>

(* restoreRuntimeLocked: Registry.CloseAll, then the default is looked up.  *)
(* What may run between the two takes mu alone and reads no client.        *)
CloseAll(p) ==
    /\ pc[p] = "closeAll" /\ MuFree
    /\ clients' = [id \in Ids |-> None]
    /\ activeID' = 0
    /\ IF reconnectReload /\ Defaults(connections) # {}
       THEN /\ pc' = [pc EXCEPT ![p] = "resolve"]
            /\ target' = [target EXCEPT ![p] = DefaultID(connections)]
            /\ UNCHANGED <<runtimeMu, after>>
       ELSE Goto(p, "clear")
    /\ UNCHANGED <<store, resolved>>

(* The end of restoreRuntimeLocked.                                        *)
ClearReload(p) ==
    /\ pc[p] = "clear" /\ MuFree
    /\ reconnectReload' = FALSE
    /\ Return(p)
    /\ UNCHANGED <<connections, nextID, file, registry>>

(* TestConnection's probe returns; only LastCheck is written.              *)
TestDone(p) ==
    /\ pc[p] = "test" /\ MuFree
    /\ Return(p)
    /\ UNCHANGED <<store, registry>>

(* The process ends at any point, by a quit or a crash, and is started      *)
(* again: New loads the file, nothing is open and no goroutine is left.    *)
Restart ==
    /\ connections' = Loaded(file)
    /\ nextID' = NextFree(Loaded(file))
    /\ reconnectReload' = FALSE
    /\ clients' = [id \in Ids |-> None]
    /\ activeID' = 0
    /\ runtimeMu' = None
    /\ pc' = [p \in Procs |-> "idle"]
    /\ target' = [p \in Procs |-> 1]
    /\ resolved' = [p \in Procs |-> None]
    /\ after' = [p \in Procs |-> "return"]
    /\ UNCHANGED file
-----------------------------------------------------------------------------
Init ==
    /\ connections = [id \in Ids |-> None]
    /\ nextID = 1
    /\ reconnectReload = FALSE
    /\ file = [id \in Ids |-> None]
    /\ clients = [id \in Ids |-> None]
    /\ activeID = 0
    /\ runtimeMu = None
    /\ pc = [p \in Procs |-> "idle"]
    /\ target = [p \in Procs |-> 1]
    /\ resolved = [p \in Procs |-> None]
    /\ after = [p \in Procs |-> "return"]

(* What callers may ask for.                                               *)
Calls(p) ==
    \/ \E d \in Dial : AddConnection(p, d)
    \/ ConnectDefault(p)
    \/ Reload(p)
    \/ \E m \in Imports : ReplaceConnections(p, m)
    \/ \E id \in Ids :
          \/ SetDefaultConnection(p, id)
          \/ DeleteConnection(p, id)
          \/ Connect(p, id)
          \/ Disconnect(p, id)
          \/ TestConnection(p, id)
          \/ \E d \in Dial : UpdateConnection(p, id, d) \/ SetOption(p, id, d)

(* What an operation does on its own once it has runtimeMu.                *)
Progress(p) ==
    \/ Resolve(p) \/ DialFails(p) \/ OpenClient(p) \/ SetActive(p) \/ MarkOnline(p)
    \/ CloseClient(p) \/ PromoteActive(p) \/ MarkOffline(p)
    \/ CloseAll(p) \/ ClearReload(p) \/ TestDone(p)

Next ==
    \/ \E p \in Procs : Calls(p) \/ Progress(p)
    \/ Restart

Spec == Init /\ [][Next]_vars

(* A goroutine that holds runtimeMu keeps running: every wait in it is a    *)
(* dial bounded by its timeout or a critical section of mu.  The queued     *)
(* Connect of ConnectDefault gets the mutex in the end: sync.Mutex hands    *)
(* itself to a waiter starved for more than a millisecond.                 *)
FairSpec ==
    /\ Spec
    /\ \A p \in Procs :
          /\ WF_vars(Progress(p))
          /\ SF_vars(pc[p] = "connectCall" /\ \E id \in Ids : Connect(p, id))
-----------------------------------------------------------------------------
(***************************************************************************)
(* Properties.  "Quiescent" is a moment at which no lifecycle operation is  *)
(* under way: the moments at which a caller that takes runtimeMu can look. *)
(***************************************************************************)
Quiescent == runtimeMu = None

(* A profile is marked online exactly when the registry holds a client for  *)
(* it: no failed save, failed redial, deletion, reload or import leaves an  *)
(* online profile without a client, or a client nothing in the list names   *)
(* and DeleteConnection (which closes only online profiles) would leak.    *)
StatusTracksClient ==
    Quiescent => \A id \in Ids :
        clients[id] # None <=> (id \in Stored(connections) /\ connections[id].online)

(* An open client was dialled with the parameters its profile holds now:    *)
(* an edit through UpdateConnection, SetOption, Reload or an import never   *)
(* leaves a client of the old endpoints, options or secrets behind.        *)
ClientDialledAsStored ==
    Quiescent => \A id \in Open(clients) :
        id \in Stored(connections) /\ clients[id].compared = connections[id].dial.compared

(* While a dial or a probe is in flight the profile it was resolved from is *)
(* still stored unchanged, although mu has been released: the result of the *)
(* dial is never applied to another profile that took over the id.         *)
InFlightDialIsCurrent ==
    \A p \in Procs : pc[p] \in {"dial", "opened", "connected", "test"} =>
        /\ target[p] \in Stored(connections)
        /\ connections[target[p]].dial = resolved[p]

(* In memory and on disk there is exactly one default profile as soon as    *)
(* there is a profile, also after a failed save put the flags back.        *)
OneDefault == SingleDefault(connections) /\ SingleDefault(file)

(* The file always holds what memory holds, apart from the online flags: a  *)
(* save that fails is undone in memory, so a crash at any point brings the  *)
(* profiles the user last saw back.                                        *)
FileMirrorsMemory == file = Persisted(connections)

(* Background sampling has a client to read whenever one is open: closing   *)
(* the active connection hands the role to another open one.               *)
ActiveFollowsOpen ==
    /\ activeID # 0 => activeID \in Open(clients)
    /\ Quiescent /\ Open(clients) # {} => activeID # 0

(* AddConnection never overwrites a stored profile.                        *)
NextIDFresh == \A id \in Stored(connections) : id < nextID

(* A reload or import that found a connection online, and a default to      *)
(* dial in its place, does not forget to restore one: unless the process    *)
(* ends, reconnectReload is cleared only with a connection back online.  A  *)
(* failed dial or a failed save keeps it for the next reload.              *)
ReloadRestores ==
    [][reconnectReload /\ ~reconnectReload' =>
         \/ AnyOnline
         \/ \E p \in Procs : pc[p] = "clear" /\ resolved[p] = None
         \/ Restart]_vars

(* Every operation ends: runtimeMu is always free again, and the Connect    *)
(* queued by ConnectDefault gets its turn, unless the process restarts.    *)
OperationsEnd ==
    /\ []<>(runtimeMu = None)
    /\ \A p \in Procs : pc[p] = "connectCall" ~> pc[p] = "idle"

(* The stored mechanism is a dial parameter too, so the comment on          *)
(* dialParametersChanged ("an open client is now dialled with something     *)
(* the stored profile no longer says") promises this; an edit of the        *)
(* mechanism alone breaks it.                                              *)
ClientDialledWithMechanism ==
    Quiescent => \A id \in Open(clients) \cap Stored(connections) :
        clients[id] = connections[id].dial
-----------------------------------------------------------------------------
(***************************************************************************)
(* The inductive invariant behind the properties above: what holds while an *)
(* operation is under way.                                                 *)
(***************************************************************************)

(* Exactly the goroutine inside an operation holds runtimeMu.              *)
HolderInv == \A p \in Procs : pc[p] \in RuntimeSteps <=> runtimeMu = p

(* The continuation fits the step.                                         *)
AfterInv ==
    \A p \in Procs :
        /\ pc[p] \in {"closeAll", "clear"} => after[p] = "restore"
        /\ pc[p] \in {"resolve", "dial", "opened", "connected"} =>
               after[p] \in {"return", "redial", "restore"}
        /\ pc[p] \in {"close", "promote"} => after[p] \in {"redial", "offline", "deleted"}
        /\ pc[p] = "offline" => after[p] = "offline"
        /\ pc[p] \in {"test", "connectCall"} => after[p] = "return"

(* What a goroutine in the middle of an operation knows about its target.  *)
TargetInv ==
    \A p \in Procs :
        /\ pc[p] \in {"promote", "offline"} => clients[target[p]] = None
        /\ pc[p] \in {"opened", "connected"} => clients[target[p]] = resolved[p]
        /\ pc[p] = "closeAll" => ~AnyOnline
        /\ pc[p] \in {"close", "promote"} /\ after[p] = "redial" =>
               target[p] \in Stored(connections) /\ ~connections[target[p]].online
        /\ pc[p] \in {"close", "promote"} /\ after[p] = "deleted" =>
               target[p] \notin Stored(connections)

(* Status and client of id are being brought in line by some goroutine.    *)
Unsettled(id) ==
    \E p \in Procs :
        \/ pc[p] = "closeAll"
        \/ pc[p] \in {"close", "promote", "offline", "opened", "connected"} /\ target[p] = id

SettledInv ==
    \A id \in Ids : ~Unsettled(id) =>
        /\ clients[id] # None <=> (id \in Stored(connections) /\ connections[id].online)
        /\ clients[id] # None => clients[id].compared = connections[id].dial.compared

ActiveInv ==
    /\ activeID # 0 => activeID \in Open(clients)
    /\ Open(clients) # {} /\ activeID = 0 =>
           \E p \in Procs : pc[p] \in {"promote", "opened"}

(* The whole inductive invariant.                                          *)
IInv ==
    /\ TypeOK /\ HolderInv /\ AfterInv /\ InFlightDialIsCurrent /\ TargetInv
    /\ SettledInv /\ OneDefault /\ FileMirrorsMemory /\ ActiveInv /\ NextIDFresh

(* What a reload knows at its end: it has either dialled nothing, or the     *)
(* default it dialled is online and stays so until runtimeMu is free.       *)
RestoreInv ==
    \A p \in Procs :
        /\ pc[p] \in {"idle", "connectCall", "resolve", "close", "promote", "closeAll"} =>
               resolved[p] = None
        /\ pc[p] = "clear" /\ resolved[p] # None => AnyOnline
-----------------------------------------------------------------------------
(* The service with its locks, dials and failures implements the atomic      *)
(* directory: memory, seen without the online flags, is the durable map.    *)
Directory == INSTANCE ConnectionDirectory WITH profiles <- Persisted(connections)

ImplementsDirectory == Directory!Spec
=============================================================================
