---------------------- MODULE ConnectionServiceProofs ----------------------
(***************************************************************************)
(* Proofs about ConnectionService, for every set of goroutines, every bound *)
(* on the ids and every set of parameters.                                 *)
(***************************************************************************)
EXTENDS ConnectionService, NaturalSets, TLAPS

(***************************************************************************)
(* The store and its file.                                                 *)
(***************************************************************************)

Files == [Ids -> Record \cup {None}]

(* What is written is a file; what is loaded back is the same store with    *)
(* every profile offline, and writing it again gives the same file.        *)
LEMMA PersistedType ==
    ASSUME NEW m \in Store
    PROVE  /\ Persisted(m) \in Files
           /\ Stored(Persisted(m)) = Stored(m)
           /\ \A id \in Stored(m) : /\ Persisted(m)[id].dial = m[id].dial
                                    /\ Persisted(m)[id].isDefault = m[id].isDefault
<1>1. \A id \in Ids : m[id] # None =>
        [dial |-> m[id].dial, isDefault |-> m[id].isDefault] \in Record
  BY DEF Store, Profile, Record
<1>2. QED
  BY <1>1, ConstantsAssumption DEF Persisted, Files, Stored

(* What loadConnectionsFromFile makes of a file is a map of offline        *)
(* profiles.                                                               *)
LEMMA LoadedType ==
    ASSUME NEW f \in Files
    PROVE  /\ Loaded(f) \in Store
           /\ Stored(Loaded(f)) = Stored(f)
           /\ \A id \in Stored(f) : /\ Loaded(f)[id].dial = f[id].dial
                                    /\ Loaded(f)[id].isDefault = f[id].isDefault
                                    /\ ~Loaded(f)[id].online
<1>1. \A id \in Ids : f[id] # None =>
        [dial |-> f[id].dial, online |-> FALSE, isDefault |-> f[id].isDefault] \in Profile
  BY DEF Files, Profile, Record
<1>2. QED
  BY <1>1, ConstantsAssumption DEF Loaded, Store, Stored

(* Saving what was just loaded gives the file back.                        *)
LEMMA PersistedLoaded ==
    ASSUME NEW f \in Files
    PROVE  Persisted(Loaded(f)) = f
<1>1. \A id \in Ids : f[id] # None =>
        f[id] = [dial |-> f[id].dial, isDefault |-> f[id].isDefault]
  BY DEF Files, Record
<1>2. \A id \in Ids : Persisted(Loaded(f))[id] = f[id]
  BY <1>1, LoadedType DEF Persisted, Loaded, Stored
<1>3. QED
  BY <1>2 DEF Persisted, Files

(* A save and a load keep the default flags.                               *)
LEMMA DefaultsKept ==
    /\ \A m \in Store : Defaults(Persisted(m)) = Defaults(m)
    /\ \A f \in Files : Defaults(Loaded(f)) = Defaults(f)
BY PersistedType, LoadedType DEF Defaults

(* buildConnectionState hands out an id above every stored one.            *)
LEMMA NextFreeFresh ==
    ASSUME NEW m \in Store
    PROVE  /\ NextFree(m) \in 1..(MaxID + 1)
           /\ \A id \in Stored(m) : id < NextFree(m)
<1>1. CASE Stored(m) = {}
  BY <1>1, ConstantsAssumption DEF NextFree
<1>2. CASE Stored(m) # {}
  <2>1. /\ Stored(m) \subseteq Ids /\ Stored(m) \subseteq Nat /\ MaxID \in Nat
        /\ \A y \in Stored(m) : y =< MaxID
    BY ConstantsAssumption DEF Stored, Ids
  <2>2. Max(Stored(m)) \in Ids /\ \A y \in Stored(m) : y =< Max(Stored(m))
    BY <1>2, <2>1, MaxIsGreatest
  <2>3. QED
    BY <1>2, <2>1, <2>2, ConstantsAssumption DEF NextFree, Ids
<1>3. QED
  BY <1>1, <1>2

(* Two maps that differ at most in their online flags are saved alike, and  *)
(* a map has one default exactly when its file has.                        *)
SameRecords(m, n) ==
    /\ Stored(m) = Stored(n)
    /\ \A id \in Stored(n) : m[id].dial = n[id].dial /\ m[id].isDefault = n[id].isDefault

(* Maps with the same records are saved as the same file, and one has a    *)
(* single default when the other has.                                      *)
LEMMA SavedAlike ==
    ASSUME NEW m \in Store, NEW n \in Store, SameRecords(m, n)
    PROVE  /\ Persisted(m) = Persisted(n)
           /\ SingleDefault(n) => SingleDefault(m)
<1>1. \A id \in Ids : m[id] = None <=> n[id] = None
  BY DEF SameRecords, Stored
<1>2. Persisted(m) = Persisted(n)
  BY <1>1 DEF SameRecords, Persisted, Stored
<1>3. Defaults(m) = Defaults(n)
  BY DEF SameRecords, Defaults
<1>4. QED
  BY <1>2, <1>3 DEF SameRecords, SingleDefault

(* encodeConnectionsForDisk keeps a single default single.                 *)
LEMMA SavedDefault ==
    ASSUME NEW m \in Store
    PROVE  SingleDefault(Persisted(m)) <=> SingleDefault(m)
BY PersistedType, DefaultsKept DEF SingleDefault

(***************************************************************************)
(* Control.                                                                *)
(***************************************************************************)

ControlOK ==
    /\ runtimeMu \in Procs \cup {None}
    /\ pc \in [Procs -> Steps]
    /\ target \in [Procs -> Ids]
    /\ resolved \in [Procs -> Dial \cup {None}]
    /\ after \in [Procs -> Continuations]

(* A step of p leaves the control state of the other goroutines alone.     *)
OthersKeep(p) ==
    \A q \in Procs \ {p} : /\ pc'[q] = pc[q] /\ target'[q] = target[q]
                           /\ after'[q] = after[q] /\ resolved'[q] = resolved[q]

(* What taking runtimeMu, going on and returning do to the control state.  *)
LEMMA ControlFrame ==
    ASSUME ControlOK, NEW p \in Procs
    PROVE  /\ Return(p) =>
                /\ ControlOK' /\ OthersKeep(p)
                /\ runtimeMu' = None /\ pc'[p] = "idle" /\ target'[p] = 1 /\ after'[p] = "return"
           /\ \A s \in Steps : Goto(p, s) /\ UNCHANGED resolved =>
                /\ ControlOK' /\ OthersKeep(p)
                /\ pc'[p] = s
           /\ \A id \in Ids, s \in Steps, c \in Continuations : Acquire(p, id, s, c) =>
                /\ ControlOK' /\ OthersKeep(p)
                /\ runtimeMu' = p /\ pc'[p] = s /\ target'[p] = id /\ after'[p] = c
<1>1. ASSUME Return(p)
      PROVE  /\ ControlOK' /\ OthersKeep(p)
             /\ runtimeMu' = None /\ pc'[p] = "idle" /\ target'[p] = 1 /\ after'[p] = "return"
  <2>1. 1 \in Ids /\ "idle" \in Steps /\ "return" \in Continuations
    BY ConstantsAssumption DEF Ids, Steps, Continuations
  <2>2. QED
    BY <1>1, <2>1 DEF ControlOK, Return, OthersKeep
<1>2. ASSUME NEW s \in Steps, Goto(p, s), UNCHANGED resolved
      PROVE  ControlOK' /\ OthersKeep(p) /\ pc'[p] = s
  BY <1>2 DEF ControlOK, Goto, OthersKeep
<1>3. ASSUME NEW id \in Ids, NEW s \in Steps, NEW c \in Continuations, Acquire(p, id, s, c)
      PROVE  /\ ControlOK' /\ OthersKeep(p)
             /\ runtimeMu' = p /\ pc'[p] = s /\ target'[p] = id /\ after'[p] = c
  BY <1>3 DEF ControlOK, Acquire, OthersKeep
<1>4. QED
  BY <1>1, <1>2, <1>3

(* runtimeMu lets one goroutine at a time into an operation.               *)
LEMMA Alone ==
    ASSUME IInv, NEW p \in Procs, runtimeMu = None \/ pc[p] \in RuntimeSteps
    PROVE  \A q \in Procs \ {p} : pc[q] \notin RuntimeSteps
BY ConstantsAssumption DEF IInv, HolderInv

(* The parts of the invariant that only speak of the stored profiles.      *)
StoreInv ==
    /\ connections \in Store
    /\ nextID \in 1..(MaxID + 1)
    /\ reconnectReload \in BOOLEAN
    /\ file = Persisted(connections)
    /\ SingleDefault(connections)
    /\ NextIDFresh

(* The store part follows from the whole invariant.                        *)
LEMMA StoreInvHolds ==
    ASSUME IInv
    PROVE  StoreInv
BY DEF IInv, TypeOK, OneDefault, FileMirrorsMemory, StoreInv

(* How the proofs below put the invariant of the next state together.      *)
LEMMA Assemble ==
    ASSUME StoreInv', ControlOK',
           clients' \in [Ids -> Dial \cup {None}], activeID' \in Ids \cup {0},
           HolderInv', AfterInv', InFlightDialIsCurrent', TargetInv', SettledInv', ActiveInv'
    PROVE  IInv'
<1>1. OneDefault' /\ FileMirrorsMemory' /\ NextIDFresh'
  BY SavedDefault DEF StoreInv, OneDefault, FileMirrorsMemory
<1>2. TypeOK'
  BY PersistedType DEF StoreInv, ControlOK, TypeOK, Files
<1>3. QED
  BY <1>1, <1>2 DEF IInv

(***************************************************************************)
(* Every step preserves the invariant.                                     *)
(***************************************************************************)

(* Nothing changes: a save or a load that failed, or no step at all.       *)
LEMMA StutterStep ==
    ASSUME IInv, UNCHANGED vars
    PROVE  IInv'
<1>1. UNCHANGED <<connections, nextID, reconnectReload, file, clients, activeID,
                  runtimeMu, pc, target, resolved, after>>
  BY DEF vars, store, registry, locals
<1>2. TypeOK' /\ HolderInv' /\ AfterInv'
  BY <1>1 DEF IInv, TypeOK, HolderInv, AfterInv
<1>3. InFlightDialIsCurrent' /\ TargetInv' /\ SettledInv'
  BY <1>1 DEF IInv, InFlightDialIsCurrent, TargetInv, SettledInv, Unsettled, AnyOnline, Stored
<1>4. OneDefault' /\ FileMirrorsMemory' /\ ActiveInv' /\ NextIDFresh'
  BY <1>1 DEF IInv, OneDefault, FileMirrorsMemory, ActiveInv, NextIDFresh, Open
<1>5. QED
  BY <1>2, <1>3, <1>4 DEF IInv

(* The new id is above every stored one, so no operation in flight, and no  *)
(* open client, is about it.                                               *)
LEMMA AddConnectionStep ==
    ASSUME IInv, NEW p \in Procs, NEW d \in Dial, AddConnection(p, d)
    PROVE  IInv'
<1> DEFINE fresh == [dial |-> d, online |-> FALSE, isDefault |-> Stored(connections) = {}]
<1>1. CASE UNCHANGED <<connections, file, nextID>>
  BY <1>1, StutterStep DEF AddConnection, vars, store
<1>2. CASE /\ connections' = [connections EXCEPT ![nextID] = fresh]
           /\ file' = Persisted(connections')
           /\ nextID' = nextID + 1
  <2>1. nextID \in Ids /\ nextID \notin Stored(connections) /\ connections \in Store
    BY DEF AddConnection, IInv, TypeOK, NextIDFresh, Ids
  <2>2. /\ fresh \in Profile /\ fresh # None
        /\ fresh.isDefault = (Stored(connections) = {}) /\ ~fresh.online
    <3>1. \A b \in BOOLEAN : [dial |-> d, online |-> FALSE, isDefault |-> b] \in Profile
      BY DEF Profile
    <3>2. (Stored(connections) = {}) \in BOOLEAN
      OBVIOUS
    <3>3. QED
      BY <3>1, <3>2, ConstantsAssumption
  <2> HIDE DEF fresh
  <2>3. /\ connections' \in Store
        /\ connections'[nextID] = fresh
        /\ \A id \in Ids \ {nextID} : connections'[id] = connections[id]
        /\ Stored(connections') = Stored(connections) \cup {nextID}
    BY <1>2, <2>1, <2>2 DEF Store, Stored
  <2>4. UNCHANGED <<reconnectReload, clients, activeID, runtimeMu, pc, target, resolved, after>>
    BY DEF AddConnection, registry, locals
  <2>5. SingleDefault(connections')
    <3>1. CASE Stored(connections) = {}
      <4>1. Defaults(connections') = {nextID}
        BY <2>1, <2>2, <2>3, <3>1 DEF Defaults
      <4>2. QED
        BY <2>1, <4>1 DEF SingleDefault
    <3>2. CASE Stored(connections) # {}
      <4>1. Defaults(connections') = Defaults(connections)
        BY <2>1, <2>2, <2>3, <3>2 DEF Defaults, Stored
      <4>2. QED
        BY <3>2, <4>1 DEF SingleDefault, IInv, OneDefault
    <3>3. QED
      BY <3>1, <3>2
  <2>6. StoreInv'
    <3>1. nextID' \in 1..(MaxID + 1) /\ NextIDFresh'
      BY <1>2, <2>1, <2>3, ConstantsAssumption DEF IInv, NextIDFresh, Ids, Stored
    <3>2. QED
      BY <1>2, <2>3, <2>4, <2>5, <3>1 DEF StoreInv, IInv, TypeOK
  <2>7. ControlOK' /\ HolderInv' /\ AfterInv' /\ ActiveInv'
    BY <2>4 DEF IInv, TypeOK, ControlOK, HolderInv, AfterInv, ActiveInv, Open
  <2>8. InFlightDialIsCurrent'
    BY <2>1, <2>3, <2>4 DEF IInv, InFlightDialIsCurrent, Stored
  <2>9. TargetInv'
    <3>1. AnyOnline' => AnyOnline
      BY <2>1, <2>2, <2>3 DEF AnyOnline, Stored
    <3>2. QED
      BY <2>1, <2>3, <2>4, <3>1 DEF AddConnection, MuFree, IInv, TargetInv, Stored
  <2>10. SettledInv'
    BY <2>1, <2>2, <2>3, <2>4 DEF IInv, SettledInv, Unsettled, Stored
  <2>11. QED
    BY <2>4, <2>6, <2>7, <2>8, <2>9, <2>10, Assemble DEF IInv, TypeOK
<1>3. QED
  BY <1>1, <1>2 DEF AddConnection

(* Only default flags move, and nothing in flight looks at them.           *)
LEMMA SetDefaultConnectionStep ==
    ASSUME IInv, NEW p \in Procs, NEW id \in Ids, SetDefaultConnection(p, id)
    PROVE  IInv'
<1>1. CASE UNCHANGED <<connections, file>>
  BY <1>1, StutterStep DEF SetDefaultConnection, vars, store
<1>2. CASE connections' = WithDefault(connections, id) /\ file' = Persisted(connections')
  <2>1. connections \in Store /\ id \in Stored(connections)
    BY DEF SetDefaultConnection, IInv, TypeOK
  <2>2. \A i \in Stored(connections) :
           LET moved == [connections[i] EXCEPT !.isDefault = (i = id)]
           IN  /\ moved \in Profile /\ moved # None
               /\ moved.dial = connections[i].dial /\ moved.online = connections[i].online
               /\ moved.isDefault = (i = id)
    BY <2>1, ConstantsAssumption DEF Store, Profile, Stored
  <2>3. /\ connections' \in Store
        /\ Stored(connections') = Stored(connections)
        /\ \A i \in Stored(connections) :
              /\ connections'[i].dial = connections[i].dial
              /\ connections'[i].online = connections[i].online
              /\ connections'[i].isDefault = (i = id)
    BY <1>2, <2>1, <2>2 DEF WithDefault, Store, Stored
  <2>4. UNCHANGED <<nextID, reconnectReload, clients, activeID, runtimeMu, pc, target, resolved, after>>
    BY DEF SetDefaultConnection, registry, locals
  <2>5. SingleDefault(connections')
    <3>1. Defaults(connections') = {id}
      BY <2>1, <2>3 DEF Defaults
    <3>2. QED
      BY <3>1 DEF SingleDefault
  <2>6. StoreInv'
    BY <1>2, <2>3, <2>4, <2>5 DEF StoreInv, IInv, TypeOK, NextIDFresh
  <2>7. ControlOK' /\ HolderInv' /\ AfterInv' /\ ActiveInv'
    BY <2>4 DEF IInv, TypeOK, ControlOK, HolderInv, AfterInv, ActiveInv, Open
  <2>8. InFlightDialIsCurrent'
    BY <2>3, <2>4 DEF IInv, InFlightDialIsCurrent
  <2>9. TargetInv'
    BY <2>3, <2>4 DEF IInv, TargetInv, AnyOnline
  <2>10. SettledInv'
    BY <2>3, <2>4 DEF IInv, SettledInv, Unsettled
  <2>11. QED
    BY <2>4, <2>6, <2>7, <2>8, <2>9, <2>10, Assemble DEF IInv, TypeOK
<1>3. QED
  BY <1>1, <1>2 DEF SetDefaultConnection, SaveOrRollback

(* With runtimeMu free no operation is under way and every status agrees    *)
(* with its client.                                                        *)
LEMMA Quiet ==
    ASSUME IInv, runtimeMu = None
    PROVE  /\ \A q \in Procs : pc[q] \notin RuntimeSteps
           /\ \A id \in Ids : ~Unsettled(id)
           /\ Open(clients) # {} => activeID # 0
<1>1. \A q \in Procs : pc[q] \notin RuntimeSteps
  BY ConstantsAssumption DEF IInv, HolderInv
<1>2. QED
  BY <1>1 DEF IInv, ActiveInv, Unsettled, RuntimeSteps

(* The default id is read, and the goroutine queues for runtimeMu.         *)
LEMMA ConnectDefaultStep ==
    ASSUME IInv, NEW p \in Procs, ConnectDefault(p)
    PROVE  IInv'
<1>1. DefaultID(connections) \in Ids
  BY DEF ConnectDefault, DefaultID, Defaults, Stored
<1>2. UNCHANGED <<connections, nextID, reconnectReload, file, clients, activeID, runtimeMu, resolved>>
  BY DEF ConnectDefault, store, registry
<1>3. pc[p] = "idle" /\ pc'[p] = "connectCall" /\ after'[p] = "return" /\ OthersKeep(p)
  BY <1>2 DEF ConnectDefault, Idle, OthersKeep, IInv, TypeOK
<1>4. ControlOK'
  BY <1>1, <1>2 DEF ConnectDefault, ControlOK, IInv, TypeOK, Steps, Continuations
<1>5. HolderInv' /\ AfterInv'
  BY <1>2, <1>3 DEF IInv, HolderInv, AfterInv, OthersKeep, RuntimeSteps
<1>6. InFlightDialIsCurrent' /\ TargetInv'
  BY <1>2, <1>3 DEF IInv, InFlightDialIsCurrent, TargetInv, AnyOnline, Stored, OthersKeep
<1>7. SettledInv' /\ ActiveInv'
  BY <1>2, <1>3 DEF IInv, SettledInv, Unsettled, ActiveInv, Open, Stored, OthersKeep
<1>8. StoreInv'
  BY <1>2, StoreInvHolds DEF StoreInv, NextIDFresh, Stored
<1>9. QED
  BY <1>2, <1>4, <1>5, <1>6, <1>7, <1>8, Assemble DEF IInv, TypeOK

(* An edit that keeps the client keeps its parameters; an edit that does    *)
(* not marks the profile offline and goes on to close the client.          *)
LEMMA StoreEditStep ==
    ASSUME IInv, NEW p \in Procs, NEW id \in Stored(connections),
           Idle(p), runtimeMu = None,
           NEW edited \in Profile, NEW redial \in BOOLEAN,
           edited.isDefault = connections[id].isDefault,
           edited.online <=> connections[id].online /\ ~redial,
           edited.online => edited.dial.compared = connections[id].dial.compared,
           StoreEdit(p, id, edited, redial),
           UNCHANGED <<nextID, reconnectReload, registry>>
    PROVE  IInv'
<1>1. CASE UNCHANGED <<connections, file, runtimeMu, pc, locals>>
  BY <1>1, StutterStep DEF vars, store
<1>2. CASE /\ connections' = [connections EXCEPT ![id] = edited]
           /\ file' = Persisted(connections')
           /\ IF redial THEN Acquire(p, id, "close", "redial")
                        ELSE UNCHANGED <<runtimeMu, pc, locals>>
  <2>1. connections \in Store /\ id \in Ids /\ edited # None /\ ControlOK
    BY ConstantsAssumption DEF IInv, TypeOK, Stored, ControlOK
  <2>2. /\ connections' \in Store
        /\ Stored(connections') = Stored(connections)
        /\ connections'[id] = edited
        /\ \A i \in Ids \ {id} : connections'[i] = connections[i]
    BY <1>2, <2>1 DEF Store, Stored
  <2>3. UNCHANGED <<nextID, reconnectReload, clients, activeID>>
    BY DEF registry
  <2>4. StoreInv'
    <3>1. Defaults(connections') = Defaults(connections)
      BY <2>2 DEF Defaults, Stored
    <3>2. QED
      BY <1>2, <2>2, <2>3, <3>1, StoreInvHolds DEF StoreInv, SingleDefault, NextIDFresh
  <2>5. CASE ~redial
    <3>1. UNCHANGED <<runtimeMu, pc, target, resolved, after>>
      BY <1>2, <2>5 DEF locals
    <3>2. ControlOK' /\ HolderInv' /\ AfterInv' /\ ActiveInv'
      BY <2>1, <2>3, <3>1 DEF IInv, ControlOK, HolderInv, AfterInv, ActiveInv, Open
    <3>3. InFlightDialIsCurrent' /\ TargetInv'
      BY <3>1, Quiet DEF InFlightDialIsCurrent, TargetInv, RuntimeSteps
    <3>4. SettledInv'
      <4>1. \A i \in Ids : clients[i] # None <=> (i \in Stored(connections) /\ connections[i].online)
        BY Quiet DEF IInv, SettledInv
      <4>2. \A i \in Ids : clients[i] # None => clients[i].compared = connections[i].dial.compared
        BY Quiet DEF IInv, SettledInv
      <4>3. QED
        BY <2>1, <2>2, <2>3, <2>5, <4>1, <4>2 DEF SettledInv
    <3>5. QED
      BY <2>3, <2>4, <3>2, <3>3, <3>4, Assemble DEF IInv, TypeOK
  <2>6. CASE redial
    <3>1. /\ ControlOK' /\ OthersKeep(p)
          /\ runtimeMu' = p /\ pc'[p] = "close" /\ target'[p] = id /\ after'[p] = "redial"
      BY <1>2, <2>1, <2>6, ControlFrame DEF Steps, RuntimeSteps, Continuations
    <3>2. \A q \in Procs \ {p} : pc'[q] \notin RuntimeSteps
      BY <3>1, Quiet DEF OthersKeep
    <3>3. HolderInv' /\ AfterInv'
      BY <3>1, <3>2 DEF IInv, HolderInv, AfterInv, OthersKeep, RuntimeSteps
    <3>4. InFlightDialIsCurrent' /\ TargetInv'
      BY <2>2, <2>6, <3>1, <3>2 DEF InFlightDialIsCurrent, TargetInv, RuntimeSteps
    <3>5. SettledInv' /\ ActiveInv'
      BY <2>1, <2>2, <2>3, <3>1, Quiet DEF IInv, SettledInv, Unsettled, ActiveInv, Open, Stored
    <3>6. QED
      BY <2>3, <2>4, <3>1, <3>3, <3>4, <3>5, Assemble DEF IInv, TypeOK
  <2>7. QED
    BY <2>5, <2>6
<1>3. QED
  BY <1>1, <1>2 DEF StoreEdit

(* UpdateConnection drops the online flag exactly when it redials.         *)
LEMMA UpdateConnectionStep ==
    ASSUME IInv, NEW p \in Procs, NEW id \in Ids, NEW d \in Dial, UpdateConnection(p, id, d)
    PROVE  IInv'
<1> DEFINE previous == connections[id]
           changed == dialParametersChanged(previous.dial, d)
           edited == [previous EXCEPT !.dial = d, !.online = @ /\ ~changed]
           redial == changed /\ previous.online
<1>1. id \in Stored(connections) /\ previous \in Profile
  BY ConstantsAssumption DEF UpdateConnection, IInv, TypeOK, Store, Stored
<1>2. changed \in BOOLEAN /\ redial \in BOOLEAN /\ (previous.online /\ ~changed) \in BOOLEAN
  BY <1>1 DEF dialParametersChanged, Profile
<1>3. /\ edited \in Profile /\ edited.isDefault = previous.isDefault
      /\ edited.dial = d /\ edited.online = (previous.online /\ ~changed)
  BY <1>1, <1>2 DEF Profile
<1>4. ~changed => d.compared = previous.dial.compared
  BY DEF dialParametersChanged
<1>5. Idle(p) /\ runtimeMu = None /\ StoreEdit(p, id, edited, redial)
  BY DEF UpdateConnection
<1>6. UNCHANGED <<nextID, reconnectReload, registry>>
  BY DEF UpdateConnection
<1>7. edited.online <=> previous.online /\ ~redial
  BY <1>3
<1>8. edited.online => edited.dial.compared = previous.dial.compared
  BY <1>3, <1>4
<1>9. QED
  <2> HIDE DEF edited, redial, changed
  <2> QED
    BY <1>1, <1>2, <1>3, <1>5, <1>6, <1>7, <1>8, StoreEditStep

(* SetOption always drops the online flag, and redials when it was set.    *)
LEMMA SetOptionStep ==
    ASSUME IInv, NEW p \in Procs, NEW id \in Ids, NEW d \in Dial, SetOption(p, id, d)
    PROVE  IInv'
<1> DEFINE previous == connections[id]
           edited == [previous EXCEPT !.dial = d, !.online = FALSE]
<1>1. id \in Stored(connections) /\ previous \in Profile
  BY ConstantsAssumption DEF SetOption, IInv, TypeOK, Store, Stored
<1>2. previous.online \in BOOLEAN
  BY <1>1 DEF Profile
<1>3. /\ edited \in Profile /\ edited.isDefault = previous.isDefault
      /\ edited.dial = d /\ ~edited.online
  BY <1>1 DEF Profile
<1>4. Idle(p) /\ runtimeMu = None /\ StoreEdit(p, id, edited, previous.online)
  BY DEF SetOption
<1>5. UNCHANGED <<nextID, reconnectReload, registry>>
  BY DEF SetOption
<1>6. QED
  <2> HIDE DEF edited
  <2> QED
    BY <1>1, <1>2, <1>3, <1>4, <1>5, StoreEditStep

(* A deleted profile that was online has a client, which the operation goes *)
(* on to close; one that was offline has none.                             *)
LEMMA DeleteConnectionStep ==
    ASSUME IInv, NEW p \in Procs, NEW id \in Ids, DeleteConnection(p, id)
    PROVE  IInv'
<1>1. CASE UNCHANGED <<connections, file, runtimeMu, pc, locals>>
  BY <1>1, StutterStep DEF DeleteConnection, vars, store
<1>2. CASE /\ connections' = [connections EXCEPT ![id] = None]
           /\ file' = Persisted(connections')
           /\ IF connections[id].online THEN Acquire(p, id, "close", "deleted")
                                        ELSE UNCHANGED <<runtimeMu, pc, locals>>
  <2>1. connections \in Store /\ ControlOK /\ id \in Stored(connections) /\ runtimeMu = None
    BY DEF DeleteConnection, IInv, TypeOK, ControlOK
  <2>2. /\ connections' \in Store
        /\ Stored(connections') = Stored(connections) \ {id}
        /\ \A i \in Ids \ {id} : connections'[i] = connections[i]
    BY <1>2, <2>1 DEF Store, Stored
  <2>3. UNCHANGED <<nextID, reconnectReload, clients, activeID>>
    BY DEF DeleteConnection, registry
  <2>4. StoreInv'
    <3>1. SingleDefault(connections')
      <4>1. CASE Stored(connections) = {id}
        BY <2>2, <4>1 DEF SingleDefault
      <4>2. CASE ~connections[id].isDefault
        <5>1. Defaults(connections') = Defaults(connections)
          BY <2>2, <4>2 DEF Defaults, Stored
        <5>2. QED
          BY <2>2, <5>1 DEF SingleDefault, IInv, OneDefault
      <4>3. QED
        BY <4>1, <4>2 DEF DeleteConnection
    <3>2. QED
      BY <1>2, <2>2, <2>3, <3>1, StoreInvHolds DEF StoreInv, NextIDFresh
  <2>5. /\ \A i \in Ids : clients[i] # None <=> (i \in Stored(connections) /\ connections[i].online)
        /\ \A i \in Ids : clients[i] # None => clients[i].compared = connections[i].dial.compared
    BY <2>1, Quiet DEF IInv, SettledInv
  <2>6. CASE ~connections[id].online
    <3>1. UNCHANGED <<runtimeMu, pc, target, resolved, after>>
      BY <1>2, <2>6 DEF locals
    <3>2. ControlOK' /\ HolderInv' /\ AfterInv' /\ ActiveInv'
      BY <2>1, <2>3, <3>1 DEF IInv, ControlOK, HolderInv, AfterInv, ActiveInv, Open
    <3>3. InFlightDialIsCurrent' /\ TargetInv'
      BY <2>1, <3>1, Quiet DEF InFlightDialIsCurrent, TargetInv, RuntimeSteps
    <3>4. SettledInv'
      BY <2>1, <2>2, <2>3, <2>5, <2>6 DEF SettledInv
    <3>5. QED
      BY <2>3, <2>4, <3>2, <3>3, <3>4, Assemble DEF IInv, TypeOK
  <2>7. CASE connections[id].online
    <3>1. /\ ControlOK' /\ OthersKeep(p)
          /\ runtimeMu' = p /\ pc'[p] = "close" /\ target'[p] = id /\ after'[p] = "deleted"
      BY <1>2, <2>1, <2>7, ControlFrame DEF Steps, RuntimeSteps, Continuations
    <3>2. \A q \in Procs \ {p} : pc'[q] \notin RuntimeSteps
      BY <2>1, <3>1, Quiet DEF OthersKeep
    <3>3. HolderInv' /\ AfterInv'
      BY <3>1, <3>2 DEF IInv, HolderInv, AfterInv, OthersKeep, RuntimeSteps
    <3>4. InFlightDialIsCurrent' /\ TargetInv'
      BY <2>2, <3>1, <3>2 DEF InFlightDialIsCurrent, TargetInv, RuntimeSteps
    <3>5. SettledInv'
      BY <2>2, <2>3, <2>5, <3>1 DEF SettledInv, Unsettled
    <3>6. ActiveInv'
      BY <2>1, <2>3, Quiet DEF IInv, ActiveInv, Open
    <3>7. QED
      BY <2>3, <2>4, <3>1, <3>3, <3>4, <3>5, <3>6, Assemble DEF IInv, TypeOK
  <2>8. QED
    BY <2>6, <2>7
<1>3. QED
  BY <1>1, <1>2 DEF DeleteConnection

(* An operation starts that has not changed anything yet.                  *)
LEMMA StartStep ==
    ASSUME IInv, NEW p \in Procs, runtimeMu = None, UNCHANGED <<store, registry>>,
           ControlOK', OthersKeep(p), runtimeMu' = p,
           \/ pc'[p] = "resolve" /\ after'[p] = "return"
           \/ pc'[p] = "close" /\ after'[p] = "offline"
           \/ /\ pc'[p] = "test" /\ after'[p] = "return"
              /\ target'[p] \in Stored(connections)
              /\ resolved'[p] = connections[target'[p]].dial
    PROVE  IInv'
<1>1. UNCHANGED <<connections, nextID, reconnectReload, file, clients, activeID>>
  BY DEF store, registry
<1>2. \A q \in Procs \ {p} : pc'[q] \notin RuntimeSteps
  BY Quiet DEF OthersKeep
<1>3. HolderInv' /\ AfterInv'
  BY <1>2 DEF IInv, HolderInv, AfterInv, OthersKeep, RuntimeSteps
<1>4. InFlightDialIsCurrent' /\ TargetInv'
  BY <1>1, <1>2 DEF InFlightDialIsCurrent, TargetInv, RuntimeSteps, Stored
<1>5. SettledInv' /\ ActiveInv'
  BY <1>1, Quiet DEF IInv, SettledInv, ActiveInv, Open, Stored
<1>6. StoreInv'
  BY <1>1, StoreInvHolds DEF StoreInv, NextIDFresh, Stored
<1>7. QED
  BY <1>1, <1>3, <1>4, <1>5, <1>6, Assemble DEF IInv, TypeOK

(* Connect takes runtimeMu and has changed nothing yet.                    *)
LEMMA ConnectStep ==
    ASSUME IInv, NEW p \in Procs, NEW id \in Ids, Connect(p, id)
    PROVE  IInv'
<1>1. Acquire(p, id, "resolve", "return") /\ UNCHANGED <<store, registry>> /\ ControlOK
  BY DEF Connect, IInv, TypeOK, ControlOK
<1>2. /\ ControlOK' /\ OthersKeep(p)
      /\ runtimeMu' = p /\ pc'[p] = "resolve" /\ after'[p] = "return"
  BY <1>1, ControlFrame DEF Steps, RuntimeSteps, Continuations
<1>3. QED
  BY <1>1, <1>2, StartStep DEF Acquire

(* Disconnect takes runtimeMu and has changed nothing yet.                 *)
LEMMA DisconnectStep ==
    ASSUME IInv, NEW p \in Procs, NEW id \in Ids, Disconnect(p, id)
    PROVE  IInv'
<1>1. Acquire(p, id, "close", "offline") /\ UNCHANGED <<store, registry>> /\ ControlOK
  BY DEF Disconnect, IInv, TypeOK, ControlOK
<1>2. /\ ControlOK' /\ OthersKeep(p)
      /\ runtimeMu' = p /\ pc'[p] = "close" /\ after'[p] = "offline"
  BY <1>1, ControlFrame DEF Steps, RuntimeSteps, Continuations
<1>3. QED
  BY <1>1, <1>2, StartStep DEF Acquire

(* TestConnection takes runtimeMu and resolves the profile.                *)
LEMMA TestConnectionStep ==
    ASSUME IInv, NEW p \in Procs, NEW id \in Ids, TestConnection(p, id)
    PROVE  IInv'
<1>1. id \in Stored(connections) /\ connections[id].dial \in Dial
  BY ConstantsAssumption DEF TestConnection, IInv, TypeOK, Store, Profile, Stored
<1>2. /\ OthersKeep(p) /\ runtimeMu = None /\ runtimeMu' = p
      /\ pc'[p] = "test" /\ after'[p] = "return" /\ target'[p] = id
      /\ resolved'[p] = connections[id].dial
  BY DEF TestConnection, IInv, TypeOK, OthersKeep
<1>3. ControlOK'
  BY <1>1 DEF TestConnection, ControlOK, IInv, TypeOK, Steps, RuntimeSteps, Continuations
<1>4. UNCHANGED <<store, registry>>
  BY DEF TestConnection
<1>5. QED
  BY <1>1, <1>2, <1>3, <1>4, StartStep

(* A new map comes in offline; until CloseAll has run the old clients are   *)
(* still there.                                                            *)
LEMMA ReplaceMapStep ==
    ASSUME IInv, NEW p \in Procs, NEW m \in Store, Normalised(m),
           ReplaceMap(p, m), file' = Persisted(m), UNCHANGED registry
    PROVE  IInv'
<1>1. UNCHANGED <<clients, activeID>> /\ connections' = m /\ nextID' = NextFree(m)
  BY DEF registry, ReplaceMap
<1>2. /\ ControlOK' /\ OthersKeep(p)
      /\ runtimeMu = None /\ runtimeMu' = p /\ pc'[p] = "closeAll" /\ after'[p] = "restore"
  <2>1. ControlOK /\ target[p] \in Ids
    BY DEF IInv, TypeOK, ControlOK
  <2>2. QED
    BY <2>1, ControlFrame DEF ReplaceMap, Acquire, Steps, RuntimeSteps, Continuations
<1>3. \A q \in Procs \ {p} : pc'[q] \notin RuntimeSteps
  BY <1>2, Quiet DEF OthersKeep
<1>4. HolderInv' /\ AfterInv'
  BY <1>2, <1>3 DEF IInv, HolderInv, AfterInv, OthersKeep, RuntimeSteps
<1>5. InFlightDialIsCurrent' /\ TargetInv'
  BY <1>1, <1>2, <1>3 DEF InFlightDialIsCurrent, TargetInv, RuntimeSteps, AnyOnline, Normalised
<1>6. SettledInv' /\ ActiveInv'
  BY <1>1, <1>2, Quiet DEF IInv, SettledInv, Unsettled, ActiveInv, Open
<1>7. StoreInv'
  <2>1. reconnectReload' \in BOOLEAN
    BY DEF ReplaceMap
  <2>2. QED
    BY <1>1, <2>1, NextFreeFresh DEF StoreInv, NextIDFresh, Normalised
<1>8. QED
  BY <1>1, <1>2, <1>4, <1>5, <1>6, <1>7, Assemble DEF IInv, TypeOK

(* The file always holds something Reload and New can take as it is.       *)
LEMMA LoadedNormalised ==
    ASSUME IInv
    PROVE  Normalised(Loaded(file)) /\ Persisted(Loaded(file)) = file
<1>1. file \in Files /\ SingleDefault(file)
  BY DEF IInv, TypeOK, Files, OneDefault
<1>2. Persisted(Loaded(file)) = file /\ Loaded(file) \in Store
  BY <1>1, PersistedLoaded, LoadedType
<1>3. SingleDefault(Loaded(file))
  BY <1>1, LoadedType, DefaultsKept DEF SingleDefault
<1>4. QED
  BY <1>1, <1>2, <1>3, LoadedType DEF Normalised

(* Reload, or a reload whose file could not be read.                       *)
LEMMA ReloadStep ==
    ASSUME IInv, NEW p \in Procs, Reload(p)
    PROVE  IInv'
<1>1. CASE ReplaceMap(p, Loaded(file)) /\ UNCHANGED file
  BY <1>1, LoadedNormalised, ReplaceMapStep DEF Reload, Normalised
<1>2. CASE UNCHANGED <<store, runtimeMu, pc, locals>>
  BY <1>2, StutterStep DEF Reload, vars
<1>3. QED
  BY <1>1, <1>2 DEF Reload

(* ReplaceConnections, or one whose write failed.                          *)
LEMMA ReplaceConnectionsStep ==
    ASSUME IInv, NEW p \in Procs, NEW m \in Imports, ReplaceConnections(p, m)
    PROVE  IInv'
<1>1. CASE ReplaceMap(p, m) /\ file' = Persisted(m)
  BY <1>1, ConstantsAssumption, ReplaceMapStep DEF ReplaceConnections, Normalised
<1>2. CASE UNCHANGED <<store, runtimeMu, pc, locals>>
  BY <1>2, StutterStep DEF ReplaceConnections, vars
<1>3. QED
  BY <1>1, <1>2 DEF ReplaceConnections

(* An operation ends without touching the store or a client.               *)
LEMMA EndStep ==
    ASSUME IInv, NEW p \in Procs, Return(p),
           UNCHANGED <<connections, nextID, file, clients>>,
           reconnectReload' \in BOOLEAN, activeID' \in Ids \cup {0}, ActiveInv',
           \/ pc[p] \in {"resolve", "dial", "test", "clear"}
           \/ pc[p] = "promote" /\ after[p] = "deleted"
    PROVE  IInv'
<1>1. /\ ControlOK' /\ OthersKeep(p)
      /\ runtimeMu' = None /\ pc'[p] = "idle" /\ after'[p] = "return"
  BY ControlFrame DEF IInv, TypeOK, ControlOK
<1>2. pc[p] \in RuntimeSteps
  BY DEF RuntimeSteps
<1>3. HolderInv' /\ AfterInv'
  BY <1>1, <1>2, ConstantsAssumption DEF IInv, HolderInv, AfterInv, OthersKeep, RuntimeSteps
<1>4. InFlightDialIsCurrent' /\ TargetInv'
  BY <1>1 DEF IInv, InFlightDialIsCurrent, TargetInv, AnyOnline, Stored, OthersKeep
<1>5. SettledInv'
  <2> SUFFICES ASSUME NEW id \in Ids, ~Unsettled(id)'
               PROVE  /\ clients[id] # None <=> (id \in Stored(connections) /\ connections[id].online)
                      /\ clients[id] # None => clients[id].compared = connections[id].dial.compared
    BY DEF SettledInv, Stored
  <2>1. CASE pc[p] = "promote" /\ after[p] = "deleted" /\ target[p] = id
    BY <2>1 DEF IInv, TargetInv
  <2>2. CASE ~(pc[p] = "promote" /\ after[p] = "deleted" /\ target[p] = id)
    BY <1>1, <2>2 DEF Unsettled, IInv, SettledInv, OthersKeep
  <2>3. QED
    BY <2>1, <2>2
<1>6. StoreInv'
  BY StoreInvHolds DEF StoreInv, NextIDFresh, Stored
<1>7. QED
  BY <1>1, <1>3, <1>4, <1>5, <1>6, Assemble DEF IInv, TypeOK

(* The operation ends and changes nothing but reconnectReload.             *)
LEMMA PlainEndStep ==
    ASSUME IInv, NEW p \in Procs, pc[p] \in {"resolve", "dial", "test", "clear"}, Return(p),
           UNCHANGED <<connections, nextID, file, registry>>, reconnectReload' \in BOOLEAN
    PROVE  IInv'
<1>1. UNCHANGED <<clients, activeID>>
  BY DEF registry
<1>2. pc'[p] = "idle" /\ OthersKeep(p)
  BY ControlFrame DEF IInv, TypeOK, ControlOK
<1>3. ActiveInv'
  BY <1>1, <1>2 DEF IInv, ActiveInv, Open, OthersKeep
<1>4. QED
  BY <1>1, <1>3, EndStep DEF IInv, TypeOK

(* The profile is resolved for the dial, or is gone and the operation ends.*)
LEMMA ResolveStep ==
    ASSUME IInv, NEW p \in Procs, Resolve(p)
    PROVE  IInv'
<1>1. CASE target[p] \notin Stored(connections)
  BY <1>1, PlainEndStep DEF Resolve, store, IInv, TypeOK
<1>2. CASE target[p] \in Stored(connections)
  <2>1. UNCHANGED <<connections, nextID, reconnectReload, file, clients, activeID,
                    runtimeMu, target, after>>
    BY <1>2 DEF Resolve, Goto, store, registry
  <2>2. connections[target[p]].dial \in Dial
    BY <1>2, ConstantsAssumption DEF IInv, TypeOK, Store, Profile, Stored
  <2>3. /\ pc[p] = "resolve" /\ pc'[p] = "dial" /\ OthersKeep(p)
        /\ resolved'[p] = connections[target[p]].dial
    BY <1>2, <2>1 DEF Resolve, Goto, OthersKeep, IInv, TypeOK
  <2>4. ControlOK'
    BY <1>2, <2>2 DEF Resolve, Goto, ControlOK, IInv, TypeOK, Steps, RuntimeSteps
  <2>5. HolderInv' /\ AfterInv'
    BY <2>1, <2>3 DEF IInv, HolderInv, AfterInv, OthersKeep, RuntimeSteps
  <2>6. InFlightDialIsCurrent' /\ TargetInv'
    BY <1>2, <2>1, <2>3 DEF IInv, InFlightDialIsCurrent, TargetInv, AnyOnline, Stored, OthersKeep
  <2>7. SettledInv' /\ ActiveInv'
    BY <2>1, <2>3 DEF IInv, SettledInv, Unsettled, ActiveInv, Open, Stored, OthersKeep
  <2>8. StoreInv'
    BY <2>1, StoreInvHolds DEF StoreInv, NextIDFresh, Stored
  <2>9. QED
    BY <2>1, <2>4, <2>5, <2>6, <2>7, <2>8, Assemble DEF IInv, TypeOK
<1>3. QED
  BY <1>1, <1>2

(* The steps that only end their operation.                                *)
LEMMA ReturningSteps ==
    ASSUME IInv, NEW p \in Procs, DialFails(p) \/ ClearReload(p) \/ TestDone(p)
    PROVE  IInv'
<1>1. CASE DialFails(p)
  BY <1>1, PlainEndStep DEF DialFails, store, IInv, TypeOK
<1>2. CASE ClearReload(p)
  BY <1>2, PlainEndStep DEF ClearReload
<1>3. CASE TestDone(p)
  BY <1>3, PlainEndStep DEF TestDone, store, IInv, TypeOK
<1>4. QED
  BY <1>1, <1>2, <1>3

(* The client that is opened was dialled with what the profile says now.   *)
LEMMA OpenClientStep ==
    ASSUME IInv, NEW p \in Procs, OpenClient(p)
    PROVE  IInv'
<1>1. UNCHANGED <<connections, nextID, reconnectReload, file, activeID,
                  runtimeMu, target, resolved, after>>
  BY DEF OpenClient, Goto, store
<1>2. pc[p] = "dial" /\ pc'[p] = "opened" /\ OthersKeep(p) /\ ControlOK'
  <2>1. ControlOK /\ Goto(p, "opened") /\ UNCHANGED resolved
    BY DEF OpenClient, IInv, TypeOK, ControlOK
  <2>2. QED
    BY <2>1, ControlFrame DEF OpenClient, Steps, RuntimeSteps
<1>3. /\ target[p] \in Stored(connections) /\ target[p] \in Ids
      /\ resolved[p] = connections[target[p]].dial /\ resolved[p] \in Dial /\ resolved[p] # None
  BY <1>2, ConstantsAssumption DEF IInv, InFlightDialIsCurrent, TypeOK, Store, Profile, Stored
<1>4. /\ clients' \in [Ids -> Dial \cup {None}]
      /\ clients'[target[p]] = resolved[p]
      /\ \A i \in Ids \ {target[p]} : clients'[i] = clients[i]
  BY <1>3 DEF OpenClient, IInv, TypeOK
<1>5. \A q \in Procs \ {p} : pc[q] \notin RuntimeSteps
  BY <1>2, Alone DEF RuntimeSteps
<1>6. HolderInv' /\ AfterInv'
  BY <1>1, <1>2 DEF IInv, HolderInv, AfterInv, OthersKeep, RuntimeSteps
<1>7. InFlightDialIsCurrent' /\ TargetInv'
  BY <1>1, <1>2, <1>3, <1>4, <1>5
     DEF IInv, InFlightDialIsCurrent, TargetInv, Stored, OthersKeep, RuntimeSteps
<1>8. SettledInv'
  BY <1>1, <1>2, <1>4, <1>5 DEF IInv, SettledInv, Unsettled, Stored, OthersKeep, RuntimeSteps
<1>9. ActiveInv'
  BY <1>1, <1>2, <1>3, <1>4 DEF IInv, ActiveInv, Open
<1>10. StoreInv'
  BY <1>1, StoreInvHolds DEF StoreInv, NextIDFresh, Stored
<1>11. QED
  BY <1>1, <1>2, <1>4, <1>6, <1>7, <1>8, <1>9, <1>10, Assemble DEF IInv, TypeOK

(* The client that was just opened becomes the active one.                 *)
LEMMA SetActiveStep ==
    ASSUME IInv, NEW p \in Procs, SetActive(p)
    PROVE  IInv'
<1>1. UNCHANGED <<connections, nextID, reconnectReload, file, clients,
                  runtimeMu, target, resolved, after>>
  BY DEF SetActive, Goto, store
<1>2. pc[p] = "opened" /\ pc'[p] = "connected" /\ OthersKeep(p) /\ ControlOK'
  <2>1. ControlOK /\ Goto(p, "connected") /\ UNCHANGED resolved
    BY DEF SetActive, IInv, TypeOK, ControlOK
  <2>2. QED
    BY <2>1, ControlFrame DEF SetActive, Steps, RuntimeSteps
<1>3. activeID' \in Open(clients) /\ activeID' \in Ids /\ activeID' # 0
  BY DEF SetActive, Open, IInv, TypeOK, Ids
<1>4. HolderInv' /\ AfterInv'
  BY <1>1, <1>2 DEF IInv, HolderInv, AfterInv, OthersKeep, RuntimeSteps
<1>5. InFlightDialIsCurrent' /\ TargetInv'
  BY <1>1, <1>2 DEF IInv, InFlightDialIsCurrent, TargetInv, AnyOnline, Stored, OthersKeep
<1>6. SettledInv'
  BY <1>1, <1>2 DEF IInv, SettledInv, Unsettled, Stored, OthersKeep
<1>7. ActiveInv'
  BY <1>1, <1>3 DEF ActiveInv, Open
<1>8. StoreInv'
  BY <1>1, StoreInvHolds DEF StoreInv, NextIDFresh, Stored
<1>9. QED
  BY <1>1, <1>2, <1>3, <1>4, <1>5, <1>6, <1>7, <1>8, Assemble DEF IInv, TypeOK

(* Writing one online flag changes nothing that is saved.                  *)
LEMMA FlagSaved ==
    ASSUME connections \in Store, NEW id \in Stored(connections), NEW b \in BOOLEAN,
           connections' = [connections EXCEPT ![id].online = b]
    PROVE  /\ connections' \in Store
           /\ Stored(connections') = Stored(connections)
           /\ connections'[id].online = b
           /\ connections'[id].dial = connections[id].dial
           /\ \A i \in Ids \ {id} : connections'[i] = connections[i]
           /\ Persisted(connections') = Persisted(connections)
           /\ SingleDefault(connections) => SingleDefault(connections')
<1> DEFINE written == [connections[id] EXCEPT !.online = b]
<1>1. id \in Ids /\ connections[id] \in Profile
  BY DEF Store, Stored
<1>2. /\ written \in Profile /\ written # None /\ written.online = b
      /\ written.dial = connections[id].dial /\ written.isDefault = connections[id].isDefault
  BY <1>1, ConstantsAssumption DEF Profile
<1> HIDE DEF written
<1>3. connections' = [connections EXCEPT ![id] = written]
  BY <1>1 DEF written, Store
<1>4. /\ connections' \in Store
      /\ Stored(connections') = Stored(connections)
      /\ connections'[id] = written
      /\ \A i \in Ids \ {id} : connections'[i] = connections[i]
  BY <1>1, <1>2, <1>3 DEF Store, Stored
<1>5. SameRecords(connections', connections)
  BY <1>2, <1>4 DEF SameRecords, Stored
<1>6. QED
  BY <1>2, <1>4, <1>5, SavedAlike

(* So the store part of the invariant survives it, saved or not.           *)
LEMMA FlagWritten ==
    ASSUME IInv, NEW id \in Stored(connections), NEW b \in BOOLEAN,
           connections' = [connections EXCEPT ![id].online = b],
           file' = Persisted(connections') \/ file' = file,
           UNCHANGED <<nextID, reconnectReload>>
    PROVE  StoreInv'
BY FlagSaved, StoreInvHolds DEF StoreInv, NextIDFresh

(* The profile turns online over the client that was dialled for it.       *)
LEMMA MarkOnlineStep ==
    ASSUME IInv, NEW p \in Procs, MarkOnline(p)
    PROVE  IInv'
<1>1. pc[p] = "connected" /\ UNCHANGED <<nextID, reconnectReload, clients, activeID>>
  BY DEF MarkOnline, registry
<1>2. /\ target[p] \in Stored(connections) /\ target[p] \in Ids
      /\ clients[target[p]] = connections[target[p]].dial
      /\ clients[target[p]] # None
  BY <1>1, ConstantsAssumption DEF IInv, InFlightDialIsCurrent, TargetInv, TypeOK, Store, Profile, Stored
<1>3. /\ StoreInv'
      /\ Stored(connections') = Stored(connections)
      /\ connections'[target[p]].online
      /\ connections'[target[p]].dial = connections[target[p]].dial
      /\ \A i \in Ids \ {target[p]} : connections'[i] = connections[i]
  BY <1>1, <1>2, FlagSaved, FlagWritten DEF MarkOnline, IInv, TypeOK
<1>4. /\ ControlOK' /\ OthersKeep(p)
      /\ \/ runtimeMu' = None /\ pc'[p] = "idle"
         \/ UNCHANGED <<runtimeMu, after>> /\ after[p] = "restore" /\ pc'[p] = "clear"
  <2>1. ControlOK
    BY DEF IInv, TypeOK, ControlOK
  <2>2. CASE Return(p)
    BY <2>1, <2>2, ControlFrame
  <2>3. CASE after[p] = "restore" /\ Goto(p, "clear") /\ UNCHANGED resolved
    BY <2>1, <2>3, ControlFrame DEF Steps, RuntimeSteps, Goto
  <2>4. QED
    BY <2>2, <2>3 DEF MarkOnline
<1>5. \A q \in Procs \ {p} : pc'[q] \notin RuntimeSteps
  BY <1>1, <1>4, Alone DEF RuntimeSteps, OthersKeep
<1>6. HolderInv'
  BY <1>1, <1>4, <1>5, ConstantsAssumption DEF IInv, HolderInv, RuntimeSteps
<1>7. AfterInv'
  BY <1>4 DEF IInv, AfterInv, OthersKeep
<1>8. InFlightDialIsCurrent' /\ TargetInv'
  BY <1>4, <1>5 DEF InFlightDialIsCurrent, TargetInv, RuntimeSteps
<1>9. SettledInv'
  <2> SUFFICES ASSUME NEW id \in Ids
               PROVE  /\ clients[id] # None <=> (id \in Stored(connections') /\ connections'[id].online)
                      /\ clients[id] # None => clients[id].compared = connections'[id].dial.compared
    BY <1>1 DEF SettledInv
  <2>1. CASE id = target[p]
    BY <1>2, <1>3, <2>1
  <2>2. CASE id # target[p]
    <3>1. ~Unsettled(id)
      BY <1>1, <1>5, <1>4, <2>2 DEF Unsettled, OthersKeep, RuntimeSteps
    <3>2. QED
      BY <1>3, <2>2, <3>1 DEF IInv, SettledInv
  <2>3. QED
    BY <2>1, <2>2
<1>10. ActiveInv'
  BY <1>1, <1>4 DEF IInv, ActiveInv, Open, OthersKeep
<1>11. QED
  BY <1>1, <1>3, <1>4, <1>6, <1>7, <1>8, <1>9, <1>10, Assemble DEF IInv, TypeOK

(* The profile turns offline after its client was closed.                  *)
LEMMA MarkOfflineStep ==
    ASSUME IInv, NEW p \in Procs, MarkOffline(p)
    PROVE  IInv'
<1>1. /\ pc[p] = "offline" /\ clients[target[p]] = None /\ target[p] \in Ids
      /\ UNCHANGED <<nextID, reconnectReload, clients, activeID>>
  BY DEF MarkOffline, registry, IInv, TargetInv, TypeOK
<1>2. /\ StoreInv'
      /\ Stored(connections') = Stored(connections)
      /\ target[p] \in Stored(connections) => ~connections'[target[p]].online
      /\ \A i \in Ids \ {target[p]} : connections'[i] = connections[i]
  <2>1. CASE target[p] \in Stored(connections)
    BY <1>1, <2>1, FlagSaved, FlagWritten DEF MarkOffline, IInv, TypeOK
  <2>2. CASE target[p] \notin Stored(connections)
    <3>1. connections' = connections /\ file' = file
      BY <2>2 DEF MarkOffline, IInv, FileMirrorsMemory
    <3>2. QED
      BY <1>1, <2>2, <3>1, StoreInvHolds DEF StoreInv, NextIDFresh, Stored
  <2>3. QED
    BY <2>1, <2>2
<1>3. ControlOK' /\ OthersKeep(p) /\ runtimeMu' = None /\ pc'[p] = "idle"
  BY ControlFrame DEF MarkOffline, IInv, TypeOK, ControlOK
<1>4. \A q \in Procs \ {p} : pc'[q] \notin RuntimeSteps
  BY <1>1, <1>3, Alone DEF RuntimeSteps, OthersKeep
<1>5. HolderInv' /\ AfterInv'
  BY <1>3, <1>4, ConstantsAssumption DEF IInv, HolderInv, AfterInv, OthersKeep, RuntimeSteps
<1>6. InFlightDialIsCurrent' /\ TargetInv'
  BY <1>3, <1>4 DEF InFlightDialIsCurrent, TargetInv, RuntimeSteps
<1>7. SettledInv'
  <2> SUFFICES ASSUME NEW id \in Ids
               PROVE  /\ clients[id] # None <=> (id \in Stored(connections') /\ connections'[id].online)
                      /\ clients[id] # None => clients[id].compared = connections'[id].dial.compared
    BY <1>1 DEF SettledInv
  <2>1. CASE id = target[p]
    BY <1>1, <1>2, <2>1
  <2>2. CASE id # target[p]
    <3>1. ~Unsettled(id)
      BY <1>1, <1>3, <1>4, <2>2 DEF Unsettled, OthersKeep, RuntimeSteps
    <3>2. QED
      BY <1>2, <2>2, <3>1 DEF IInv, SettledInv
  <2>3. QED
    BY <2>1, <2>2
<1>8. ActiveInv'
  BY <1>1, <1>3 DEF IInv, ActiveInv, Open, OthersKeep
<1>9. QED
  BY <1>1, <1>2, <1>3, <1>5, <1>6, <1>7, <1>8, Assemble DEF IInv, TypeOK

(* One client is closed; the goroutine is about to look for another active *)
(* one.                                                                    *)
LEMMA CloseClientStep ==
    ASSUME IInv, NEW p \in Procs, CloseClient(p)
    PROVE  IInv'
<1>1. UNCHANGED <<connections, nextID, reconnectReload, file, runtimeMu, target, resolved, after>>
  BY DEF CloseClient, Goto, store
<1>2. pc[p] = "close" /\ pc'[p] = "promote" /\ OthersKeep(p) /\ ControlOK'
  <2>1. ControlOK /\ Goto(p, "promote") /\ UNCHANGED resolved
    BY DEF CloseClient, IInv, TypeOK, ControlOK
  <2>2. QED
    BY <2>1, ControlFrame DEF CloseClient, Steps, RuntimeSteps
<1>3. /\ clients' \in [Ids -> Dial \cup {None}]
      /\ clients'[target[p]] = None
      /\ \A i \in Ids \ {target[p]} : clients'[i] = clients[i]
  BY DEF CloseClient, IInv, TypeOK
<1>4. activeID' \in Ids \cup {0} /\ (activeID' # 0 => activeID' = activeID /\ activeID # target[p])
  BY DEF CloseClient, IInv, TypeOK
<1>5. \A q \in Procs \ {p} : pc[q] \notin RuntimeSteps
  BY <1>2, Alone DEF RuntimeSteps
<1>6. HolderInv' /\ AfterInv'
  BY <1>1, <1>2 DEF IInv, HolderInv, AfterInv, OthersKeep, RuntimeSteps
<1>7. InFlightDialIsCurrent' /\ TargetInv'
  BY <1>1, <1>2, <1>3, <1>5
     DEF IInv, InFlightDialIsCurrent, TargetInv, Stored, OthersKeep, RuntimeSteps
<1>8. SettledInv'
  BY <1>1, <1>2, <1>3, <1>5 DEF IInv, SettledInv, Unsettled, Stored, OthersKeep, RuntimeSteps
<1>9. ActiveInv'
  BY <1>2, <1>3, <1>4 DEF IInv, ActiveInv, Open
<1>10. StoreInv'
  BY <1>1, StoreInvHolds DEF StoreInv, NextIDFresh, Stored
<1>11. QED
  BY <1>2, <1>3, <1>4, <1>6, <1>7, <1>8, <1>9, <1>10, Assemble

(* An open client becomes active, and the operation goes on.               *)
LEMMA PromoteActiveStep ==
    ASSUME IInv, NEW p \in Procs, PromoteActive(p)
    PROVE  IInv'
<1>1. UNCHANGED <<connections, nextID, reconnectReload, file, clients>> /\ pc[p] = "promote"
  BY DEF PromoteActive, store
<1>2. /\ activeID' \in Ids \cup {0}
      /\ activeID' # 0 => activeID' \in Open(clients)
      /\ Open(clients) # {} => activeID' # 0
  <2>1. Open(clients) \subseteq Ids /\ Open(clients) \subseteq Nat /\ 0 \notin Ids
    BY ConstantsAssumption DEF Open, Ids
  <2>2. Open(clients) # {} => Min(Open(clients)) \in Open(clients)
    BY <2>1, MinIsLeast
  <2>3. QED
    BY <2>1, <2>2 DEF PromoteActive, IInv, TypeOK, ActiveInv
<1>3. ActiveInv'
  BY <1>1, <1>2 DEF ActiveInv, Open
<1>4. CASE after[p] = "deleted" /\ Return(p)
  BY <1>1, <1>2, <1>3, <1>4, EndStep DEF IInv, TypeOK
<1>5. ASSUME NEW s \in {"resolve", "offline"}, Goto(p, s), UNCHANGED resolved,
             s = "resolve" => after[p] = "redial", s = "offline" => after[p] = "offline"
      PROVE  IInv'
  <2>1. UNCHANGED <<runtimeMu, target, after, resolved>>
    BY <1>5 DEF Goto
  <2>2. pc'[p] = s /\ OthersKeep(p) /\ ControlOK'
    BY <1>5, ControlFrame DEF IInv, TypeOK, ControlOK, Steps, RuntimeSteps
  <2>3. \A q \in Procs \ {p} : pc'[q] \notin RuntimeSteps
    BY <1>1, <2>2, Alone DEF RuntimeSteps, OthersKeep
  <2>4. HolderInv' /\ AfterInv'
    BY <1>1, <1>5, <2>1, <2>2 DEF IInv, HolderInv, AfterInv, OthersKeep, RuntimeSteps
  <2>5. InFlightDialIsCurrent' /\ TargetInv'
    BY <1>1, <1>5, <2>1, <2>2, <2>3 DEF IInv, InFlightDialIsCurrent, TargetInv, RuntimeSteps
  <2>6. SettledInv'
    <3> SUFFICES ASSUME NEW id \in Ids, ~Unsettled(id)'
                 PROVE  /\ clients[id] # None <=> (id \in Stored(connections) /\ connections[id].online)
                        /\ clients[id] # None => clients[id].compared = connections[id].dial.compared
      BY <1>1 DEF SettledInv, Stored
    <3>1. CASE s = "resolve" /\ target[p] = id
      BY <1>1, <1>5, <3>1 DEF IInv, TargetInv
    <3>2. CASE ~(s = "resolve" /\ target[p] = id)
      <4>1. ~Unsettled(id)
        BY <1>1, <2>1, <2>2, <2>3, <3>2 DEF Unsettled, OthersKeep, RuntimeSteps
      <4>2. QED
        BY <4>1 DEF IInv, SettledInv
    <3>3. QED
      BY <3>1, <3>2
  <2>7. StoreInv'
    BY <1>1, StoreInvHolds DEF StoreInv, NextIDFresh, Stored
  <2>8. QED
    BY <1>1, <1>2, <1>3, <2>2, <2>4, <2>5, <2>6, <2>7, Assemble DEF IInv, TypeOK
<1>6. QED
  BY <1>4, <1>5 DEF PromoteActive

(* Every client is closed while every profile is offline; then the default  *)
(* profile is dialled, or the operation ends.                              *)
LEMMA CloseAllStep ==
    ASSUME IInv, NEW p \in Procs, CloseAll(p)
    PROVE  IInv'
<1>1. /\ pc[p] = "closeAll" /\ after[p] = "restore" /\ ~AnyOnline
      /\ UNCHANGED <<connections, nextID, reconnectReload, file, runtimeMu, resolved, after>>
  BY DEF CloseAll, Goto, store, IInv, AfterInv, TargetInv
<1>2. pc'[p] \in {"resolve", "clear"} /\ OthersKeep(p) /\ ControlOK'
  <2>1. CASE reconnectReload /\ Defaults(connections) # {}
    <3>1. DefaultID(connections) \in Ids
      BY <2>1 DEF DefaultID, Defaults, Stored
    <3>2. QED
      BY <1>1, <2>1, <3>1 DEF CloseAll, IInv, TypeOK, ControlOK, OthersKeep, Steps, RuntimeSteps
  <2>2. CASE ~(reconnectReload /\ Defaults(connections) # {})
    BY <1>1, <2>2, ControlFrame DEF CloseAll, IInv, TypeOK, ControlOK, Steps, RuntimeSteps
  <2>3. QED
    BY <2>1, <2>2
<1>3. /\ clients' \in [Ids -> Dial \cup {None}] /\ activeID' = 0
      /\ \A i \in Ids : clients'[i] = None
  BY DEF CloseAll
<1>4. \A q \in Procs \ {p} : pc'[q] \notin RuntimeSteps
  BY <1>1, <1>2, Alone DEF RuntimeSteps, OthersKeep
<1>5. HolderInv' /\ AfterInv'
  BY <1>1, <1>2 DEF IInv, HolderInv, AfterInv, OthersKeep, RuntimeSteps
<1>6. InFlightDialIsCurrent' /\ TargetInv'
  BY <1>2, <1>4 DEF InFlightDialIsCurrent, TargetInv, RuntimeSteps
<1>7. SettledInv' /\ ActiveInv'
  BY <1>1, <1>3 DEF SettledInv, ActiveInv, Open, AnyOnline, Stored
<1>8. StoreInv'
  BY <1>1, StoreInvHolds DEF StoreInv, NextIDFresh, Stored
<1>9. QED
  BY <1>2, <1>3, <1>5, <1>6, <1>7, <1>8, Assemble

(* A restart at any point: the file brings every profile back offline.     *)
LEMMA RestartStep ==
    ASSUME IInv, Restart
    PROVE  IInv'
<1>1. /\ connections' = Loaded(file) /\ nextID' = NextFree(Loaded(file)) /\ file' = file
      /\ ~reconnectReload' /\ reconnectReload' \in BOOLEAN /\ activeID' = 0 /\ runtimeMu' = None
  BY DEF Restart
<1>2. /\ clients' \in [Ids -> Dial \cup {None}]
      /\ \A i \in Ids : clients'[i] = None
  BY DEF Restart
<1>3. ControlOK' /\ \A q \in Procs : pc'[q] = "idle"
  BY ConstantsAssumption DEF Restart, ControlOK, Ids, Steps, Continuations
<1>4. StoreInv'
  BY <1>1, LoadedNormalised, NextFreeFresh DEF StoreInv, NextIDFresh, Normalised
<1>5. HolderInv' /\ AfterInv' /\ InFlightDialIsCurrent' /\ TargetInv'
  BY <1>1, <1>3, ConstantsAssumption
     DEF HolderInv, AfterInv, InFlightDialIsCurrent, TargetInv, RuntimeSteps
<1>6. SettledInv' /\ ActiveInv'
  BY <1>1, <1>2, LoadedNormalised DEF SettledInv, ActiveInv, Open, Normalised, Stored
<1>7. QED
  BY <1>1, <1>2, <1>3, <1>4, <1>5, <1>6, Assemble

(* Every step of the service preserves the invariant.                      *)
LEMMA NextStep ==
    ASSUME IInv, [Next]_vars
    PROVE  IInv'
<1>1. CASE UNCHANGED vars
  BY <1>1, StutterStep
<1>2. CASE Restart
  BY <1>2, RestartStep
<1>3. ASSUME NEW p \in Procs, Calls(p)
      PROVE  IInv'
  BY <1>3, AddConnectionStep, ConnectDefaultStep, ReloadStep, ReplaceConnectionsStep,
     SetDefaultConnectionStep, DeleteConnectionStep, ConnectStep, DisconnectStep,
     TestConnectionStep, UpdateConnectionStep, SetOptionStep DEF Calls
<1>4. ASSUME NEW p \in Procs, Progress(p)
      PROVE  IInv'
  BY <1>4, ResolveStep, ReturningSteps, OpenClientStep, SetActiveStep, MarkOnlineStep,
     CloseClientStep, PromoteActiveStep, MarkOfflineStep, CloseAllStep DEF Progress
<1>5. QED
  BY <1>1, <1>2, <1>3, <1>4 DEF Next

(* The service starts in the invariant.                                    *)
LEMMA InitHolds ==
    ASSUME Init
    PROVE  IInv
<1>1. /\ Stored(connections) = {} /\ Stored(file) = {} /\ Open(clients) = {}
      /\ \A q \in Procs : pc[q] = "idle"
  BY DEF Init, Stored, Open
<1>2. TypeOK
  <2>1. connections \in Store /\ file \in Files /\ clients \in [Ids -> Dial \cup {None}]
    BY DEF Init, Store, Files
  <2>2. nextID \in 1..(MaxID + 1) /\ activeID \in Ids \cup {0}
    BY ConstantsAssumption DEF Init
  <2>3. ControlOK
    BY ConstantsAssumption DEF Init, ControlOK, Ids, Steps, Continuations
  <2>4. reconnectReload \in BOOLEAN
    BY DEF Init
  <2>5. QED
    BY <2>1, <2>2, <2>3, <2>4 DEF TypeOK, ControlOK, Files
<1>3. HolderInv /\ AfterInv /\ InFlightDialIsCurrent /\ TargetInv
  BY <1>1, ConstantsAssumption
     DEF Init, HolderInv, AfterInv, InFlightDialIsCurrent, TargetInv, RuntimeSteps
<1>4. SettledInv /\ ActiveInv
  BY <1>1 DEF Init, SettledInv, ActiveInv, Open
<1>5. OneDefault /\ FileMirrorsMemory /\ NextIDFresh
  BY <1>1 DEF Init, OneDefault, SingleDefault, FileMirrorsMemory, NextIDFresh, Persisted
<1>6. QED
  BY <1>2, <1>3, <1>4, <1>5 DEF IInv

(***************************************************************************)
(* Theorems.                                                               *)
(***************************************************************************)

(* The inductive invariant holds in every reachable state.                 *)
THEOREM Invariance == Spec => []IInv
<1>1. Init => IInv
  BY InitHolds
<1>2. IInv /\ [Next]_vars => IInv'
  BY NextStep
<1>3. QED
  BY <1>1, <1>2, PTL DEF Spec

(* The connection service never leaves its types: profiles, file, clients,  *)
(* lock holder and the control state of every goroutine.                   *)
THEOREM TypeCorrect == Spec => []TypeOK
<1>1. IInv => TypeOK
  BY DEF IInv
<1>2. QED
  BY <1>1, Invariance, PTL

(* No failed save, failed redial, deletion, reload or import leaves a       *)
(* profile online without a client or a client without an online profile.  *)
THEOREM StatusIsTrue == Spec => []StatusTracksClient
<1>1. IInv => StatusTracksClient
  BY Quiet DEF IInv, SettledInv, StatusTracksClient, Quiescent
<1>2. QED
  BY <1>1, Invariance, PTL

(* After every edit the open client is one dialled with the endpoints,      *)
(* options and secrets that are stored.                                    *)
THEOREM ClientIsCurrent == Spec => []ClientDialledAsStored
<1>1. IInv => ClientDialledAsStored
  BY Quiet DEF IInv, SettledInv, ClientDialledAsStored, Quiescent, Open
<1>2. QED
  BY <1>1, Invariance, PTL

(* The profile a dial was resolved from does not change while mu is free    *)
(* and the dial is in flight.                                              *)
THEOREM DialIsCurrent == Spec => []InFlightDialIsCurrent
<1>1. IInv => InFlightDialIsCurrent
  BY DEF IInv
<1>2. QED
  BY <1>1, Invariance, PTL

(* One default profile in memory and in the file.                          *)
THEOREM DefaultIsUnique == Spec => []OneDefault
<1>1. IInv => OneDefault
  BY DEF IInv
<1>2. QED
  BY <1>1, Invariance, PTL

(* A crash at any moment loses no profile the user was shown.              *)
THEOREM FileIsCurrent == Spec => []FileMirrorsMemory
<1>1. IInv => FileMirrorsMemory
  BY DEF IInv
<1>2. QED
  BY <1>1, Invariance, PTL

(* The active connection is an open one, and there is one when any is open. *)
THEOREM ActiveIsOpen == Spec => []ActiveFollowsOpen
<1>1. IInv => ActiveFollowsOpen
  BY Quiet DEF IInv, ActiveInv, ActiveFollowsOpen, Quiescent
<1>2. QED
  BY <1>1, Invariance, PTL

(* AddConnection never overwrites a profile.                               *)
THEOREM FreshIds == Spec => []NextIDFresh
<1>1. IInv => NextIDFresh
  BY DEF IInv
<1>2. QED
  BY <1>1, Invariance, PTL

(***************************************************************************)
(* The reload and the wish to reconnect.                                   *)
(***************************************************************************)

(* No operation that takes mu alone sets a connection offline.             *)
LEMMA OnlineKept ==
    ASSUME IInv, AnyOnline, NEW p \in Procs,
           \/ \E d \in Dial : AddConnection(p, d)
           \/ \E id \in Ids : SetDefaultConnection(p, id)
    PROVE  AnyOnline'
<1>1. connections \in Store /\ nextID \in Nat
  BY DEF IInv, TypeOK
<1>2. PICK o \in Stored(connections) : connections[o].online
  BY DEF AnyOnline
<1>3. o \in Ids /\ connections[o] \in Profile
  BY <1>1, <1>2 DEF Stored, Store
<1>4. CASE UNCHANGED connections
  BY <1>4 DEF AnyOnline, Stored
<1>5. ASSUME NEW d \in Dial, AddConnection(p, d), connections' # connections
      PROVE  AnyOnline'
  <2>1. o # nextID
    BY <1>1, <1>2, <1>3 DEF IInv, NextIDFresh, Ids
  <2>2. connections'[o] = connections[o]
    BY <1>1, <1>3, <1>5, <2>1 DEF AddConnection, Store
  <2>3. QED
    BY <1>2, <1>3, <2>2 DEF AnyOnline, Stored
<1>6. ASSUME NEW id \in Ids, SetDefaultConnection(p, id), connections' # connections
      PROVE  AnyOnline'
  <2>1. connections'[o] = [connections[o] EXCEPT !.isDefault = (o = id)]
    BY <1>2, <1>3, <1>6 DEF SetDefaultConnection, SaveOrRollback, WithDefault, Stored
  <2>2. connections'[o] \in Profile /\ connections'[o].online
    BY <1>2, <1>3, <2>1 DEF Profile
  <2>3. QED
    BY <1>3, <2>2, ConstantsAssumption DEF AnyOnline, Stored
<1>7. QED
  BY <1>4, <1>5, <1>6

(* A step of another goroutine leaves a reload at its end alone.           *)
LEMMA OthersKeepRestored ==
    ASSUME IInv, NEW p \in Procs, NEW q \in Procs \ {p}, pc[q] = "clear", AnyOnline,
           Calls(p) \/ Progress(p)
    PROVE  AnyOnline'
<1>1. runtimeMu = q /\ runtimeMu # None /\ pc[p] \notin RuntimeSteps
  BY ConstantsAssumption DEF IInv, HolderInv, RuntimeSteps
<1>2. ~Progress(p)
  BY <1>1 DEF Progress, Resolve, DialFails, OpenClient, SetActive, MarkOnline, CloseClient,
     PromoteActive, MarkOffline, CloseAll, ClearReload, TestDone, RuntimeSteps
<1>3. \/ \E d \in Dial : AddConnection(p, d)
      \/ \E id \in Ids : SetDefaultConnection(p, id)
      \/ ConnectDefault(p)
  BY <1>1, <1>2 DEF Calls, Reload, ReplaceConnections, DeleteConnection, Connect, Disconnect,
     TestConnection, UpdateConnection, SetOption, Acquire
<1>4. CASE ConnectDefault(p)
  BY <1>4 DEF ConnectDefault, store, AnyOnline, Stored
<1>5. QED
  BY <1>3, <1>4, OnlineKept

(* What a goroutine's own step leaves in its local variables.              *)
LEMMA ResolvedFrame ==
    ASSUME IInv, RestoreInv, NEW p \in Procs, Calls(p) \/ Progress(p)
    PROVE  /\ \A q \in Procs \ {p} : pc'[q] = pc[q] /\ resolved'[q] = resolved[q]
           /\ pc'[p] \in {"idle", "connectCall", "resolve", "close", "promote", "closeAll"} =>
                  resolved'[p] = None
           /\ pc'[p] = "clear" => \/ resolved'[p] = None
                                  \/ MarkOnline(p)
<1>1. pc \in [Procs -> Steps] /\ resolved \in [Procs -> Dial \cup {None}]
  BY DEF IInv, TypeOK
<1>2. CASE Calls(p)
  <2>1. pc[p] \in {"idle", "connectCall"} /\ resolved[p] = None
    BY <1>2 DEF Calls, AddConnection, ConnectDefault, Reload, ReplaceConnections,
       SetDefaultConnection, DeleteConnection, Connect, Disconnect, TestConnection,
       UpdateConnection, SetOption, Idle, RestoreInv
  <2>2. CASE \E id \in Ids : TestConnection(p, id)
    BY <1>1, <2>2 DEF TestConnection
  <2>3. CASE ~\E id \in Ids : TestConnection(p, id)
    <3>1. resolved' = resolved
          /\ (pc' = pc \/ \E step \in Steps \ {"clear"} : pc' = [pc EXCEPT ![p] = step])
      BY <1>2, <2>3 DEF Calls, AddConnection, ConnectDefault, Reload, ReplaceConnections,
         SetDefaultConnection, DeleteConnection, Connect, Disconnect,
         UpdateConnection, SetOption, StoreEdit, ReplaceMap, Acquire, locals, Steps, RuntimeSteps
    <3>2. QED
      BY <1>1, <2>1, <3>1
  <2>4. QED
    BY <2>2, <2>3
<1>3. CASE Progress(p)
  <2>1. CASE Return(p)
    BY <1>1, <2>1 DEF Return
  <2>2. CASE MarkOnline(p) /\ ~Return(p)
    BY <1>1, <2>2 DEF MarkOnline, Goto
  <2>3. CASE Resolve(p) /\ ~Return(p)
    BY <1>1, <2>3 DEF Resolve, Goto
  <2>4. CASE \/ OpenClient(p) \/ SetActive(p) \/ CloseClient(p)
             \/ (PromoteActive(p) /\ ~Return(p)) \/ CloseAll(p)
    <3>1. /\ resolved' = resolved
          /\ \E step \in {"opened", "connected", "promote", "resolve", "offline", "clear"} :
                pc' = [pc EXCEPT ![p] = step]
          /\ pc'[p] \in {"promote", "resolve", "clear"} => resolved[p] = None
      BY <1>1, <2>4 DEF OpenClient, SetActive, CloseClient, PromoteActive, CloseAll, Goto,
         RestoreInv
    <3>2. QED
      BY <1>1, <3>1
  <2>5. QED
    BY <1>3, <2>1, <2>2, <2>3, <2>4 DEF Progress, DialFails, MarkOffline, ClearReload, TestDone
<1>4. QED
  BY <1>2, <1>3

(* Every step keeps what a reload knows.                                   *)
LEMMA RestoreStep ==
    ASSUME IInv, RestoreInv, [Next]_vars
    PROVE  RestoreInv'
<1>1. CASE UNCHANGED vars
  BY <1>1 DEF RestoreInv, AnyOnline, Stored, vars, store, locals
<1>2. CASE Restart
  <2>1. \A q \in Procs : pc'[q] = "idle" /\ resolved'[q] = None
    BY <1>2 DEF Restart
  <2>2. QED
    BY <2>1 DEF RestoreInv
<1>3. ASSUME NEW p \in Procs, Calls(p) \/ Progress(p)
      PROVE  RestoreInv'
  <2>1. MarkOnline(p) => AnyOnline'
    <3> SUFFICES ASSUME MarkOnline(p) PROVE AnyOnline'
      OBVIOUS
    <3>1. target[p] \in Stored(connections) /\ connections \in Store
      BY DEF MarkOnline, IInv, InFlightDialIsCurrent, TypeOK
    <3>2. /\ connections' = [connections EXCEPT ![target[p]].online = TRUE]
          /\ target[p] \in Ids /\ connections[target[p]] \in Profile
      BY <3>1 DEF MarkOnline, Stored, Store
    <3>3. /\ connections'[target[p]] = [connections[target[p]] EXCEPT !.online = TRUE]
          /\ connections'[target[p]] \in Profile
      BY <3>1, <3>2 DEF Store, Profile
    <3>4. connections'[target[p]].online
      BY <3>2, <3>3 DEF Profile
    <3>5. QED
      BY <3>2, <3>3, <3>4, ConstantsAssumption DEF AnyOnline, Stored
  <2>2. ASSUME NEW q \in Procs, pc'[q] = "clear", resolved'[q] # None
        PROVE  AnyOnline'
    <3>1. CASE q = p
      BY <1>3, <2>1, <2>2, <3>1, ResolvedFrame
    <3>2. CASE q # p
      <4>1. pc[q] = "clear" /\ resolved[q] # None
        BY <1>3, <2>2, <3>2, ResolvedFrame
      <4>2. AnyOnline
        BY <4>1 DEF RestoreInv
      <4>3. QED
        BY <1>3, <3>2, <4>1, <4>2, OthersKeepRestored
    <3>3. QED
      BY <3>1, <3>2
  <2>3. ASSUME NEW q \in Procs,
               pc'[q] \in {"idle", "connectCall", "resolve", "close", "promote", "closeAll"}
        PROVE  resolved'[q] = None
    <3>1. CASE q = p
      BY <1>3, <2>3, <3>1, ResolvedFrame
    <3>2. CASE q # p
      BY <1>3, <2>3, <3>2, ResolvedFrame DEF RestoreInv
    <3>3. QED
      BY <3>1, <3>2
  <2>4. QED
    BY <2>2, <2>3 DEF RestoreInv
<1>4. QED
  BY <1>1, <1>2, <1>3 DEF Next

(* A reload or an import that closed an open connection gives up the wish   *)
(* to reconnect only with a connection online again, or with no default to  *)
(* dial (restoreRuntimeLocked): a failed dial or save keeps it.            *)
THEOREM ReloadIsRestored == Spec => ReloadRestores
<1>1. Init => RestoreInv
  BY DEF Init, RestoreInv
<1>2. ASSUME IInv, RestoreInv, [Next]_vars
      PROVE  [reconnectReload /\ ~reconnectReload' =>
                \/ AnyOnline
                \/ \E p \in Procs : pc[p] = "clear" /\ resolved[p] = None
                \/ Restart]_vars
  <2> SUFFICES ASSUME reconnectReload, ~reconnectReload', ~Restart, Next
               PROVE  \/ AnyOnline
                      \/ \E p \in Procs : pc[p] = "clear" /\ resolved[p] = None
    BY <1>2
  <2>1. PICK p \in Procs : Calls(p) \/ Progress(p)
    BY DEF Next
  <2>2. ~Calls(p)
    BY DEF Calls, AddConnection, ConnectDefault, Reload, ReplaceConnections, ReplaceMap,
       SetDefaultConnection, DeleteConnection, Connect, Disconnect, TestConnection,
       UpdateConnection, SetOption, store
  <2>3. ClearReload(p)
    BY <2>1, <2>2 DEF Progress, Resolve, DialFails, OpenClient, SetActive, MarkOnline,
       CloseClient, PromoteActive, MarkOffline, CloseAll, TestDone, store
  <2>4. QED
    BY <1>2, <2>3 DEF ClearReload, RestoreInv
<1>3. QED
  BY <1>1, <1>2, RestoreStep, Invariance, PTL DEF Spec, ReloadRestores

(***************************************************************************)
(* ConnectionService implements ConnectionDirectory: initial states map to  *)
(* initial states, and under the inductive invariant every step maps to a   *)
(* step of the directory or to a stutter.                                  *)
(***************************************************************************)

(* Saving a map in which one entry was written is writing that entry of the *)
(* saved map.                                                              *)
LEMMA PersistedExcept ==
    ASSUME NEW m \in Store, NEW id \in Ids
    PROVE  /\ Persisted([m EXCEPT ![id] = None]) = [Persisted(m) EXCEPT ![id] = None]
           /\ \A r \in Profile :
                Persisted([m EXCEPT ![id] = r]) =
                  [Persisted(m) EXCEPT ![id] = [dial |-> r.dial, isDefault |-> r.isDefault]]
BY ConstantsAssumption DEF Persisted, Store

(* Writing one field of a saved profile.                                   *)
LEMMA RecordExcept ==
    ASSUME NEW r \in Record
    PROVE  /\ \A d \in Dial : [r EXCEPT !.dial = d] = [dial |-> d, isDefault |-> r.isDefault]
           /\ \A b \in BOOLEAN : [r EXCEPT !.isDefault = b] = [dial |-> r.dial, isDefault |-> b]
BY DEF Record

(* A step that keeps the clients and the saved profiles is a stutter.      *)
LEMMA DirectoryStutter ==
    ASSUME UNCHANGED clients, Persisted(connections') = Persisted(connections)
    PROVE  [Directory!Next]_Directory!dvars
<1>1. UNCHANGED Directory!dvars
  BY DEF Directory!dvars, Persisted
<1>2. QED
  BY <1>1

(* The directory knows the stored profiles.                                *)
LEMMA DirectoryKnows ==
    ASSUME connections \in Store
    PROVE  /\ Directory!Known = Stored(connections)
           /\ \A id \in Stored(connections) :
                /\ Persisted(connections)[id] \in Record
                /\ Persisted(connections)[id].dial = connections[id].dial
                /\ Persisted(connections)[id].isDefault = connections[id].isDefault
<1>1. Directory!Known = Stored(Persisted(connections))
  BY DEF Directory!Known, Stored
<1>2. QED
  BY <1>1, PersistedType DEF Files, Stored

(* AddConnection adds a profile under an id that is not taken.             *)
LEMMA DirectoryAdd ==
    ASSUME IInv, NEW p \in Procs, NEW d \in Dial, AddConnection(p, d)
    PROVE  [Directory!Next]_Directory!dvars
<1> DEFINE fresh == [dial |-> d, online |-> FALSE, isDefault |-> Stored(connections) = {}]
<1>1. CASE UNCHANGED connections
  BY <1>1, DirectoryStutter DEF AddConnection, registry
<1>2. CASE connections' = [connections EXCEPT ![nextID] = fresh]
  <2>1. nextID \in Ids /\ nextID \notin Stored(connections) /\ connections \in Store
    BY DEF AddConnection, IInv, TypeOK, NextIDFresh, Ids
  <2>2. /\ fresh \in Profile /\ fresh # None
        /\ fresh.dial = d /\ fresh.isDefault = (Stored(connections) = {})
    <3>1. \A b \in BOOLEAN : [dial |-> d, online |-> FALSE, isDefault |-> b] \in Profile
      BY DEF Profile
    <3>2. (Stored(connections) = {}) \in BOOLEAN
      OBVIOUS
    <3>3. QED
      BY <3>1, <3>2, ConstantsAssumption
  <2> HIDE DEF fresh
  <2>3. Persisted(connections') =
          [Persisted(connections) EXCEPT ![nextID] =
             [dial |-> fresh.dial, isDefault |-> fresh.isDefault]]
    BY <1>2, <2>1, <2>2, PersistedExcept
  <2>4. Directory!Add(nextID, d)
    BY <2>1, <2>2, <2>3, DirectoryKnows DEF AddConnection, registry, Directory!Add
  <2>5. QED
    BY <2>1, <2>4 DEF Directory!Next
<1>3. QED
  BY <1>1, <1>2 DEF AddConnection

(* SetDefaultConnection moves the default flag, or fails.                  *)
LEMMA DirectoryMoveDefault ==
    ASSUME IInv, NEW p \in Procs, NEW id \in Ids, SetDefaultConnection(p, id)
    PROVE  [Directory!Next]_Directory!dvars
<1>1. CASE UNCHANGED connections
  BY <1>1, DirectoryStutter DEF SetDefaultConnection, registry
<1>2. CASE connections' = WithDefault(connections, id)
  <2>1. connections \in Store /\ id \in Stored(connections)
    BY DEF SetDefaultConnection, IInv, TypeOK
  <2>2. \A i \in Stored(connections) :
           LET moved == [connections[i] EXCEPT !.isDefault = (i = id)]
           IN  moved # None /\ moved.dial = connections[i].dial /\ moved.isDefault = (i = id)
    BY <2>1, ConstantsAssumption DEF Store, Profile, Stored
  <2>3. \A i \in Ids : Persisted(connections')[i] =
           IF connections[i] = None THEN None
           ELSE [dial |-> connections[i].dial, isDefault |-> (i = id)]
    BY <1>2, <2>2 DEF WithDefault, Persisted, Stored
  <2>4. \A i \in Stored(connections) :
           [Persisted(connections)[i] EXCEPT !.isDefault = (i = id)] =
             [dial |-> connections[i].dial, isDefault |-> (i = id)]
    <3> TAKE i \in Stored(connections)
    <3>1. /\ Persisted(connections)[i] \in Record
          /\ Persisted(connections)[i].dial = connections[i].dial
      BY <2>1, DirectoryKnows
    <3>2. (i = id) \in BOOLEAN
      OBVIOUS
    <3>3. ASSUME NEW b \in BOOLEAN
          PROVE  [Persisted(connections)[i] EXCEPT !.isDefault = b] =
                   [dial |-> Persisted(connections)[i].dial, isDefault |-> b]
      BY <3>1, RecordExcept
    <3>4. QED
      BY <3>1, <3>2, <3>3
  <2>5. \A i \in Ids : connections[i] = None <=> Persisted(connections)[i] = None
    BY <2>1, PersistedType DEF Stored
  <2>6. Persisted(connections') =
           [i \in Ids |-> IF Persisted(connections)[i] = None THEN None
                          ELSE [Persisted(connections)[i] EXCEPT !.isDefault = (i = id)]]
    <3>1. \A i \in Ids : Persisted(connections')[i] =
             IF Persisted(connections)[i] = None THEN None
             ELSE [Persisted(connections)[i] EXCEPT !.isDefault = (i = id)]
      BY <2>3, <2>4, <2>5 DEF Stored
    <3>2. QED
      BY <3>1 DEF Persisted
  <2>7. Directory!MoveDefault(id)
    BY <2>1, <2>6, DirectoryKnows DEF SetDefaultConnection, registry, Directory!MoveDefault
  <2>8. QED
    BY <2>7 DEF Directory!Next
<1>3. QED
  BY <1>1, <1>2 DEF SetDefaultConnection, SaveOrRollback

(* Writing an edited profile is an edit of the directory.                  *)
LEMMA DirectoryEdit ==
    ASSUME IInv, NEW p \in Procs, NEW id \in Stored(connections), NEW d \in Dial,
           NEW edited \in Profile, edited.dial = d,
           edited.isDefault = connections[id].isDefault,
           connections' = [connections EXCEPT ![id] = edited] \/ UNCHANGED connections,
           UNCHANGED clients
    PROVE  [Directory!Next]_Directory!dvars
<1>1. CASE UNCHANGED connections
  BY <1>1, DirectoryStutter
<1>2. CASE connections' = [connections EXCEPT ![id] = edited]
  <2>1. connections \in Store /\ id \in Ids /\ edited # None
    BY ConstantsAssumption DEF IInv, TypeOK, Stored
  <2>2. Persisted(connections') =
          [Persisted(connections) EXCEPT ![id] =
             [dial |-> edited.dial, isDefault |-> edited.isDefault]]
    <3>1. \A r \in Profile : Persisted([connections EXCEPT ![id] = r]) =
            [Persisted(connections) EXCEPT ![id] = [dial |-> r.dial, isDefault |-> r.isDefault]]
      BY <2>1, PersistedExcept
    <3>2. QED
      BY <1>2, <3>1
  <2>3. [Persisted(connections)[id] EXCEPT !.dial = d] =
          [dial |-> d, isDefault |-> connections[id].isDefault]
    <3>1. /\ Persisted(connections)[id] \in Record
          /\ Persisted(connections)[id].isDefault = connections[id].isDefault
      BY <2>1, DirectoryKnows
    <3>2. [Persisted(connections)[id] EXCEPT !.dial = d] =
            [dial |-> d, isDefault |-> Persisted(connections)[id].isDefault]
      BY <3>1, RecordExcept
    <3>3. QED
      BY <3>1, <3>2
  <2>4. Persisted(connections') = [Persisted(connections) EXCEPT ![id].dial = d]
    BY <2>1, <2>2, <2>3 DEF Persisted
  <2>5. Directory!Edit(id, d)
    BY <2>1, <2>4, DirectoryKnows DEF Directory!Edit
  <2>6. QED
    BY <2>1, <2>5 DEF Directory!Next
<1>3. QED
  BY <1>1, <1>2

(* UpdateConnection and SetOption are such edits.                          *)
LEMMA DirectoryEdits ==
    ASSUME IInv, NEW p \in Procs, NEW id \in Ids, NEW d \in Dial,
           UpdateConnection(p, id, d) \/ SetOption(p, id, d)
    PROVE  [Directory!Next]_Directory!dvars
<1> DEFINE previous == connections[id]
<1>1. id \in Stored(connections) /\ previous \in Profile /\ UNCHANGED clients
  BY ConstantsAssumption DEF UpdateConnection, SetOption, registry, IInv, TypeOK, Store, Stored
<1>2. ASSUME NEW b \in BOOLEAN
      PROVE  LET edited == [previous EXCEPT !.dial = d, !.online = b]
             IN  edited \in Profile /\ edited.dial = d /\ edited.isDefault = previous.isDefault
  BY <1>1 DEF Profile
<1>3. CASE UpdateConnection(p, id, d)
  <2> DEFINE kept == previous.online /\ ~dialParametersChanged(previous.dial, d)
             edited == [previous EXCEPT !.dial = d, !.online = kept]
  <2>1. kept \in BOOLEAN
    BY <1>1 DEF Profile
  <2>2. connections' = [connections EXCEPT ![id] = edited] \/ UNCHANGED connections
    BY <1>3 DEF UpdateConnection, StoreEdit
  <2>3. edited \in Profile /\ edited.dial = d /\ edited.isDefault = previous.isDefault
    BY <1>2, <2>1
  <2> HIDE DEF edited
  <2>4. QED
    BY <1>1, <2>2, <2>3, DirectoryEdit
<1>4. CASE SetOption(p, id, d)
  <2> DEFINE edited == [previous EXCEPT !.dial = d, !.online = FALSE]
  <2>1. connections' = [connections EXCEPT ![id] = edited] \/ UNCHANGED connections
    BY <1>4 DEF SetOption, StoreEdit
  <2>2. edited \in Profile /\ edited.dial = d /\ edited.isDefault = previous.isDefault
    BY <1>2
  <2> HIDE DEF edited
  <2>3. QED
    BY <1>1, <2>1, <2>2, DirectoryEdit
<1>5. QED
  BY <1>3, <1>4

(* DeleteConnection drops the profile; its client is closed later.         *)
LEMMA DirectoryDrop ==
    ASSUME IInv, NEW p \in Procs, NEW id \in Ids, DeleteConnection(p, id)
    PROVE  [Directory!Next]_Directory!dvars
<1>1. CASE UNCHANGED connections
  BY <1>1, DirectoryStutter DEF DeleteConnection, registry
<1>2. CASE connections' = [connections EXCEPT ![id] = None]
  <2>1. connections \in Store /\ id \in Stored(connections)
    BY DEF DeleteConnection, IInv, TypeOK
  <2>2. Persisted(connections') = [Persisted(connections) EXCEPT ![id] = None]
    BY <1>2, <2>1, PersistedExcept
  <2>3. Directory!Drop(id)
    BY <2>1, <2>2, DirectoryKnows DEF DeleteConnection, registry, Directory!Drop
  <2>4. QED
    BY <2>3 DEF Directory!Next
<1>3. QED
  BY <1>1, <1>2 DEF DeleteConnection

(* A reload brings the same profiles back; an import brings a map with a    *)
(* default in.                                                             *)
LEMMA DirectoryReplace ==
    ASSUME IInv, NEW p \in Procs, Reload(p) \/ \E m \in Imports : ReplaceConnections(p, m)
    PROVE  [Directory!Next]_Directory!dvars
<1>1. CASE UNCHANGED connections
  BY <1>1, DirectoryStutter DEF Reload, ReplaceConnections, registry
<1>2. CASE connections' = Loaded(file)
  <2>1. Persisted(connections') = Persisted(connections)
    BY <1>2, LoadedNormalised DEF IInv, FileMirrorsMemory
  <2>2. QED
    BY <2>1, DirectoryStutter DEF Reload, ReplaceConnections, registry
<1>3. ASSUME NEW m \in Imports, ReplaceConnections(p, m), connections' = m
      PROVE  [Directory!Next]_Directory!dvars
  <2>1. m \in Store /\ SingleDefault(Persisted(m))
    BY ConstantsAssumption, SavedDefault DEF Normalised
  <2>2. Persisted(m) \in [Ids -> Directory!Entry \cup {None}]
    BY <2>1, PersistedType DEF Files, Directory!Entry, Record
  <2>3. Directory!Import(Persisted(m))
    BY <1>3, <2>1 DEF Directory!Import, SingleDefault, Defaults, Stored, ReplaceConnections, registry
  <2>4. QED
    BY <2>2, <2>3 DEF Directory!Next
<1>4. QED
  BY <1>1, <1>2, <1>3 DEF Reload, ReplaceConnections, ReplaceMap, store

(* Of the steps of an operation only the opening and the closing of clients*)
(* show.                                                                   *)
LEMMA DirectoryProgress ==
    ASSUME IInv, NEW p \in Procs, Progress(p)
    PROVE  [Directory!Next]_Directory!dvars
<1>1. CASE Resolve(p) \/ DialFails(p) \/ SetActive(p) \/ PromoteActive(p) \/ ClearReload(p) \/ TestDone(p)
  BY <1>1, DirectoryStutter
     DEF Resolve, DialFails, SetActive, PromoteActive, ClearReload, TestDone, store, registry
<1>2. CASE OpenClient(p)
  <2>1. /\ connections \in Store /\ target[p] \in Stored(connections) /\ target[p] \in Ids
        /\ resolved[p] = connections[target[p]].dial
    BY <1>2 DEF OpenClient, IInv, TypeOK, InFlightDialIsCurrent
  <2>2. Directory!OpenClient(target[p])
    BY <1>2, <2>1, DirectoryKnows DEF OpenClient, store, Persisted, Directory!OpenClient
  <2>3. QED
    BY <2>1, <2>2 DEF Directory!Next
<1>3. CASE CloseClient(p)
  <2>1. target[p] \in Ids /\ Directory!CloseClient(target[p])
    BY <1>3 DEF CloseClient, store, Persisted, Directory!CloseClient, IInv, TypeOK
  <2>2. QED
    BY <2>1 DEF Directory!Next
<1>4. CASE CloseAll(p)
  <2>1. Directory!CloseEvery
    BY <1>4 DEF CloseAll, store, Persisted, Directory!CloseEvery
  <2>2. QED
    BY <2>1 DEF Directory!Next
<1>5. CASE MarkOnline(p) \/ MarkOffline(p)
  <2>1. UNCHANGED clients /\ IInv'
    BY <1>5, MarkOnlineStep, MarkOfflineStep DEF MarkOnline, MarkOffline, registry
  <2>2. Persisted(connections') = Persisted(connections)
    <3>1. CASE target[p] \notin Stored(connections)
      BY <1>5, <3>1 DEF MarkOnline, MarkOffline
    <3>2. ASSUME target[p] \in Stored(connections), NEW b \in BOOLEAN,
                 connections' = [connections EXCEPT ![target[p]].online = b]
          PROVE  Persisted(connections') = Persisted(connections)
      BY <3>2, FlagSaved DEF IInv, TypeOK
    <3>3. QED
      BY <1>5, <3>1, <3>2 DEF MarkOnline, MarkOffline
  <2>3. QED
    BY <2>1, <2>2, DirectoryStutter
<1>6. QED
  BY <1>1, <1>2, <1>3, <1>4, <1>5 DEF Progress

(* A restart closes every client and keeps every profile.                  *)
LEMMA DirectoryRestart ==
    ASSUME IInv, Restart
    PROVE  [Directory!Next]_Directory!dvars
<1>1. Persisted(connections') = Persisted(connections)
  BY LoadedNormalised DEF Restart, IInv, FileMirrorsMemory
<1>2. Directory!CloseEvery
  BY <1>1 DEF Restart, Directory!CloseEvery
<1>3. QED
  BY <1>2 DEF Directory!Next

(* Seen from outside, with every operation atomic, the service is the       *)
(* directory: a dial opens a client for exactly the profile that is stored  *)
(* at that moment, and no failure, reload or restart loses a profile.      *)
THEOREM Refinement == Spec => ImplementsDirectory
<1>1. Init => Directory!Init
  BY DEF Init, Directory!Init, Persisted
<1>2. IInv /\ [Next]_vars => [Directory!Next]_Directory!dvars
  <2> SUFFICES ASSUME IInv, [Next]_vars
               PROVE  [Directory!Next]_Directory!dvars
    OBVIOUS
  <2>1. CASE UNCHANGED vars
    BY <2>1, DirectoryStutter DEF vars, store, registry
  <2>2. CASE Restart
    BY <2>2, DirectoryRestart
  <2>3. ASSUME NEW p \in Procs, Progress(p)
        PROVE  [Directory!Next]_Directory!dvars
    BY <2>3, DirectoryProgress
  <2>4. ASSUME NEW p \in Procs, Calls(p)
        PROVE  [Directory!Next]_Directory!dvars
    <3>1. CASE ConnectDefault(p) \/ \E id \in Ids : Connect(p, id) \/ Disconnect(p, id) \/ TestConnection(p, id)
      BY <3>1, DirectoryStutter DEF ConnectDefault, Connect, Disconnect, TestConnection, store, registry
    <3>2. QED
      BY <2>4, <3>1, DirectoryAdd, DirectoryMoveDefault, DirectoryEdits, DirectoryDrop,
         DirectoryReplace DEF Calls
  <2>5. QED
    BY <2>1, <2>2, <2>3, <2>4 DEF Next
<1>3. QED
  BY <1>1, <1>2, Invariance, PTL DEF Spec, ImplementsDirectory, Directory!Spec
==============================================================================
