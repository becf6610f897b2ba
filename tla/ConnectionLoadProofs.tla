------------------------ MODULE ConnectionLoadProofs ------------------------
(***************************************************************************)
(* Proofs about ConnectionLoad, for lists of every length and every         *)
(* combination of ids, default flags and authentication.                   *)
(***************************************************************************)
EXTENDS ConnectionLoad, NaturalSets, FiniteSetTheorems, TLAPS

(* Authentication comes out consistent, and consistent authentication comes *)
(* through unchanged.                                                      *)
LEMMA LoadedAuthConsistent ==
    ASSUME NEW a \in Auth
    PROVE  /\ LoadedAuth(a) \in Auth
           /\ ACLEnabled(LoadedAuth(a)) <=> LoadedAuth(a).keys
           /\ (ACLEnabled(a) <=> a.keys) => LoadedAuth(a) = a
<1>1. a = [mechanism |-> a.mechanism, keys |-> a.keys] /\ a.keys \in BOOLEAN
  BY DEF Auth
<1>2. CASE ACLEnabled(a) /\ a.keys
  <2>1. LoadedAuth(a) = [mechanism |-> "acl", keys |-> TRUE]
    BY <1>2 DEF LoadedAuth, ACLEnabled, ACLInvalid, SetACL
  <2>2. a = [mechanism |-> "acl", keys |-> TRUE]
    BY <1>1, <1>2 DEF ACLEnabled
  <2>3. QED
    BY <2>1, <2>2 DEF ACLEnabled
<1>3. CASE ACLEnabled(a) /\ ~a.keys
  <2>1. LoadedAuth(a) = [mechanism |-> "none", keys |-> FALSE]
    BY <1>3 DEF LoadedAuth, ACLEnabled, ACLInvalid, SetACL
  <2>2. QED
    BY <1>3, <2>1 DEF ACLEnabled, Auth
<1>4. CASE ~ACLEnabled(a)
  <2>1. LoadedAuth(a) = [mechanism |-> a.mechanism, keys |-> FALSE]
    BY <1>4 DEF LoadedAuth, SetACL
  <2>2. LoadedAuth(a) \in Auth /\ ~ACLEnabled(LoadedAuth(a)) /\ ~LoadedAuth(a).keys
    BY <1>4, <2>1 DEF ACLEnabled, Auth
  <2>3. ~a.keys => LoadedAuth(a) = a
    BY <1>1, <2>1
  <2>4. QED
    BY <1>4, <2>2, <2>3
<1>5. QED
  BY <1>2, <1>3, <1>4

(* prepareReplacement hands on an authentication.                          *)
LEMMA PreparedAuthType ==
    ASSUME NEW a \in Auth
    PROVE  PreparedAuth(a) \in Auth
BY DEF Auth, PreparedAuth, ACLEnabled, SetACL

(* A profile on its way into the map.                                      *)
Candidates == [id : 0..(MaxInput + MaxLen), isDefault : BOOLEAN, auth : Auth, tag : 1..MaxLen]

(* One turn of the loop stores the profile under an id that was free, and   *)
(* under its own when that was free.                                       *)
LEMMA BuildStores ==
    ASSUME LoopInv, phase = "loop", NEW e \in Candidates, Build(e),
           loaded \in [Ids -> Slot \cup {None}], nextID \in Ids, hasDefault \in BOOLEAN
    PROVE  \E id \in Nat \ {0} :
             LET slot == [isDefault |-> e.isDefault /\ ~hasDefault,
                          auth |-> LoadedAuth(e.auth), tag |-> e.tag]
             IN  /\ id \notin Stored(loaded)
                 /\ id < nextID'
                 /\ nextID' \in Nat
                 /\ nextID =< nextID'
                 /\ slot \in Slot
                 /\ loaded' = [loaded EXCEPT ![id] = slot]
                 /\ e.id = 0 \/ e.id < nextID => id = nextID \/ id = e.id
                 /\ e.id = 0 \/ e.id < nextID => nextID' =< nextID + 1
                 /\ e.id >= nextID => id = e.id /\ nextID' = e.id + 1
                 /\ e.id # 0 => id = e.id \/ e.id \in Stored(loaded)
                 /\ hasDefault' = (hasDefault \/ e.isDefault)
<1> DEFINE wanted == IF e.id = 0 THEN nextID ELSE e.id
           above == IF wanted >= nextID THEN wanted + 1 ELSE nextID
           taken == loaded[wanted] # None
           id == IF taken THEN above ELSE wanted
           slot == [isDefault |-> e.isDefault /\ ~hasDefault,
                    auth |-> LoadedAuth(e.auth), tag |-> e.tag]
<1>1. /\ wanted \in Nat \ {0} /\ wanted \in Ids /\ nextID \in Nat \ {0} /\ e.id \in Nat
      /\ taken <=> wanted \in Stored(loaded)
  BY LoadAssumption DEF Candidates, Ids, Stored
<1>2. taken => wanted < nextID
  BY <1>1 DEF LoopInv
<1>3. nextID \notin Stored(loaded)
  BY <1>1 DEF LoopInv
<1>4. slot \in Slot
  <2>1. (e.isDefault /\ ~hasDefault) \in BOOLEAN
    BY DEF Candidates
  <2>2. LoadedAuth(e.auth) \in Auth /\ e.tag \in 1..MaxLen
    BY LoadedAuthConsistent DEF Candidates
  <2>3. \A b \in BOOLEAN : [isDefault |-> b, auth |-> LoadedAuth(e.auth), tag |-> e.tag] \in Slot
    BY <2>2 DEF Slot
  <2>4. QED
    BY <2>1, <2>3
<1>5. /\ loaded' = [loaded EXCEPT ![id] = slot]
      /\ nextID' = IF taken THEN above + 1 ELSE above
      /\ hasDefault' = (hasDefault \/ e.isDefault)
  BY DEF Build
<1> HIDE DEF slot, taken
<1>6. /\ id \in Nat \ {0} /\ id \notin Stored(loaded) /\ id < nextID' /\ nextID' \in Nat
      /\ nextID =< nextID'
  BY <1>1, <1>2, <1>3, <1>5
<1>7. /\ e.id = 0 \/ e.id < nextID => id = nextID \/ id = e.id
      /\ e.id = 0 \/ e.id < nextID => nextID' =< nextID + 1
      /\ e.id >= nextID => id = e.id /\ nextID' = e.id + 1
      /\ e.id # 0 => id = e.id \/ e.id \in Stored(loaded)
  BY <1>1, <1>2, <1>5
<1>8. QED
  <2> HIDE DEF id
  <2> QED
    BY <1>4, <1>5, <1>6, <1>7 DEF slot

(* So one turn of the loop, in either pass, keeps the loop's invariant.    *)
LEMMA BuildStep ==
    ASSUME TypeOK, LoopInv, phase = "loop", nextID \in Ids, UNCHANGED phase,
           NEW e \in Candidates, Build(e),
           NEW id \in Ids, id \notin Stored(loaded), id < nextID',
           nextID' \in Nat, nextID =< nextID',
           NEW slot \in Slot, slot.isDefault = (e.isDefault /\ ~hasDefault),
           slot.auth = LoadedAuth(e.auth),
           loaded' = [loaded EXCEPT ![id] = slot],
           hasDefault' = (hasDefault \/ e.isDefault)
    PROVE  /\ LoopInv'
           /\ loaded' \in [Ids -> Slot \cup {None}] /\ hasDefault' \in BOOLEAN
           /\ Stored(loaded') = Stored(loaded) \cup {id}
           /\ loaded'[id] = slot
           /\ \A i \in Stored(loaded) : loaded'[i] = loaded[i]
<1>1. loaded \in [Ids -> Slot \cup {None}] /\ hasDefault \in BOOLEAN /\ nextID \in Nat /\ slot # None
  BY LoadAssumption DEF TypeOK
<1>2. /\ loaded' \in [Ids -> Slot \cup {None}]
      /\ Stored(loaded') = Stored(loaded) \cup {id}
      /\ loaded'[id] = slot
      /\ \A i \in Stored(loaded) : loaded'[i] = loaded[i]
  BY <1>1 DEF Stored
<1>3. hasDefault' \in BOOLEAN
  OBVIOUS
<1>4. \A i \in Stored(loaded') : i < nextID'
  <2>1. Stored(loaded) \subseteq Nat
    BY LoadAssumption DEF Stored, Ids
  <2>2. QED
    BY <1>1, <1>2, <2>1 DEF LoopInv
<1>5. Defaults(loaded') = IF slot.isDefault THEN Defaults(loaded) \cup {id} ELSE Defaults(loaded)
  BY <1>2 DEF Defaults
<1>6. hasDefault <=> Defaults(loaded) # {}
  BY DEF LoopInv
<1>7. /\ \A i, j \in Defaults(loaded') : i = j
      /\ hasDefault' <=> Defaults(loaded') # {}
  <2>1. CASE slot.isDefault
    BY <1>5, <1>6, <2>1
  <2>2. CASE ~slot.isDefault
    BY <1>5, <1>6, <2>2 DEF LoopInv
  <2>3. QED
    BY <2>1, <2>2
<1>8. ACLMeansKeys'
  <2>1. ACLEnabled(slot.auth) <=> slot.auth.keys
    BY LoadedAuthConsistent DEF Candidates
  <2>2. QED
    BY <1>2, <2>1 DEF LoopInv, ACLMeansKeys
<1>9. QED
  BY <1>2, <1>3, <1>4, <1>7, <1>8 DEF LoopInv, Done

(* First pass: the profile at place k.                                     *)
LEMMA ReadEntryStep ==
    ASSUME IInv, ReadEntry
    PROVE  IInv'
<1> DEFINE e == Candidate
           slot == [isDefault |-> e.isDefault /\ ~hasDefault,
                    auth |-> LoadedAuth(e.auth), tag |-> e.tag]
<1>1. /\ phase = "loop" /\ pass = 1 /\ k \in 1..MaxLen /\ k =< Len(input) /\ k' = k + 1
      /\ UNCHANGED <<input, path, phase, pass, rest, first>> /\ Build(e)
  BY LoadAssumption DEF ReadEntry, IInv, TypeOK
<1>2. input[k] \in Entry
  BY <1>1 DEF IInv, TypeOK
<1>3. e \in Candidates /\ e.id \in 0..MaxInput
  <2>1. input[k].auth \in Auth /\ PreparedAuth(input[k].auth) \in Auth
    BY <1>2, LoadAssumption, PreparedAuthType DEF Entry
  <2>2. QED
    BY <1>1, <1>2, <2>1, LoadAssumption DEF Candidate, Candidates, Entry
<1> HIDE DEF e
<1>4. nextID \in Ids /\ nextID \in Nat /\ nextID =< MaxInput + k
  BY <1>1, LoadAssumption DEF IInv, TypeOK, FirstPassInv, Ids
<1>5. PICK id \in Nat \ {0} :
        /\ id \notin Stored(loaded)
        /\ id < nextID'
        /\ nextID' \in Nat
        /\ nextID =< nextID'
        /\ slot \in Slot
        /\ loaded' = [loaded EXCEPT ![id] = slot]
        /\ e.id = 0 \/ e.id < nextID => id = nextID \/ id = e.id
        /\ e.id = 0 \/ e.id < nextID => nextID' =< nextID + 1
        /\ e.id >= nextID => id = e.id /\ nextID' = e.id + 1
        /\ e.id # 0 => id = e.id \/ e.id \in Stored(loaded)
        /\ hasDefault' = (hasDefault \/ e.isDefault)
  BY <1>1, <1>3, <1>4, BuildStores DEF IInv, TypeOK
<1>6. id \in Ids /\ nextID' =< MaxInput + k + 1
  BY <1>1, <1>3, <1>4, <1>5, LoadAssumption DEF Ids
<1>7. slot.isDefault = (e.isDefault /\ ~hasDefault) /\ slot.auth = LoadedAuth(e.auth)
  OBVIOUS
<1> HIDE DEF slot
<1>8. LoopInv' /\ loaded' \in [Ids -> Slot \cup {None}] /\ hasDefault' \in BOOLEAN
  BY <1>1, <1>3, <1>4, <1>5, <1>6, <1>7, BuildStep DEF IInv
<1>9. TypeOK'
  <2>1. k' \in 1..(MaxLen + 1) /\ nextID' \in Nat \ {0}
    BY <1>1, <1>4, <1>5, LoadAssumption DEF Ids
  <2>2. QED
    BY <1>1, <1>8, <2>1 DEF IInv, TypeOK
<1>10. FirstPassInv' /\ SecondPassInv'
  <2>1. Len(input) \in Nat
    BY DEF IInv, TypeOK
  <2>2. QED
    BY <1>1, <1>6, <2>1, LoadAssumption DEF FirstPassInv, SecondPassInv
<1>11. QED
  BY <1>8, <1>9, <1>10 DEF IInv

(* Second pass: the lowest id that is left is copied as it is.             *)
LEMMA ReadSavedStep ==
    ASSUME IInv, ReadSaved
    PROVE  IInv'
<1> DEFINE low == Min(rest)
           e == [id |-> low, isDefault |-> first[low].isDefault,
                 auth |-> first[low].auth, tag |-> first[low].tag]
           slot == [isDefault |-> e.isDefault /\ ~hasDefault,
                    auth |-> LoadedAuth(e.auth), tag |-> e.tag]
<1>1. /\ phase = "loop" /\ pass = 2 /\ rest # {} /\ Build(e) /\ rest' = rest \ {low}
      /\ UNCHANGED <<input, path, phase, pass, k, first>>
  BY DEF ReadSaved
<1>2. rest \subseteq Stored(first) /\ Stored(first) \subseteq Ids /\ Ids \subseteq Nat
  BY <1>1, LoadAssumption DEF IInv, SecondPassInv, Stored, Ids
<1>3. low \in rest /\ low \in Ids /\ \A r \in rest : low =< r
  BY <1>1, <1>2, MinIsLeast
<1> HIDE DEF low
<1>4. first[low] \in Slot
  BY <1>2, <1>3 DEF IInv, TypeOK, Stored
<1>5. e \in Candidates /\ e.id = low /\ e.isDefault = first[low].isDefault
      /\ e.auth = first[low].auth /\ e.tag = first[low].tag
  BY <1>3, <1>4 DEF Candidates, Slot, Ids
<1> HIDE DEF e
<1>6. nextID \in Ids /\ nextID \in Nat /\ nextID =< low
  BY <1>1, <1>2, <1>3, LoadAssumption DEF IInv, TypeOK, SecondPassInv, Ids
<1>7. PICK id \in Nat \ {0} :
        /\ id \notin Stored(loaded)
        /\ id < nextID'
        /\ nextID' \in Nat
        /\ nextID =< nextID'
        /\ slot \in Slot
        /\ loaded' = [loaded EXCEPT ![id] = slot]
        /\ e.id >= nextID => id = e.id /\ nextID' = e.id + 1
        /\ e.id # 0 => id = e.id \/ e.id \in Stored(loaded)
        /\ hasDefault' = (hasDefault \/ e.isDefault)
  BY <1>1, <1>5, <1>6, BuildStores DEF IInv, TypeOK
<1>8. id = low /\ nextID' = low + 1
  BY <1>2, <1>3, <1>5, <1>6, <1>7
<1>9. slot.isDefault = (e.isDefault /\ ~hasDefault) /\ slot.auth = LoadedAuth(e.auth) /\ slot.tag = e.tag
  OBVIOUS
<1> HIDE DEF slot
<1>10. /\ LoopInv' /\ loaded' \in [Ids -> Slot \cup {None}] /\ hasDefault' \in BOOLEAN
       /\ Stored(loaded') = Stored(loaded) \cup {low}
       /\ loaded'[low] = slot
       /\ \A i \in Stored(loaded) : loaded'[i] = loaded[i]
  BY <1>1, <1>3, <1>5, <1>6, <1>7, <1>8, <1>9, BuildStep DEF IInv
<1>11. slot = first[low]
  <2>1. slot.auth = first[low].auth
    BY <1>1, <1>2, <1>3, <1>4, <1>5, <1>9, LoadedAuthConsistent DEF IInv, SecondPassInv, Slot
  <2>2. first[low].isDefault => ~hasDefault
    <3>1. SUFFICES ASSUME first[low].isDefault, hasDefault PROVE FALSE
      OBVIOUS
    <3>2. PICK i \in Defaults(loaded) : TRUE
      BY <1>1, <3>1 DEF IInv, LoopInv
    <3>3. i \in Stored(loaded) /\ loaded[i] = first[i] /\ i \in Stored(first) /\ i \notin rest
      BY <1>1, <3>2 DEF Defaults, IInv, SecondPassInv
    <3>4. i \in Defaults(first) /\ low \in Defaults(first)
      BY <1>2, <1>3, <3>1, <3>2, <3>3 DEF Defaults
    <3>5. QED
      BY <1>1, <1>3, <3>3, <3>4 DEF IInv, SecondPassInv
  <2>3. slot.isDefault = first[low].isDefault
    BY <1>4, <1>5, <1>9, <2>2 DEF Slot
  <2>4. QED
    BY <1>4, <1>5, <1>7, <1>9, <2>1, <2>3 DEF Slot
<1>12. SecondPassInv'
  <2>1. Stored(loaded') = Stored(first) \ rest'
    BY <1>1, <1>2, <1>3, <1>10 DEF IInv, SecondPassInv
  <2>2. \A i \in Stored(loaded') : loaded'[i] = first[i]
    BY <1>1, <1>10, <1>11 DEF IInv, SecondPassInv
  <2>3. \A r \in rest' : nextID' =< r
    BY <1>1, <1>2, <1>3, <1>8
  <2>4. QED
    BY <1>1, <1>2, <2>1, <2>2, <2>3 DEF IInv, SecondPassInv, Stored, Defaults, Done
<1>13. TypeOK' /\ FirstPassInv'
  BY <1>1, <1>6, <1>7, <1>8, <1>10 DEF IInv, TypeOK, FirstPassInv
<1>14. QED
  BY <1>10, <1>12, <1>13 DEF IInv

(* The loop has ended: with no default the lowest id becomes it.           *)
LEMMA FinishStep ==
    ASSUME IInv, Finish
    PROVE  IInv'
<1>1. /\ phase = "loop" /\ phase' = "done"
      /\ UNCHANGED <<input, path, pass, k, rest, nextID, hasDefault, first>>
      /\ loaded \in [Ids -> Slot \cup {None}]
  BY DEF Finish, IInv, TypeOK
<1>2. CASE Stored(loaded) # {} /\ ~hasDefault
  <2> DEFINE low == Min(Stored(loaded))
             slot == [loaded[low] EXCEPT !.isDefault = TRUE]
  <2>1. low \in Stored(loaded) /\ low \in Ids
    <3>1. Stored(loaded) \subseteq Nat /\ Stored(loaded) \subseteq Ids
      BY LoadAssumption DEF Stored, Ids
    <3>2. QED
      BY <1>2, <3>1, MinIsLeast
  <2>2. loaded' = [loaded EXCEPT ![low].isDefault = TRUE]
    BY <1>2 DEF Finish
  <2> HIDE DEF low
  <2>3. loaded[low] \in Slot
    BY <1>1, <2>1 DEF Stored
  <2>4. slot \in Slot /\ slot # None /\ slot.isDefault /\ slot.auth = loaded[low].auth
    BY <2>3, LoadAssumption DEF Slot
  <2>5. loaded' = [loaded EXCEPT ![low] = slot]
    BY <1>1, <2>1, <2>2
  <2> HIDE DEF slot
  <2>6. /\ loaded' \in [Ids -> Slot \cup {None}]
        /\ Stored(loaded') = Stored(loaded) /\ loaded'[low] = slot
        /\ \A i \in Ids \ {low} : loaded'[i] = loaded[i]
    BY <1>1, <2>1, <2>4, <2>5 DEF Stored
  <2>7. Defaults(loaded) = {}
    BY <1>1, <1>2 DEF IInv, LoopInv
  <2>8. Defaults(loaded') = {low}
    BY <2>1, <2>4, <2>6, <2>7 DEF Defaults, Stored
  <2>9. LoopInv'
    <3>1. ACLMeansKeys'
      BY <2>1, <2>4, <2>6 DEF IInv, LoopInv, ACLMeansKeys, Stored
    <3>2. QED
      BY <1>1, <2>6, <2>8, <3>1 DEF IInv, LoopInv, Done
  <2>10. pass # 2
    <3>1. SUFFICES ASSUME pass = 2 PROVE FALSE
      OBVIOUS
    <3>2. Stored(loaded) = Stored(first) /\ \A i \in Stored(loaded) : loaded[i] = first[i]
      BY <3>1 DEF Finish, IInv, SecondPassInv
    <3>3. Defaults(loaded) = Defaults(first)
      BY <3>2 DEF Defaults
    <3>4. QED
      BY <1>2, <2>7, <3>1, <3>2, <3>3 DEF IInv, SecondPassInv
  <2>11. QED
    BY <1>1, <2>6, <2>9, <2>10 DEF IInv, TypeOK, FirstPassInv, SecondPassInv
<1>3. CASE ~(Stored(loaded) # {} /\ ~hasDefault)
  <2>1. loaded' = loaded
    BY <1>3 DEF Finish
  <2>2. LoopInv'
    BY <1>1, <1>3, <2>1 DEF IInv, LoopInv, Done, Stored, Defaults, ACLMeansKeys
  <2>3. TypeOK' /\ FirstPassInv'
    BY <1>1, <2>1 DEF IInv, TypeOK, FirstPassInv
  <2>4. SecondPassInv'
    <3>1. pass = 2 => rest = {}
      BY DEF Finish
    <3>2. UNCHANGED <<loaded, first, rest, nextID, pass>>
      BY <1>1, <2>1
    <3>3. QED
      BY <3>1, <3>2 DEF IInv, SecondPassInv, Stored, Defaults, Done
  <2>5. QED
    BY <2>2, <2>3, <2>4 DEF IInv
<1>4. QED
  BY <1>2, <1>3

(* What is written is the normalised map.                                  *)
LEMMA SaveAndLoadStep ==
    ASSUME IInv, SaveAndLoad
    PROVE  IInv'
<1>1. /\ phase = "done" /\ pass = 1 /\ phase' = "loop" /\ pass' = 2
      /\ first' = loaded /\ rest' = Stored(loaded) /\ loaded' = Empty
      /\ nextID' = 1 /\ hasDefault' = FALSE
      /\ UNCHANGED <<input, path, k>>
  BY DEF SaveAndLoad
<1>2. Stored(loaded') = {} /\ Defaults(loaded') = {}
  BY <1>1 DEF Empty, Stored, Defaults
<1>3. LoopInv'
  BY <1>1, <1>2 DEF LoopInv, ACLMeansKeys, Done
<1>4. SecondPassInv'
  <2>1. \A r \in Stored(loaded) : 1 =< r
    BY LoadAssumption DEF Stored, Ids
  <2>2. \A id \in Stored(loaded) : ACLEnabled(loaded[id].auth) <=> loaded[id].auth.keys
    BY DEF IInv, LoopInv, ACLMeansKeys
  <2>3. Stored(loaded) # {} => Defaults(loaded) # {}
    BY <1>1 DEF IInv, LoopInv, Done
  <2>4. \A i, j \in Defaults(loaded) : i = j
    BY DEF IInv, LoopInv
  <2>5. Stored(loaded') = Stored(first') \ rest'
    BY <1>1, <1>2
  <2>6. QED
    BY <1>1, <1>2, <2>1, <2>2, <2>3, <2>4, <2>5 DEF SecondPassInv, Done
<1>5. TypeOK'
  <2>1. Stored(loaded) \in SUBSET Ids /\ Empty \in [Ids -> Slot \cup {None}]
    BY DEF Stored, Empty
  <2>2. hasDefault' \in BOOLEAN
    BY <1>1
  <2>3. QED
    BY <1>1, <2>1, <2>2 DEF IInv, TypeOK
<1>6. QED
  BY <1>1, <1>3, <1>4, <1>5 DEF IInv, FirstPassInv

(* An import is prepared, or refused as a whole: the map is still empty.    *)
LEMMA PrepareStep ==
    ASSUME IInv, Prepare
    PROVE  IInv'
<1>1. /\ phase = "prepare" /\ phase' \in {"loop", "rejected"}
      /\ UNCHANGED <<input, path, pass, k, rest, loaded, nextID, hasDefault, first>>
  BY DEF Prepare
<1>2. TypeOK' /\ FirstPassInv'
  BY <1>1 DEF IInv, TypeOK, FirstPassInv
<1>3. LoopInv'
  BY <1>1 DEF IInv, LoopInv, ACLMeansKeys, Stored, Defaults, Done
<1>4. SecondPassInv'
  BY <1>1 DEF IInv, SecondPassInv, Stored, Defaults, Done
<1>5. QED
  BY <1>2, <1>3, <1>4 DEF IInv

(* A stuttering step changes nothing the invariant speaks of.              *)
LEMMA StutterStep ==
    ASSUME IInv, UNCHANGED vars
    PROVE  IInv'
<1>1. TypeOK' /\ FirstPassInv'
  BY DEF IInv, TypeOK, FirstPassInv, vars
<1>2. LoopInv'
  BY DEF IInv, LoopInv, ACLMeansKeys, Stored, Defaults, Done, vars
<1>3. SecondPassInv'
  BY DEF IInv, SecondPassInv, Stored, Defaults, Done, vars
<1>4. QED
  BY <1>1, <1>2, <1>3 DEF IInv

(* The service starts with an empty map and the list it was given.         *)
LEMMA InitHolds == Init => IInv
<1> SUFFICES ASSUME Init PROVE IInv
  OBVIOUS
<1>1. input \in Seq(Entry) /\ Len(input) \in Nat /\ Len(input) =< MaxLen
  <2>1. input \in UNION {[1..m -> Entry] : m \in 0..MaxLen}
    BY DEF Init, BoundedSeq, SeqOf
  <2>2. PICK m \in 0..MaxLen : input \in [1..m -> Entry]
    BY <2>1
  <2>3. m \in Nat /\ m =< MaxLen
    BY LoadAssumption
  <2>4. QED
    BY <2>2, <2>3
<1>2. /\ loaded = Empty /\ first = Empty /\ rest = {} /\ pass = 1 /\ k = 1
      /\ nextID = 1 /\ hasDefault = FALSE
      /\ path \in {"file", "import"} /\ phase \in {"loop", "prepare"}
  BY DEF Init
<1>3. Empty \in [Ids -> Slot \cup {None}] /\ Stored(Empty) = {} /\ Defaults(Empty) = {}
  BY DEF Empty, Stored, Defaults
<1>4. TypeOK
  <2>1. hasDefault \in BOOLEAN
    BY <1>2
  <2>2. k \in 1..(MaxLen + 1) /\ nextID \in Nat \ {0}
    BY <1>2, LoadAssumption
  <2>3. QED
    BY <1>1, <1>2, <1>3, <2>1, <2>2 DEF TypeOK
<1>5. LoopInv
  BY <1>2, <1>3 DEF LoopInv, ACLMeansKeys, Done
<1>6. FirstPassInv /\ SecondPassInv
  BY <1>1, <1>2, LoadAssumption DEF FirstPassInv, SecondPassInv
<1>7. QED
  BY <1>4, <1>5, <1>6 DEF IInv

(* For lists of every length with ids of every size, IInv holds throughout  *)
(* both runs of buildConnectionState.                                      *)
THEOREM LoadInvariance == Spec => []IInv
<1>1. IInv /\ [Next]_vars => IInv'
  <2> SUFFICES ASSUME IInv, [Next]_vars PROVE IInv'
    OBVIOUS
  <2>1. CASE Prepare
    BY <2>1, PrepareStep
  <2>2. CASE ReadEntry
    BY <2>2, ReadEntryStep
  <2>3. CASE ReadSaved
    BY <2>3, ReadSavedStep
  <2>4. CASE Finish
    BY <2>4, FinishStep
  <2>5. CASE SaveAndLoad
    BY <2>5, SaveAndLoadStep
  <2>6. CASE UNCHANGED vars
    BY <2>6, StutterStep
  <2>7. QED
    BY <2>1, <2>2, <2>3, <2>4, <2>5, <2>6 DEF Next
<1>2. QED
  BY <1>1, InitHolds, PTL DEF Spec

(* Both passes keep to their types: in particular the ids buildConnectionState *)
(* hands out stay within one new id for each profile of the list.          *)
THEOREM LoadTypeCorrect == Spec => []TypeOK
<1>1. IInv => TypeOK
  BY DEF IInv
<1>2. QED
  BY <1>1, LoadInvariance, PTL

(* The map buildConnectionState returns has one default and a fresh nextID, *)
(* whatever ids and flags the list had.                                    *)
THEOREM LoadNormalises == Spec => []LoadIsNormalised
<1>1. IInv => LoadIsNormalised
  <2> SUFFICES ASSUME IInv, Done PROVE /\ Stored(loaded) # {} => \E id \in Ids : Defaults(loaded) = {id}
                                      /\ \A id \in Stored(loaded) : id < nextID
    BY DEF LoadIsNormalised
  <2>1. \A id \in Stored(loaded) : id < nextID
    BY DEF IInv, LoopInv
  <2>2. ASSUME Stored(loaded) # {} PROVE \E id \in Ids : Defaults(loaded) = {id}
    <3>1. PICK id \in Defaults(loaded) : TRUE
      BY <2>2 DEF IInv, LoopInv
    <3>2. id \in Ids
      BY <3>1 DEF Defaults, Stored
    <3>3. Defaults(loaded) = {id}
      BY <3>1 DEF IInv, LoopInv
    <3>4. QED
      BY <3>2, <3>3
  <2>3. QED
    BY <2>1, <2>2
<1>2. QED
  BY <1>1, LoadInvariance, PTL

(* Loading what was saved gives the map that was saved: nothing about ids,   *)
(* defaults or authentication drifts from one start to the next.           *)
THEOREM LoadIsIdempotent == Spec => []SecondLoadAgrees
<1>1. IInv => SecondLoadAgrees
  <2> SUFFICES ASSUME IInv, Done, pass = 2 PROVE loaded = first
    BY DEF SecondLoadAgrees
  <2>1. loaded \in [Ids -> Slot \cup {None}] /\ first \in [Ids -> Slot \cup {None}]
    BY DEF IInv, TypeOK
  <2>2. Stored(loaded) = Stored(first) /\ \A id \in Stored(loaded) : loaded[id] = first[id]
    BY DEF IInv, SecondPassInv
  <2>3. \A id \in Ids : loaded[id] = first[id]
    BY <2>2 DEF Stored
  <2>4. QED
    BY <2>1, <2>3
<1>2. QED
  BY <1>1, LoadInvariance, PTL

(* No stored profile has the ACL mechanism without keys or keys without the  *)
(* mechanism.                                                              *)
THEOREM ACLIsConsistent == Spec => []ACLMeansKeys
<1>1. IInv => ACLMeansKeys
  BY DEF IInv, LoopInv
<1>2. QED
  BY <1>1, LoadInvariance, PTL

(***************************************************************************)
(* Where the profiles of a map come from.                                  *)
(***************************************************************************)

(* A map with the same profiles, some of them marked, holds what the first  *)
(* one held.                                                               *)
LEMMA HoldsMarked ==
    ASSUME NEW m, NEW other, NEW n, Holds(m, n), Stored(other) = Stored(m),
           \A id \in Stored(m) : other[id].tag = m[id].tag /\ other[id].auth = m[id].auth
    PROVE  Holds(other, n)
<1>1. /\ IsFiniteSet(Stored(other)) /\ Cardinality(Stored(other)) = n
      /\ \A id \in Stored(other) : other[id].tag =< n
      /\ \A i \in 1..n : \E id \in Stored(other) : other[id].tag = i
  BY DEF Holds
<1>2. \A i \in 1..n : input[i].id # 0 =>
        input[i].id \in Stored(other) /\ other[input[i].id].tag =< i
  BY DEF Holds
<1>3. path = "file" => \A id \in Stored(other) :
        ~ACLEnabled(input[other[id].tag].auth) =>
            other[id].auth.mechanism = input[other[id].tag].auth.mechanism
  BY DEF Holds
<1>4. QED
  BY <1>1, <1>2, <1>3 DEF Holds

(* The next profile of the list joins a map that holds the earlier ones.   *)
LEMMA HoldsNext ==
    ASSUME NEW m \in [Ids -> Slot \cup {None}], NEW n \in Nat, Holds(m, n),
           NEW id \in Ids, id \notin Stored(m), NEW slot \in Slot, slot.tag = n + 1,
           input[n + 1].id # 0 => id = input[n + 1].id \/ input[n + 1].id \in Stored(m),
           path = "file" /\ ~ACLEnabled(input[n + 1].auth) =>
               slot.auth.mechanism = input[n + 1].auth.mechanism
    PROVE  Holds([m EXCEPT ![id] = slot], n + 1)
<1> DEFINE other == [m EXCEPT ![id] = slot]
<1>1. /\ slot # None
      /\ other[id] = slot
      /\ \A j \in Stored(m) : other[j] = m[j] /\ m[j].tag \in Nat
  BY LoadAssumption DEF Stored, Slot
<1>2. Stored(other) = Stored(m) \cup {id}
  BY <1>1 DEF Stored
<1> HIDE DEF other
<1>3. IsFiniteSet(Stored(other)) /\ Cardinality(Stored(other)) = n + 1
  BY <1>2, FS_AddElement DEF Holds
<1>4. \A j \in Stored(other) : other[j].tag =< n + 1
  BY <1>1, <1>2 DEF Holds
<1>5. \A i \in 1..(n + 1) : \E j \in Stored(other) : other[j].tag = i
  <2> SUFFICES ASSUME NEW i \in 1..(n + 1) PROVE \E j \in Stored(other) : other[j].tag = i
    OBVIOUS
  <2>1. CASE i = n + 1
    BY <1>1, <1>2, <2>1
  <2>2. CASE i # n + 1
    <3>1. i \in 1..n
      BY <2>2
    <3>2. QED
      BY <1>1, <1>2, <3>1 DEF Holds
  <2>3. QED
    BY <2>1, <2>2
<1>6. \A i \in 1..(n + 1) : input[i].id # 0 =>
        input[i].id \in Stored(other) /\ other[input[i].id].tag =< i
  <2> SUFFICES ASSUME NEW i \in 1..(n + 1), input[i].id # 0
               PROVE  input[i].id \in Stored(other) /\ other[input[i].id].tag =< i
    OBVIOUS
  <2>1. CASE i = n + 1
    <3>1. input[i].id \in Stored(other)
      BY <1>2, <2>1
    <3>2. QED
      BY <1>4, <2>1, <3>1
  <2>2. CASE i # n + 1
    <3>1. i \in 1..n
      BY <2>2
    <3>2. QED
      BY <1>1, <1>2, <3>1 DEF Holds
  <2>3. QED
    BY <2>1, <2>2
<1>7. path = "file" => \A j \in Stored(other) :
        ~ACLEnabled(input[other[j].tag].auth) =>
            other[j].auth.mechanism = input[other[j].tag].auth.mechanism
  BY <1>1, <1>2 DEF Holds
<1>8. QED
  BY <1>3, <1>4, <1>5, <1>6, <1>7 DEF Holds, other

(* A load leaves the mechanism of another family alone.                    *)
LEMMA LoadedMechanism ==
    ASSUME NEW a \in Auth, ~ACLEnabled(a)
    PROVE  LoadedAuth(a).mechanism = a.mechanism
BY DEF LoadedAuth, ACLEnabled, SetACL

(* First pass: the profile at place k.                                     *)
LEMMA ReadEntryOrigin ==
    ASSUME IInv, OriginInv, ReadEntry
    PROVE  OriginInv'
<1> DEFINE e == Candidate
           slot == [isDefault |-> e.isDefault /\ ~hasDefault,
                    auth |-> LoadedAuth(e.auth), tag |-> e.tag]
<1>1. /\ phase = "loop" /\ pass = 1 /\ k \in 1..MaxLen /\ k =< Len(input) /\ k' = k + 1
      /\ UNCHANGED <<input, path, phase, pass, rest, first>> /\ Build(e)
  BY LoadAssumption DEF ReadEntry, IInv, TypeOK
<1>2. input[k] \in Entry /\ input[k].auth \in Auth
  <2>1. input[k] \in Entry
    BY <1>1 DEF IInv, TypeOK
  <2>2. QED
    BY <2>1, LoadAssumption DEF Entry
<1>3. e \in Candidates /\ e.id = input[k].id /\ e.id \in 0..MaxInput /\ e.tag = k
      /\ (path = "file" => e.auth = input[k].auth)
  BY <1>1, <1>2, LoadAssumption, PreparedAuthType DEF Candidate, Candidates, Entry
<1> HIDE DEF e
<1>4. nextID \in Ids /\ nextID \in Nat /\ nextID =< MaxInput + k
  BY <1>1, LoadAssumption DEF IInv, TypeOK, FirstPassInv, Ids
<1>5. PICK id \in Nat \ {0} :
        /\ id \notin Stored(loaded)
        /\ slot \in Slot
        /\ loaded' = [loaded EXCEPT ![id] = slot]
        /\ e.id = 0 \/ e.id < nextID => id = nextID \/ id = e.id
        /\ e.id >= nextID => id = e.id
        /\ e.id # 0 => id = e.id \/ e.id \in Stored(loaded)
  BY <1>1, <1>3, <1>4, BuildStores DEF IInv, TypeOK
<1>6. id \in Ids
  BY <1>1, <1>3, <1>4, <1>5, LoadAssumption DEF Ids
<1>7. slot.tag = k /\ slot.auth = LoadedAuth(e.auth)
  BY <1>3
<1>8. path = "file" /\ ~ACLEnabled(input[k].auth) =>
        slot.auth.mechanism = input[k].auth.mechanism
  BY <1>2, <1>3, <1>7, LoadedMechanism
<1> HIDE DEF slot
<1>9. Holds(loaded', k)
  <2>1. k - 1 \in Nat /\ (k - 1) + 1 = k
    BY <1>1
  <2>2. Holds(loaded, k - 1) /\ loaded \in [Ids -> Slot \cup {None}]
    BY <1>1 DEF OriginInv, IInv, TypeOK
  <2> DEFINE n == k - 1
  <2>3. n \in Nat /\ n + 1 = k /\ Holds(loaded, n)
    BY <2>1, <2>2
  <2> HIDE DEF n
  <2>4. Holds([loaded EXCEPT ![id] = slot], n + 1)
    BY <1>3, <1>5, <1>6, <1>7, <1>8, <2>2, <2>3, HoldsNext
  <2>5. QED
    BY <1>5, <2>3, <2>4
<1>10. Holds(loaded, k - 1)'
  <2>1. k' - 1 = k
    BY <1>1
  <2>2. QED
    BY <1>1, <1>9, <2>1 DEF Holds
<1>11. QED
  BY <1>1, <1>10 DEF OriginInv, Done

(* The mark of the lowest id changes nothing else.                         *)
LEMMA FinishOrigin ==
    ASSUME IInv, OriginInv, Finish
    PROVE  OriginInv'
<1>1. /\ phase = "loop" /\ phase' = "done"
      /\ UNCHANGED <<input, path, pass, k, rest, first>>
      /\ pass = 1 => k > Len(input)
      /\ loaded \in [Ids -> Slot \cup {None}] /\ Len(input) \in Nat /\ k \in Nat
  BY LoadAssumption DEF Finish, IInv, TypeOK
<1>2. pass = 1 => k = Len(input) + 1
  BY <1>1 DEF IInv, FirstPassInv
<1>3. /\ Stored(loaded') = Stored(loaded)
      /\ \A id \in Stored(loaded) :
            loaded'[id].tag = loaded[id].tag /\ loaded'[id].auth = loaded[id].auth
  <2>1. CASE loaded' = loaded
    BY <2>1
  <2>2. CASE Stored(loaded) # {} /\ ~hasDefault
    <3> DEFINE low == Min(Stored(loaded))
    <3>1. loaded' = [loaded EXCEPT ![low].isDefault = TRUE]
      BY <2>2 DEF Finish
    <3>2. low \in Stored(loaded)
      <4>1. Stored(loaded) \subseteq Nat
        BY LoadAssumption DEF Stored, Ids
      <4>2. QED
        BY <2>2, <4>1, MinIsLeast
    <3> HIDE DEF low
    <3>3. /\ \A id \in Ids \ {low} : loaded'[id] = loaded[id]
          /\ loaded'[low] = [loaded[low] EXCEPT !.isDefault = TRUE]
          /\ loaded[low] \in Slot /\ low \in Ids
      BY <1>1, <3>1, <3>2 DEF Stored
    <3>4. /\ loaded'[low] \in Slot /\ loaded'[low].tag = loaded[low].tag
          /\ loaded'[low].auth = loaded[low].auth
      BY <3>3 DEF Slot
    <3>5. QED
      BY <3>2, <3>3, <3>4, LoadAssumption DEF Stored
  <2>3. QED
    BY <2>1, <2>2 DEF Finish
<1>4. pass = 1 => Holds(loaded', k - 1)
  BY <1>3, HoldsMarked DEF OriginInv
<1>5. (pass = 1 => Holds(loaded, k - 1))' /\ (pass = 2 => Holds(first, Len(input)))'
  BY <1>1, <1>4 DEF OriginInv, Holds
<1>6. QED
  BY <1>1, <1>2, <1>5 DEF OriginInv

(* Every step keeps account of the list.                                   *)
LEMMA OriginStep ==
    ASSUME IInv, OriginInv, [Next]_vars
    PROVE  OriginInv'
<1>1. CASE Prepare \/ ReadSaved \/ UNCHANGED vars
  <2>1. /\ UNCHANGED <<input, path, pass, k, first>>
        /\ pass = 1 => UNCHANGED loaded
        /\ pass = 1 /\ phase' = "done" => phase = "done"
    BY <1>1 DEF Prepare, ReadSaved, vars
  <2>2. QED
    BY <2>1 DEF OriginInv, Holds, Done
<1>2. CASE SaveAndLoad
  <2>1. /\ pass = 1 /\ Done /\ pass' = 2 /\ first' = loaded
        /\ UNCHANGED <<input, path, k>>
    BY <1>2 DEF SaveAndLoad, Done
  <2>2. k - 1 = Len(input)
    <3>1. Len(input) \in Nat
      BY DEF IInv, TypeOK
    <3>2. QED
      BY <2>1, <3>1 DEF OriginInv
  <2>3. Holds(loaded, Len(input))
    BY <2>1, <2>2 DEF OriginInv
  <2>4. QED
    BY <2>1, <2>3 DEF OriginInv, Holds
<1>3. QED
  BY <1>1, <1>2, ReadEntryOrigin, FinishOrigin DEF Next

(* What a map is made of, for lists of every length.                       *)
THEOREM OriginInvariance == Spec => []OriginInv
<1>1. Init => OriginInv
  <2> SUFFICES ASSUME Init PROVE OriginInv
    OBVIOUS
  <2>1. pass = 1 /\ k = 1 /\ loaded = Empty /\ ~Done
    BY DEF Init, Done
  <2>2. Stored(loaded) = {}
    BY <2>1 DEF Stored, Empty
  <2>3. IsFiniteSet(Stored(loaded)) /\ Cardinality(Stored(loaded)) = 0
    BY <2>2, FS_EmptySet
  <2>4. k - 1 = 0 /\ 1..0 = {}
    BY <2>1
  <2>5. Holds(loaded, 0)
    BY <2>2, <2>3, <2>4 DEF Holds
  <2>6. QED
    BY <2>1, <2>4, <2>5 DEF OriginInv
<1>2. QED
  BY <1>1, OriginStep, LoadInvariance, PTL DEF Spec

(* When a map is complete it holds the whole list.                         *)
LEMMA CompleteMap ==
    ASSUME IInv, OriginInv, Done
    PROVE  Holds(loaded, Len(input)) /\ Len(input) \in Nat
           /\ loaded \in [Ids -> Slot \cup {None}]
<1>1. Len(input) \in Nat /\ pass \in {1, 2} /\ loaded \in [Ids -> Slot \cup {None}]
  BY DEF IInv, TypeOK
<1>2. CASE pass = 1
  <2>1. k - 1 = Len(input)
    BY <1>1, <1>2 DEF OriginInv
  <2>2. QED
    BY <1>1, <1>2, <2>1 DEF OriginInv
<1>3. CASE pass = 2
  <2>1. Stored(first) = Stored(loaded) /\ \A id \in Stored(loaded) : loaded[id] = first[id]
    BY <1>3 DEF IInv, SecondPassInv
  <2>2. QED
    BY <1>1, <1>3, <2>1, HoldsMarked DEF OriginInv
<1>4. QED
  BY <1>1, <1>2, <1>3

(* buildConnectionState loses no profile and stores none twice, whatever    *)
(* ids the list repeats.                                                   *)
THEOREM NoProfileLost == Spec => []NothingLost
<1>1. IInv /\ OriginInv => NothingLost
  <2> SUFFICES ASSUME IInv, OriginInv, Done
               PROVE  /\ {loaded[id].tag : id \in Stored(loaded)} = 1..Len(input)
                      /\ Cardinality(Stored(loaded)) = Len(input)
    BY DEF NothingLost
  <2>1. Holds(loaded, Len(input)) /\ Len(input) \in Nat
    BY CompleteMap
  <2>2. \A id \in Stored(loaded) : loaded[id].tag \in 1..Len(input)
    <3>1. \A id \in Stored(loaded) : loaded[id].tag \in 1..MaxLen
      BY DEF IInv, TypeOK, Stored, Slot
    <3>2. QED
      BY <2>1, <3>1, LoadAssumption DEF Holds
  <2>3. QED
    BY <2>1, <2>2 DEF Holds
<1>2. QED
  BY <1>1, LoadInvariance, OriginInvariance, PTL

(* A profile keeps its id unless an earlier profile of the list has it.    *)
THEOREM IdsAreKept == Spec => []IdKept
<1>1. IInv /\ OriginInv => IdKept
  <2> SUFFICES ASSUME IInv, OriginInv, Done, NEW i \in DOMAIN input, input[i].id # 0
               PROVE  loaded[input[i].id] # None /\ loaded[input[i].id].tag =< i
    BY DEF IdKept
  <2>1. Holds(loaded, Len(input)) /\ i \in 1..Len(input)
    BY CompleteMap DEF IInv, TypeOK
  <2>2. QED
    BY <2>1 DEF Holds, Stored
<1>2. QED
  BY <1>1, LoadInvariance, OriginInvariance, PTL

(* Loading the file keeps the mechanism of every family but RocketMQ.      *)
THEOREM MechanismsAreKept == Spec => []LoadKeepsMechanism
<1>1. IInv /\ OriginInv => LoadKeepsMechanism
  <2>1. ASSUME IInv, OriginInv, Done PROVE Holds(loaded, Len(input))
    BY <2>1, CompleteMap
  <2>2. QED
    BY <2>1 DEF LoadKeepsMechanism, Holds
<1>2. QED
  BY <1>1, LoadInvariance, OriginInvariance, PTL
=============================================================================
