--------------------------- MODULE ConnectionLoad ---------------------------
(***************************************************************************)
(* How a list of profiles becomes the map of the connection service:        *)
(* buildConnectionState of internal/service/connection/persistence.go, fed  *)
(* by loadConnectionsFromFile ("file") or by prepareReplacement ("import"). *)
(*                                                                         *)
(* Every list is built twice, as in the program.  The first map is written  *)
(* to connections.json in the order of its ids; the second is built from    *)
(* that: by New at the next start, or by ReplaceConnections itself, which   *)
(* encodes the prepared profiles and builds the map it keeps from them.     *)
(* ConnectionService takes it that the second map is the first.            *)
(*                                                                         *)
(* Data.  A profile is its id (0 for every id that is not positive), its    *)
(* default flag, its authentication, and "tag", the place it had in the     *)
(* list, by which the properties recognise it.  "keys" says that both       *)
(* halves of the ACL key pair are set.  A nil entry is skipped and not      *)
(* listed here.                                                            *)
(***************************************************************************)
EXTENDS Integers, FiniteSetsExt, SequencesExt

CONSTANTS
    MaxLen,         \* bound on the length of a list (the code has none)
    MaxInput,       \* bound on the ids in a list (the code has none)
    Mechanisms,     \* mechanisms other than ACL and none
    Auths,          \* the authentications profiles in a list may have
    None

(* Room for the ids of a list and one new id for each of its profiles.     *)
Ids == 1..(MaxInput + MaxLen)

Auth == [mechanism : Mechanisms \cup {"acl", "none"}, keys : BOOLEAN]

Entry == [id : 0..MaxInput, isDefault : BOOLEAN, auth : Auths]

Slot == [isDefault : BOOLEAN, auth : Auth, tag : 1..MaxLen]

ASSUME LoadAssumption ==
    /\ MaxLen \in Nat \ {0}
    /\ MaxInput \in Nat
    /\ Mechanisms \cap {"acl", "none"} = {}
    /\ Auths \subseteq Auth
    /\ None \notin Slot

VARIABLES
    input,        \* the list
    path,         \* "file" or "import"
    phase,        \* "prepare", "loop", "done" or "rejected"
    pass,         \* first or second build
    k,            \* first pass: the next place in the list
    rest,         \* second pass: the ids still to be read, lowest first
    loaded,       \* the map being built
    nextID,
    hasDefault,
    first         \* the map the first pass built

vars == <<input, path, phase, pass, k, rest, loaded, nextID, hasDefault, first>>

Stored(m) == {id \in Ids : m[id] # None}

Defaults(m) == {id \in Stored(m) : m[id].isDefault}

Empty == [id \in Ids |-> None]

TypeOK ==
    /\ input \in Seq(Entry) /\ Len(input) =< MaxLen
    /\ path \in {"file", "import"}
    /\ phase \in {"prepare", "loop", "done", "rejected"}
    /\ pass \in {1, 2}
    /\ k \in 1..(MaxLen + 1)
    /\ rest \in SUBSET Ids
    /\ loaded \in [Ids -> Slot \cup {None}]
    /\ nextID \in Nat \ {0}
    /\ hasDefault \in BOOLEAN
    /\ first \in [Ids -> Slot \cup {None}]
-----------------------------------------------------------------------------
(***************************************************************************)
(* Authentication.                                                         *)
(***************************************************************************)

ACLEnabled(a) == a.mechanism = "acl"

(* normalizeACLConfig returns an error.                                    *)
ACLInvalid(a) == ACLEnabled(a) /\ ~a.keys

(* Mutant: switching ACL off leaves no mechanism at all.                   *)
SetACL_Blank(enabled) ==
    IF enabled THEN [mechanism |-> "acl", keys |-> TRUE]
               ELSE [mechanism |-> "", keys |-> FALSE]

(* ConnectionProfile.SetACL sets or clears mechanism and keys together.    *)
SetACL(enabled) ==
    IF enabled THEN [mechanism |-> "acl", keys |-> TRUE]
               ELSE [mechanism |-> "none", keys |-> FALSE]

(* Mutant: the mechanism of another family is not put back.                *)
LoadedAuth_Anonymous(a) == SetACL(ACLEnabled(a) /\ ~ACLInvalid(a))

(* Mutant: an incomplete key pair stays under the ACL mechanism.           *)
LoadedAuth_Incomplete(a) == IF ACLEnabled(a) THEN a ELSE [a EXCEPT !.keys = FALSE]

(* buildConnectionState: an incomplete ACL configuration is switched off;   *)
(* the mechanism of another family is put back after SetACL cleared it.    *)
LoadedAuth(a) ==
    LET enabled == ACLEnabled(a) /\ ~ACLInvalid(a)
    IN  IF ~enabled /\ ~ACLEnabled(a)
        THEN [SetACL(FALSE) EXCEPT !.mechanism = a.mechanism]
        ELSE SetACL(enabled)

(* prepareReplacement calls SetACL as well, and puts nothing back.         *)
PreparedAuth(a) == SetACL(ACLEnabled(a))
-----------------------------------------------------------------------------
Init ==
    /\ input \in BoundedSeq(Entry, MaxLen)
    /\ path \in {"file", "import"}
    /\ phase = IF path = "file" THEN "loop" ELSE "prepare"
    /\ pass = 1
    /\ k = 1
    /\ rest = {}
    /\ loaded = Empty
    /\ nextID = 1
    /\ hasDefault = FALSE
    /\ first = Empty

(* prepareReplacement, before it calls buildConnectionState: one invalid    *)
(* profile rejects the whole import.                                       *)
Prepare ==
    /\ phase = "prepare"
    /\ phase' = IF \E i \in DOMAIN input : ACLInvalid(input[i].auth) THEN "rejected" ELSE "loop"
    /\ UNCHANGED <<input, path, pass, k, rest, loaded, nextID, hasDefault, first>>

(* The profile the first pass reads at place k.                            *)
Candidate ==
    LET e == input[k]
    IN  [id |-> e.id, isDefault |-> e.isDefault, tag |-> k,
         auth |-> IF path = "import" THEN PreparedAuth(e.auth) ELSE e.auth]

(* Mutant: nextID is not moved past an explicit id.                        *)
Build_NextIDBehind(e) ==
    LET wanted == IF e.id = 0 THEN nextID ELSE e.id
        taken == loaded[wanted] # None
        id == IF taken THEN nextID ELSE wanted
    IN  /\ loaded' = [loaded EXCEPT ![id] =
              [isDefault |-> e.isDefault /\ ~hasDefault, auth |-> LoadedAuth(e.auth), tag |-> e.tag]]
        /\ nextID' = IF taken \/ e.id = 0 THEN nextID + 1 ELSE nextID
        /\ hasDefault' = (hasDefault \/ e.isDefault)

(* Mutant: a second profile marked default keeps the mark.                 *)
Build_TwoDefaults(e) ==
    LET wanted == IF e.id = 0 THEN nextID ELSE e.id
        above == IF wanted >= nextID THEN wanted + 1 ELSE nextID
        taken == loaded[wanted] # None
        id == IF taken THEN above ELSE wanted
    IN  /\ loaded' = [loaded EXCEPT ![id] =
              [isDefault |-> e.isDefault, auth |-> LoadedAuth(e.auth), tag |-> e.tag]]
        /\ nextID' = IF taken THEN above + 1 ELSE above
        /\ hasDefault' = (hasDefault \/ e.isDefault)

(* Mutant: a profile with a repeated id replaces the earlier one.          *)
Build_Overwrites(e) ==
    LET id == IF e.id = 0 THEN nextID ELSE e.id
    IN  /\ loaded' = [loaded EXCEPT ![id] =
              [isDefault |-> e.isDefault /\ ~hasDefault, auth |-> LoadedAuth(e.auth), tag |-> e.tag]]
        /\ nextID' = IF id >= nextID THEN id + 1 ELSE nextID
        /\ hasDefault' = (hasDefault \/ e.isDefault)

(* Mutant: the second and later profiles are always given a new id.        *)
Build_Renumbers(e) ==
    /\ loaded' = [loaded EXCEPT ![nextID] =
          [isDefault |-> e.isDefault /\ ~hasDefault, auth |-> LoadedAuth(e.auth), tag |-> e.tag]]
    /\ nextID' = nextID + 1
    /\ hasDefault' = (hasDefault \/ e.isDefault)

(* The body of the loop of buildConnectionState: an id that is not positive *)
(* or already taken is replaced by nextID; the first default wins.         *)
Build(e) ==
    LET wanted == IF e.id = 0 THEN nextID ELSE e.id
        above == IF wanted >= nextID THEN wanted + 1 ELSE nextID
        taken == loaded[wanted] # None
        id == IF taken THEN above ELSE wanted
    IN  /\ loaded' = [loaded EXCEPT ![id] =
              [isDefault |-> e.isDefault /\ ~hasDefault, auth |-> LoadedAuth(e.auth), tag |-> e.tag]]
        /\ nextID' = IF taken THEN above + 1 ELSE above
        /\ hasDefault' = (hasDefault \/ e.isDefault)

ReadEntry ==
    /\ phase = "loop" /\ pass = 1 /\ k =< Len(input)
    /\ Build(Candidate)
    /\ k' = k + 1
    /\ UNCHANGED <<input, path, phase, pass, rest, first>>

(* copyConnectionsSorted lists the profiles by id.                         *)
ReadSaved ==
    /\ phase = "loop" /\ pass = 2 /\ rest # {}
    /\ LET id == Min(rest)
       IN  /\ Build([id |-> id, isDefault |-> first[id].isDefault,
                     auth |-> first[id].auth, tag |-> first[id].tag])
           /\ rest' = rest \ {id}
    /\ UNCHANGED <<input, path, phase, pass, k, first>>

(* Mutant: the lowest id becomes a default even beside another one.        *)
Finish_AlwaysPromotes ==
    /\ phase = "loop"
    /\ IF pass = 1 THEN k > Len(input) ELSE rest = {}
    /\ loaded' = IF Stored(loaded) # {}
                 THEN [loaded EXCEPT ![Min(Stored(loaded))].isDefault = TRUE]
                 ELSE loaded
    /\ phase' = "done"
    /\ UNCHANGED <<input, path, pass, k, rest, nextID, hasDefault, first>>

(* After the loop: without a default, the lowest id becomes it.            *)
Finish ==
    /\ phase = "loop"
    /\ IF pass = 1 THEN k > Len(input) ELSE rest = {}
    /\ loaded' = IF Stored(loaded) # {} /\ ~hasDefault
                 THEN [loaded EXCEPT ![Min(Stored(loaded))].isDefault = TRUE]
                 ELSE loaded
    /\ phase' = "done"
    /\ UNCHANGED <<input, path, pass, k, rest, nextID, hasDefault, first>>

(* The map is written, and a map is built from what was written.           *)
SaveAndLoad ==
    /\ phase = "done" /\ pass = 1
    /\ first' = loaded
    /\ rest' = Stored(loaded)
    /\ loaded' = Empty
    /\ nextID' = 1
    /\ hasDefault' = FALSE
    /\ phase' = "loop"
    /\ pass' = 2
    /\ UNCHANGED <<input, path, k>>

Next == Prepare \/ ReadEntry \/ ReadSaved \/ Finish \/ SaveAndLoad

Spec == Init /\ [][Next]_vars
-----------------------------------------------------------------------------
(***************************************************************************)
(* Properties.                                                             *)
(***************************************************************************)
Done == phase = "done"

(* Whatever ids, repetitions and default flags the list has, the map that   *)
(* comes out has exactly one default as soon as it has a profile, and the   *)
(* id AddConnection takes next is above every stored one.                  *)
LoadIsNormalised ==
    Done => /\ Stored(loaded) # {} => \E id \in Ids : Defaults(loaded) = {id}
            /\ \A id \in Stored(loaded) : id < nextID

(* No profile of the list is lost or stored twice: a repeated id moves the  *)
(* later profile, and never onto an id that a still later one replaces.    *)
NothingLost ==
    Done => /\ {loaded[id].tag : id \in Stored(loaded)} = 1..Len(input)
            /\ Cardinality(Stored(loaded)) = Len(input)

(* A profile keeps its id unless an earlier one in the list was given it:   *)
(* the tabs and settings of the user that name an id still mean the same    *)
(* connection.                                                             *)
IdKept ==
    Done => \A i \in DOMAIN input :
        input[i].id # 0 =>
            /\ loaded[input[i].id] # None
            /\ loaded[input[i].id].tag =< i

(* Building the map again from what was written gives the same map: a       *)
(* restart changes nothing, and the map ReplaceConnections keeps is the one *)
(* it wrote.                                                               *)
SecondLoadAgrees == Done /\ pass = 2 => loaded = first

(* "a profile with the ACL mechanism and no keys, or keys with the          *)
(* mechanism off, are both states nothing should be able to produce"       *)
(* (ConnectionProfile.SetACL): no list, however inconsistent, gets one in. *)
ACLMeansKeys ==
    \A id \in Stored(loaded) : ACLEnabled(loaded[id].auth) <=> loaded[id].auth.keys

(* A load keeps the mechanism of every family but RocketMQ.                *)
LoadKeepsMechanism ==
    Done /\ path = "file" => \A id \in Stored(loaded) :
        LET before == input[loaded[id].tag].auth
        IN  ~ACLEnabled(before) => loaded[id].auth.mechanism = before.mechanism

(* The inductive invariant.  In the loop no id reaches nextID, hasDefault    *)
(* says whether a default was met, and authentication is consistent.       *)
LoopInv ==
    /\ \A id \in Stored(loaded) : id < nextID
    /\ \A i, j \in Defaults(loaded) : i = j
    /\ phase = "prepare" => Stored(loaded) = {} /\ ~hasDefault
    /\ phase = "loop" => (hasDefault <=> Defaults(loaded) # {})
    /\ Done /\ Stored(loaded) # {} => Defaults(loaded) # {}
    /\ ACLMeansKeys

(* The first pass hands out at most one id beyond the list's own for each    *)
(* profile.                                                                *)
FirstPassInv ==
    pass = 1 => /\ nextID =< MaxInput + k
                /\ k =< Len(input) + 1

(* The second pass reads a normalised map in the order of its ids and       *)
(* copies it.                                                              *)
SecondPassInv ==
    pass = 2 =>
        /\ Stored(first) # {} => Defaults(first) # {}
        /\ \A i, j \in Defaults(first) : i = j
        /\ \A id \in Stored(first) : ACLEnabled(first[id].auth) <=> first[id].auth.keys
        /\ rest \subseteq Stored(first)
        /\ Stored(loaded) = Stored(first) \ rest
        /\ \A id \in Stored(loaded) : loaded[id] = first[id]
        /\ \A r \in rest : nextID =< r
        /\ Done => rest = {}

IInv == TypeOK /\ LoopInv /\ FirstPassInv /\ SecondPassInv

(* The map m holds the first n profiles of the list: each of them once,     *)
(* under its own id or beside an earlier one that has that id, and with the *)
(* mechanism it came with.                                                 *)
Holds(m, n) ==
    /\ IsFiniteSet(Stored(m)) /\ Cardinality(Stored(m)) = n
    /\ \A id \in Stored(m) : m[id].tag =< n
    /\ \A i \in 1..n : \E id \in Stored(m) : m[id].tag = i
    /\ \A i \in 1..n : input[i].id # 0 =>
          input[i].id \in Stored(m) /\ m[input[i].id].tag =< i
    /\ path = "file" => \A id \in Stored(m) :
          LET before == input[m[id].tag].auth
          IN  ~ACLEnabled(before) => m[id].auth.mechanism = before.mechanism

(* The first pass works through the list, the second through its result.   *)
OriginInv ==
    /\ pass = 1 => Holds(loaded, k - 1)
    /\ pass = 1 /\ Done => k = Len(input) + 1
    /\ pass = 2 => Holds(first, Len(input))

(* The same for every way profiles come in: "Another family's mechanism has *)
(* to survive the load" (buildConnectionState).  An import breaks it.      *)
MechanismSurvives ==
    Done => \A id \in Stored(loaded) :
        LET before == input[loaded[id].tag].auth
        IN  ~ACLEnabled(before) => loaded[id].auth.mechanism = before.mechanism
=============================================================================
