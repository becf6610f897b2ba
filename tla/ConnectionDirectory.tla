------------------------ MODULE ConnectionDirectory ------------------------
(***************************************************************************)
(* What the connection service promises, with every operation atomic: a     *)
(* durable directory of profiles and a set of open clients.                *)
(*                                                                         *)
(*  - A client is opened only for a stored profile, and with exactly the    *)
(*    parameters that profile has at that very moment.                     *)
(*  - Opening one client leaves every other client open.                   *)
(*  - The directory changes only by the edits a user can make, and a        *)
(*    restart keeps all of it.                                             *)
(***************************************************************************)
EXTENDS Integers

CONSTANTS Ids, Dial, None

VARIABLES
    profiles,   \* id -> [dial, isDefault], or None
    clients     \* id -> the parameters the open client was dialled with, or None

dvars == <<profiles, clients>>

Known == {id \in Ids : profiles[id] # None}

Entry == [dial : Dial, isDefault : BOOLEAN]

Init ==
    /\ profiles = [id \in Ids |-> None]
    /\ clients = [id \in Ids |-> None]

(* A new profile is the default one when it is the first.                  *)
Add(id, d) ==
    /\ id \notin Known
    /\ profiles' = [profiles EXCEPT ![id] = [dial |-> d, isDefault |-> Known = {}]]
    /\ UNCHANGED clients

Edit(id, d) ==
    /\ id \in Known
    /\ profiles' = [profiles EXCEPT ![id].dial = d]
    /\ UNCHANGED clients

MoveDefault(id) ==
    /\ id \in Known
    /\ profiles' = [i \in Ids |-> IF profiles[i] = None THEN None
                                  ELSE [profiles[i] EXCEPT !.isDefault = (i = id)]]
    /\ UNCHANGED clients

Drop(id) ==
    /\ id \in Known
    /\ profiles[id].isDefault => Known = {id}
    /\ profiles' = [profiles EXCEPT ![id] = None]
    /\ UNCHANGED clients

(* An import replaces the directory as a whole, by one with a default.     *)
Import(m) ==
    /\ (\E id \in Ids : m[id] # None) => \E id \in Ids : m[id] # None /\ m[id].isDefault
    /\ profiles' = m
    /\ UNCHANGED clients

OpenClient(id) ==
    /\ id \in Known
    /\ clients' = [clients EXCEPT ![id] = profiles[id].dial]
    /\ UNCHANGED profiles

CloseClient(id) ==
    /\ clients' = [clients EXCEPT ![id] = None]
    /\ UNCHANGED profiles

(* A reload or the end of the process closes every client.                 *)
CloseEvery ==
    /\ clients' = [id \in Ids |-> None]
    /\ UNCHANGED profiles

Next ==
    \/ \E id \in Ids :
          \/ \E d \in Dial : Add(id, d) \/ Edit(id, d)
          \/ MoveDefault(id) \/ Drop(id)
          \/ OpenClient(id) \/ CloseClient(id)
    \/ \E m \in [Ids -> Entry \cup {None}] : Import(m)
    \/ CloseEvery

Spec == Init /\ [][Next]_dvars
=============================================================================
