------------------------ MODULE MCConnectionService ------------------------
(* Model of ConnectionService for TLC.                                     *)
EXTENDS ConnectionService

CONSTANTS p1, p2, c1, c2, m1, m2

Rec(c, d) == [dial |-> [compared |-> c, mechanism |-> m1],
              online |-> FALSE, isDefault |-> d]

(* An empty backup; one profile under id 1, where a live one may be; one    *)
(* under id 2, so that the ids in between are free again.                  *)
MCImports ==
    {[id \in Ids |-> None],
     [id \in Ids |-> IF id = 1 THEN Rec(c2, TRUE) ELSE None],
     [id \in Ids |-> IF id = 2 THEN Rec(c1, TRUE) ELSE None]}
=============================================================================
