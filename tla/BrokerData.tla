------------------------------ MODULE BrokerData ------------------------------
(***************************************************************************)
(* useBrokerData, the hook every board reads the broker with, and the      *)
(* hooks that hold a request of their own (Pulled in BoardShapes).         *)
(*                                                                         *)
(* A read is what it shows, the requests that are in the air and whether   *)
(* it spins (loading or refreshing).  Of the requests at most one is       *)
(* current: starting another, or the effect that follows a change of the   *)
(* query or of the connection, bumps the generation.  A request remembers  *)
(* what it asked for and the version of the broker at that moment: its     *)
(* answer is a version from then on.                                       *)
(***************************************************************************)
EXTENDS Naturals

CONSTANT NoData     \* nothing is shown: not read yet, or the read failed

Unread == [shown |-> NoData, flight |-> {}, spinning |-> FALSE]

\* The generation moves on: no request in the air is current any more.
Outdated(flight) == {[r EXCEPT !.current = FALSE] : r \in flight}

\* run: a silent run keeps what is shown and makes the read spin.
Run(read, key, now, silent) ==
    [read EXCEPT
        !.flight = Outdated(@) \cup {[key |-> key, since |-> now, current |-> TRUE]},
        !.spinning = @ \/ silent]

Effect_KeepsShown(read, key, now, active) ==
    IF active THEN Run(read, key, now, FALSE) ELSE read

Effect_SpinsOffline(read, key, now, active) ==
    LET cleared == [shown |-> NoData, flight |-> Outdated(read.flight),
                    spinning |-> read.spinning \/ active]
    IN  IF active THEN Run(cleared, key, now, FALSE) ELSE cleared

\* The effect: it clears what is shown and reads again, unless nothing is
\* dialled or there is nothing to ask for.
Effect(read, key, now, active) ==
    LET cleared == [shown |-> NoData, flight |-> Outdated(read.flight),
                    spinning |-> active]
    IN  IF active THEN Run(cleared, key, now, FALSE) ELSE cleared

Settle_Unguarded(read, request, answer, guarded) ==
    [shown |-> answer, flight |-> read.flight \ {request}, spinning |-> FALSE]

Settle_Spins(read, request, answer, guarded) ==
    IF request.current \/ ~guarded
    THEN [read EXCEPT !.shown = answer, !.flight = @ \ {request}]
    ELSE [read EXCEPT !.flight = @ \ {request}]

\* An answer, or NoData for a failure, is applied when its request is still
\* current, or when the hook has no generation.
Settle(read, request, answer, guarded) ==
    IF request.current \/ ~guarded
    THEN [shown |-> answer, flight |-> read.flight \ {request}, spinning |-> FALSE]
    ELSE [read EXCEPT !.flight = @ \ {request}]

Settled(read) == \A r \in read.flight : ~r.current
=============================================================================
