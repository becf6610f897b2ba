-------------------------------- MODULE Board --------------------------------
(***************************************************************************)
(* A board at work: one page of the window on one connection.  The broker  *)
(* is changed by this board and by others; the list is read when the board *)
(* is mounted, every thirty seconds and after an operation; a second read  *)
(* follows the selection.  A handler keeps the closures of the render in   *)
(* which its button was pressed: when its call returns, what it refreshes  *)
(* is what the board asked for at that time.                               *)
(*                                                                         *)
(* Entries are numbered in the order of the list.  The broker is the       *)
(* sequence of the sets of entries it has had; its version is the length.  *)
(***************************************************************************)
EXTENDS BoardShapes, BrokerData, Sequences, FiniteSets

CONSTANTS
    Boards,         \* the boards, as Control describes them
    Entries,        \* numbers of the entries
    MaxVersions,    \* how often the broker changes
    MaxFlight,      \* requests of one read in the air before a click adds one
    MaxCalls        \* operations under way

ASSUME BoundsAssumption ==
    /\ Entries \subseteq Nat \ {0}
    /\ MaxVersions \in Nat \ {0}
    /\ {MaxFlight, MaxCalls} \subseteq Nat

\* A read that follows the selection is useBrokerData, with its generation.
ASSUME BoardsAssumption ==
    \A b \in Boards :
        /\ b.second.guarded \in BOOLEAN
        /\ b.second.kind \in {"keyed", "once"} => b.second.guarded

VARIABLES
    board,      \* the shape of this board
    versions,   \* the sets of entries the broker has had
    online,     \* the connection is dialled
    list,       \* the read of the list
    second,     \* the read that follows the selection
    selected,   \* the selected entry, 0 for none
    calls,      \* operations under way
    owed        \* the version the last operation that refreshed has written

vars == <<board, versions, online, list, second, selected, calls, owed>>

(***************************************************************************)
(* The control of a board: what its operations clear and refresh.          *)
(***************************************************************************)
OpControl(b, name) ==
    LET op == b.ops[name] IN
    [header |-> name \in DOMAIN b.header,
     entry |-> name \in DOMAIN b.offers,
     clears |-> op.via = "question" /\ op.clears,
     alone |-> IF op.via \in {"click", "inline"} THEN op.guard ELSE op.via = "dialog",
     rereads |-> op.rereads]

Control(b) ==
    [list |-> b.list.kind, panel |-> b.panel, second |-> b.second,
     ops |-> {OpControl(b, name) : name \in DOMAIN b.ops}]

-----------------------------------------------------------------------------

Now == Len(versions)
NotTracked == 0     \* of the second read only what it is about is kept
Follows == board.second.kind \in {"keyed", "once"}
Pulls == board.second.kind \in {"pick", "button"}
First(rows) == CHOOSE e \in rows : \A f \in rows : e <= f

Rows(aList) == IF aList.shown = NoData THEN {} ELSE versions[aList.shown.at]

\* The entry the panel, and the second read, are about.
KeyOf(aList, sel) ==
    LET rows == Rows(aList)
        first == IF rows = {} THEN 0 ELSE First(rows)
    IN  CASE board.panel \in {OrFirst, LandedOrFirst} ->
                IF sel \in rows THEN sel ELSE first
          [] board.panel \in {Picked, OrOffered} -> IF sel # 0 THEN sel ELSE first
          [] board.panel \in {Sheet, LandedRow} -> IF sel \in rows THEN sel ELSE 0
          [] board.panel = NoPanel -> 0
          [] OTHER -> sel

Key == KeyOf(list, selected)

\* The effect of some boards that selects the first row as soon as there is one.
Land(aList, sel) ==
    IF board.panel \in Landing /\ sel = 0 /\ Rows(aList) # {}
    THEN First(Rows(aList)) ELSE sel

\* The entries whose operations are offered: the rows of a table without a
\* panel, or the one of the panel.
Offered ==
    CASE board.panel = NoPanel -> Rows(list)
      [] board.panel = Find -> {selected} \cap Rows(list)
      [] board.panel = DetailOr ->
            IF second.shown # NoData THEN {selected} ELSE {selected} \cap Rows(list)
      [] board.panel \in Sources -> IF second.shown # NoData THEN {Key} \ {0} ELSE {}
      [] OTHER -> {Key} \ {0}

\* The second read starts over, for the entry of the next state.
StartOver(aSecond) ==
    Effect(aSecond, KeyOf(list', selected'), NotTracked,
           online' /\ KeyOf(list', selected') # 0)

\* The render after a step, and its effects: a read that follows the key starts
\* over when the key or the connection has changed; a hook that reads on a pick
\* keeps what it shows until the answer arrives.  React runs the effects before
\* it renders again, so a reply that comes in between is applied to a state
\* that the effect then clears: nothing is seen of it.
Render(aSecond) ==
    second' =
      IF Follows /\ (KeyOf(list', selected') # Key \/ online' # online)
      THEN StartOver(aSecond)
      ELSE IF board.second.kind = "pick" /\ selected' \notin {0, selected}
      THEN Run(aSecond, selected', NotTracked, TRUE)
      ELSE aSecond

CanAsk(read) == Cardinality(read.flight) < MaxFlight

-----------------------------------------------------------------------------
Init ==
    /\ board \in Boards
    /\ versions = <<Entries>>
    /\ online = TRUE
    /\ list = IF board.list = "none" THEN Unread ELSE Effect(Unread, 0, 1, TRUE)
    /\ second = Unread
    /\ selected = 0
    /\ calls = {}
    /\ owed = 1

\* The interval, or the button in the header.
Poll ==
    /\ online
    /\ board.list # "none"
    /\ CanAsk(list)
    /\ list' = Run(list, 0, Now, TRUE)
    /\ UNCHANGED <<board, versions, online, second, selected, calls, owed>>

PollSecond ==
    /\ online
    /\ \/ board.second.kind = "keyed" /\ Key # 0
       \/ board.second.kind = "button" /\ Key # 0 /\ Settled(second)
    /\ CanAsk(second)
    /\ second' = Run(second, Key, NotTracked, TRUE)
    /\ UNCHANGED <<board, versions, online, list, selected, calls, owed>>

ListAnswers(request) ==
    /\ online
    /\ \E v \in request.since..Now :
          list' = Settle(list, request, [key |-> 0, at |-> v], TRUE)
    /\ selected' = Land(list', selected)
    /\ UNCHANGED <<board, versions, online, calls, owed>>
    /\ Render(second)

ListFails(request) ==
    /\ list' = Settle(list, request, NoData, TRUE)
    /\ UNCHANGED <<board, versions, online, selected, calls, owed>>
    /\ Render(second)

SecondAnswers(request) ==
    /\ online
    /\ second' = Settle(second, request, [key |-> request.key, at |-> NotTracked],
                        board.second.guarded)
    /\ UNCHANGED <<board, versions, online, list, selected, calls, owed>>

SecondFails(request) ==
    /\ second' = Settle(second, request, NoData, board.second.guarded)
    /\ UNCHANGED <<board, versions, online, list, selected, calls, owed>>

\* Selecting a row, or picking a source in the toolbar.
Select(e) ==
    /\ board.panel # NoPanel
    /\ e # selected
    /\ board.list = "none" \/ e \in Rows(list)
    /\ selected' = e
    /\ UNCHANGED <<board, versions, online, list, calls, owed>>
    /\ CanAsk(second)
    /\ Render(second)

\* Closing the panel.
Unselect ==
    /\ selected # 0
    /\ board.panel \in {Find, Sheet, Named, DetailOr}
    /\ selected' = 0
    /\ UNCHANGED <<board, versions, online, list, calls, owed>>
    /\ Render(second)

\* A button is pressed and, where it asks, the question is answered: the call
\* holds the entry and the refreshes of this render.
Begin(op, e) ==
    /\ online
    /\ Cardinality(calls) < MaxCalls
    /\ op.alone => \A c \in calls : c.op # op
    /\ \/ op.header /\ e = 0
       \/ op.entry /\ e \in Offered
    /\ calls' = calls \cup {[op |-> op, target |-> e, key |-> Key, wrote |-> 0,
                             turn |-> FALSE]}
    /\ UNCHANGED <<board, versions, online, list, second, selected, owed>>

\* The broker carries an operation out.
Execute(call) ==
    /\ call.wrote = 0
    /\ Now < MaxVersions
    /\ \E rows \in IF call.op.clears THEN {versions[Now] \ {call.target}}
                   ELSE {versions[Now]} \cup {versions[Now] \cup {e} : e \in Entries} :
          versions' = Append(versions, rows)
    /\ calls' = (calls \ {call}) \cup {[call EXCEPT !.wrote = Len(versions')]}
    /\ UNCHANGED <<board, online, list, second, selected, owed>>

Refresh_Forgotten(reads, call) ==
    /\ UNCHANGED list
    /\ owed' = IF "list" \in reads /\ call.wrote > owed THEN call.wrote ELSE owed
    /\ Render(second)

\* The reads a call refreshes, with the closures of the render its button was
\* pressed in: what they ask for is what the board was about at that time.
Refresh(reads, call) ==
    /\ list' = IF "list" \in reads /\ board.list # "none"
               THEN Run(list, 0, Now, TRUE) ELSE list
    /\ owed' = IF "list" \in reads /\ call.wrote > owed THEN call.wrote ELSE owed
    /\ Render(IF "detail" \in reads /\ call.key # 0
              THEN Run(second, call.key, NotTracked, TRUE) ELSE second)

\* The call returns: the selection is cleared, then the reads are refreshed.
Succeed(call) ==
    /\ call.wrote # 0
    /\ ~call.turn
    /\ calls' = (calls \ {call}) \cup
                 IF call.op.rereads.then = {} THEN {} ELSE {[call EXCEPT !.turn = TRUE]}
    /\ selected' = IF call.op.clears THEN 0 ELSE selected
    /\ UNCHANGED <<board, versions, online>>
    /\ Refresh(call.op.rereads.first, call)

\* The first refreshes of a call have ended, whatever came of them.  Whose
\* request ends them is not kept: it may happen at any time.
Reread(call) ==
    /\ call.turn
    /\ calls' = calls \ {call}
    /\ UNCHANGED <<board, versions, online, selected>>
    /\ Refresh(call.op.rereads.then, call)

\* The question is refused, or the call fails, before or after the broker has
\* carried it out; a board without a question may read again all the same.
Fail(call) ==
    /\ ~call.turn
    /\ calls' = calls \ {call}
    /\ UNCHANGED <<board, versions, online, selected>>
    /\ Refresh(call.op.rereads.failed, [call EXCEPT !.wrote = 0])

\* Somebody else changes the broker.
Change ==
    /\ Now < MaxVersions
    /\ \E e \in Entries :
          versions' = Append(versions, IF e \in versions[Now] THEN versions[Now] \ {e}
                                       ELSE versions[Now] \cup {e})
    /\ UNCHANGED <<board, online, list, second, selected, calls, owed>>

\* A switch, or the namespace, of the toolbar is part of the query: both reads
\* start over.  What the query is about is not kept.
Requery ==
    /\ board.list = "scoped"
    /\ CanAsk(list)
    /\ list' = Effect(list, 0, Now, online)
    /\ UNCHANGED <<board, versions, online, selected, calls, owed>>
    /\ second' = IF Follows THEN StartOver(second) ELSE second

\* The profile is closed or dialled again while the page stays.
Switch ==
    /\ online' = ~online
    /\ list' = IF board.list = "none" THEN list ELSE Effect(list, 0, Now, ~online)
    /\ CanAsk(list)
    /\ UNCHANGED <<board, versions, selected, calls, owed>>
    /\ Render(second)

Next ==
    \/ Poll \/ PollSecond \/ Unselect \/ Change \/ Requery \/ Switch
    \/ \E r \in list.flight : ListAnswers(r) \/ ListFails(r)
    \/ \E r \in second.flight : SecondAnswers(r) \/ SecondFails(r)
    \/ \E e \in Entries : Select(e)
    \/ \E op \in board.ops, e \in {0} \cup Entries : Begin(op, e)
    \/ \E c \in calls : Execute(c) \/ Succeed(c) \/ Reread(c) \/ Fail(c)

Spec == Init /\ [][Next]_vars

(***************************************************************************)
(* Fairness.  Every call of a driver has a deadline, so a request that is  *)
(* in the air is answered or fails.  Nothing is assumed of when: with a    *)
(* timeout of up to 300 seconds and a poll every 30, each request of a     *)
(* list may be superseded before its answer arrives.                       *)
(***************************************************************************)
Fairness ==
    /\ WF_vars(\E r \in list.flight : ListAnswers(r) \/ ListFails(r))
    /\ WF_vars(\E r \in second.flight : SecondAnswers(r) \/ SecondFails(r))

FairSpec == Spec /\ Fairness

-----------------------------------------------------------------------------
Requests == [key : {0} \cup Entries, since : 0..MaxVersions, current : BOOLEAN]
Answers == [key : {0} \cup Entries, at : 0..MaxVersions]

Reads == [shown : Answers \cup {NoData}, flight : SUBSET Requests, spinning : BOOLEAN]

ReadOK(read) ==
    /\ read \in Reads
    /\ \A r, q \in read.flight : r.current /\ q.current => r = q

\* Types; of the requests of a read at most one is current.
TypeOK ==
    /\ board \in Boards
    /\ versions \in Seq(SUBSET Entries) /\ Now \in 1..MaxVersions
    /\ online \in BOOLEAN
    /\ ReadOK(list) /\ ReadOK(second)
    /\ selected \in {0} \cup Entries
    /\ calls \subseteq [op : board.ops, target : {0} \cup Entries,
                        key : {0} \cup Entries, wrote : 0..MaxVersions,
                        turn : BOOLEAN]
    /\ owed \in 1..MaxVersions

\* What the list shows is never replaced by an older state of the broker, in
\* whatever order the replies arrive: the generation of useBrokerData refuses
\* the reply of a request that is no longer the latest.
NeverGoesBack ==
    [][ list.shown # NoData /\ list.shown' # NoData =>
            list.shown'.at >= list.shown.at ]_vars

\* Once the refresh an operation made has been answered, the list shows what
\* the operation wrote, however many polls and other operations ran beside it.
WriteIsSeen ==
    list.shown # NoData /\ Settled(list) => list.shown.at >= owed

Details(op) ==
    "detail" \in op.rereads.first \cup op.rereads.then \cup op.rereads.failed

RereadsDetail == \E op \in board.ops : Details(op)

\* On a board whose operations leave the second read alone, what that read
\* shows is always about the entry the panel is about: it is cleared by the
\* effect of the render that changes the entry, and late replies for the
\* previous one are refused.
ShownIsAsked ==
    Follows /\ ~RereadsDetail /\ second.shown # NoData => second.shown.key = Key

\* The list is asked for: by the interval or the button, by an operation, by
\* the toolbar or when the connection changes.
AsksList == Poll \/ Requery \/ Switch \/ \E c \in calls : Succeed(c) \/ Reread(c)

\* A list stops spinning for good, and has no request left, unless it is asked
\* for again and again: no order of late replies, failures, operations and
\* losses of the connection leaves the spinner with nobody to end it.
SpinnerEnds ==
    []<><<AsksList>>_vars \/ <>[](~list.spinning /\ list.flight = {})

\* An answer arrives before another request has superseded its own.
InTime == \E r \in list.flight : r.current /\ ListAnswers(r)

\* If answers that are in time keep arriving, the list shows the broker as it
\* is, without a spinner, again and again.  Without them it may spin and stay
\* behind for as long as every request is superseded, which a broker slower
\* than the interval brings about.
CatchesUp ==
    []<><<InTime>>_vars =>
        []<>( /\ list.shown # NoData /\ list.shown.at = Now
              /\ ~list.spinning )

-----------------------------------------------------------------------------
(***************************************************************************)
(* The inductive invariant.                                                *)
(***************************************************************************)

\* What was written, and what is owed, is a state the broker has had.
OwedInv == owed <= Now /\ \A c \in calls : c.wrote <= Now

\* The latest request of the list was made when the broker was at least as far
\* as what is shown and as what is owed.
ListInv ==
    /\ board.list = "none" => list.shown = NoData /\ list.flight = {}
    /\ list.shown # NoData => list.shown.at \in 1..Now
    /\ \A r \in list.flight :
          /\ r.since \in 1..Now
          /\ r.current => r.since >= owed
          /\ r.current /\ list.shown # NoData => r.since >= list.shown.at
    /\ WriteIsSeen

\* What a read shows and its latest request are about the entry of this key.
IsAbout(read, key) ==
    /\ \A r \in read.flight : r.current => r.key = key
    /\ read.shown # NoData => read.shown.key = key

\* The second read is about the entry of the panel, and so is what it asks for.
SecondInv == Follows /\ ~RereadsDetail => IsAbout(second, Key)

IInv == TypeOK /\ OwedInv /\ ListInv /\ SecondInv
=============================================================================
