----------------------------- MODULE BoardProofs -----------------------------
(***************************************************************************)
(* Proofs about Board, for every set of boards whose keyed reads have a    *)
(* generation, any number of entries, of versions of the broker, and of    *)
(* requests and operations under way.                                      *)
(***************************************************************************)
EXTENDS Board, NaturalSets, TLAPS

Keys == {0} \cup Entries

(***************************************************************************)
(* useBrokerData.                                                          *)
(***************************************************************************)

\* A new generation leaves no request current and changes nothing else of it.
LEMMA OutdatedFacts ==
    ASSUME NEW flight \in SUBSET Requests
    PROVE  /\ Outdated(flight) \in SUBSET Requests
           /\ \A r \in Outdated(flight) :
                 ~r.current /\ \E q \in flight : r.since = q.since /\ r.key = q.key
<1>1. ASSUME NEW q \in flight
      PROVE  LET r == [q EXCEPT !.current = FALSE]
             IN  r \in Requests /\ ~r.current /\ r.since = q.since /\ r.key = q.key
  BY DEF Requests
<1>2. QED
  BY <1>1 DEF Outdated

\* run adds a request that is the only current one and keeps what is shown.
LEMMA RunFacts ==
    ASSUME NEW read, ReadOK(read), NEW key \in Keys, NEW now \in 0..MaxVersions,
           NEW silent \in BOOLEAN
    PROVE  LET next == Run(read, key, now, silent)
               new == [key |-> key, since |-> now, current |-> TRUE]
           IN  /\ ReadOK(next)
               /\ next.shown = read.shown
               /\ new \in next.flight
               /\ \A r \in next.flight : r.current => r = new
               /\ \A r \in next.flight : r = new \/ \E q \in read.flight : r.since = q.since
<1> DEFINE new == [key |-> key, since |-> now, current |-> TRUE]
           next == Run(read, key, now, silent)
           spins == read.spinning \/ silent
<1>1. /\ read.flight \in SUBSET Requests /\ read.spinning \in BOOLEAN
      /\ read.shown \in Answers \cup {NoData}
      /\ spins \in BOOLEAN
  BY DEF ReadOK, Reads
<1>2. new \in Requests /\ new.current
  BY DEF Requests, Keys
<1> HIDE DEF new
<1>3. \A x \in SUBSET Requests, y \in BOOLEAN :
        LET other == [read EXCEPT !.flight = x, !.spinning = y]
        IN  other \in Reads /\ other.flight = x /\ other.shown = read.shown
  BY DEF ReadOK, Reads
<1>4. Outdated(read.flight) \cup {new} \in SUBSET Requests
  BY <1>1, <1>2, OutdatedFacts
<1>5. next = [read EXCEPT !.flight = Outdated(read.flight) \cup {new},
                          !.spinning = spins]
  BY DEF Run, new
<1> HIDE DEF spins, next
<1>6. next \in Reads /\ next.flight = Outdated(read.flight) \cup {new}
      /\ next.shown = read.shown
  BY <1>1, <1>3, <1>4, <1>5
<1>7. \A r \in next.flight : r.current => r = new
  BY <1>1, <1>6, OutdatedFacts
<1>8. \A r \in next.flight : r = new \/ \E q \in read.flight : r.since = q.since
  BY <1>1, <1>6, OutdatedFacts
<1>9. ReadOK(next)
  BY <1>6, <1>7 DEF ReadOK
<1>10. QED
  BY <1>6, <1>7, <1>8, <1>9 DEF next, new

\* The effect clears what is shown; what is current afterwards is its own.
LEMMA EffectFacts ==
    ASSUME NEW read, ReadOK(read), NEW key \in Keys, NEW now \in 0..MaxVersions,
           NEW active \in BOOLEAN
    PROVE  LET next == Effect(read, key, now, active)
           IN  /\ ReadOK(next)
               /\ next.shown = NoData
               /\ \A r \in next.flight : r.current => r.key = key /\ r.since = now
               /\ \A r \in next.flight : r.since = now \/ \E q \in read.flight : r.since = q.since
<1> DEFINE cleared == [shown |-> NoData, flight |-> Outdated(read.flight),
                       spinning |-> active]
<1>1. read.flight \in SUBSET Requests
  BY DEF ReadOK, Reads
<1>2. /\ cleared.shown = NoData /\ cleared.flight = Outdated(read.flight)
      /\ cleared \in Reads
  BY <1>1, OutdatedFacts DEF Reads
<1>3. Effect(read, key, now, active) =
        IF active THEN Run(cleared, key, now, FALSE) ELSE cleared
  BY DEF Effect
<1> HIDE DEF cleared
<1>4. \A r \in cleared.flight : ~r.current /\ \E q \in read.flight : r.since = q.since
  BY <1>1, <1>2, OutdatedFacts
<1>5. ReadOK(cleared)
  BY <1>2, <1>4 DEF ReadOK
<1>6. CASE active
  <2> DEFINE next == Run(cleared, key, now, FALSE)
             new == [key |-> key, since |-> now, current |-> TRUE]
  <2>1. /\ ReadOK(next) /\ next.shown = NoData
        /\ \A r \in next.flight : r.current => r = new
        /\ \A r \in next.flight : r = new \/ \E q \in cleared.flight : r.since = q.since
    BY <1>2, <1>5, RunFacts
  <2>2. new.key = key /\ new.since = now
    OBVIOUS
  <2> HIDE DEF next, new
  <2>3. /\ \A r \in next.flight : r.current => r.key = key /\ r.since = now
        /\ \A r \in next.flight : r.since = now \/ \E q \in read.flight : r.since = q.since
    BY <1>4, <2>1, <2>2
  <2>4. Effect(read, key, now, active) = next
    BY <1>3, <1>6 DEF next
  <2>5. QED
    BY <2>1, <2>3, <2>4
<1>7. CASE ~active
  BY <1>2, <1>3, <1>4, <1>5, <1>7
<1>8. QED
  BY <1>6, <1>7

\* A reply takes its request out of the air and, when it counts, is shown.
LEMMA SettleFacts ==
    ASSUME NEW read, ReadOK(read), NEW request \in read.flight,
           NEW answer \in Answers \cup {NoData}, NEW guarded \in BOOLEAN
    PROVE  LET next == Settle(read, request, answer, guarded)
           IN  /\ ReadOK(next)
               /\ next.flight = read.flight \ {request}
               /\ next.shown = IF request.current \/ ~guarded THEN answer ELSE read.shown
<1> DEFINE next == Settle(read, request, answer, guarded)
<1>1. /\ next \in Reads /\ next.flight = read.flight \ {request}
      /\ next.shown = IF request.current \/ ~guarded THEN answer ELSE read.shown
  BY DEF Settle, ReadOK, Reads
<1>2. ReadOK(next)
  BY <1>1 DEF ReadOK
<1>3. QED
  BY <1>1, <1>2

\* With a generation the reply counts only when its request is the latest.
LEMMA GuardedFacts ==
    ASSUME NEW read, ReadOK(read), NEW request \in read.flight,
           NEW answer \in Answers \cup {NoData}
    PROVE  LET next == Settle(read, request, answer, TRUE)
           IN  /\ ReadOK(next)
               /\ next.flight = read.flight \ {request}
               /\ request.current => next.shown = answer
               /\ ~request.current => next.shown = read.shown
<1> DEFINE next == Settle(read, request, answer, TRUE)
<1>1. /\ next \in Reads /\ next.flight = read.flight \ {request}
      /\ request.current => next.shown = answer
      /\ ~request.current => next.shown = read.shown
  BY DEF Settle, ReadOK, Reads
<1>2. ReadOK(next)
  BY <1>1 DEF ReadOK
<1>3. QED
  BY <1>1, <1>2

(***************************************************************************)
(* The broker and the key of the panel.                                    *)
(***************************************************************************)

\* The broker's history only grows.
LEMMA VersionsFrame ==
    ASSUME TypeOK, [Next]_vars
    PROVE  /\ board' = board
           /\ versions' \in Seq(SUBSET Entries)
           /\ Now' \in 1..MaxVersions /\ Now <= Now'
           /\ \A v \in 1..Now : versions'[v] = versions[v]
<1>1. versions \in Seq(SUBSET Entries) /\ Now \in 1..MaxVersions /\ Now = Len(versions)
  BY DEF TypeOK, Now
<1>2. board' = board
  BY DEF Next, vars, Poll, PollSecond, Unselect, Change, Requery, Switch, ListAnswers, ListFails,
     SecondAnswers, SecondFails, Select, Begin, Execute, Succeed, Reread, Fail
<1>3. CASE UNCHANGED versions
  BY <1>1, <1>2, <1>3 DEF Now
<1>4. ASSUME NEW rows \in SUBSET Entries, versions' = Append(versions, rows), Now < MaxVersions
      PROVE  /\ versions' \in Seq(SUBSET Entries)
             /\ Now' \in 1..MaxVersions /\ Now <= Now'
             /\ \A v \in 1..Now : versions'[v] = versions[v]
  <2>1. Now' = Now + 1
    BY <1>1, <1>4 DEF Now
  <2>2. QED
    BY <1>1, <1>4, <2>1, BoundsAssumption
<1>5. CASE Change \/ \E c \in calls : Execute(c)
  <2>1. versions[Now] \in SUBSET Entries
    BY <1>1
  <2>2. \E rows \in SUBSET Entries : versions' = Append(versions, rows)
    BY <1>5, <2>1 DEF Change, Execute
  <2>3. QED
    BY <1>2, <1>4, <1>5, <2>2 DEF Change, Execute
<1>6. QED
  BY <1>2, <1>3, <1>5 DEF Next, vars, Poll, PollSecond, Unselect, Requery, Switch, ListAnswers, ListFails,
     SecondAnswers, SecondFails, Select, Begin, Succeed, Reread, Fail

\* The first of some rows is one of them.
LEMMA FirstType ==
    ASSUME NEW rows \in SUBSET Entries, rows # {}
    PROVE  First(rows) \in rows
<1>1. rows \in SUBSET Nat
  BY BoundsAssumption
<1>2. \E e \in rows : \A f \in rows : e <= f
  BY <1>1, LeastNatural
<1>3. QED
  BY <1>2 DEF First

\* The panel is about an entry, or about nothing.
LEMMA KeyType ==
    ASSUME TypeOK, NEW aList \in Reads, aList.shown # NoData => aList.shown.at \in 1..Now,
           NEW sel \in Keys
    PROVE  KeyOf(aList, sel) \in Keys
<1> DEFINE rows == Rows(aList)
           first == IF rows = {} THEN 0 ELSE First(rows)
<1>1. rows \in SUBSET Entries
  BY DEF TypeOK, Rows, Now
<1>2. first \in Keys
  <2>1. CASE rows = {}
    BY <2>1 DEF Keys
  <2>2. CASE rows # {}
    BY <1>1, <2>2, FirstType DEF Keys
  <2>3. QED
    BY <2>1, <2>2
<1>3. KeyOf(aList, sel) \in {sel, first, 0}
  <2> HIDE DEF first
  <2> QED
    BY DEF KeyOf, first
<1>4. QED
  BY <1>2, <1>3 DEF Keys

\* What the panel is about depends on what the list shows, on the selection
\* and on versions the broker has had.
LEMMA KeyKept ==
    ASSUME TypeOK, ListInv, board' = board, list'.shown = list.shown, selected' = selected,
           \A v \in 1..Now : versions'[v] = versions[v]
    PROVE  Key' = Key
<1>1. Rows(list)' = Rows(list)
  BY DEF Rows, ListInv
<1>2. QED
  BY <1>1 DEF Key, KeyOf

(***************************************************************************)
(* The list.                                                               *)
(***************************************************************************)

\* What a step may do to the list and to what it owes.
ListMoves ==
    \/ list' = list /\ owed' = owed
    \/ board.list = "none" /\ list' = list /\ owed' \in 1..Now
    \/ board.list # "none" /\ list' = Run(list, 0, Now, TRUE) /\ owed' \in 1..Now
    \/ /\ board.list # "none" /\ owed' = owed
       /\ \E active \in BOOLEAN : list' = Effect(list, 0, Now, active)
    \/ /\ owed' = owed
       /\ \E r \in list.flight, answer \in Answers \cup {NoData} :
             /\ list' = Settle(list, r, answer, TRUE)
             /\ answer # NoData => answer.at \in r.since..Now

\* So is what a call refreshes.
LEMMA RefreshMoves ==
    ASSUME IInv, NEW reads, NEW call, call.wrote \in 0..Now, Refresh(reads, call)
    PROVE  ListMoves
<1>1. owed \in 1..Now /\ Now \in Nat
  BY BoundsAssumption DEF IInv, TypeOK, OwedInv
<1>2. owed' \in 1..Now
  BY <1>1 DEF Refresh
<1>3. CASE "list" \in reads /\ board.list # "none"
  BY <1>2, <1>3 DEF Refresh, ListMoves
<1>4. CASE "list" \in reads /\ board.list = "none"
  BY <1>2, <1>4 DEF Refresh, ListMoves
<1>5. CASE "list" \notin reads
  BY <1>5 DEF Refresh, ListMoves
<1>6. QED
  BY <1>3, <1>4, <1>5

\* What a call has written is a version the broker has had.
LEMMA WroteType ==
    ASSUME IInv, NEW c \in calls
    PROVE  c.wrote \in 0..Now /\ c.wrote \in 0..MaxVersions
<1>1. c.wrote \in 0..MaxVersions /\ c.wrote <= Now /\ Now \in 1..MaxVersions
  BY DEF IInv, OwedInv, TypeOK
<1>2. QED
  BY <1>1, BoundsAssumption

\* Every step is one of them.
LEMMA ListFrame ==
    ASSUME IInv, [Next]_vars
    PROVE  ListMoves
<1>1. CASE UNCHANGED <<list, owed>>
  BY <1>1 DEF ListMoves
<1>2. owed \in 1..Now /\ Now \in 1..MaxVersions
  BY DEF IInv, TypeOK, OwedInv
<1>3. CASE Poll
  BY <1>2, <1>3 DEF Poll, ListMoves
<1>4. ASSUME NEW r \in list.flight, ListAnswers(r)
      PROVE  ListMoves
  <2>1. PICK v \in r.since..Now : list' = Settle(list, r, [key |-> 0, at |-> v], TRUE)
    BY <1>4 DEF ListAnswers
  <2>2. r.since \in 1..Now
    BY DEF IInv, ListInv
  <2>3. [key |-> 0, at |-> v] \in Answers
    BY <1>2, <2>1, <2>2, BoundsAssumption DEF Answers
  <2>4. owed' = owed /\ [key |-> 0, at |-> v].at \in r.since..Now
    BY <1>4, <2>1 DEF ListAnswers
  <2>5. QED
    BY <2>1, <2>3, <2>4 DEF ListMoves
<1>5. ASSUME NEW r \in list.flight, ListFails(r)
      PROVE  ListMoves
  BY <1>5 DEF ListFails, ListMoves
<1>6. ASSUME NEW c \in calls, Succeed(c) \/ Reread(c) \/ Fail(c)
      PROVE  ListMoves
  <2>1. c.wrote \in 0..Now
    BY WroteType
  <2>2. CASE Succeed(c)
    BY <2>1, <2>2, RefreshMoves DEF Succeed
  <2>3. CASE Reread(c)
    BY <2>1, <2>3, RefreshMoves DEF Reread
  <2>4. CASE Fail(c)
    <3>1. [c EXCEPT !.wrote = 0].wrote = 0 /\ 0 \in 0..Now
      BY <1>2 DEF IInv, TypeOK
    <3>2. QED
      BY <2>4, <3>1, RefreshMoves DEF Fail
  <2>5. QED
    BY <1>6, <2>2, <2>3, <2>4
<1>7. CASE Switch
  <2>1. (~online) \in BOOLEAN
    OBVIOUS
  <2>2. owed' = owed
    BY <1>7 DEF Switch
  <2>3. CASE board.list = "none"
    BY <1>7, <2>2, <2>3 DEF Switch, ListMoves
  <2>4. CASE board.list # "none"
    <3>1. list' = Effect(list, 0, Now, ~online)
      BY <1>7, <2>4 DEF Switch
    <3>2. \E active \in BOOLEAN : list' = Effect(list, 0, Now, active)
      BY <2>1, <3>1
    <3>3. QED
      BY <2>2, <2>4, <3>2 DEF ListMoves
  <2>5. QED
    BY <2>3, <2>4
<1>8. CASE Requery
  <2>1. online \in BOOLEAN /\ board.list # "none" /\ owed' = owed
    BY <1>8 DEF Requery, IInv, TypeOK
  <2>2. list' = Effect(list, 0, Now, online)
    BY <1>8 DEF Requery
  <2>3. \E active \in BOOLEAN : list' = Effect(list, 0, Now, active)
    BY <2>1, <2>2
  <2>4. QED
    BY <2>1, <2>3 DEF ListMoves
<1>9. QED
  BY <1>1, <1>3, <1>4, <1>5, <1>6, <1>7, <1>8 DEF Next, vars, PollSecond, Unselect, Change,
     SecondAnswers, SecondFails, Select, Begin, Execute

\* The list keeps its invariant and does not go back.
LEMMA ListStep ==
    ASSUME IInv, [Next]_vars
    PROVE  /\ ReadOK(list') /\ owed' \in 1..Now /\ ListInv'
           /\ list.shown # NoData /\ list'.shown # NoData =>
                  list'.shown.at >= list.shown.at
<1>1. /\ board' = board /\ Now \in 1..MaxVersions /\ Now' \in 1..MaxVersions /\ Now <= Now'
      /\ MaxVersions \in Nat
  BY VersionsFrame, BoundsAssumption DEF IInv, TypeOK
<1>2. /\ ReadOK(list) /\ owed \in 1..Now /\ list.flight \in SUBSET Requests
      /\ 0 \in Keys /\ Now \in 0..MaxVersions
      /\ list.shown # NoData => list.shown.at \in 1..Now
      /\ \A r \in list.flight : r.since \in 1..Now
  BY <1>1 DEF IInv, TypeOK, OwedInv, ListInv, ReadOK, Reads, Keys
<1>3. CASE list' = list /\ owed' = owed
  BY <1>1, <1>2, <1>3 DEF IInv, ListInv, WriteIsSeen, Settled
<1>4. CASE board.list = "none" /\ list' = list /\ owed' \in 1..Now
  BY <1>1, <1>2, <1>4 DEF IInv, ListInv, WriteIsSeen, Settled
<1>5. CASE board.list # "none" /\ list' = Run(list, 0, Now, TRUE) /\ owed' \in 1..Now
  <2> DEFINE new == [key |-> 0, since |-> Now, current |-> TRUE]
  <2>1. /\ ReadOK(list') /\ list'.shown = list.shown /\ new \in list'.flight
        /\ \A r \in list'.flight : r.current => r = new
        /\ \A r \in list'.flight : r = new \/ \E q \in list.flight : r.since = q.since
    BY <1>2, <1>5, RunFacts
  <2>2. new.since = Now /\ new.current
    OBVIOUS
  <2> HIDE DEF new
  <2>3. \A r \in list'.flight : r.since \in 1..Now /\ (r.current => r.since = Now)
    BY <1>1, <1>2, <2>1, <2>2
  <2>4. WriteIsSeen'
    BY <2>1, <2>2 DEF WriteIsSeen, Settled
  <2>5. /\ list.shown # NoData => list.shown.at \in Int /\ list.shown.at <= Now
        /\ list'.shown # NoData => list'.shown.at \in 1..Now'
    BY <1>1, <1>2, <2>1
  <2>6. \A r \in list'.flight :
          /\ r.since \in 1..Now'
          /\ r.current => r.since >= owed'
          /\ r.current /\ list'.shown # NoData => r.since >= list'.shown.at
    <3>1. Now >= owed' /\ \A n \in 1..Now : n \in 1..Now'
      BY <1>1, <1>5
    <3>2. \A n \in Int : n <= Now => Now >= n
      BY <1>1
    <3>3. list'.shown # NoData => Now >= list'.shown.at
      BY <2>1, <2>5, <3>2
    <3>4. QED
      BY <2>3, <3>1, <3>3
  <2>7. ListInv'
    BY <1>1, <1>5, <2>4, <2>5, <2>6 DEF ListInv
  <2>8. list.shown # NoData /\ list'.shown # NoData =>
            list'.shown.at >= list.shown.at
    BY <2>1, <2>5
  <2>9. QED
    BY <1>5, <2>1, <2>7, <2>8
<1>6. ASSUME board.list # "none", owed' = owed, NEW active \in BOOLEAN,
             list' = Effect(list, 0, Now, active)
      PROVE  ReadOK(list') /\ list'.shown = NoData /\ ListInv'
  <2>1. /\ ReadOK(list') /\ list'.shown = NoData
        /\ \A r \in list'.flight : r.current => r.key = 0 /\ r.since = Now
        /\ \A r \in list'.flight : r.since = Now \/ \E q \in list.flight : r.since = q.since
    BY <1>2, <1>6, EffectFacts
  <2>2. \A r \in list'.flight : r.since \in 1..Now /\ (r.current => r.since = Now)
    BY <1>1, <1>2, <2>1
  <2>3. QED
    BY <1>1, <1>2, <1>6, <2>1, <2>2 DEF ListInv, WriteIsSeen
<1>7. ASSUME owed' = owed, NEW request \in list.flight, NEW answer \in Answers \cup {NoData},
             list' = Settle(list, request, answer, TRUE),
             answer # NoData => answer.at \in request.since..Now
      PROVE  /\ ReadOK(list') /\ ListInv'
             /\ list.shown # NoData /\ list'.shown # NoData =>
                    list'.shown.at >= list.shown.at
  <2>1. /\ ReadOK(list') /\ list'.flight = list.flight \ {request}
        /\ request.current => list'.shown = answer
        /\ ~request.current => list'.shown = list.shown
    BY <1>2, <1>7, GuardedFacts
  <2>2. /\ list.shown # NoData => list.shown.at \in Int
        /\ request.since \in 1..Now /\ owed \in Int
    BY <1>1, <1>2
  <2>3. \A r \in list'.flight : r.since \in 1..Now'
    BY <1>1, <1>2, <2>1
  <2>4. board.list # "none"
    BY DEF IInv, ListInv
  <2>5. CASE request.current
    <3>1. list'.shown = answer /\ \A r \in list'.flight : ~r.current
      BY <1>2, <2>1, <2>5 DEF ReadOK
    <3>2. request.since >= owed /\ (list.shown # NoData => request.since >= list.shown.at)
      BY <2>5 DEF IInv, ListInv
    <3>3. list'.shown # NoData =>
            list'.shown.at \in 1..Now' /\ list'.shown.at \in request.since..Now
      <4>1. \A v \in request.since..Now : v \in 1..Now'
        BY <1>1, <2>2
      <4>2. QED
        BY <1>7, <3>1, <4>1
    <3>4. list'.shown # NoData => list'.shown.at >= owed'
      <4>1. \A v \in request.since..Now : v >= owed
        BY <1>1, <2>2, <3>2
      <4>2. QED
        BY <1>7, <3>3, <4>1
    <3>5. list.shown # NoData /\ list'.shown # NoData => list'.shown.at >= list.shown.at
      BY <2>2, <3>2, <3>3
    <3>6. ListInv'
      BY <1>1, <2>3, <2>4, <3>1, <3>3, <3>4 DEF ListInv, WriteIsSeen
    <3>7. QED
      BY <2>1, <3>5, <3>6
  <2>6. CASE ~request.current
    <3>1. list'.shown = list.shown
      BY <2>1, <2>6
    <3>2. WriteIsSeen'
      BY <1>7, <2>1, <2>6, <3>1 DEF IInv, ListInv, WriteIsSeen, Settled
    <3>3. list'.shown # NoData => list'.shown.at \in 1..Now'
      BY <1>1, <1>2, <3>1
    <3>4. \A r \in list'.flight :
            /\ r.current => r.since >= owed'
            /\ r.current /\ list'.shown # NoData => r.since >= list'.shown.at
      BY <1>7, <2>1, <3>1 DEF IInv, ListInv
    <3>5. ListInv'
      BY <1>1, <2>3, <2>4, <3>2, <3>3, <3>4 DEF ListInv
    <3>6. QED
      BY <2>1, <2>2, <3>1, <3>5
  <2>7. QED
    BY <2>5, <2>6
<1>8. QED
  BY <1>2, <1>3, <1>4, <1>5, <1>6, <1>7, ListFrame DEF ListMoves

(***************************************************************************)
(* The second read.                                                        *)
(***************************************************************************)

\* The render after a step that leaves the broker alone: the read goes on about
\* the same entry, or it starts over about the new one.
LEMMA RenderFacts ==
    ASSUME IInv, ReadOK(list'), ListInv', UNCHANGED <<board, versions>>,
           selected' \in Keys, online' \in BOOLEAN,
           NEW aSecond, ReadOK(aSecond), Render(aSecond)
    PROVE  /\ ReadOK(second')
           /\ Follows /\ IsAbout(aSecond, Key) => IsAbout(second', Key')
<1> DEFINE key == KeyOf(list', selected')
           active == online' /\ key # 0
<1>1. key = Key'
  BY DEF Key, KeyOf, Rows
<1>2. key \in Keys
  <2>1. Now' = Now
    BY DEF Now
  <2>2. list' \in Reads /\ (list'.shown # NoData => list'.shown.at \in 1..Now)
    BY <2>1 DEF ReadOK, ListInv
  <2>3. QED
    BY <2>2, KeyType DEF IInv
<1>3. active \in BOOLEAN /\ NotTracked \in 0..MaxVersions
  BY BoundsAssumption DEF NotTracked
<1>4. \/ second' = Effect(aSecond, key, NotTracked, active)
      \/ ~Follows /\ second' = Run(aSecond, selected', NotTracked, TRUE)
      \/ (Follows => key = Key) /\ second' = aSecond
  BY DEF Render, StartOver, Follows
<1> HIDE DEF key, active
<1>5. CASE second' = aSecond /\ (Follows => key = Key)
  BY <1>1, <1>5 DEF IsAbout
<1>6. CASE second' = Effect(aSecond, key, NotTracked, active)
  <2>1. /\ ReadOK(second') /\ second'.shown = NoData
        /\ \A r \in second'.flight : r.current => r.key = key
    BY <1>2, <1>3, <1>6, EffectFacts
  <2>2. QED
    BY <1>1, <2>1 DEF IsAbout
<1>7. CASE ~Follows /\ second' = Run(aSecond, selected', NotTracked, TRUE)
  <2>1. ReadOK(second')
    BY <1>3, <1>7, RunFacts
  <2>2. QED
    BY <1>7, <2>1
<1>8. QED
  BY <1>4, <1>5, <1>6, <1>7

\* The second read keeps its invariant.
LEMMA SecondStep ==
    ASSUME IInv, [Next]_vars, ReadOK(list'), ListInv', selected' \in Keys, online' \in BOOLEAN
    PROVE  ReadOK(second') /\ SecondInv'
<1>1. /\ TypeOK /\ ListInv /\ SecondInv /\ ReadOK(second) /\ second.flight \in SUBSET Requests
      /\ NotTracked \in 0..MaxVersions
  BY BoundsAssumption DEF IInv, TypeOK, ReadOK, Reads, NotTracked
<1>2. /\ board' = board /\ (Follows' <=> Follows) /\ (RereadsDetail' <=> RereadsDetail)
      /\ \A v \in 1..Now : versions'[v] = versions[v]
  BY <1>1, VersionsFrame DEF Follows, RereadsDetail
<1>3. Key \in Keys
  BY <1>1, KeyType DEF Key, TypeOK, ListInv, ReadOK, Keys
<1>4. ASSUME list'.shown = list.shown, selected' = selected, ReadOK(second'),
             Follows /\ IsAbout(second, Key) => IsAbout(second', Key)
      PROVE  ReadOK(second') /\ SecondInv'
  <2>1. Key' = Key
    BY <1>1, <1>2, <1>4, KeyKept
  <2>2. QED
    BY <1>1, <1>2, <1>4, <2>1 DEF SecondInv
<1>5. ASSUME UNCHANGED <<board, versions>>, NEW aSecond, ReadOK(aSecond), Render(aSecond),
             Follows /\ ~RereadsDetail => aSecond = second
      PROVE  ReadOK(second') /\ SecondInv'
  <2>1. /\ ReadOK(second')
        /\ Follows /\ IsAbout(aSecond, Key) => IsAbout(second', Key')
    BY <1>5, RenderFacts
  <2>2. QED
    BY <1>1, <1>2, <1>5, <2>1 DEF SecondInv
<1>6. CASE UNCHANGED <<list, second, selected>>
  BY <1>1, <1>4, <1>6
<1>7. CASE Poll
  <2>1. list'.shown = list.shown
    <3>1. ReadOK(list) /\ 0 \in Keys /\ Now \in 0..MaxVersions
      BY <1>1, BoundsAssumption DEF TypeOK, Keys
    <3>2. QED
      BY <1>7, <3>1, RunFacts DEF Poll
  <2>2. QED
    BY <1>1, <1>4, <1>7, <2>1 DEF Poll
<1>8. CASE PollSecond
  <2>1. second' = Run(second, Key, NotTracked, TRUE)
    BY <1>8 DEF PollSecond
  <2> DEFINE new == [key |-> Key, since |-> NotTracked, current |-> TRUE]
  <2>2. /\ ReadOK(second') /\ second'.shown = second.shown
        /\ \A r \in second'.flight : r.current => r = new
    BY <1>1, <1>3, <2>1, RunFacts
  <2>3. new.key = Key
    OBVIOUS
  <2> HIDE DEF new
  <2>4. IsAbout(second, Key) => IsAbout(second', Key)
    BY <2>2, <2>3 DEF IsAbout
  <2>5. QED
    BY <1>4, <1>8, <2>2, <2>4 DEF PollSecond
<1>9. ASSUME NEW request \in second.flight, SecondAnswers(request) \/ SecondFails(request)
      PROVE  ReadOK(second') /\ SecondInv'
  <2>1. PICK answer \in Answers \cup {NoData} :
          /\ second' = Settle(second, request, answer, board.second.guarded)
          /\ answer # NoData => answer.key = request.key
    <3>1. CASE SecondFails(request)
      BY <3>1 DEF SecondFails
    <3>2. CASE SecondAnswers(request)
      <4> DEFINE answer == [key |-> request.key, at |-> NotTracked]
      <4>1. answer \in Answers /\ answer.key = request.key
        BY <1>1 DEF Requests, Answers
      <4>2. second' = Settle(second, request, answer, board.second.guarded)
        BY <3>2 DEF SecondAnswers
      <4> HIDE DEF answer
      <4>3. QED
        BY <4>1, <4>2
    <3>3. QED
      BY <1>9, <3>1, <3>2
  <2>2. list' = list /\ selected' = selected
    BY <1>9 DEF SecondAnswers, SecondFails
  <2>3. board.second.guarded \in BOOLEAN /\ (Follows => board.second.guarded)
    BY <1>1, BoardsAssumption DEF TypeOK, Follows
  <2>4. CASE board.second.guarded
    <3>1. /\ ReadOK(second') /\ second'.flight = second.flight \ {request}
          /\ request.current => second'.shown = answer
          /\ ~request.current => second'.shown = second.shown
      <4>1. second' = Settle(second, request, answer, TRUE)
        BY <2>1, <2>3, <2>4
      <4>2. QED
        BY <1>1, <4>1, GuardedFacts
    <3>2. IsAbout(second, Key) => IsAbout(second', Key)
      BY <2>1, <3>1 DEF IsAbout
    <3>3. QED
      BY <1>4, <2>2, <3>1, <3>2
  <2>5. CASE ~board.second.guarded
    <3>1. ReadOK(second')
      BY <1>1, <2>1, <2>3, SettleFacts
    <3>2. QED
      BY <1>4, <2>2, <2>3, <2>5, <3>1
  <2>6. QED
    BY <2>4, <2>5
<1>10. ASSUME NEW c \in calls, NEW reads, NEW call, call.key = c.key, Refresh(reads, call),
              UNCHANGED <<board, versions>>, "detail" \in reads => RereadsDetail
       PROVE  ReadOK(second') /\ SecondInv'
  <2> DEFINE rereads == "detail" \in reads /\ call.key # 0
             aSecond == IF rereads THEN Run(second, call.key, NotTracked, TRUE) ELSE second
  <2>1. call.key \in Keys
    BY <1>1, <1>10 DEF TypeOK, Keys
  <2>2. ReadOK(aSecond)
    <3>1. ReadOK(Run(second, call.key, NotTracked, TRUE))
      BY <1>1, <2>1, RunFacts
    <3>2. QED
      BY <1>1, <3>1
  <2>3. ~RereadsDetail => aSecond = second
    BY <1>10
  <2>4. Render(aSecond)
    BY <1>10 DEF Refresh
  <2> HIDE DEF aSecond
  <2>5. QED
    BY <1>5, <1>10, <2>2, <2>3, <2>4
<1>11. ASSUME NEW c \in calls, Succeed(c) \/ Reread(c) \/ Fail(c)
       PROVE  ReadOK(second') /\ SecondInv'
  <2>1. c.op \in board.ops /\ [c EXCEPT !.wrote = 0].key = c.key
    BY <1>1 DEF TypeOK
  <2>2. \A reads : reads \in {c.op.rereads.first, c.op.rereads.then, c.op.rereads.failed}
                    /\ "detail" \in reads => RereadsDetail
    BY <2>1 DEF RereadsDetail, Details
  <2>3. CASE Succeed(c)
    BY <1>10, <2>2, <2>3 DEF Succeed
  <2>4. CASE Reread(c)
    BY <1>10, <2>2, <2>4 DEF Reread
  <2>5. CASE Fail(c)
    BY <1>10, <2>1, <2>2, <2>5 DEF Fail
  <2>6. QED
    BY <1>11, <2>3, <2>4, <2>5
<1>12. CASE \/ Unselect \/ Switch \/ \E r \in list.flight : ListAnswers(r) \/ ListFails(r)
            \/ \E e \in Entries : Select(e)
  <2>1. Render(second) /\ UNCHANGED <<board, versions>>
    BY <1>12 DEF Unselect, Switch, ListAnswers, ListFails, Select
  <2>2. QED
    BY <1>1, <1>5, <2>1
<1>13. CASE Requery
  <2> DEFINE key == KeyOf(list', selected')
             active == online' /\ key # 0
  <2>1. UNCHANGED <<board, versions, selected, online>>
    BY <1>13 DEF Requery
  <2>2. key = Key'
    BY <2>1 DEF Key, KeyOf, Rows
  <2>3. Now' = Now /\ list' \in Reads /\ (list'.shown # NoData => list'.shown.at \in 1..Now')
    BY <2>1 DEF ReadOK, ListInv, Now
  <2>4. key \in Keys /\ active \in BOOLEAN
    BY <1>1, <2>3, KeyType
  <2>5. CASE Follows
    <3>1. second' = Effect(second, key, NotTracked, active)
      BY <1>13, <2>5 DEF Requery, StartOver
    <3> HIDE DEF key, active
    <3>2. /\ ReadOK(second') /\ second'.shown = NoData
          /\ \A r \in second'.flight : r.current => r.key = key
      BY <1>1, <2>4, <3>1, EffectFacts
    <3>3. QED
      BY <1>2, <2>2, <3>2 DEF SecondInv, IsAbout
  <2>6. CASE ~Follows
    <3>1. second' = second
      BY <1>13, <2>6 DEF Requery
    <3>2. QED
      BY <1>1, <1>2, <2>6, <3>1 DEF SecondInv
  <2>7. QED
    BY <2>5, <2>6
<1>14. QED
  BY <1>6, <1>7, <1>8, <1>9, <1>11, <1>12, <1>13
     DEF Next, vars, Change, Begin, Execute

(***************************************************************************)
(* The invariant.                                                          *)
(***************************************************************************)

\* The selection, the connection and the operations under way keep their types,
\* and nothing is written, or owed, that the broker does not have.
LEMMA CallsStep ==
    ASSUME IInv, [Next]_vars
    PROVE  /\ selected' \in Keys /\ online' \in BOOLEAN
           /\ calls' \subseteq [op : board.ops, target : Keys, key : Keys, wrote : 0..MaxVersions,
                        turn : BOOLEAN]
           /\ \A c \in calls' : c.wrote <= Now'
<1> DEFINE Calls == [op : board.ops, target : Keys, key : Keys, wrote : 0..MaxVersions,
                        turn : BOOLEAN]
<1>1. /\ TypeOK /\ selected \in Keys /\ online \in BOOLEAN /\ calls \subseteq Calls
      /\ \A c \in calls : c.wrote <= Now /\ c.wrote \in Int
  BY BoundsAssumption DEF IInv, TypeOK, OwedInv, Keys
<1>2. Now \in Int /\ Now' \in 1..MaxVersions /\ Now' \in Int /\ Now <= Now'
  BY <1>1, VersionsFrame, BoundsAssumption DEF TypeOK
<1>3. selected' \in Keys
  <2>1. ASSUME NEW r \in list.flight, ListAnswers(r)
        PROVE  selected' \in Keys
    <3>1. ReadOK(list') /\ ListInv' /\ UNCHANGED <<board, versions>>
      BY <2>1, ListStep DEF ListAnswers
    <3>2. list'.shown # NoData => list'.shown.at \in 1..Now
      BY <3>1 DEF ListInv, Now
    <3>3. Rows(list') \in SUBSET Entries
      BY <1>1, <3>2 DEF TypeOK, Rows, Now
    <3>4. Rows(list') # {} => First(Rows(list')) \in Keys
      BY <3>3, FirstType DEF Keys
    <3>5. QED
      BY <1>1, <2>1, <3>4 DEF ListAnswers, Land
  <2>2. QED
    BY <1>1, <2>1 DEF Next, vars, Poll, PollSecond, Unselect, Change, Requery, Switch,
       ListFails, SecondAnswers, SecondFails, Select, Begin, Execute, Succeed, Reread, Fail,
       Keys
<1>4. online' \in BOOLEAN
  <2>1. CASE Switch
    BY <2>1 DEF Switch
  <2>2. CASE UNCHANGED online
    BY <1>1, <2>2
  <2>3. QED
    BY <2>1, <2>2 DEF Next, vars, Poll, PollSecond, Unselect, Change, Requery, ListAnswers, ListFails,
       SecondAnswers, SecondFails, Select, Begin, Execute, Succeed, Reread, Fail
<1>5. \A c \in calls : c.wrote <= Now'
  BY <1>1, <1>2
<1>6. CASE calls' \subseteq calls
  BY <1>1, <1>3, <1>4, <1>5, <1>6
<1>7. ASSUME NEW new, calls' \subseteq calls \cup {new}, new \in Calls, new.wrote <= Now'
      PROVE  calls' \subseteq Calls /\ \A c \in calls' : c.wrote <= Now'
  BY <1>1, <1>5, <1>7
<1>8. ASSUME NEW op \in board.ops, NEW e \in Keys, Begin(op, e)
      PROVE  calls' \subseteq Calls /\ \A c \in calls' : c.wrote <= Now'
  <2> DEFINE new == [op |-> op, target |-> e, key |-> Key, wrote |-> 0, turn |-> FALSE]
  <2>1. Key \in Keys
    BY <1>1, KeyType DEF Key, TypeOK, ListInv, ReadOK, IInv
  <2>2. new \in Calls /\ new.wrote <= Now'
    BY <1>2, <2>1, BoundsAssumption
  <2>3. calls' \subseteq calls \cup {new}
    BY <1>8 DEF Begin
  <2>4. QED
    BY <1>7, <2>2, <2>3
<1>9. ASSUME NEW c \in calls, Execute(c)
      PROVE  calls' \subseteq Calls /\ \A d \in calls' : d.wrote <= Now'
  <2> DEFINE new == [c EXCEPT !.wrote = Now']
  <2>1. new \in Calls /\ new.wrote <= Now'
    <3>1. Now' \in 0..MaxVersions
      BY <1>2, BoundsAssumption
    <3>2. new \in Calls /\ new.wrote = Now'
      BY <1>1, <3>1
    <3>3. QED
      BY <1>2, <3>2
  <2>2. calls' \subseteq calls \cup {new}
    BY <1>9 DEF Execute, Now
  <2>3. QED
    BY <1>7, <2>1, <2>2
<1>10. ASSUME NEW c \in calls, Succeed(c)
       PROVE  calls' \subseteq Calls /\ \A d \in calls' : d.wrote <= Now'
  <2> DEFINE new == [c EXCEPT !.turn = TRUE]
  <2>1. new \in Calls /\ new.wrote = c.wrote
    BY <1>1
  <2>2. calls' \subseteq calls \cup {new}
    BY <1>10 DEF Succeed
  <2>3. QED
    BY <1>5, <1>7, <2>1, <2>2
<1>11. QED
  <2>1. (\A op \in board.ops, e \in {0} \cup Entries : ~Begin(op, e))
        /\ (\A c \in calls : ~Execute(c) /\ ~Succeed(c)) => calls' \subseteq calls
    BY DEF Next, vars, Poll, PollSecond, Unselect, Change, Requery, Switch, ListAnswers,
       ListFails, SecondAnswers, SecondFails, Select, Reread, Fail
  <2>2. QED
    BY <1>3, <1>4, <1>6, <1>8, <1>9, <1>10, <2>1 DEF Keys

\* A board is mounted with its first request in the air.
LEMMA InitIInv == Init => IInv
<1>1. SUFFICES ASSUME Init PROVE IInv
  OBVIOUS
<1>2. board \in Boards /\ versions = <<Entries>> /\ Now = 1 /\ MaxVersions \in Nat \ {0}
  BY <1>1, BoundsAssumption DEF Init, Now
<1>3. 1 \in 1..MaxVersions /\ 1 \in 0..MaxVersions /\ 0 \in Keys
  BY <1>2 DEF Keys
<1>4. ReadOK(Unread) /\ Unread.shown = NoData /\ Unread.flight = {}
  BY DEF Unread, ReadOK, Reads
<1>5. /\ ReadOK(list) /\ list.shown = NoData
      /\ \A r \in list.flight : r.since = 1
      /\ board.list = "none" => list.flight = {}
  <2>1. CASE board.list = "none"
    BY <1>1, <1>4, <2>1 DEF Init
  <2>2. CASE board.list # "none"
    <3>1. PICK active \in BOOLEAN : list = Effect(Unread, 0, 1, active)
      BY <1>1, <2>2 DEF Init
    <3>2. /\ ReadOK(list) /\ list.shown = NoData
          /\ \A r \in list.flight : r.since = 1 \/ \E q \in Unread.flight : r.since = q.since
      BY <1>3, <1>4, <3>1, EffectFacts
    <3>3. QED
      BY <1>4, <2>2, <3>2
  <2>3. QED
    BY <2>1, <2>2
<1>6. ReadOK(second) /\ second.shown = NoData /\ second.flight = {}
  BY <1>1, <1>4 DEF Init
<1>7. online = TRUE /\ selected = 0 /\ calls = {} /\ owed = 1
  BY <1>1 DEF Init
<1>8. TypeOK
  BY <1>2, <1>3, <1>5, <1>6, <1>7 DEF TypeOK, Keys
<1>9. ListInv
  BY <1>2, <1>5, <1>7 DEF ListInv, WriteIsSeen
<1>10. QED
  BY <1>2, <1>6, <1>7, <1>8, <1>9 DEF IInv, OwedInv, SecondInv, IsAbout

\* Every step of a board keeps the invariant.
LEMMA NextIInv == IInv /\ [Next]_vars => IInv'
<1>1. SUFFICES ASSUME IInv, [Next]_vars PROVE IInv'
  OBVIOUS
<1>2. ReadOK(list') /\ owed' \in 1..Now /\ ListInv'
  BY <1>1, ListStep
<1>3. /\ selected' \in Keys /\ online' \in BOOLEAN
      /\ calls' \subseteq [op : board.ops, target : Keys, key : Keys, wrote : 0..MaxVersions,
                        turn : BOOLEAN]
      /\ \A c \in calls' : c.wrote <= Now'
  BY <1>1, CallsStep
<1>4. ReadOK(second') /\ SecondInv'
  BY <1>1, <1>2, <1>3, SecondStep
<1>5. /\ board' = board /\ board \in Boards /\ versions' \in Seq(SUBSET Entries)
      /\ Now \in 1..MaxVersions /\ Now' \in 1..MaxVersions /\ Now <= Now'
  BY <1>1, VersionsFrame DEF IInv, TypeOK
<1>6. owed' \in 1..MaxVersions /\ owed' <= Now'
  BY <1>2, <1>5, BoundsAssumption
<1>7. TypeOK'
  BY <1>2, <1>3, <1>4, <1>5, <1>6 DEF TypeOK, ReadOK, Keys
<1>8. QED
  BY <1>2, <1>3, <1>4, <1>6, <1>7 DEF IInv, OwedInv

\* The inductive invariant holds of every reachable state of a board.
THEOREM BoardInvariance == Spec => []IInv
BY InitIInv, NextIInv, PTL DEF Spec

\* Types: of the requests of a read at most one is ever current, whatever polls,
\* effects and operations start.
THEOREM TypeCorrect == Spec => []TypeOK
<1>1. IInv => TypeOK
  BY DEF IInv
<1>2. QED
  BY <1>1, BoardInvariance, PTL

\* Once the refresh of an operation has been answered the list shows what the
\* operation wrote.
THEOREM WritesAreSeen == Spec => []WriteIsSeen
<1>1. IInv => WriteIsSeen
  BY DEF IInv, ListInv
<1>2. QED
  BY <1>1, BoardInvariance, PTL

\* What the second read shows is about the entry of the panel.
THEOREM DetailIsAsked == Spec => []ShownIsAsked
<1>1. IInv => ShownIsAsked
  BY DEF IInv, SecondInv, IsAbout, ShownIsAsked
<1>2. QED
  BY <1>1, BoardInvariance, PTL

\* The list never goes back to an older state of the broker, in whatever order
\* the replies arrive.
THEOREM ListNeverGoesBack == Spec => NeverGoesBack
<1> DEFINE Forward == list.shown # NoData /\ list.shown' # NoData =>
                          list.shown'.at >= list.shown.at
<1>1. IInv /\ [Next]_vars => [Forward]_vars
  BY ListStep
<1>2. QED
  BY <1>1, BoardInvariance, PTL DEF Spec, NeverGoesBack
=============================================================================
