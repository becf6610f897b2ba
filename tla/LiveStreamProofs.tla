--------------------------- MODULE LiveStreamProofs ---------------------------
(***************************************************************************)
(* Proofs about LiveStream, for every set of hooks of the two kinds and    *)
(* any number of filters, streams, visits, messages, polls and lapses, and *)
(* for every size of the ring and of the page.                             *)
(***************************************************************************)
EXTENDS LiveStream, FiniteSetTheorems, TLAPS

Pages == [visit : 0..MaxVisits, here : BOOLEAN, running : BOOLEAN,
          sub : {0} \cup Ids, cursor : Nat \cup {AtEnd}, shown : Seq(Messages)]
Streams == [used : BOOLEAN, known : BOOLEAN, filter : Filters, count : Nat]

\* The calls that are not polls.
Calls(set) == {r \in set : r.kind # "poll"}

(***************************************************************************)
(* The calls.                                                              *)
(***************************************************************************)

\* A call that has just been made.
LEMMA RequestFacts ==
    ASSUME NEW kind \in {"start", "stop", "poll", "list"}, NEW visit \in 0..MaxVisits,
           NEW id \in {0} \cup Ids, NEW filter \in Filters, NEW cursor \in Nat \cup {AtEnd}
    PROVE  LET r == Request(kind, visit, id, filter, cursor)
           IN  /\ r \in Requests
               /\ r.kind = kind /\ r.visit = visit /\ r.id = id /\ r.step = "sent"
               /\ r.filter = filter /\ r.cursor = cursor /\ ~r.cancelled
<1>1. <<>> \in Seq(Messages)
  OBVIOUS
<1>2. QED
  BY <1>1 DEF Request, Requests

\* The filter a call without one carries, and that of a stream nobody started.
LEMMA UnusedFacts ==
    /\ Unused \in Streams /\ Unused.filter \in Filters
    /\ ~Unused.used /\ ~Unused.known
<1>1. (CHOOSE f \in Filters : TRUE) \in Filters
  BY BoundsAssumption
<1>2. QED
  BY <1>1 DEF Unused, Streams

\* The calls the page makes.
LEMMA PollFacts ==
    ASSUME page \in Pages
    PROVE  /\ PollCall \in Requests /\ PollCall.kind = "poll" /\ PollCall.step = "sent"
           /\ PollCall.id = page.sub /\ PollCall.visit = page.visit
           /\ PollCall.cursor = page.cursor
<1> DEFINE visit == page.visit
           id == page.sub
           filter == Unused.filter
           cursor == page.cursor
<1>1. /\ visit \in 0..MaxVisits /\ id \in {0} \cup Ids
      /\ filter \in Filters /\ cursor \in Nat \cup {AtEnd}
  BY UnusedFacts DEF Pages
<1>2. PollCall = Request("poll", visit, id, filter, cursor)
  BY DEF PollCall
<1> HIDE DEF visit, id, filter, cursor
<1>3. LET r == Request("poll", visit, id, filter, cursor)
      IN  /\ r \in Requests /\ r.kind = "poll" /\ r.step = "sent"
          /\ r.id = id /\ r.visit = visit /\ r.cursor = cursor
  BY <1>1, RequestFacts
<1>4. QED
  BY <1>2, <1>3 DEF visit, id, cursor

LEMMA StopFacts ==
    ASSUME NEW id \in {0} \cup Ids
    PROVE  /\ id = 0 => StopCall(id) = {}
           /\ id # 0 => StopCall(id) # {}
           /\ \A r \in StopCall(id) : /\ r \in Requests /\ r.kind = "stop"
                                      /\ r.step = "sent" /\ r.id = id
<1> DEFINE filter == Unused.filter
           r == Request("stop", 0, id, filter, 0)
<1>1. filter \in Filters /\ 0 \in 0..MaxVisits /\ 0 \in Nat \cup {AtEnd}
  BY UnusedFacts, BoundsAssumption
<1>2. StopCall(id) = IF id = 0 THEN {} ELSE {r}
  BY DEF StopCall
<1> HIDE DEF filter
<1>3. r \in Requests /\ r.kind = "stop" /\ r.step = "sent" /\ r.id = id
  BY <1>1, RequestFacts
<1> HIDE DEF r
<1>4. QED
  BY <1>2, <1>3

LEMMA ListFacts ==
    ASSUME NEW visit \in 0..MaxVisits
    PROVE  LET r == ListCall(visit)
           IN  /\ r \in Requests /\ r.kind = "list" /\ r.step = "sent"
               /\ r.id = 0 /\ r.visit = visit
<1> DEFINE filter == Unused.filter
<1>1. filter \in Filters /\ 0 \in {0} \cup Ids /\ 0 \in Nat \cup {AtEnd}
  BY UnusedFacts
<1>2. ListCall(visit) = Request("list", visit, 0, filter, 0)
  BY DEF ListCall
<1> HIDE DEF filter
<1>3. QED
  BY <1>1, <1>2, RequestFacts

LEMMA StartFacts ==
    ASSUME page \in Pages, NEW filter \in Filters
    PROVE  LET r == StartCall(filter)
           IN  /\ r \in Requests /\ r.kind = "start" /\ r.step = "sent"
               /\ r.id = 0 /\ r.visit = page.visit /\ r.filter = filter
<1> DEFINE visit == page.visit
<1>1. visit \in 0..MaxVisits /\ 0 \in {0} \cup Ids /\ 0 \in Nat \cup {AtEnd}
  BY DEF Pages
<1>2. StartCall(filter) = Request("start", visit, 0, filter, 0)
  BY DEF StartCall
<1> HIDE DEF visit
<1>3. LET r == Request("start", visit, 0, filter, 0)
      IN  /\ r \in Requests /\ r.kind = "start" /\ r.step = "sent"
          /\ r.id = 0 /\ r.visit = visit /\ r.filter = filter
  BY <1>1, RequestFacts
<1>4. QED
  BY <1>2, <1>3 DEF visit

\* Cancelling leaves the other calls alone and no poll that counts.
LEMMA CancelledFacts ==
    ASSUME NEW set \in SUBSET Requests
    PROVE  /\ Cancelled(set) \subseteq Requests
           /\ Calls(Cancelled(set)) = Calls(set)
           /\ \A s \in Cancelled(set) : ~Counts(s)
           /\ \A s \in Cancelled(set) : s.kind = "poll" =>
                 \E r \in set : /\ r.kind = "poll" /\ s.id = r.id
                                /\ s.step = r.step /\ s.filter = r.filter
<1> DEFINE others == {r \in set : r.kind # "poll"}
           polls == set \ others
           marked == {[r EXCEPT !.cancelled = TRUE] : r \in polls}
<1>1. ASSUME NEW r \in polls
      PROVE  LET s == [r EXCEPT !.cancelled = TRUE]
             IN  /\ s \in Requests /\ s.kind = "poll" /\ s.cancelled
                 /\ s.id = r.id /\ s.step = r.step /\ s.filter = r.filter
                 /\ r.kind = "poll" /\ r \in set
  BY DEF Requests
<1>2. /\ marked \subseteq Requests
      /\ \A s \in marked : /\ s.kind = "poll" /\ s.cancelled
                           /\ \E r \in set : /\ r.kind = "poll" /\ s.id = r.id
                                             /\ s.step = r.step /\ s.filter = r.filter
  BY <1>1
<1>3. Cancelled(set) = others \/ Cancelled(set) = others \cup marked
  BY DEF Cancelled
<1> HIDE DEF marked
<1>4. QED
  BY <1>2, <1>3 DEF Calls, Counts

\* The state running drops or is kept.
LEMMA SetRunningFacts ==
    ASSUME NEW set \in SUBSET Requests, NEW value \in BOOLEAN
    PROVE  /\ SetRunning(value, set) \subseteq Requests
           /\ Calls(SetRunning(value, set)) = Calls(set)
           /\ page.running /\ ~value => \A s \in SetRunning(value, set) : ~Counts(s)
           /\ value \/ ~page.running => SetRunning(value, set) = set
           /\ \A s \in SetRunning(value, set) : s.kind = "poll" =>
                 \E r \in set : /\ r.kind = "poll" /\ s.id = r.id
                                /\ s.step = r.step /\ s.filter = r.filter
<1>1. CASE page.running /\ ~value
  BY <1>1, CancelledFacts DEF SetRunning
<1>2. CASE ~(page.running /\ ~value)
  BY <1>2 DEF SetRunning
<1>3. QED
  BY <1>1, <1>2

(***************************************************************************)
(* The driver's streams.                                                   *)
(***************************************************************************)

\* A stream that was started keeps its filter, and once it is gone it is gone.
StreamsMove ==
    \A id \in Used :
        /\ id \in Used' /\ streams'[id].filter = streams[id].filter
        /\ id \in Known' => id \in Known

\* Only Register takes a stream in.
LEMMA StreamsFrame ==
    ASSUME TypeOK, StreamInv, [Next]_vars
    PROVE  /\ hook' = hook
           /\ streams' \in [Ids -> Streams]
           /\ StreamsMove
           /\ Known' \subseteq Used'
           /\ ~(\E r \in requests : Register(r)) =>
                 /\ Known' \subseteq Known /\ Used' = Used
                 /\ \A id \in Ids : streams'[id].filter = streams[id].filter
<1>1. streams \in [Ids -> Streams] /\ Known \subseteq Used
  BY DEF TypeOK, Streams, StreamInv
<1>2. hook' = hook
  BY DEF Next, vars, Visit, Leave, Stop, Clear, Poll, Start, Deliver, Follow, Register,
     Subscribe, Refuse, Remove, Unsubscribe, Answer, List, Down, Started, Adopt, Drain, Reply,
     Read, Collected, LetGo
<1>3. ASSUME streams' \in [Ids -> Streams],
             \A id \in Ids : /\ streams'[id].used = streams[id].used
                             /\ streams'[id].filter = streams[id].filter
                             /\ streams'[id].known => streams[id].known
      PROVE  /\ StreamsMove /\ Known' \subseteq Used'
             /\ Known' \subseteq Known /\ Used' = Used
             /\ \A id \in Ids : streams'[id].filter = streams[id].filter
  BY <1>1, <1>3 DEF StreamsMove, Used, Known
<1>4. CASE UNCHANGED streams
  BY <1>1, <1>2, <1>3, <1>4
<1>5. ASSUME NEW id \in Ids, streams' = [streams EXCEPT ![id].known = FALSE]
      PROVE  /\ streams' \in [Ids -> Streams]
             /\ \A i \in Ids : /\ streams'[i].used = streams[i].used
                               /\ streams'[i].filter = streams[i].filter
                               /\ streams'[i].known => streams[i].known
  BY <1>1, <1>5 DEF Streams
<1>6. ASSUME NEW r \in requests, Refuse(r) \/ Remove(r), ~UNCHANGED streams
      PROVE  /\ streams' \in [Ids -> Streams]
             /\ \A i \in Ids : /\ streams'[i].used = streams[i].used
                               /\ streams'[i].filter = streams[i].filter
                               /\ streams'[i].known => streams[i].known
  <2>1. RequestOK(r) /\ r.kind \in {"start", "stop"}
    BY <1>6 DEF Refuse, Remove, StreamInv
  <2>2. r.id \in Ids /\ streams' = [streams EXCEPT ![r.id].known = FALSE]
    BY <1>6, <2>1 DEF Refuse, Remove, RequestOK, Used
  <2>3. QED
    BY <1>5, <2>2
<1>7. ASSUME NEW filter \in Filters, Deliver(filter)
      PROVE  /\ streams' \in [Ids -> Streams]
             /\ \A i \in Ids : /\ streams'[i].used = streams[i].used
                               /\ streams'[i].filter = streams[i].filter
                               /\ streams'[i].known => streams[i].known
  BY <1>1, <1>7 DEF Deliver, Streams
<1>8. ASSUME NEW r \in requests, Register(r)
      PROVE  streams' \in [Ids -> Streams] /\ StreamsMove /\ Known' \subseteq Used'
  <2>1. PICK id \in Ids :
          /\ ~streams[id].used
          /\ streams' = [streams EXCEPT ![id] = [used |-> TRUE, known |-> TRUE,
                                                 filter |-> r.filter, count |-> 0]]
    BY <1>8 DEF Register
  <2>2. r.filter \in Filters
    BY DEF TypeOK, Requests
  <2>3. QED
    BY <1>1, <2>1, <2>2 DEF Streams, StreamsMove, Used, Known
<1>9. QED
  BY <1>2, <1>3, <1>4, <1>6, <1>7, <1>8 DEF Next, vars, Visit, Leave, Stop, Clear, Poll,
     Start, Follow, Subscribe, Unsubscribe, Answer, List, Down, Started, Adopt, Drain, Reply,
     Read, Collected, LetGo

\* What a call refers to stays true while the streams move.
LEMMA RequestKept ==
    ASSUME StreamsMove, hook' = hook, NEW r, RequestOK(r)
    PROVE  RequestOK(r)'
BY DEF StreamsMove, RequestOK

(***************************************************************************)
(* What is read and shown.                                                 *)
(***************************************************************************)

\* The page keeps the end of what it was given.
LEMMA ShowFacts ==
    ASSUME NEW messages \in Seq(Messages)
    PROVE  /\ Show(messages) \in Seq(Messages)
           /\ \E dropped \in Nat :
                 /\ dropped + Len(Show(messages)) = Len(messages)
                 /\ \A i \in 1..Len(Show(messages)) : Show(messages)[i] = messages[i + dropped]
<1>1. CASE Len(messages) > Keep
  <2> DEFINE dropped == Len(messages) - Keep
             shown == SubSeq(messages, dropped + 1, Len(messages))
  <2>1. Keep \in Nat \ {0} /\ Len(messages) \in Nat /\ dropped \in Nat /\ dropped < Len(messages)
    BY <1>1, BoundsAssumption
  <2>2. \A i \in (dropped + 1)..Len(messages) : messages[i] \in Messages
    BY <2>1
  <2>3. /\ shown \in Seq(Messages) /\ Len(shown) = Keep
        /\ \A i \in 1..Keep : shown[i] = messages[i + dropped]
    BY <2>1, <2>2
  <2>4. Show(messages) = shown
    BY <1>1, <2>1 DEF Show
  <2> HIDE DEF shown
  <2>5. dropped + Keep = Len(messages)
    BY <2>1
  <2> HIDE DEF dropped
  <2>6. /\ dropped + Len(Show(messages)) = Len(messages)
        /\ \A i \in 1..Len(Show(messages)) : Show(messages)[i] = messages[i + dropped]
    BY <2>3, <2>4, <2>5
  <2>7. QED
    BY <2>1, <2>3, <2>4, <2>6
<1>2. CASE ~(Len(messages) > Keep)
  <2>1. Show(messages) = messages
    BY <1>2 DEF Show
  <2>2. 0 + Len(messages) = Len(messages) /\ \A i \in 1..Len(messages) : i + 0 = i
    OBVIOUS
  <2>3. QED
    BY <2>1, <2>2
<1>3. QED
  BY <1>1, <1>2

\* What the driver answers to a poll: messages of the stream after the cursor, in
\* order, and the cursor behind them.
LEMMA AnswerFacts ==
    ASSUME TypeOK, StreamInv, NEW r \in requests, Answer(r)
    PROVE  \E s \in Requests :
              /\ requests' = Replace(r, s)
              /\ r.kind = "poll" /\ r.step = "sent"
              /\ s.kind = "poll" /\ s.id = r.id /\ s.visit = r.visit
              /\ s.cancelled = r.cancelled /\ s.step \in {"done", "failed"}
              /\ s.step = "done" =>
                    /\ Ordered(s.batch)
                    /\ s.cursor \in Nat /\ (r.cursor # AtEnd => r.cursor <= s.cursor)
                    /\ \A i \in DOMAIN s.batch :
                          /\ s.batch[i][1] = r.id /\ s.batch[i][2] <= s.cursor
                          /\ r.cursor # AtEnd => r.cursor < s.batch[i][2]
<1> DEFINE stream == streams[r.id]
           oldest == IF stream.count > Buffer THEN stream.count - Buffer ELSE 0
           after == IF r.cursor = AtEnd THEN stream.count
                    ELSE IF r.cursor < oldest THEN oldest ELSE r.cursor
           last == IF after + Keep < stream.count THEN after + Keep ELSE stream.count
           size == IF after < last THEN last - after ELSE 0
           cursor == IF size = 0 THEN after ELSE last
           batch == [i \in 1..size |-> <<r.id, after + i>>]
<1>1. r.kind = "poll" /\ r.step = "sent" /\ r \in Requests
  BY DEF Answer, TypeOK
<1>2. r.id \in Ids
  BY <1>1 DEF StreamInv, RequestOK, Used
<1>3. stream.count \in Nat /\ Buffer \in Nat /\ Keep \in Nat \ {0}
      /\ (r.cursor # AtEnd => r.cursor \in Nat)
  BY <1>1, <1>2, BoundsAssumption DEF TypeOK, Requests
<1>4. requests' = Replace(r, IF r.id \in Known
                             THEN [r EXCEPT !.step = "done", !.cursor = cursor, !.batch = batch]
                             ELSE [r EXCEPT !.step = "failed"])
  BY DEF Answer
<1> HIDE DEF stream
<1>5. /\ after \in Nat /\ size \in Nat /\ cursor \in Nat /\ after + size <= cursor
      /\ r.cursor # AtEnd => r.cursor <= after
  <2>1. oldest \in Nat
    BY <1>3
  <2> HIDE DEF oldest
  <2>2. after \in Nat /\ (r.cursor # AtEnd => r.cursor <= after)
    BY <1>3, <2>1
  <2> HIDE DEF after
  <2>3. last \in Nat
    BY <1>3, <2>2
  <2> HIDE DEF last
  <2>4. QED
    BY <2>2, <2>3
<1> HIDE DEF after, size, cursor
<1>6. batch \in Seq(Messages) /\ DOMAIN batch = 1..size
      /\ \A i \in 1..size : batch[i][1] = r.id /\ batch[i][2] = after + i
  BY <1>2, <1>5 DEF Messages
<1> HIDE DEF batch
<1>7. Ordered(batch)
  BY <1>5, <1>6 DEF Ordered
<1>8. \A i \in DOMAIN batch :
        /\ batch[i][1] = r.id /\ batch[i][2] <= cursor
        /\ r.cursor # AtEnd => r.cursor < batch[i][2]
  BY <1>3, <1>5, <1>6
<1>9. r.cursor # AtEnd => r.cursor <= cursor
  BY <1>3, <1>5
<1>10. CASE r.id \in Known
  <2> DEFINE s == [r EXCEPT !.step = "done", !.cursor = cursor, !.batch = batch]
  <2>1. s \in Requests
    BY <1>1, <1>5, <1>6 DEF Requests
  <2>2. /\ s.kind = "poll" /\ s.id = r.id /\ s.visit = r.visit /\ s.cancelled = r.cancelled
        /\ s.step = "done" /\ s.cursor = cursor /\ s.batch = batch
    BY <1>1 DEF Requests
  <2>3. requests' = Replace(r, s)
    BY <1>4, <1>10
  <2> HIDE DEF s
  <2>4. QED
    BY <1>1, <1>5, <1>7, <1>8, <1>9, <2>1, <2>2, <2>3
<1>11. CASE r.id \notin Known
  <2> DEFINE s == [r EXCEPT !.step = "failed"]
  <2>1. /\ s \in Requests /\ s.kind = "poll" /\ s.id = r.id /\ s.visit = r.visit
        /\ s.cancelled = r.cancelled /\ s.step = "failed"
    BY <1>1 DEF Requests
  <2>2. requests' = Replace(r, s)
    BY <1>4, <1>11
  <2> HIDE DEF s
  <2>3. QED
    BY <1>1, <2>1, <2>2
<1>12. QED
  BY <1>10, <1>11

(***************************************************************************)
(* Types, and what the calls refer to.                                     *)
(***************************************************************************)

CallsOK(set) == set \subseteq Requests /\ \A r \in set : RequestOK(r)

\* Cancelled polls refer to what they referred to before.
LEMMA CancelledOK ==
    ASSUME NEW set, CallsOK(set), NEW value \in BOOLEAN
    PROVE  CallsOK(Cancelled(set)) /\ CallsOK(SetRunning(value, set))
<1>1. CallsOK(Cancelled(set))
  <2>1. ASSUME NEW s \in Cancelled(set)
        PROVE  RequestOK(s)
    <3>1. CASE s.kind = "poll"
      <4>1. PICK r \in set : r.kind = "poll" /\ s.id = r.id /\ s.step = r.step
        BY <3>1, CancelledFacts DEF CallsOK
      <4>2. QED
        BY <3>1, <4>1 DEF CallsOK, RequestOK
    <3>2. CASE s.kind # "poll"
      BY <3>2, CancelledFacts DEF CallsOK, Calls
    <3>3. QED
      BY <3>1, <3>2
  <2>2. QED
    BY <2>1, CancelledFacts DEF CallsOK
<1>2. QED
  BY <1>1 DEF SetRunning

\* An answer takes its call away; when the page stops running, the polls under
\* way stop counting.
LEMMA ReplyFacts ==
    ASSUME TypeOK, StreamInv, NEW r \in requests, NEW pageNow \in Pages, Reply(r, pageNow),
           pageNow.here = page.here, pageNow.visit = page.visit
    PROVE  /\ page' = pageNow /\ UNCHANGED <<hook, streams, heard, lapses>>
           /\ CallsOK(requests')
           /\ Calls(requests') = Calls(requests) \ {r}
           /\ pageNow.running => requests' = requests \ {r}
           /\ ~pageNow.running => \A s \in requests' : ~Counts(s)
           /\ \A s \in requests' : Counts(s) =>
                 page'.here /\ page'.running /\ s.visit = page'.visit
<1> DEFINE set == requests \ {r}
           value == pageNow.running
<1>1. page' = pageNow /\ UNCHANGED <<hook, streams, heard, lapses>>
  BY DEF Reply
<1>2. requests' = SetRunning(value, set)
  BY DEF Reply
<1>3. CallsOK(set) /\ set \in SUBSET Requests /\ value \in BOOLEAN
  BY DEF TypeOK, StreamInv, CallsOK, Pages
<1>4. Calls(set) = Calls(requests) \ {r}
  BY DEF Calls
<1>5. CallsOK(requests') /\ Calls(requests') = Calls(requests) \ {r}
  BY <1>2, <1>3, <1>4, CancelledOK, SetRunningFacts
<1>6. CASE value
  <2>1. requests' = set
    BY <1>2, <1>3, <1>6, SetRunningFacts
  <2>2. QED
    BY <1>1, <1>5, <1>6, <2>1 DEF StreamInv
<1>7. CASE ~value
  <2>1. \A s \in requests' : ~Counts(s)
    <3>1. CASE page.running
      BY <1>2, <1>3, <1>7, <3>1, SetRunningFacts
    <3>2. CASE ~page.running
      BY <1>2, <1>3, <1>7, <3>2, SetRunningFacts DEF StreamInv
    <3>3. QED
      BY <3>1, <3>2
  <2>2. QED
    BY <1>1, <1>5, <1>7, <2>1
<1>8. QED
  BY <1>6, <1>7

\* The page after the answer to a start, to a listing and to a poll.
LEMMA StartedFacts ==
    ASSUME TypeOK, StreamInv, NEW r \in requests, Started(r)
    PROVE  \E pageNow \in Pages :
              /\ Reply(r, pageNow) /\ pageNow.here = page.here /\ pageNow.visit = page.visit
              /\ r.kind = "start" /\ r.step \in {"done", "failed"}
              /\ pageNow.shown = page.shown /\ pageNow.cursor = page.cursor
              /\ \/ pageNow = page /\ ~(page.here /\ r.visit = page.visit)
                 \/ r.step = "failed" /\ ~pageNow.running /\ pageNow.sub = page.sub
                 \/ /\ r.step = "done" /\ pageNow.running
                    /\ pageNow.sub = r.id /\ r.id \in Used
<1>1. page \in Pages /\ r.kind = "start" /\ r.step \in {"done", "failed"} /\ RequestOK(r)
  BY DEF TypeOK, Pages, Started, StreamInv
<1>2. CASE ~page.here \/ r.visit # page.visit
  BY <1>1, <1>2 DEF Started
<1>3. CASE page.here /\ r.visit = page.visit /\ r.step = "failed"
  <2> DEFINE pageNow == [page EXCEPT !.running = FALSE]
  <2>1. /\ pageNow \in Pages /\ pageNow.here = page.here /\ pageNow.visit = page.visit
        /\ ~pageNow.running /\ pageNow.sub = page.sub
        /\ pageNow.shown = page.shown /\ pageNow.cursor = page.cursor
    BY <1>1 DEF Pages
  <2>2. Reply(r, pageNow)
    BY <1>3 DEF Started
  <2> HIDE DEF pageNow
  <2>3. QED
    BY <1>1, <1>3, <2>1, <2>2
<1>4. CASE page.here /\ r.visit = page.visit /\ r.step = "done"
  <2> DEFINE pageNow == [page EXCEPT !.sub = r.id, !.running = TRUE]
  <2>1. r.id \in Used /\ r.id \in Ids
    BY <1>1, <1>4 DEF RequestOK, Used
  <2>2. /\ pageNow \in Pages /\ pageNow.here = page.here /\ pageNow.visit = page.visit
        /\ pageNow.running /\ pageNow.sub = r.id
        /\ pageNow.shown = page.shown /\ pageNow.cursor = page.cursor
    BY <1>1, <2>1 DEF Pages
  <2>3. Reply(r, pageNow)
    BY <1>4 DEF Started
  <2> HIDE DEF pageNow
  <2>4. QED
    BY <1>1, <1>4, <2>1, <2>2, <2>3
<1>5. QED
  BY <1>1, <1>2, <1>3, <1>4

LEMMA AdoptFacts ==
    ASSUME TypeOK, StreamInv, NEW r \in requests, Adopt(r)
    PROVE  \E pageNow \in Pages :
              /\ Reply(r, pageNow) /\ pageNow.here = page.here /\ pageNow.visit = page.visit
              /\ r.kind = "list" /\ r.step = "done" /\ pageNow.shown = page.shown
              /\ \/ pageNow = page /\ r.id = 0
                 \/ pageNow.running /\ pageNow.sub = r.id /\ r.id \in Used
<1>1. page \in Pages /\ r.kind = "list" /\ r.step = "done" /\ RequestOK(r)
  BY DEF TypeOK, Pages, Adopt, StreamInv
<1>2. CASE r.id = 0
  BY <1>1, <1>2 DEF Adopt
<1>3. CASE r.id # 0
  <2> DEFINE pageNow == [page EXCEPT !.sub = r.id, !.cursor = 0, !.running = TRUE]
  <2>1. r.id \in Used /\ r.id \in Ids
    BY <1>1, <1>3 DEF RequestOK, Used
  <2>2. /\ pageNow \in Pages /\ pageNow.here = page.here /\ pageNow.visit = page.visit
        /\ pageNow.running /\ pageNow.sub = r.id /\ pageNow.shown = page.shown
    BY <1>1, <2>1 DEF Pages
  <2>3. Reply(r, pageNow)
    BY <1>3 DEF Adopt
  <2> HIDE DEF pageNow
  <2>4. QED
    BY <1>1, <2>1, <2>2, <2>3
<1>4. QED
  BY <1>2, <1>3

LEMMA DrainFacts ==
    ASSUME TypeOK, StreamInv, NEW r \in requests, Drain(r)
    PROVE  \E pageNow \in Pages :
              /\ Reply(r, pageNow) /\ pageNow.here = page.here /\ pageNow.visit = page.visit
              /\ r.kind = "poll" /\ pageNow.sub = page.sub
              /\ \/ pageNow = page /\ ~Counts(r)
                 \/ /\ Counts(r) /\ r.step = "failed"
                    /\ pageNow.shown = page.shown /\ pageNow.cursor = page.cursor
                 \/ /\ Counts(r) /\ r.step = "done" /\ pageNow.running = page.running
                    /\ pageNow.cursor = r.cursor
                    /\ pageNow.shown = Show(page.shown \o r.batch)
<1>1. page \in Pages /\ r.kind = "poll" /\ r.step \in {"done", "failed"} /\ r \in Requests
      /\ hook.starts \in BOOLEAN
  BY HooksAssumption DEF TypeOK, Pages, Drain
<1>2. CASE r.cancelled
  BY <1>1, <1>2 DEF Drain, Counts
<1>3. CASE ~r.cancelled /\ r.step = "failed"
  <2> DEFINE pageNow == [page EXCEPT !.running = ~hook.starts]
  <2>1. /\ pageNow \in Pages /\ pageNow.here = page.here /\ pageNow.visit = page.visit
        /\ pageNow.sub = page.sub
        /\ pageNow.shown = page.shown /\ pageNow.cursor = page.cursor
    BY <1>1 DEF Pages
  <2>2. Reply(r, pageNow)
    BY <1>3 DEF Drain
  <2> HIDE DEF pageNow
  <2>3. QED
    BY <1>1, <1>3, <2>1, <2>2 DEF Counts
<1>4. CASE ~r.cancelled /\ r.step = "done"
  <2> DEFINE shown == Show(page.shown \o r.batch)
             pageNow == [page EXCEPT !.cursor = r.cursor, !.shown = Show(page.shown \o r.batch)]
  <2>1. page.shown \in Seq(Messages) /\ r.batch \in Seq(Messages) /\ r.cursor \in Nat \cup {AtEnd}
    BY <1>1 DEF Pages, Requests
  <2>2. page.shown \o r.batch \in Seq(Messages)
    BY <2>1
  <2>3. shown \in Seq(Messages)
    BY <2>2, ShowFacts
  <2>4. pageNow = [page EXCEPT !.cursor = r.cursor, !.shown = shown]
    OBVIOUS
  <2>5. Reply(r, pageNow)
    BY <1>4 DEF Drain
  <2> HIDE DEF pageNow, shown
  <2>6. /\ pageNow \in Pages /\ pageNow.here = page.here /\ pageNow.visit = page.visit
        /\ pageNow.sub = page.sub /\ pageNow.running = page.running
        /\ pageNow.shown = shown /\ pageNow.cursor = r.cursor
    BY <1>1, <2>1, <2>3, <2>4 DEF Pages
  <2>7. QED
    BY <1>1, <1>4, <2>5, <2>6 DEF Counts, shown
<1>5. QED
  BY <1>1, <1>2, <1>3, <1>4

\* What was done is remembered.
LEMMA LapsesGrow ==
    ASSUME TypeOK, [Next]_vars
    PROVE  lapses \subseteq lapses' /\ lapses' \subseteq {"slow", "hasty", "overlap"}
BY DEF Next, vars, Visit, Leave, Stop, Clear, Poll, Start, Hurried, Lapse, Deliver, Follow,
   Register, Subscribe, Refuse, Remove, Unsubscribe, Answer, List, Down, Started, Adopt,
   Drain, Reply, Read, Collected, LetGo, TypeOK

\* A page that has just appeared, or is gone, refers to nothing.
LEMMA FreshFacts ==
    ASSUME NEW visit \in 0..MaxVisits
    PROVE  /\ Fresh(visit) \in Pages /\ Fresh(visit).here
           /\ [Fresh(visit) EXCEPT !.here = FALSE] \in Pages
           /\ ~[Fresh(visit) EXCEPT !.here = FALSE].here
           /\ \A p \in {Fresh(visit), [Fresh(visit) EXCEPT !.here = FALSE]} :
                 ~p.running /\ p.sub = 0 /\ p.shown = <<>> /\ p.visit = visit
<1>1. <<>> \in Seq(Messages) /\ 0 \in Nat \cup {AtEnd} /\ 0 \in {0} \cup Ids
  OBVIOUS
<1>2. /\ Fresh(visit) \in Pages /\ Fresh(visit).here
      /\ ~Fresh(visit).running /\ Fresh(visit).sub = 0
      /\ Fresh(visit).shown = <<>> /\ Fresh(visit).visit = visit
  BY <1>1 DEF Fresh, Pages
<1> DEFINE p == [Fresh(visit) EXCEPT !.here = FALSE]
<1>3. /\ p \in Pages /\ ~p.here
      /\ ~p.running /\ p.sub = 0 /\ p.shown = <<>> /\ p.visit = visit
  BY <1>2 DEF Pages
<1> HIDE DEF p
<1>4. QED
  BY <1>2, <1>3 DEF p

\* The parts of the state that no lapse changes.
PartsOK == page \in Pages /\ page.sub \in {0} \cup Used /\ CallsOK(requests)
CountsOK == \A r \in requests : Counts(r) => page.here /\ page.running /\ r.visit = page.visit

LEMMA PageSteps ==
    ASSUME TypeOK, StreamInv,
           \/ Visit \/ Leave \/ Stop \/ Clear \/ Poll
           \/ \E filter \in Filters : Start(filter)
           \/ \E topic \in Ids : Follow(topic)
    PROVE  PartsOK' /\ CountsOK'
<1>1. /\ page \in Pages /\ page.sub \in {0} \cup Used /\ CallsOK(requests) /\ CountsOK
      /\ requests \in SUBSET Requests
  BY DEF TypeOK, Pages, StreamInv, CallsOK, CountsOK
<1>2. /\ page.visit \in 0..MaxVisits /\ page.cursor \in Nat \cup {AtEnd}
      /\ page.sub \in {0} \cup Ids /\ 0 \in Nat \cup {AtEnd} /\ 0 \in 0..MaxVisits
      /\ <<>> \in Seq(Messages)
  BY <1>1, BoundsAssumption DEF Pages
<1>3. UNCHANGED <<streams, hook>>
  BY DEF Visit, Leave, Stop, Clear, Poll, Start, Follow
<1>4. /\ Used' = Used
      /\ \A r : RequestOK(r) => RequestOK(r)'
  BY <1>3 DEF RequestOK, Used, Known
<1>5. ASSUME NEW set, CallsOK(set), requests' \subseteq set
      PROVE  CallsOK(requests)'
  BY <1>4, <1>5 DEF CallsOK
<1>6. ASSUME NEW set, CallsOK(set), NEW r \in Requests, RequestOK(r)
      PROVE  CallsOK(set \cup {r})
  BY <1>6 DEF CallsOK
<1>7. hook.starts => CallsOK(StopCall(page.sub)) /\ \A r \in StopCall(page.sub) : ~Counts(r)
  <2>1. \A r \in StopCall(page.sub) :
           /\ r \in Requests /\ r.kind = "stop" /\ r.step = "sent"
           /\ r.id = page.sub /\ page.sub # 0
    BY <1>2, StopFacts
  <2>2. page.sub # 0 => page.sub \in Used
    BY <1>1
  <2>3. ASSUME hook.starts, NEW r \in StopCall(page.sub)
        PROVE  r \in Requests /\ RequestOK(r) /\ ~Counts(r)
    BY <2>1, <2>2, <2>3 DEF RequestOK, StepsOf, Counts
  <2>4. QED
    BY <2>3 DEF CallsOK
<1>8. CASE Visit
  <2>1. page' = Fresh(page.visit + 1) /\ page.visit + 1 \in 0..MaxVisits
    BY <1>2, <1>8, BoundsAssumption DEF Visit
  <2>2. page' \in Pages /\ page'.sub = 0 /\ page'.visit = page.visit + 1
    BY <2>1, FreshFacts
  <2> DEFINE r == ListCall(page'.visit)
  <2>3. r \in Requests /\ r.kind = "list" /\ r.step = "sent" /\ r.id = 0
    BY <1>2, <2>1, <2>2, RequestFacts, UnusedFacts DEF ListCall
  <2>4. requests' = IF hook.starts THEN requests \cup {r} ELSE requests
    BY <1>8 DEF Visit
  <2> HIDE DEF r
  <2>5. hook.starts => RequestOK(r)
    BY <2>3 DEF RequestOK, StepsOf
  <2>6. CallsOK(requests)'
    BY <1>1, <1>5, <1>6, <2>3, <2>4, <2>5
  <2>7. CountsOK'
    BY <1>1, <1>8, <2>3, <2>4 DEF CountsOK, Counts, Visit
  <2>8. QED
    BY <1>4, <2>2, <2>6, <2>7 DEF PartsOK
<1>9. CASE Leave
  <2> DEFINE set == {r \in requests : r.kind # "list"}
  <2>1. page' = [Fresh(page.visit) EXCEPT !.here = FALSE] /\ requests' = Cancelled(set)
    BY <1>9 DEF Leave
  <2>2. CallsOK(set) /\ set \in SUBSET Requests
    BY <1>1 DEF CallsOK
  <2>3. CallsOK(Cancelled(set)) /\ \A r \in Cancelled(set) : ~Counts(r)
    BY <2>2, CancelledOK, CancelledFacts
  <2>4. page' \in Pages /\ page'.sub = 0
    BY <1>2, <2>1, FreshFacts
  <2>5. QED
    BY <1>4, <1>5, <2>1, <2>3, <2>4 DEF PartsOK, CountsOK
<1>10. CASE Stop
  <2> DEFINE set == SetRunning(FALSE, requests)
             stop == IF hook.starts THEN StopCall(page.sub) ELSE {}
  <2>1. /\ page' = [page EXCEPT !.running = FALSE, !.sub = 0]
        /\ requests' = set \cup stop /\ page.running
    BY <1>10 DEF Stop
  <2>2. CallsOK(set) /\ \A r \in set : ~Counts(r)
    BY <1>1, <2>1, CancelledOK, SetRunningFacts
  <2>3. CallsOK(stop) /\ \A r \in stop : ~Counts(r)
    BY <1>7 DEF CallsOK
  <2> HIDE DEF set, stop
  <2>4. CallsOK(set \cup stop)
    BY <2>2, <2>3 DEF CallsOK
  <2>5. page' \in Pages /\ page'.sub = 0
    BY <1>1, <2>1 DEF Pages
  <2>6. QED
    BY <1>4, <1>5, <2>1, <2>2, <2>3, <2>4, <2>5 DEF PartsOK, CountsOK
<1>11. CASE Clear
  <2>1. page' = [page EXCEPT !.shown = <<>>] /\ requests' = requests
    BY <1>11 DEF Clear
  <2>2. /\ page' \in Pages /\ page'.sub = page.sub /\ page'.here = page.here
        /\ page'.running = page.running /\ page'.visit = page.visit
    BY <1>1, <1>2, <2>1 DEF Pages
  <2>3. QED
    BY <1>1, <1>4, <1>5, <2>1, <2>2 DEF PartsOK, CountsOK
<1>12. CASE Poll
  <2>1. page' = page /\ requests' = requests \cup {PollCall} /\ page.here /\ page.running
        /\ page.sub # 0
    BY <1>12 DEF Poll
  <2>2. /\ PollCall \in Requests /\ PollCall.kind = "poll" /\ PollCall.step = "sent"
        /\ PollCall.id = page.sub /\ PollCall.visit = page.visit
    BY <1>1, PollFacts
  <2>3. RequestOK(PollCall)
    BY <1>1, <2>1, <2>2 DEF RequestOK, StepsOf
  <2>4. CallsOK(requests)'
    BY <1>1, <1>5, <1>6, <2>1, <2>2, <2>3
  <2>5. QED
    BY <1>1, <1>4, <2>1, <2>2, <2>4 DEF PartsOK, CountsOK
<1>13. ASSUME NEW filter \in Filters, Start(filter)
       PROVE  PartsOK' /\ CountsOK'
  <2>1. /\ page' = [page EXCEPT !.sub = 0, !.cursor = 0, !.shown = <<>>]
        /\ requests' = (requests \cup StopCall(page.sub)) \cup {StartCall(filter)}
        /\ hook.starts /\ ~page.running
    BY <1>13 DEF Start, CanStart
  <2>2. /\ StartCall(filter) \in Requests /\ StartCall(filter).kind = "start"
        /\ StartCall(filter).step = "sent" /\ StartCall(filter).id = 0
    BY <1>2, RequestFacts DEF StartCall
  <2>3. RequestOK(StartCall(filter))
    BY <2>1, <2>2 DEF RequestOK, StepsOf
  <2>4. CallsOK(requests \cup StopCall(page.sub))
    BY <1>1, <1>7, <2>1 DEF CallsOK
  <2>5. CallsOK(requests)'
    BY <1>5, <1>6, <2>1, <2>2, <2>3, <2>4
  <2>6. /\ page' \in Pages /\ page'.sub = 0
    BY <1>1, <1>2, <2>1 DEF Pages
  <2>7. CountsOK'
    BY <1>1, <1>7, <2>1, <2>2 DEF CountsOK, Counts
  <2>8. QED
    BY <1>4, <2>5, <2>6, <2>7 DEF PartsOK
<1>14. ASSUME NEW topic \in Ids, Follow(topic)
       PROVE  PartsOK' /\ CountsOK'
  <2>1. /\ page' = [page EXCEPT !.running = TRUE, !.sub = topic, !.cursor = AtEnd, !.shown = <<>>]
        /\ requests' = requests /\ ~page.running /\ ~hook.starts
    BY <1>14 DEF Follow
  <2>2. topic \in Used
    BY <2>1 DEF StreamInv
  <2>3. page' \in Pages /\ page'.sub = topic
    BY <1>1, <1>2, <2>1 DEF Pages
  <2>4. QED
    BY <1>1, <1>4, <1>5, <2>1, <2>2, <2>3 DEF PartsOK, CountsOK
<1>15. QED
  BY <1>8, <1>9, <1>10, <1>11, <1>12, <1>13, <1>14

\* The driver moves a call on, or ends it.
LEMMA DriverSteps ==
    ASSUME TypeOK, StreamInv, [Next]_vars, NEW r \in requests,
           \/ Register(r) \/ Subscribe(r) \/ Refuse(r) \/ Remove(r) \/ Unsubscribe(r)
           \/ Answer(r) \/ List(r) \/ Down(r)
    PROVE  PartsOK' /\ CountsOK'
<1>1. /\ page \in Pages /\ page.sub \in {0} \cup Used /\ CallsOK(requests) /\ CountsOK
      /\ r \in Requests /\ RequestOK(r)
  BY DEF TypeOK, Pages, StreamInv, CallsOK, CountsOK
<1>2. StreamsMove /\ hook' = hook /\ page' = page
  BY StreamsFrame DEF Register, Subscribe, Refuse, Remove, Unsubscribe, Answer, List, Down
<1>3. page' \in Pages /\ page'.sub \in {0} \cup Used'
  BY <1>1, <1>2 DEF StreamsMove
<1>4. ASSUME requests' \subseteq requests
      PROVE  PartsOK' /\ CountsOK'
  BY <1>1, <1>2, <1>3, <1>4, RequestKept DEF PartsOK, CountsOK, CallsOK
<1>5. ASSUME NEW s \in Requests, requests' = Replace(r, s), RequestOK(s)',
             Counts(s) => Counts(r) /\ s.visit = r.visit
      PROVE  PartsOK' /\ CountsOK'
  <2>1. \A q \in requests' : q = s \/ q \in requests
    BY <1>5 DEF Replace
  <2>2. CallsOK(requests)'
    BY <1>1, <1>2, <1>5, <2>1, RequestKept DEF CallsOK
  <2>3. QED
    BY <1>1, <1>2, <1>3, <1>5, <2>1, <2>2 DEF PartsOK, CountsOK
<1>6. CASE Register(r)
  <2>1. PICK id \in Ids, step \in {"registered", "done"} :
          /\ streams' = [streams EXCEPT ![id] = [used |-> TRUE, known |-> TRUE,
                                                 filter |-> r.filter, count |-> 0]]
          /\ requests' = Replace(r, [r EXCEPT !.id = id, !.step = step])
          /\ step = "registered" => hook.shared
    BY <1>6 DEF Register
  <2>2. id \in Used' /\ streams'[id].filter = r.filter /\ r.kind = "start"
    BY <1>6, <2>1 DEF TypeOK, Used, Register
  <2> DEFINE s == [r EXCEPT !.id = id, !.step = step]
  <2>3. /\ s \in Requests /\ s.kind = "start" /\ s.id = id /\ s.filter = r.filter
        /\ s.step = step
    BY <1>1, <2>2 DEF Requests
  <2>4. requests' = Replace(r, s)
    BY <2>1
  <2> HIDE DEF s
  <2>5. RequestOK(s)'
    BY <1>1, <1>2, <2>1, <2>2, <2>3 DEF RequestOK, StepsOf
  <2>6. QED
    BY <1>5, <2>3, <2>4, <2>5 DEF Counts
<1>7. CASE Subscribe(r)
  <2> DEFINE s == [r EXCEPT !.step = "done"]
  <2>1. /\ s \in Requests /\ s.kind = "start" /\ s.id = r.id /\ s.filter = r.filter
        /\ s.step = "done" /\ r.kind = "start" /\ r.step = "registered"
        /\ requests' = Replace(r, s)
    BY <1>1, <1>7 DEF Requests, Subscribe
  <2> HIDE DEF s
  <2>2. RequestOK(s)'
    BY <1>1, <1>2, <2>1 DEF RequestOK, StepsOf, StreamsMove
  <2>3. QED
    BY <1>5, <2>1, <2>2 DEF Counts
<1>8. CASE Refuse(r)
  <2> DEFINE s == [r EXCEPT !.step = "failed"]
  <2>1. /\ s \in Requests /\ s.kind = "start" /\ s.id = r.id /\ s.filter = r.filter
        /\ s.step = "failed" /\ r.kind = "start" /\ r.step \in {"sent", "registered"}
        /\ requests' = Replace(r, s)
        /\ r.step = "sent" \/ streams' = [streams EXCEPT ![r.id].known = FALSE]
    BY <1>1, <1>8 DEF Requests, Refuse
  <2> HIDE DEF s
  <2>2. r.step = "registered" => r.id \in Used /\ r.id \in Ids
    BY <1>1, <2>1 DEF RequestOK, Used
  <2>3. r.step = "registered" => r.id \in Used' /\ r.id \notin Known'
    BY <1>2, <2>1, <2>2 DEF TypeOK, StreamsMove, Known
  <2>4. RequestOK(s)'
    BY <1>1, <1>2, <2>1, <2>3 DEF RequestOK, StepsOf
  <2>5. QED
    BY <1>5, <2>1, <2>4 DEF Counts
<1>9. CASE Remove(r)
  <2> DEFINE s == [r EXCEPT !.step = "removed"]
  <2>1. /\ s \in Requests /\ s.kind = "stop" /\ s.id = r.id /\ s.step = "removed"
        /\ r.kind = "stop" /\ r.step = "sent"
        /\ requests' = Replace(r, s) \/ requests' \subseteq requests
        /\ streams' = [streams EXCEPT ![r.id].known = FALSE]
    BY <1>1, <1>9 DEF Requests, Remove
  <2> HIDE DEF s
  <2>2. r.id \in Used /\ r.id \in Ids
    BY <1>1, <2>1 DEF RequestOK, Used
  <2>3. r.id \in Used' /\ r.id \notin Known'
    BY <1>2, <2>1, <2>2 DEF TypeOK, StreamsMove, Known
  <2>4. RequestOK(s)'
    BY <1>1, <1>2, <2>1, <2>3 DEF RequestOK, StepsOf
  <2>5. QED
    BY <1>4, <1>5, <2>1, <2>4 DEF Counts
<1>10. CASE Unsubscribe(r)
  BY <1>4, <1>10 DEF Unsubscribe
<1>11. CASE Answer(r)
  <2>1. PICK s \in Requests :
          /\ requests' = Replace(r, s) /\ r.kind = "poll"
          /\ s.kind = "poll" /\ s.id = r.id /\ s.visit = r.visit
          /\ s.cancelled = r.cancelled /\ s.step \in {"done", "failed"}
    BY <1>11, AnswerFacts
  <2>2. RequestOK(s)'
    BY <1>1, <1>2, <2>1 DEF RequestOK, StepsOf, StreamsMove
  <2>3. QED
    BY <1>5, <2>1, <2>2 DEF Counts
<1>12. CASE List(r)
  <2>1. PICK id \in (IF Known = {} THEN {0} ELSE Known) :
          requests' = Replace(r, [r EXCEPT !.id = id, !.step = "done"])
    BY <1>12 DEF List
  <2>2. id \in {0} \cup Used /\ id \in {0} \cup Ids /\ r.kind = "list"
    BY <1>12, <2>1 DEF List, StreamInv, Known
  <2> DEFINE s == [r EXCEPT !.id = id, !.step = "done"]
  <2>3. s \in Requests /\ s.kind = "list" /\ s.id = id /\ s.step = "done"
    BY <1>1, <2>2 DEF Requests
  <2>4. requests' = Replace(r, s)
    BY <2>1
  <2> HIDE DEF s
  <2>5. RequestOK(s)'
    BY <1>1, <1>2, <2>2, <2>3 DEF RequestOK, StepsOf, StreamsMove
  <2>6. QED
    BY <1>5, <2>3, <2>4, <2>5 DEF Counts
<1>13. CASE Down(r)
  <2> DEFINE s == [r EXCEPT !.step = "failed"]
  <2>1. /\ s \in Requests /\ s.kind = "poll" /\ s.id = r.id /\ s.step = "failed"
        /\ s.visit = r.visit /\ s.cancelled = r.cancelled /\ r.kind = "poll"
        /\ requests' = Replace(r, s)
    BY <1>1, <1>13 DEF Requests, Down
  <2> HIDE DEF s
  <2>2. RequestOK(s)'
    BY <1>1, <1>2, <2>1 DEF RequestOK, StepsOf, StreamsMove
  <2>3. QED
    BY <1>5, <2>1, <2>2 DEF Counts
<1>14. QED
  BY <1>6, <1>7, <1>8, <1>9, <1>10, <1>11, <1>12, <1>13

\* The page takes an answer.
LEMMA ReplySteps ==
    ASSUME TypeOK, StreamInv, NEW r \in requests, Started(r) \/ Adopt(r) \/ Drain(r)
    PROVE  PartsOK' /\ CountsOK'
<1>1. PICK pageNow \in Pages :
        /\ Reply(r, pageNow) /\ pageNow.here = page.here /\ pageNow.visit = page.visit
        /\ pageNow.sub = page.sub \/ pageNow.sub \in Used
  <2>1. CASE Started(r)
    BY <2>1, StartedFacts
  <2>2. CASE Adopt(r)
    BY <2>2, AdoptFacts
  <2>3. CASE Drain(r)
    BY <2>3, DrainFacts
  <2>4. QED
    BY <2>1, <2>2, <2>3
<1>2. /\ page' = pageNow /\ UNCHANGED <<hook, streams>> /\ CallsOK(requests')
      /\ \A s \in requests' : Counts(s) => page'.here /\ page'.running /\ s.visit = page'.visit
  BY <1>1, ReplyFacts
<1>3. CallsOK(requests)' /\ Used' = Used
  BY <1>2 DEF CallsOK, RequestOK, Used, Known
<1>4. QED
  BY <1>1, <1>2, <1>3 DEF PartsOK, CountsOK, StreamInv

(***************************************************************************)
(* The reads of the other boards.                                          *)
(***************************************************************************)
Reads == [filter : Filters, step : {"collecting", "collected"}]

Reading ==
    \/ \E filter \in Filters : Read(filter)
    \/ \E r \in reads : Collected(r) \/ LetGo(r)

\* They touch nothing but the subscriptions, and run on a shared session only.
LEMMA ReadSteps ==
    ASSUME TypeOK, StreamInv, [Next]_vars
    PROVE  /\ reads' \subseteq Reads
           /\ reads' # {} => hook.shared
           /\ Reading => UNCHANGED <<hook, page, requests, streams>>
           /\ ~Reading => UNCHANGED reads
<1>1. reads \subseteq Reads /\ (reads # {} => hook.shared)
  BY DEF TypeOK, StreamInv, Reads
<1>2. ASSUME NEW filter \in Filters, Read(filter)
      PROVE  /\ reads' \subseteq Reads /\ hook.shared
             /\ UNCHANGED <<hook, page, requests, streams>>
  BY <1>1, <1>2 DEF Read, Reads
<1>3. ASSUME NEW r \in reads, Collected(r) \/ LetGo(r)
      PROVE  /\ reads' \subseteq Reads /\ hook.shared
             /\ UNCHANGED <<hook, page, requests, streams>>
  <2>1. [r EXCEPT !.step = "collected"] \in Reads
    BY <1>1 DEF Reads
  <2>2. QED
    BY <1>1, <1>3, <2>1 DEF Collected, LetGo
<1>4. ~Reading => UNCHANGED reads
  BY DEF Reading, Next, vars, Visit, Leave, Stop, Clear, Poll, Start, Deliver, Follow,
     Register, Subscribe, Refuse, Remove, Unsubscribe, Answer, List, Down, Started, Adopt,
     Drain, Reply
<1>5. QED
  BY <1>1, <1>2, <1>3, <1>4 DEF Reading

\* Every step keeps the types and what the calls refer to.
LEMMA StreamStep ==
    ASSUME TypeOK, StreamInv, [Next]_vars
    PROVE  TypeOK' /\ StreamInv'
<1>1. PartsOK' /\ CountsOK'
  <2>1. CASE UNCHANGED vars
    BY <2>1 DEF vars, TypeOK, StreamInv, PartsOK, CountsOK, Pages, CallsOK, RequestOK, Used, Known
  <2>2. ASSUME NEW filter \in Filters, Deliver(filter)
        PROVE  PartsOK' /\ CountsOK'
    <3>1. page' = page /\ requests' = requests /\ StreamsMove /\ hook' = hook
      BY <2>2, StreamsFrame DEF Deliver
    <3>2. CallsOK(requests)'
      BY <3>1, RequestKept DEF CallsOK, TypeOK, StreamInv
    <3>3. QED
      BY <3>1, <3>2 DEF TypeOK, StreamInv, PartsOK, CountsOK, Pages, StreamsMove
  <2>3. CASE Reading
    <3>1. UNCHANGED <<hook, page, requests, streams>>
      BY <2>3, ReadSteps
    <3>2. QED
      BY <3>1 DEF TypeOK, StreamInv, PartsOK, CountsOK, Pages, CallsOK, RequestOK, Used, Known
  <2>4. QED
    BY <2>1, <2>2, <2>3, PageSteps, DriverSteps, ReplySteps DEF Next, Reading
<1>2. TypeOK'
  BY <1>1, StreamsFrame, LapsesGrow, ReadSteps
     DEF TypeOK, PartsOK, CallsOK, Pages, Streams, Reads
<1>3. ~hook'.starts => Known' = Ids /\ heard' = Ids
  <2>1. SUFFICES ASSUME ~hook.starts
                 PROVE  Known' = Ids /\ heard' = Ids
    BY StreamsFrame
  <2>2. /\ Known = Ids /\ heard = Ids /\ \A r \in requests : r.kind = "poll"
        /\ reads = {} /\ \A filter : ~Read(filter)
    BY <2>1, HooksAssumption DEF StreamInv, RequestOK, Read, TypeOK
  <2>3. heard' = heard
    BY <2>1, <2>2 DEF Next, vars, Visit, Leave, Stop, Clear, Poll, Start, Deliver, Follow,
       Register, Subscribe, Refuse, Remove, Unsubscribe, Answer, List, Down, Started, Adopt,
       Drain, Reply, Collected, LetGo
  <2>4. UNCHANGED streams \/ \E filter \in Filters : Deliver(filter)
    BY <2>1, <2>2 DEF Next, vars, Visit, Leave, Stop, Clear, Poll, Start, Follow,
       Register, Subscribe, Refuse, Remove, Unsubscribe, Answer, List, Down, Started, Adopt,
       Drain, Reply, Collected, LetGo
  <2>5. Known' = Known
    <3>1. CASE UNCHANGED streams
      BY <3>1 DEF Known
    <3>2. ASSUME NEW filter \in Filters, Deliver(filter)
          PROVE  Known' = Known
      BY <3>2 DEF Deliver, Known, TypeOK
    <3>3. QED
      BY <2>4, <3>1, <3>2
  <2>6. QED
    BY <2>2, <2>3, <2>5
<1>4. QED
  BY <1>1, <1>2, <1>3, StreamsFrame, ReadSteps DEF StreamInv, PartsOK, CountsOK, CallsOK

(***************************************************************************)
(* A step that leaves the calls, the streams and their subscriptions be.   *)
(***************************************************************************)
Quiet ==
    /\ hook' = hook /\ heard' = heard
    /\ Calls(requests') = Calls(requests)
    /\ Known' = Known /\ \A id \in Ids : streams'[id].filter = streams[id].filter
    /\ page'.here = page.here /\ page'.visit = page.visit /\ page'.sub = page.sub
    /\ ~page.running => ~page'.running /\ page'.shown \in {page.shown, <<>>}

\* The calls of a kind, from those that are not polls.
LEMMA PendingFacts ==
    /\ \A kind \in {"start", "stop", "list"} :
          Pending(kind) = {r \in Calls(requests) : r.kind = kind}
    /\ \A kind \in {"start", "stop", "list"} :
          Pending(kind)' = {r \in Calls(requests') : r.kind = kind}
BY DEF Pending, Calls

LEMMA QuietSteps ==
    ASSUME TypeOK, StreamInv, [Next]_vars,
           \/ Clear \/ Poll \/ UNCHANGED vars
           \/ \E filter \in Filters : Deliver(filter)
           \/ \E r \in requests : Answer(r) \/ Down(r) \/ Drain(r)
    PROVE  Quiet
<1>1. hook' = hook /\ page \in Pages
  BY StreamsFrame DEF TypeOK, Pages
<1>2. ASSUME UNCHANGED <<heard, streams, page>>, Calls(requests') = Calls(requests)
      PROVE  Quiet
  BY <1>1, <1>2 DEF Quiet, Known
<1>3. CASE UNCHANGED vars
  BY <1>2, <1>3 DEF vars
<1>4. CASE Clear
  <2>1. page' = [page EXCEPT !.shown = <<>>] /\ UNCHANGED <<requests, streams, heard>>
    BY <1>4 DEF Clear
  <2>2. /\ page'.here = page.here /\ page'.visit = page.visit /\ page'.sub = page.sub
        /\ page'.running = page.running /\ page'.shown = <<>>
    BY <1>1, <2>1 DEF Pages
  <2>3. Known' = Known
    BY <2>1 DEF Known
  <2>4. QED
    BY <1>1, <2>1, <2>2, <2>3 DEF Quiet
<1>5. CASE Poll
  <2>1. requests' = requests \cup {PollCall} /\ UNCHANGED <<heard, streams, page>>
    BY <1>5 DEF Poll
  <2>2. Calls(requests') = Calls(requests)
    BY <1>1, <2>1, PollFacts DEF Calls
  <2>3. QED
    BY <1>2, <2>1, <2>2
<1>6. ASSUME NEW filter \in Filters, Deliver(filter)
      PROVE  Quiet
  <2>1. UNCHANGED <<heard, requests, page>>
    BY <1>6 DEF Deliver
  <2>2. \A id \in Ids : /\ streams'[id].known = streams[id].known
                         /\ streams'[id].filter = streams[id].filter
    BY <1>6 DEF Deliver, TypeOK
  <2>3. Known' = Known
    BY <2>2 DEF Known
  <2>4. QED
    BY <1>1, <2>1, <2>2, <2>3 DEF Quiet
<1>7. ASSUME NEW r \in requests, Answer(r)
      PROVE  Quiet
  <2>1. PICK s : requests' = Replace(r, s) /\ r.kind = "poll" /\ s.kind = "poll"
    BY <1>7, AnswerFacts
  <2>2. Calls(requests') = Calls(requests)
    BY <2>1 DEF Replace, Calls
  <2>3. QED
    BY <1>2, <1>7, <2>2 DEF Answer
<1>8. ASSUME NEW r \in requests, Down(r)
      PROVE  Quiet
  <2> DEFINE s == [r EXCEPT !.step = "failed"]
  <2>1. requests' = Replace(r, s) /\ r.kind = "poll" /\ s.kind = "poll"
    BY <1>8 DEF Down, TypeOK, Requests
  <2> HIDE DEF s
  <2>2. Calls(requests') = Calls(requests)
    BY <2>1 DEF Replace, Calls
  <2>3. QED
    BY <1>2, <1>8, <2>2 DEF Down
<1>9. ASSUME NEW r \in requests, Drain(r)
      PROVE  Quiet
  <2>1. PICK pageNow \in Pages :
          /\ Reply(r, pageNow) /\ pageNow.here = page.here /\ pageNow.visit = page.visit
          /\ r.kind = "poll" /\ pageNow.sub = page.sub
          /\ pageNow = page \/ Counts(r)
    BY <1>9, DrainFacts
  <2>2. ~page.running => pageNow = page
    BY <2>1 DEF StreamInv
  <2>3. /\ page' = pageNow /\ UNCHANGED <<streams, heard>>
        /\ Calls(requests') = Calls(requests) \ {r}
    BY <2>1, ReplyFacts
  <2>4. Calls(requests') = Calls(requests) /\ Known' = Known
    BY <2>1, <2>3 DEF Calls, Known
  <2>5. QED
    BY <1>1, <2>1, <2>2, <2>3, <2>4 DEF Quiet
<1>10. QED
  BY <1>3, <1>4, <1>5, <1>6, <1>7, <1>8, <1>9

\* Such a step keeps whose turn it is, the one stream and what is heard.
LEMMA QuietKeeps ==
    ASSUME TypeOK, StreamInv, TurnInv, OneInv, HeardInv, Quiet, lapses \subseteq lapses'
    PROVE  TurnInv' /\ OneInv' /\ HeardInv'
<1>1. /\ Pending("start")' = Pending("start") /\ Pending("stop")' = Pending("stop")
      /\ Pending("list")' = Pending("list")
  BY PendingFacts DEF Quiet
<1>2. Asking' = Asking /\ Stopping' = Stopping
  BY <1>1 DEF Asking, Stopping
<1>3. TurnInv'
  BY <1>2 DEF TurnInv, Quiet
<1>4. OneInv'
  BY <1>1, <1>2 DEF OneInv, Quiet
<1>5. \A id \in Ids : Key(id)' = Key(id)
  BY DEF Key, KeyOf, Quiet
<1>6. Known \subseteq Ids /\ \A r \in Pending("stop") : r.id \in Ids
  BY DEF Known, Pending, StreamInv, RequestOK, Used
<1>7. HeardInv'
  BY <1>1, <1>5, <1>6 DEF HeardInv, Quiet, Secure
<1>8. QED
  BY <1>3, <1>4, <1>7

(***************************************************************************)
(* The steps of the page.                                                  *)
(***************************************************************************)

\* The page changes no stream and no subscription: what is heard stays so when
\* the starts under way go on and a new stop is about no stream of a start.
LEMMA HeardFrame ==
    ASSUME TypeOK, StreamInv, HeardInv, lapses \subseteq lapses',
           UNCHANGED <<hook, streams, heard>>,
           \A r \in Pending("start") : r.step = "registered" => r \in Pending("start")',
           "overlap" \notin lapses' =>
              /\ \A r \in Pending("stop")' : r \in Pending("stop") \/ r.step = "sent"
              /\ \/ Pending("start")' = {}
                 \/ Pending("start") # {} /\ Pending("stop")' \subseteq Pending("stop")
                 \/ \A r \in Pending("stop")' : r.step = "sent" /\ r.id \notin Known
    PROVE  HeardInv'
<1>1. Known' = Known /\ Secure' = Secure /\ \A id : Key(id)' = Key(id)
  BY DEF Known, Key, KeyOf, Secure
<1>2. SUFFICES ASSUME "overlap" \notin lapses'
               PROVE  /\ Pending("start")' # {} =>
                            \A r \in Pending("stop")' : r.step = "sent" /\ r.id \notin Known
                      /\ \A r \in Pending("stop")' : r.step = "removed" =>
                            \A id \in Known : Key(id) # Key(r.id)
                      /\ \A id \in Known :
                            \/ Key(id) \in Secure
                            \/ \E r \in Pending("start")' : r.id = id /\ r.step = "registered"
  BY <1>1 DEF HeardInv
<1>3. /\ Pending("start") # {} =>
            \A r \in Pending("stop") : r.step = "sent" /\ r.id \notin Known
      /\ \A r \in Pending("stop") : r.step = "removed" =>
            \A id \in Known : Key(id) # Key(r.id)
      /\ \A id \in Known :
            \/ Key(id) \in Secure
            \/ \E r \in Pending("start") : r.id = id /\ r.step = "registered"
  BY <1>2 DEF HeardInv
<1>4. QED
  BY <1>2, <1>3

\* A page that appears, leaves, starts, stops or follows a topic.
LEMMA PageTurns ==
    ASSUME TypeOK, StreamInv, TurnInv, OneInv, HeardInv, [Next]_vars,
           \/ Visit \/ Leave \/ Stop
           \/ \E filter \in Filters : Start(filter)
           \/ \E topic \in Ids : Follow(topic)
    PROVE  TurnInv' /\ OneInv' /\ HeardInv'
<1>1. /\ page \in Pages /\ page.visit \in 0..MaxVisits /\ page.sub \in {0} \cup Ids
      /\ requests \in SUBSET Requests /\ lapses \subseteq lapses'
  BY LapsesGrow DEF TypeOK, Pages
<1>2. UNCHANGED <<hook, streams, heard>> /\ Known' = Known /\ 0 \notin Known
  <2>1. UNCHANGED <<hook, streams, heard>>
    BY DEF Visit, Leave, Stop, Start, Follow
  <2>2. QED
    BY <2>1, BoundsAssumption DEF Known, Ids
<1>3. CASE Visit
  <2> DEFINE q == ListCall(page.visit + 1)
  <2>1. /\ page' = Fresh(page.visit + 1) /\ page.visit + 1 \in 0..MaxVisits /\ ~page.here
        /\ lapses' = lapses
    BY <1>1, <1>3, BoundsAssumption DEF Visit
  <2>2. page'.here /\ ~page'.running /\ page'.shown = <<>> /\ page'.visit = page.visit + 1
    BY <2>1, FreshFacts
  <2>3. q.kind = "list" /\ q.step = "sent" /\ q.visit = page.visit + 1
    BY <2>1, ListFacts
  <2>4. requests' = IF hook.starts THEN requests \cup {q} ELSE requests
    BY <1>3, <2>2 DEF Visit
  <2> HIDE DEF q
  <2>5. /\ Pending("start")' = Pending("start") /\ Pending("stop")' = Pending("stop")
        /\ Pending("list")' = IF hook.starts THEN Pending("list") \cup {q} ELSE Pending("list")
    BY <2>3, <2>4 DEF Pending
  <2>6. "hasty" \notin lapses => Asking = {}
    BY <2>1 DEF TurnInv
  <2>7. "hasty" \notin lapses => Asking' = IF hook.starts THEN {q} ELSE {}
    BY <2>5, <2>6 DEF Asking
  <2>8. TurnInv'
    BY <2>1, <2>2, <2>3, <2>7 DEF TurnInv
  <2>9. OneInv'
    <3>1. SUFFICES ASSUME hook.starts, lapses \cap {"hasty", "overlap"} = {}
                   PROVE  /\ \A a, b \in Known : a = b
                          /\ \A r \in Pending("start")' : Known \subseteq {r.id}
                          /\ \A r \in Pending("list")' : r.step = "done" => Known \subseteq {r.id}
                          /\ Asking' # {}
      BY <1>2, <2>1 DEF OneInv
    <3>2. QED
      BY <2>3, <2>5, <2>7, <3>1 DEF OneInv
  <2>10. HeardInv'
    BY <1>1, <1>2, <2>5, HeardFrame DEF HeardInv
  <2>11. QED
    BY <2>8, <2>9, <2>10
<1>4. CASE Leave
  <2> DEFINE set == {r \in requests : r.kind # "list"}
  <2>1. /\ page' = [Fresh(page.visit) EXCEPT !.here = FALSE] /\ requests' = Cancelled(set)
        /\ "hasty" \notin lapses' => Pending("start") = {}
    BY <1>4 DEF Leave, Lapse
  <2>2. ~page'.here
    BY <1>1, <2>1, FreshFacts
  <2>3. Calls(requests') = Calls(set)
    BY <1>1, <2>1, CancelledFacts
  <2>4. /\ Pending("start")' = Pending("start") /\ Pending("stop")' = Pending("stop")
        /\ Pending("list")' = {}
    BY <2>3, PendingFacts DEF Calls
  <2>5. "hasty" \notin lapses' => Asking' = {}
    BY <2>1, <2>4 DEF Asking
  <2>6. TurnInv'
    BY <2>5 DEF TurnInv
  <2>7. OneInv'
    BY <1>1, <1>2, <2>1, <2>2, <2>4 DEF OneInv
  <2>8. HeardInv'
    BY <1>1, <1>2, <2>4, HeardFrame DEF HeardInv
  <2>9. QED
    BY <2>6, <2>7, <2>8
<1>5. CASE Stop
  <2> DEFINE set == SetRunning(FALSE, requests)
             stop == IF hook.starts THEN StopCall(page.sub) ELSE {}
  <2>1. /\ page' = [page EXCEPT !.running = FALSE, !.sub = 0]
        /\ requests' = set \cup stop /\ page.running
        /\ "overlap" \notin lapses' => Pending("start") = {}
    BY <1>5 DEF Stop, Lapse
  <2>2. page'.sub = 0 /\ page'.here = page.here /\ page'.visit = page.visit
    BY <1>1, <2>1 DEF Pages
  <2>3. Calls(set) = Calls(requests)
    BY <1>1, SetRunningFacts
  <2>4. /\ \A r \in stop : r.kind = "stop" /\ r.step = "sent" /\ r.id = page.sub
        /\ hook.starts /\ page.sub # 0 => stop # {}
    BY <1>1, StopFacts
  <2> HIDE DEF set, stop
  <2>5. Calls(requests') = Calls(requests) \cup stop
    BY <2>1, <2>3, <2>4 DEF Calls
  <2>6. /\ Pending("start")' = Pending("start") /\ Pending("stop")' = Pending("stop") \cup stop
        /\ Pending("list")' = Pending("list")
    BY <2>4, <2>5, PendingFacts
  <2>7. Asking' = Asking /\ ("hasty" \notin lapses' => Asking = {})
    BY <1>1, <2>1, <2>6 DEF Asking, TurnInv
  <2>8. TurnInv'
    BY <2>7 DEF TurnInv
  <2>9. OneInv'
    <3>1. hook.starts /\ page.sub # 0 => page.sub \in Stopping'
      BY <2>4, <2>6 DEF Stopping
    <3>2. Stopping \subseteq Stopping'
      BY <2>6 DEF Stopping
    <3>3. QED
      BY <1>1, <1>2, <2>2, <2>6, <2>7, <3>1, <3>2 DEF OneInv
  <2>10. HeardInv'
    BY <1>1, <1>2, <2>1, <2>4, <2>6, HeardFrame
  <2>11. QED
    BY <2>8, <2>9, <2>10
<1>6. ASSUME NEW filter \in Filters, Start(filter)
      PROVE  TurnInv' /\ OneInv' /\ HeardInv'
  <2> DEFINE q == StartCall(filter)
             stop == StopCall(page.sub)
  <2>1. /\ page' = [page EXCEPT !.sub = 0, !.cursor = 0, !.shown = <<>>]
        /\ requests' = (requests \cup stop) \cup {q}
        /\ page.here /\ ~page.running
        /\ "hasty" \notin lapses' => Asking = {}
        /\ "overlap" \notin lapses' => Pending("stop") = {} /\ page.sub \notin Known
    BY <1>6 DEF Start, CanStart, Hurried, Asking
  <2>2. /\ page'.here /\ ~page'.running /\ page'.visit = page.visit /\ page'.shown = <<>>
    BY <1>1, <2>1 DEF Pages
  <2>3. q.kind = "start" /\ q.id = 0 /\ q.visit = page.visit
    BY <1>1, StartFacts
  <2>4. \A r \in stop : r.kind = "stop" /\ r.step = "sent" /\ r.id = page.sub
    BY <1>1, StopFacts
  <2> HIDE DEF q, stop
  <2>5. /\ Pending("start")' = Pending("start") \cup {q}
        /\ Pending("stop")' = Pending("stop") \cup stop
        /\ Pending("list")' = Pending("list")
    BY <2>1, <2>3, <2>4 DEF Pending
  <2>6. "hasty" \notin lapses' => Asking' = {q}
    BY <2>1, <2>5 DEF Asking
  <2>7. TurnInv'
    BY <2>2, <2>3, <2>6 DEF TurnInv
  <2>8. OneInv'
    <3>1. SUFFICES ASSUME hook.starts, lapses' \cap {"hasty", "overlap"} = {}
                   PROVE  Known = {} /\ Asking' # {}
      BY <1>2 DEF OneInv
    <3>2. Asking = {} /\ Pending("stop") = {} /\ page.sub \notin Known
      BY <2>1, <3>1
    <3>3. Stopping = {}
      BY <3>2 DEF Stopping
    <3>4. Known \subseteq {page.sub} \cup Stopping
      BY <1>1, <2>1, <3>1, <3>2 DEF OneInv
    <3>5. QED
      BY <2>6, <3>1, <3>2, <3>3, <3>4
  <2>9. HeardInv'
    BY <1>1, <1>2, <2>1, <2>4, <2>5, HeardFrame
  <2>10. QED
    BY <2>7, <2>8, <2>9
<1>7. ASSUME NEW topic \in Ids, Follow(topic)
      PROVE  TurnInv' /\ OneInv' /\ HeardInv'
  <2>1. requests' = requests /\ ~hook.starts /\ \A r \in requests : r.kind = "poll"
    BY <1>7 DEF Follow, StreamInv, RequestOK
  <2>2. /\ Pending("start")' = {} /\ Pending("stop")' = {} /\ Pending("list")' = {}
        /\ Pending("start") = {}
    BY <2>1 DEF Pending
  <2>3. TurnInv' /\ OneInv'
    BY <1>2, <2>1, <2>2 DEF TurnInv, OneInv, Asking
  <2>4. HeardInv'
    BY <1>1, <1>2, <2>2, HeardFrame
  <2>5. QED
    BY <2>3, <2>4
<1>8. QED
  BY <1>3, <1>4, <1>5, <1>6, <1>7

(***************************************************************************)
(* The steps of the driver.                                                *)
(***************************************************************************)

\* A call moves on or ends: the calls of its kind afterwards.
LEMMA ReplaceFacts ==
    ASSUME NEW r \in requests, NEW s, s.kind = r.kind, requests' = Replace(r, s)
    PROVE  /\ Pending(r.kind)' = (Pending(r.kind) \ {r}) \cup {s}
           /\ \A kind : kind # r.kind => Pending(kind)' = Pending(kind)
BY DEF Pending, Replace

\* While nobody is hurried, the call that moves on is the only one.
LEMMA TurnReplace ==
    ASSUME TypeOK, TurnInv, UNCHANGED <<page, lapses>>, NEW r \in Asking, NEW s,
           Asking' = (Asking \ {r}) \cup {s}, s.visit = r.visit
    PROVE  TurnInv' /\ ("hasty" \notin lapses => Asking = {r} /\ Asking' = {s})
BY DEF TurnInv

LEMMA DriverTurns ==
    ASSUME TypeOK, StreamInv, TurnInv, OneInv, HeardInv, [Next]_vars, NEW r \in requests,
           \/ Register(r) \/ Subscribe(r) \/ Refuse(r) \/ Remove(r) \/ Unsubscribe(r)
           \/ List(r)
    PROVE  TurnInv' /\ OneInv' /\ HeardInv'
<1>1. /\ r \in Requests /\ RequestOK(r) /\ hook' = hook /\ StreamsMove
      /\ UNCHANGED <<page, lapses>> /\ hook.starts
  BY StreamsFrame DEF TypeOK, StreamInv, RequestOK, Register, Subscribe, Refuse, Remove,
     Unsubscribe, List
<1>2. Known \subseteq Used /\ Used \subseteq Ids /\ 0 \notin Ids
  BY BoundsAssumption DEF StreamInv, Used, Ids
<1>3. \A id \in Used : Key(id)' = Key(id)
  BY <1>1 DEF StreamsMove, Key, KeyOf
<1>4. \A q \in Pending("stop") : q.id \in Used
  BY DEF Pending, StreamInv, RequestOK
<1>5. CASE Register(r)
  <2>0. PICK id \in Ids :
          /\ ~streams[id].used
          /\ streams' = [streams EXCEPT ![id] = [used |-> TRUE, known |-> TRUE,
                                                 filter |-> r.filter, count |-> 0]]
          /\ requests' = Replace(r, [r EXCEPT !.id = id,
                                     !.step = IF hook.shared THEN "registered" ELSE "done"])
          /\ heard' = IF hook.shared THEN heard ELSE heard \cup {id}
    BY <1>5 DEF Register
  <2>1. PICK step \in {"registered", "done"} :
          /\ requests' = Replace(r, [r EXCEPT !.id = id, !.step = step])
          /\ Secure \subseteq Secure'
          /\ step = "registered" \/ (~hook.shared /\ id \in Secure')
    <3>1. CASE hook.shared
      <4>1. requests' = Replace(r, [r EXCEPT !.id = id, !.step = "registered"])
        BY <2>0, <3>1
      <4>2. heard' = heard
        BY <2>0, <3>1
      <4>3. QED
        BY <4>1, <4>2 DEF Secure
    <3>2. CASE ~hook.shared
      <4>1. requests' = Replace(r, [r EXCEPT !.id = id, !.step = "done"])
        BY <2>0, <3>2
      <4>2. heard' = heard \cup {id}
        BY <2>0, <3>2
      <4>3. QED
        BY <3>2, <4>1, <4>2 DEF Secure
    <3>3. QED
      BY <3>1, <3>2
  <2> DEFINE s == [r EXCEPT !.id = id, !.step = step]
  <2>2. /\ s.kind = "start" /\ s.id = id /\ s.step = step /\ s.visit = r.visit
        /\ requests' = Replace(r, s) /\ r.kind = "start" /\ r.step = "sent" /\ r.id = 0
    BY <1>1, <1>5, <2>1 DEF Requests, Register, RequestOK
  <2> HIDE DEF s
  <2>3. /\ Pending("start")' = (Pending("start") \ {r}) \cup {s} /\ r \in Pending("start")
        /\ Pending("stop")' = Pending("stop") /\ Pending("list")' = Pending("list")
    BY <2>2, ReplaceFacts DEF Pending
  <2>4. id \notin Used /\ Known' = Known \cup {id}
    BY <2>0 DEF TypeOK, Used, Known
  <2>5. r \in Asking /\ Asking' = (Asking \ {r}) \cup {s}
    BY <2>2, <2>3 DEF Asking, Pending
  <2>6. TurnInv' /\ ("hasty" \notin lapses => Asking = {r} /\ Asking' = {s})
    BY <1>1, <2>2, <2>5, TurnReplace
  <2>7. OneInv'
    <3>1. SUFFICES ASSUME lapses \cap {"hasty", "overlap"} = {}
                   PROVE  /\ \A a, b \in Known' : a = b
                          /\ \A q \in Pending("start")' : Known' \subseteq {q.id}
                          /\ Pending("list")' = {} /\ Asking' # {}
      BY <1>1 DEF OneInv
    <3>2. Asking' = {s} /\ Known \subseteq {r.id}
      BY <1>1, <2>3, <2>6, <3>1 DEF OneInv
    <3>3. Known' = {id}
      BY <1>2, <2>2, <2>4, <3>2
    <3>4. Pending("start")' = {s} /\ Pending("list")' = {}
      <4>1. \A q \in Pending("start")' \cup Pending("list")' : q = s
        BY <3>2 DEF Asking
      <4>2. \A q \in Pending("list")' : q.kind = "list"
        BY DEF Pending
      <4>3. QED
        BY <2>2, <2>3, <4>1, <4>2
    <3>5. QED
      BY <2>2, <3>2, <3>3, <3>4
  <2>8. HeardInv'
    <3>1. SUFFICES ASSUME "overlap" \notin lapses
                   PROVE  /\ \A q \in Pending("stop") : q.step = "sent" /\ q.id \notin Known'
                          /\ \A i \in Known' :
                                \/ Key(i)' \in Secure'
                                \/ \E q \in Pending("start")' : q.id = i /\ q.step = "registered"
      BY <1>1, <2>3 DEF HeardInv
    <3>2. \A q \in Pending("stop") : q.step = "sent" /\ q.id \notin Known'
      BY <1>4, <2>3, <2>4, <3>1 DEF HeardInv
    <3>3. ASSUME NEW i \in Known
          PROVE  \/ Key(i)' \in Secure'
                 \/ \E q \in Pending("start")' : q.id = i /\ q.step = "registered"
      <4>1. Key(i) \in Secure \/ \E q \in Pending("start") : q.id = i /\ q.step = "registered"
        BY <3>1 DEF HeardInv
      <4>2. QED
        BY <1>2, <1>3, <2>1, <2>2, <2>3, <4>1
    <3>4. \/ Key(id)' \in Secure'
          \/ s \in Pending("start")' /\ s.id = id /\ s.step = "registered"
      BY <1>1, <2>1, <2>2, <2>3 DEF Key, KeyOf
    <3>5. QED
      BY <2>4, <3>2, <3>3, <3>4
  <2>9. QED
    BY <2>6, <2>7, <2>8
<1>6. CASE Subscribe(r) \/ Refuse(r)
  <2>1. PICK step \in {"done", "failed"} :
          /\ requests' = Replace(r, [r EXCEPT !.step = step])
          /\ r.kind = "start"
          /\ \/ Subscribe(r)
             \/ Refuse(r)
    BY <1>6 DEF Subscribe, Refuse
  <2> DEFINE s == [r EXCEPT !.step = step]
  <2>2. /\ s.kind = "start" /\ s.id = r.id /\ s.visit = r.visit
        /\ requests' = Replace(r, s) /\ r.kind = "start"
    BY <1>1, <2>1 DEF Requests
  <2> HIDE DEF s
  <2>3. /\ Pending("start")' = (Pending("start") \ {r}) \cup {s} /\ r \in Pending("start")
        /\ Pending("stop")' = Pending("stop") /\ Pending("list")' = Pending("list")
    BY <2>2, ReplaceFacts DEF Pending
  <2>4. Known' \subseteq Known /\ Secure \subseteq Secure'
    <3>1. Secure \subseteq Secure' /\ r.id \in {0} \cup Ids
      BY <1>1, <1>6 DEF Subscribe, Refuse, Requests, Secure
    <3>2. streams' = streams \/ streams' = [streams EXCEPT ![r.id].known = FALSE]
      BY <1>6 DEF Subscribe, Refuse
    <3>3. QED
      BY <3>1, <3>2 DEF Known, TypeOK
  <2>5. r \in Asking /\ Asking' = (Asking \ {r}) \cup {s}
    BY <2>1, <2>2, <2>3 DEF Asking, Pending
  <2>6. TurnInv'
    BY <1>1, <2>2, <2>5, TurnReplace
  <2>7. OneInv'
    BY <1>1, <2>2, <2>3, <2>4, <2>5 DEF OneInv
  <2>8. HeardInv'
    <3>1. SUFFICES ASSUME "overlap" \notin lapses
                   PROVE  /\ \A q \in Pending("stop") : q.step = "sent" /\ q.id \notin Known'
                          /\ \A i \in Known' :
                                \/ Key(i)' \in Secure'
                                \/ \E q \in Pending("start")' : q.id = i /\ q.step = "registered"
      BY <1>1, <2>3 DEF HeardInv
    <3>2. \A q \in Pending("stop") : q.step = "sent" /\ q.id \notin Known'
      BY <2>3, <2>4, <3>1 DEF HeardInv
    <3>3. ASSUME NEW i \in Known', r.id = i, r.step = "registered"
          PROVE  Key(i)' \in Secure'
      <4>1. r.id \in Used /\ r.filter = streams[r.id].filter
        BY <1>1, <2>1, <3>3 DEF RequestOK
      <4>2. ~Refuse(r)
        BY <1>2, <3>3, <4>1 DEF Refuse, Known, TypeOK
      <4>3. Key(i) \in Secure'
        BY <2>1, <3>3, <4>1, <4>2 DEF Subscribe, Key, Secure
      <4>4. QED
        BY <1>3, <3>3, <4>1, <4>3
    <3>4. ASSUME NEW i \in Known'
          PROVE  \/ Key(i)' \in Secure'
                 \/ \E q \in Pending("start")' : q.id = i /\ q.step = "registered"
      <4>1. Key(i) \in Secure \/ \E q \in Pending("start") : q.id = i /\ q.step = "registered"
        BY <2>4, <3>1 DEF HeardInv
      <4>2. QED
        BY <1>2, <1>3, <2>3, <2>4, <3>3, <4>1
    <3>5. QED
      BY <3>2, <3>4
  <2>9. QED
    BY <2>6, <2>7, <2>8
<1>7. CASE Remove(r)
  <2>1. /\ r.kind = "stop" /\ r.step = "sent" /\ r.id \in Used
        /\ streams' = [streams EXCEPT ![r.id].known = FALSE]
        /\ Secure' = Secure
    BY <1>1, <1>7 DEF Remove, RequestOK, Secure
  <2>2. Known' = Known \ {r.id}
    BY <1>2, <2>1 DEF TypeOK, Known
  <2> DEFINE s == [r EXCEPT !.step = "removed"]
  <2>3. /\ s.kind = "stop" /\ s.id = r.id /\ s.step = "removed"
        /\ requests' = IF r.id \in Known /\ ~InUse(Key(r.id), r.id)
                       THEN Replace(r, s) ELSE requests \ {r}
    BY <1>1, <1>7, <2>1 DEF Requests, Remove
  <2> HIDE DEF s
  <2>4. /\ Pending("start")' = Pending("start") /\ Pending("list")' = Pending("list")
        /\ Pending("stop") \ {r} \subseteq Pending("stop")' /\ r \in Pending("stop")
        /\ \A q \in Pending("stop")' :
              \/ q \in Pending("stop")
              \/ q = s /\ r.id \in Known /\ ~InUse(Key(r.id), r.id)
    <3>1. CASE r.id \in Known /\ ~InUse(Key(r.id), r.id)
      <4>1. Pending("stop")' = (Pending("stop") \ {r}) \cup {s}
        BY <2>1, <2>3, <3>1 DEF Pending, Replace
      <4>2. Pending("start")' = Pending("start") /\ Pending("list")' = Pending("list")
        BY <2>1, <2>3, <3>1 DEF Pending, Replace
      <4>3. QED
        BY <2>1, <3>1, <4>1, <4>2 DEF Pending
    <3>2. CASE ~(r.id \in Known /\ ~InUse(Key(r.id), r.id))
      <4>1. requests' = requests \ {r}
        BY <2>3, <3>2
      <4>2. Pending("stop")' = Pending("stop") \ {r} /\ r \in Pending("stop")
        BY <2>1, <4>1 DEF Pending
      <4>3. Pending("start")' = Pending("start") /\ Pending("list")' = Pending("list")
        BY <2>1, <4>1 DEF Pending
      <4>4. QED
        BY <4>2, <4>3
    <3>3. QED
      BY <3>1, <3>2
  <2>5. Asking' = Asking /\ Stopping \ {r.id} \subseteq Stopping'
    BY <2>4 DEF Asking, Stopping
  <2>6. TurnInv'
    BY <1>1, <2>5 DEF TurnInv
  <2>7. OneInv'
    BY <1>1, <2>2, <2>4, <2>5 DEF OneInv
  <2>8. HeardInv'
    <3>1. SUFFICES ASSUME "overlap" \notin lapses
                   PROVE  /\ Pending("start") # {} =>
                                \A q \in Pending("stop")' : q.step = "sent" /\ q.id \notin Known'
                          /\ \A q \in Pending("stop")' : q.step = "removed" =>
                                \A i \in Known' : Key(i)' # Key(q.id)'
                          /\ \A i \in Known' :
                                \/ Key(i)' \in Secure'
                                \/ \E q \in Pending("start") : q.id = i /\ q.step = "registered"
      BY <1>1, <2>4 DEF HeardInv
    <3>2. Pending("start") # {} =>
             \A q \in Pending("stop")' : q.step = "sent" /\ q.id \notin Known'
      BY <2>2, <2>4, <3>1 DEF HeardInv
    <3>3. ASSUME NEW q \in Pending("stop")', q.step = "removed", NEW i \in Known'
          PROVE  Key(i)' # Key(q.id)'
      <4>1. i \in Known /\ i # r.id /\ Key(i)' = Key(i)
        BY <1>2, <1>3, <2>2
      <4>2. CASE q \in Pending("stop")
        BY <1>3, <1>4, <3>1, <3>3, <4>1, <4>2 DEF HeardInv
      <4>3. CASE q = s /\ ~InUse(Key(r.id), r.id)
        BY <1>3, <2>1, <2>3, <4>1, <4>3 DEF InUse
      <4>4. QED
        BY <2>4, <4>2, <4>3
    <3>4. ASSUME NEW i \in Known'
          PROVE  \/ Key(i)' \in Secure'
                 \/ \E q \in Pending("start") : q.id = i /\ q.step = "registered"
      BY <1>2, <1>3, <2>1, <2>2, <3>1 DEF HeardInv
    <3>5. QED
      BY <3>2, <3>3, <3>4
  <2>9. QED
    BY <2>6, <2>7, <2>8
<1>8. CASE Unsubscribe(r)
  <2>1. /\ r.kind = "stop" /\ r.step = "removed" /\ r.id \notin Known
        /\ UNCHANGED streams /\ requests' = requests \ {r}
        /\ Secure \ {Key(r.id)} \subseteq Secure'
    BY <1>1, <1>8 DEF Unsubscribe, RequestOK, Secure
  <2>2. Known' = Known
    BY <2>1 DEF Known
  <2>3. /\ Pending("start")' = Pending("start") /\ Pending("list")' = Pending("list")
        /\ Pending("stop")' = Pending("stop") \ {r} /\ r \in Pending("stop")
    BY <2>1 DEF Pending
  <2>4. Asking' = Asking /\ Stopping \ {r.id} \subseteq Stopping'
    BY <2>3 DEF Asking, Stopping
  <2>5. TurnInv'
    BY <1>1, <2>4 DEF TurnInv
  <2>6. OneInv'
    BY <1>1, <2>1, <2>2, <2>3, <2>4 DEF OneInv
  <2>7. HeardInv'
    <3>1. SUFFICES ASSUME "overlap" \notin lapses
                   PROVE  /\ Pending("start") # {} =>
                                \A q \in Pending("stop") : q.step = "sent" /\ q.id \notin Known
                          /\ \A q \in Pending("stop") : q.step = "removed" =>
                                \A i \in Known : Key(i)' # Key(q.id)'
                          /\ \A i \in Known :
                                \/ Key(i)' \in Secure'
                                \/ \E q \in Pending("start") : q.id = i /\ q.step = "registered"
      BY <1>1, <2>2, <2>3 DEF HeardInv
    <3>2. ASSUME NEW i \in Known
          PROVE  \/ Key(i)' \in Secure'
                 \/ \E q \in Pending("start") : q.id = i /\ q.step = "registered"
      <4>1. Key(i) # Key(r.id) /\ Key(i)' = Key(i)
        BY <1>2, <1>3, <2>1, <2>3, <3>1 DEF HeardInv
      <4>2. QED
        BY <2>1, <3>1, <4>1 DEF HeardInv
    <3>3. QED
      BY <1>2, <1>3, <1>4, <3>1, <3>2 DEF HeardInv
  <2>8. QED
    BY <2>5, <2>6, <2>7
<1>9. CASE List(r)
  <2>1. PICK id \in (IF Known = {} THEN {0} ELSE Known) :
          requests' = Replace(r, [r EXCEPT !.id = id, !.step = "done"])
    BY <1>9 DEF List
  <2> DEFINE s == [r EXCEPT !.id = id, !.step = "done"]
  <2>2. /\ s.kind = "list" /\ s.id = id /\ s.visit = r.visit /\ r.kind = "list"
        /\ requests' = Replace(r, s) /\ UNCHANGED <<streams, heard>>
    BY <1>1, <1>9, <2>1 DEF Requests, List
  <2> HIDE DEF s
  <2>3. /\ Pending("list")' = (Pending("list") \ {r}) \cup {s} /\ r \in Pending("list")
        /\ Pending("stop")' = Pending("stop") /\ Pending("start")' = Pending("start")
    BY <2>2, ReplaceFacts DEF Pending
  <2>4. r \in Asking /\ Asking' = (Asking \ {r}) \cup {s}
    BY <2>2, <2>3 DEF Asking, Pending
  <2>5. TurnInv' /\ Known' = Known
    BY <1>1, <2>2, <2>4, TurnReplace DEF Known
  <2>6. OneInv'
    BY <1>1, <2>1, <2>2, <2>3, <2>4, <2>5 DEF OneInv
  <2>7. HeardInv'
    BY <1>1, <2>2, <2>3, HeardFrame DEF HeardInv
  <2>8. QED
    BY <2>5, <2>6, <2>7
<1>10. QED
  BY <1>5, <1>6, <1>7, <1>8, <1>9

(***************************************************************************)
(* The answers to a start and to a listing.                                *)
(***************************************************************************)
LEMMA ReplyTurns ==
    ASSUME TypeOK, StreamInv, TurnInv, OneInv, HeardInv, NEW r \in requests,
           Started(r) \/ Adopt(r)
    PROVE  TurnInv' /\ OneInv' /\ HeardInv'
<1>1. RequestOK(r) /\ r \in Asking /\ r.step \in {"done", "failed"}
  BY DEF StreamInv, Asking, Pending, Started, Adopt
<1>2. PICK pageNow \in Pages :
        /\ Reply(r, pageNow) /\ pageNow.here = page.here /\ pageNow.visit = page.visit
        /\ \/ r.kind = "start" /\ ~(page.here /\ r.visit = page.visit)
           \/ r.kind = "start" /\ r.step = "failed"
           \/ r.kind = "list" /\ r.id = 0
           \/ pageNow.sub = r.id
  <2>1. CASE Started(r)
    BY <2>1, StartedFacts
  <2>2. CASE Adopt(r)
    BY <2>2, AdoptFacts
  <2>3. QED
    BY <2>1, <2>2
<1>3. /\ page' = pageNow /\ UNCHANGED <<hook, streams, heard, lapses>>
      /\ Calls(requests') = Calls(requests) \ {r}
  BY <1>2, ReplyFacts
<1>4. /\ Pending("start")' = Pending("start") \ {r} /\ Pending("stop")' = Pending("stop") \ {r}
      /\ Pending("list")' = Pending("list") \ {r}
  BY <1>3, PendingFacts
<1>5. Pending("stop")' = Pending("stop")
  BY <1>1, <1>4 DEF Asking, Pending
<1>6. "hasty" \notin lapses => Asking = {r} /\ Asking' = {} /\ page.here /\ r.visit = page.visit
  BY <1>1, <1>4 DEF Asking, TurnInv
<1>7. TurnInv'
  BY <1>3, <1>6 DEF TurnInv
<1>8. OneInv'
  <2>1. Known' = Known /\ 0 \notin Known
    BY <1>3, BoundsAssumption DEF Known, Ids
  <2>2. SUFFICES ASSUME hook.starts, lapses \cap {"hasty", "overlap"} = {}
                 PROVE  /\ \A a, b \in Known : a = b
                        /\ Pending("start")' = {} /\ Pending("list")' = {}
                        /\ Known \subseteq {pageNow.sub}
    BY <1>3, <2>1 DEF OneInv
  <2>3. Pending("start")' = {} /\ Pending("list")' = {}
    BY <1>6, <2>2 DEF Asking
  <2>4. Known \subseteq {r.id}
    <3>1. CASE r \in Pending("start")
      BY <2>2, <3>1 DEF OneInv
    <3>2. CASE r \in Pending("list")
      <4>1. r.step = "done"
        BY <1>1, <3>2 DEF Pending, RequestOK, StepsOf
      <4>2. QED
        BY <2>2, <3>2, <4>1 DEF OneInv
    <3>3. QED
      BY <1>1, <3>1, <3>2 DEF Asking
  <2>5. r.kind = "start" /\ r.step = "failed" => r.id \notin Known
    BY <1>1, <2>1 DEF RequestOK
  <2>6. Known \subseteq {pageNow.sub}
    BY <1>2, <1>6, <2>1, <2>2, <2>4, <2>5
  <2>7. QED
    BY <2>2, <2>3, <2>6 DEF OneInv
<1>9. HeardInv'
  <2>1. \A q \in Pending("start") : q.step = "registered" => q \in Pending("start")'
    BY <1>1, <1>4
  <2>2. Pending("start")' = {} \/ Pending("start") # {}
    BY <1>4
  <2>3. QED
    BY <1>3, <1>5, <2>1, <2>2, HeardFrame
<1>10. QED
  BY <1>7, <1>8, <1>9

(***************************************************************************)
(* The reads beside the streams.                                           *)
(***************************************************************************)

\* A start under way was under way before, or has just been made, which nobody
\* does beside a listing of its filter but in a hurry.
LEMMA StartsFrame ==
    ASSUME TypeOK, StreamInv, [Next]_vars, NEW s \in Pending("start")',
           \A q \in Pending("start") : q.filter # s.filter,
           "overlap" \notin lapses'
    PROVE  ~Listing(s.filter)
<1>1. page \in Pages /\ requests \in SUBSET Requests /\ page.sub \in {0} \cup Ids
  BY DEF TypeOK, Pages
<1>2. \A r \in requests, q \in requests' :
         requests' = Replace(r, q) /\ q.kind = r.kind /\ q.filter = r.filter => FALSE
  BY DEF Pending, Replace
<1>3. ~(Calls(requests') \subseteq Calls(requests))
  BY PendingFacts
<1>4. ASSUME NEW other, other.kind # "start", requests' \subseteq requests \cup {other}
      PROVE  FALSE
  BY <1>4 DEF Pending
<1>5. ASSUME NEW r \in requests, NEW id, NEW step
      PROVE  /\ requests' # Replace(r, [r EXCEPT !.id = id, !.step = step])
             /\ requests' # Replace(r, [r EXCEPT !.step = step])
  <2>1. /\ [r EXCEPT !.id = id, !.step = step].kind = r.kind
        /\ [r EXCEPT !.id = id, !.step = step].filter = r.filter
        /\ [r EXCEPT !.step = step].kind = r.kind
        /\ [r EXCEPT !.step = step].filter = r.filter
    BY <1>1 DEF Requests
  <2>2. QED
    BY <1>2, <2>1 DEF Replace
<1>6. ~Visit
  <2>1. ASSUME Visit PROVE FALSE
    <3>1. page' = Fresh(page.visit + 1) /\ page.visit + 1 \in 0..MaxVisits
      BY <1>1, <2>1, BoundsAssumption DEF Visit, Pages
    <3>2. page'.visit \in 0..MaxVisits
      BY <3>1, FreshFacts
    <3>3. ListCall(page'.visit).kind = "list"
      BY <3>2, ListFacts
    <3>4. QED
      BY <1>4, <2>1, <3>3 DEF Visit
  <2>2. QED
    BY <2>1
<1>7. ~Leave
  <2> DEFINE set == {r \in requests : r.kind # "list"}
  <2>1. set \in SUBSET Requests
    BY <1>1
  <2>2. Leave => requests' = Cancelled(set)
    BY DEF Leave
  <2> HIDE DEF set
  <2>3. Leave => Calls(requests') = Calls(set)
    BY <2>1, <2>2, CancelledFacts
  <2>4. QED
    BY <1>3, <2>3 DEF set, Calls
<1>8. ~Stop
  <2> DEFINE set == SetRunning(FALSE, requests)
             stop == IF hook.starts THEN StopCall(page.sub) ELSE {}
  <2>1. Stop => requests' = set \cup stop
    BY DEF Stop
  <2>2. requests \in SUBSET Requests /\ FALSE \in BOOLEAN /\ page.sub \in {0} \cup Ids
    BY <1>1 DEF Pages
  <2>3. Calls(set) = Calls(requests)
    BY <2>2, SetRunningFacts
  <2>4. \A q \in stop : q.kind = "stop"
    BY <2>2, StopFacts
  <2> HIDE DEF set, stop
  <2>5. Stop => s \in Calls(requests)
    BY <1>3, <2>1, <2>3, <2>4 DEF Pending, Calls
  <2>6. s \notin Calls(requests)
    BY DEF Pending, Calls
  <2>7. QED
    BY <2>5, <2>6
<1>9. /\ ~Clear /\ ~UNCHANGED vars /\ ~Reading
      /\ \A filter \in Filters : ~Deliver(filter)
      /\ \A topic \in Ids : ~Follow(topic)
  BY <1>3, ReadSteps DEF Clear, vars, Deliver, Follow
<1>10. ~Poll
  BY <1>1, <1>4, PollFacts DEF Poll
<1>11. ASSUME NEW r \in requests PROVE ~Register(r) /\ ~List(r)
  BY <1>5 DEF Register, List
<1>12. ASSUME NEW r \in requests PROVE ~Subscribe(r) /\ ~Refuse(r) /\ ~Down(r)
  BY <1>5 DEF Subscribe, Refuse, Down
<1>13. ASSUME NEW r \in requests PROVE ~Remove(r) /\ ~Unsubscribe(r)
  <2>1. ~(requests' \subseteq requests)
    BY <1>3 DEF Calls
  <2>2. QED
    BY <1>5, <2>1 DEF Remove, Unsubscribe
<1>14. ASSUME NEW r \in requests PROVE ~Answer(r)
  <2>1. ASSUME Answer(r) PROVE FALSE
    <3>1. PICK q \in Requests : requests' = Replace(r, q) /\ q.kind = "poll"
      BY <2>1, AnswerFacts
    <3>2. QED
      BY <1>4, <3>1 DEF Replace
  <2>2. QED
    BY <2>1
<1>15. ASSUME NEW r \in requests PROVE ~Started(r) /\ ~Adopt(r) /\ ~Drain(r)
  <2>1. ASSUME NEW pageNow \in Pages, Reply(r, pageNow),
               pageNow.here = page.here, pageNow.visit = page.visit
        PROVE  FALSE
    <3>1. Calls(requests') = Calls(requests) \ {r}
      BY <2>1, ReplyFacts
    <3>2. QED
      BY <1>3, <3>1
  <2>2. QED
    BY <2>1, StartedFacts, AdoptFacts, DrainFacts
<1>16. PICK filter \in Filters : Start(filter)
  <2>1. ASSUME NEW r \in requests
        PROVE  ~(\/ Register(r) \/ Subscribe(r) \/ Refuse(r) \/ Remove(r) \/ Unsubscribe(r)
                 \/ Answer(r) \/ List(r) \/ Down(r)
                 \/ Started(r) \/ Adopt(r) \/ Drain(r))
    BY <1>11, <1>12, <1>13, <1>14, <1>15
  <2>2. /\ \A filter \in Filters : ~Read(filter)
        /\ \A r \in reads : ~Collected(r) /\ ~LetGo(r)
    BY <1>9 DEF Reading
  <2>3. Next
    BY <1>9
  <2>4. QED
    BY <1>6, <1>7, <1>8, <1>9, <1>10, <2>1, <2>2, <2>3, Zenon DEF Next
<1>17. /\ StartCall(filter).filter = filter
       /\ \A q \in StopCall(page.sub) : q.kind = "stop"
  <2>1. StartCall(filter).filter = filter
    BY DEF StartCall, Request
  <2>2. \A q \in StopCall(page.sub) : q.kind = "stop"
    BY <1>1, StopFacts
  <2>3. QED
    BY <2>1, <2>2
<1>18. s = StartCall(filter)
  BY <1>16, <1>17 DEF Start, Pending
<1>19. QED
  BY <1>16, <1>17, <1>18 DEF Start, Hurried

\* Streams and starts come and go beside the listings as before.
LEMMA ReadKeeps ==
    ASSUME TypeOK, StreamInv, ReadInv, [Next]_vars, UNCHANGED reads
    PROVE  ReadInv'
<1>1. lapses \subseteq lapses' /\ hook' = hook
  BY LapsesGrow, StreamsFrame
<1>2. SUFFICES ASSUME "overlap" \notin lapses', NEW r \in reads, r.filter # SystemTree
               PROVE  /\ \A q \in Pending("start")' : q.filter # r.filter
                      /\ r.step = "collected" => \A id \in Known' : Key(id)' # r.filter
  BY DEF ReadInv
<1>3. /\ \A q \in Pending("start") : q.filter # r.filter
      /\ r.step = "collected" => \A id \in Known : Key(id) # r.filter
      /\ hook.shared
  BY <1>1, <1>2 DEF ReadInv, StreamInv
<1>4. ASSUME NEW q \in Pending("start")', q.filter = r.filter
      PROVE  FALSE
  <2>1. \A p \in Pending("start") : p.filter # q.filter
    BY <1>3, <1>4
  <2>2. ~Listing(q.filter)
    BY <1>2, <2>1, StartsFrame
  <2>3. QED
    BY <1>2, <1>4, <2>2 DEF Listing
<1>5. ASSUME r.step = "collected", NEW id \in Known'
      PROVE  Key(id)' # r.filter
  <2>1. Key(id)' = streams'[id].filter /\ id \in Ids
    BY <1>1, <1>3 DEF Key, KeyOf, Known
  <2>2. CASE ~\E q \in requests : Register(q)
    <3>1. id \in Known /\ streams'[id].filter = streams[id].filter
      BY <2>1, <2>2, StreamsFrame
    <3>2. QED
      BY <1>3, <1>5, <2>1, <3>1 DEF Key, KeyOf
  <2>3. ASSUME NEW q \in requests, Register(q)
        PROVE  streams'[id].filter # r.filter
    <3>1. PICK new \in Ids :
            streams' = [streams EXCEPT ![new] = [used |-> TRUE, known |-> TRUE,
                                                 filter |-> q.filter, count |-> 0]]
      BY <2>3 DEF Register
    <3>2. q \in Pending("start")
      BY <2>3 DEF Register, Pending
    <3>3. streams \in [Ids -> Streams]
      BY DEF TypeOK, Streams
    <3>4. CASE id = new
      BY <1>3, <3>1, <3>2, <3>3, <3>4
    <3>5. CASE id # new
      <4>1. streams'[id] = streams[id] /\ id \in Known
        BY <2>1, <3>1, <3>3, <3>5, <1>5 DEF Known
      <4>2. QED
        BY <1>3, <1>5, <4>1 DEF Key, KeyOf
    <3>6. QED
      BY <3>4, <3>5
  <2>4. QED
    BY <2>1, <2>2, <2>3
<1>6. QED
  BY <1>4, <1>5

\* A read takes a filter away that no stream watches, or that of the tree.
LEMMA ReadTurns ==
    ASSUME TypeOK, StreamInv, TurnInv, OneInv, HeardInv, ReadInv, [Next]_vars, Reading
    PROVE  TurnInv' /\ OneInv' /\ HeardInv' /\ ReadInv'
<1>1. UNCHANGED <<hook, page, requests, streams>> /\ lapses \subseteq lapses'
  BY ReadSteps, LapsesGrow
<1>2. /\ Known' = Known /\ Asking' = Asking /\ Stopping' = Stopping
      /\ Pending("start")' = Pending("start") /\ Pending("stop")' = Pending("stop")
      /\ Pending("list")' = Pending("list") /\ \A id : Key(id)' = Key(id)
  BY <1>1 DEF Known, Asking, Stopping, Pending, Key, KeyOf
<1>3. TurnInv' /\ OneInv'
  BY <1>1, <1>2 DEF TurnInv, OneInv
<1>4. ASSUME "overlap" \notin lapses' =>
                \A id \in Known : Key(id) \in Secure => Key(id) \in Secure'
      PROVE  HeardInv'
  BY <1>1, <1>2, <1>4 DEF HeardInv
<1>5. ASSUME \A r \in reads' : r \in reads \/ (r.filter # SystemTree =>
                /\ "overlap" \notin lapses' =>
                      \A q \in Pending("start") : q.filter # r.filter
                /\ r.step = "collected" => \A id \in Known : Key(id) # r.filter)
      PROVE  ReadInv'
  BY <1>1, <1>2, <1>5 DEF ReadInv
<1>6. ASSUME NEW filter \in Filters, Read(filter)
      PROVE  HeardInv' /\ ReadInv'
  <2> DEFINE r == [filter |-> filter, step |-> "collecting"]
  <2>1. /\ reads' = reads \cup {r} /\ Secure \subseteq Secure'
        /\ r.filter = filter /\ r.step # "collected"
        /\ "overlap" \notin lapses' =>
              filter = SystemTree \/ \A q \in Pending("start") : q.filter # filter
    BY <1>6 DEF Read, Secure, Lapse
  <2> HIDE DEF r
  <2>2. QED
    BY <1>4, <1>5, <2>1
<1>7. ASSUME NEW r \in reads, Collected(r)
      PROVE  HeardInv' /\ ReadInv'
  <2> DEFINE q == [r EXCEPT !.step = "collected"]
  <2>1. q.filter = r.filter /\ q.step = "collected"
    BY DEF TypeOK
  <2>2. /\ Secure' = Secure
        /\ reads' = IF r.filter # SystemTree /\ InUse(r.filter, 0) THEN reads \ {r}
                    ELSE (reads \ {r}) \cup {q}
    BY <1>7 DEF Collected, Secure
  <2> HIDE DEF q
  <2>3. 0 \notin Known
    BY BoundsAssumption DEF Known, Ids
  <2>4. "overlap" \notin lapses' /\ r.filter # SystemTree =>
           \A p \in Pending("start") : p.filter # r.filter
    BY <1>1 DEF ReadInv
  <2>5. ~InUse(r.filter, 0) => \A id \in Known : Key(id) # r.filter
    BY <2>3 DEF InUse
  <2>6. ReadInv'
    BY <1>5, <2>1, <2>2, <2>4, <2>5
  <2>7. QED
    BY <1>4, <2>2, <2>6
<1>8. ASSUME NEW r \in reads, LetGo(r)
      PROVE  HeardInv' /\ ReadInv'
  <2>1. reads' \subseteq reads /\ r.step = "collected" /\ Secure \ {r.filter} \subseteq Secure'
        /\ SystemTree \in Secure'
    BY <1>8 DEF LetGo, Secure
  <2>2. "overlap" \notin lapses' => r.filter = SystemTree \/ \A id \in Known : Key(id) # r.filter
    BY <1>1, <2>1 DEF ReadInv
  <2>3. QED
    BY <1>4, <1>5, <2>1, <2>2
<1>9. QED
  BY <1>3, <1>6, <1>7, <1>8 DEF Reading

(***************************************************************************)
(* The order of what is shown.                                             *)
(***************************************************************************)

\* A part of an ordered sequence at its end is ordered.
LEMMA OrderedShow ==
    ASSUME NEW messages \in Seq(Messages), Ordered(messages)
    PROVE  /\ Show(messages) \in Seq(Messages) /\ Ordered(Show(messages))
           /\ \A i \in DOMAIN Show(messages) :
                 \E j \in DOMAIN messages : Show(messages)[i] = messages[j]
<1> DEFINE shown == Show(messages)
<1>1. PICK dropped \in Nat :
        /\ dropped + Len(shown) = Len(messages)
        /\ \A i \in 1..Len(shown) : shown[i] = messages[i + dropped]
  BY ShowFacts
<1>2. /\ shown \in Seq(Messages) /\ DOMAIN shown = 1..Len(shown) /\ Len(shown) \in Nat
      /\ DOMAIN messages = 1..Len(messages) /\ Len(messages) \in Nat
  BY ShowFacts
<1> HIDE DEF shown
<1>3. \A i \in 1..Len(shown) : i + dropped \in 1..Len(messages)
  BY <1>1, <1>2
<1>4. Ordered(shown)
  <2>1. ASSUME NEW i \in 1..Len(shown), NEW j \in 1..Len(shown)
        PROVE  shown[i][1] = shown[j][1] /\ (i < j => shown[i][2] < shown[j][2])
    <3>1. /\ i + dropped \in DOMAIN messages /\ j + dropped \in DOMAIN messages
          /\ i < j => i + dropped < j + dropped
      BY <1>2, <1>3
    <3>2. shown[i] = messages[i + dropped] /\ shown[j] = messages[j + dropped]
      BY <1>1
    <3>3. QED
      BY <3>1, <3>2 DEF Ordered
  <2>2. QED
    BY <1>2, <2>1 DEF Ordered
<1>5. \A i \in DOMAIN shown : \E j \in DOMAIN messages : shown[i] = messages[j]
  BY <1>1, <1>2, <1>3
<1>6. QED
  BY <1>2, <1>4, <1>5 DEF shown

\* A batch that goes on where the screen ends, and what is made of the two.
Continues(shown, batch, sub) ==
    /\ Ordered(shown) /\ Ordered(batch)
    /\ \A i \in DOMAIN shown : shown[i][1] = sub
    /\ \A i \in DOMAIN batch : batch[i][1] = sub
    /\ \A i \in DOMAIN shown, j \in DOMAIN batch : shown[i][2] < batch[j][2]

Joined(messages, shown, batch) ==
    /\ messages \in Seq(Messages) /\ Ordered(messages)
    /\ \A i \in DOMAIN messages : \/ \E j \in DOMAIN shown : messages[i] = shown[j]
                                  \/ \E j \in DOMAIN batch : messages[i] = batch[j]

LEMMA OrderedJoin ==
    ASSUME NEW shown \in Seq(Messages), NEW batch \in Seq(Messages), NEW sub,
           Continues(shown, batch, sub)
    PROVE  Joined(shown \o batch, shown, batch)
<1> USE DEF Continues
<1> DEFINE all == shown \o batch
           m == Len(shown)
           n == Len(batch)
<1>1. /\ m \in Nat /\ n \in Nat /\ DOMAIN shown = 1..m /\ DOMAIN batch = 1..n
      /\ all \in Seq(Messages) /\ Len(all) = m + n /\ DOMAIN all = 1..(m + n)
  OBVIOUS
<1>2. /\ \A i \in 1..m : all[i] = shown[i]
      /\ \A i \in (m + 1)..(m + n) : all[i] = batch[i - m]
  BY <1>1
<1> HIDE DEF all, m, n
<1>3. ASSUME NEW i \in 1..(m + n)
      PROVE  \/ i \in 1..m /\ all[i] = shown[i]
             \/ i - m \in 1..n /\ i > m /\ all[i] = batch[i - m]
  <2>1. CASE i <= m
    BY <1>1, <1>2, <2>1
  <2>2. CASE i > m
    <3>1. i \in (m + 1)..(m + n) /\ i - m \in 1..n
      BY <1>1, <2>2
    <3>2. QED
      BY <1>2, <2>2, <3>1
  <2>3. QED
    BY <1>1, <2>1, <2>2
<1>4. Ordered(all)
  <2>1. ASSUME NEW i \in 1..(m + n), NEW j \in 1..(m + n)
        PROVE  all[i][1] = all[j][1]
    <3>1. ASSUME NEW k \in 1..(m + n)
          PROVE  all[k][1] = sub
      <4>1. CASE k \in 1..m /\ all[k] = shown[k]
        BY <1>1, <4>1
      <4>2. CASE k - m \in 1..n /\ all[k] = batch[k - m]
        BY <1>1, <4>2
      <4>3. QED
        BY <1>3, <4>1, <4>2
    <3>2. QED
      BY <3>1
  <2>2. ASSUME NEW i \in 1..(m + n), NEW j \in 1..(m + n), i < j
        PROVE  all[i][2] < all[j][2]
    <3>1. CASE j <= m
      <4>1. i \in 1..m /\ j \in 1..m
        BY <1>1, <2>2, <3>1
      <4>2. QED
        BY <1>1, <1>2, <2>2, <4>1 DEF Ordered
    <3>2. CASE i > m
      <4>1. /\ i \in (m + 1)..(m + n) /\ j \in (m + 1)..(m + n)
            /\ i - m \in 1..n /\ j - m \in 1..n /\ i - m < j - m
        BY <1>1, <2>2, <3>2
      <4>2. all[i] = batch[i - m] /\ all[j] = batch[j - m]
        BY <1>2, <4>1
      <4>3. QED
        BY <1>1, <4>1, <4>2 DEF Ordered
    <3>3. CASE i <= m /\ j > m
      <4>1. i \in 1..m /\ j \in (m + 1)..(m + n) /\ j - m \in 1..n
        BY <1>1, <2>2, <3>3
      <4>2. all[i] = shown[i] /\ all[j] = batch[j - m]
        BY <1>2, <4>1
      <4>3. shown[i][2] < batch[j - m][2]
        BY <1>1, <4>1
      <4>4. QED
        BY <4>2, <4>3
    <3>4. QED
      BY <1>1, <3>1, <3>2, <3>3
  <2>3. QED
    BY <1>1, <2>1, <2>2 DEF Ordered
<1>5. QED
  BY <1>1, <1>3, <1>4 DEF all, Joined

\* Nothing on screen and no poll that counts: nothing is out of order.
LEMMA OrderStarts ==
    ASSUME page'.shown = <<>> \/ (~page'.running /\ page'.shown = page.shown /\ OrderInv),
           \A r \in requests' : ~Counts(r), lapses \subseteq lapses'
    PROVE  OrderInv'
<1>1. \A r \in requests' : ~Counts(r)'
  BY DEF Counts
<1>2. DOMAIN <<>> = {} /\ Ordered(<<>>)
  BY DEF Ordered
<1>3. lapses' \cap {"slow", "hasty"} = {} => Ordered(page.shown)'
  BY <1>2 DEF OrderInv
<1>4. QED
  BY <1>1, <1>2, <1>3 DEF OrderInv

\* The page is left alone and every poll that counts was there before.
LEMMA OrderFrame ==
    ASSUME OrderInv, UNCHANGED page, lapses \subseteq lapses',
           \A r \in requests' : Counts(r) => r \in requests
    PROVE  OrderInv'
<1>1. lapses' \cap {"slow", "hasty"} = {} => lapses \cap {"slow", "hasty"} = {}
  OBVIOUS
<1>2. \A r : Counts(r)' = Counts(r)
  BY DEF Counts
<1>3. QED
  BY <1>1, <1>2 DEF OrderInv, Ordered

\* The answer to the poll that counts continues what is on screen.
LEMMA OrderDrain ==
    ASSUME TypeOK, StreamInv, OrderInv, NEW r \in requests, Drain(r)
    PROVE  OrderInv'
<1>1. PICK pageNow \in Pages :
        /\ Reply(r, pageNow) /\ pageNow.here = page.here /\ pageNow.visit = page.visit
        /\ r.kind = "poll" /\ pageNow.sub = page.sub
        /\ \/ pageNow = page /\ ~Counts(r)
           \/ /\ Counts(r) /\ r.step = "failed"
              /\ pageNow.shown = page.shown /\ pageNow.cursor = page.cursor
           \/ /\ Counts(r) /\ r.step = "done" /\ pageNow.running = page.running
              /\ pageNow.cursor = r.cursor
              /\ pageNow.shown = Show(page.shown \o r.batch)
  BY DrainFacts
<1>2. /\ page' = pageNow /\ lapses' = lapses
      /\ pageNow.running => requests' = requests \ {r}
      /\ ~pageNow.running => \A s \in requests' : ~Counts(s)
  BY <1>1, ReplyFacts
<1>3. \A s \in requests' : Counts(s) => s \in requests /\ s # r
  BY <1>1, <1>2 DEF Pages
<1>4. CASE pageNow = page
  BY <1>2, <1>3, <1>4, OrderFrame
<1>5. SUFFICES ASSUME Counts(r), lapses \cap {"slow", "hasty"} = {}
               PROVE  OrderInv'
  BY <1>1, <1>2, <1>4 DEF OrderInv
<1>6. \A s \in requests' : ~Counts(s)
  BY <1>3, <1>5 DEF OrderInv
<1>7. /\ page.running /\ Ordered(page.shown) /\ r.id = page.sub
      /\ \A i \in DOMAIN page.shown :
            /\ page.shown[i][1] = page.sub
            /\ page.cursor # AtEnd /\ page.shown[i][2] <= page.cursor
  BY <1>5 DEF StreamInv, OrderInv
<1>8. CASE r.step = "failed"
  <2>1. pageNow.shown = page.shown /\ pageNow.cursor = page.cursor
    BY <1>1, <1>5, <1>8
  <2>2. \A s \in requests' : ~Counts(s)'
    BY <1>6 DEF Counts
  <2>3. Ordered(page.shown)'
    BY <1>2, <1>7, <2>1
  <2>4. QED
    BY <1>1, <1>2, <1>7, <2>1, <2>2, <2>3 DEF OrderInv
<1>9. CASE r.step = "done"
  <2> DEFINE all == page.shown \o r.batch
             shown == Show(all)
  <2>1. /\ pageNow.cursor = r.cursor /\ pageNow.shown = shown /\ pageNow.sub = page.sub
    BY <1>1, <1>5, <1>9
  <2>2. /\ Ordered(r.batch) /\ r.cursor # AtEnd
        /\ page.cursor # AtEnd => page.cursor <= r.cursor
        /\ \A i \in DOMAIN r.batch :
              /\ r.batch[i][1] = page.sub /\ r.batch[i][2] <= r.cursor
              /\ page.cursor # AtEnd => page.cursor < r.batch[i][2]
    BY <1>5, <1>9 DEF OrderInv
  <2>3. /\ page.shown \in Seq(Messages) /\ r.batch \in Seq(Messages)
        /\ page.cursor \in Nat \cup {AtEnd} /\ r.cursor \in Nat
    BY <2>2 DEF TypeOK, Requests
  <2>4. /\ \A i \in DOMAIN page.shown : page.shown[i][2] \in Nat
        /\ \A i \in DOMAIN r.batch : r.batch[i][2] \in Nat
    BY <2>3 DEF Messages
  <2>5. \A i \in DOMAIN page.shown, j \in DOMAIN r.batch : page.shown[i][2] < r.batch[j][2]
    BY <1>7, <2>2, <2>3, <2>4
  <2>6. /\ all \in Seq(Messages) /\ Ordered(all)
        /\ \A i \in DOMAIN all : \/ \E j \in DOMAIN page.shown : all[i] = page.shown[j]
                                 \/ \E j \in DOMAIN r.batch : all[i] = r.batch[j]
    <3> DEFINE old == page.shown
               batch == r.batch
               sub == page.sub
    <3>1. /\ old \in Seq(Messages) /\ batch \in Seq(Messages) /\ Continues(old, batch, sub)
      BY <1>7, <2>2, <2>3, <2>5 DEF Continues
    <3> HIDE DEF old, batch, sub
    <3>2. Joined(old \o batch, old, batch)
      BY <3>1, OrderedJoin
    <3>3. QED
      BY <3>2 DEF old, batch, Joined
  <2> HIDE DEF all
  <2>7. /\ Ordered(shown)
        /\ \A i \in DOMAIN shown : \E j \in DOMAIN all : shown[i] = all[j]
    BY <2>6, OrderedShow
  <2> HIDE DEF shown
  <2>8. \A i \in DOMAIN page.shown : page.shown[i][2] <= r.cursor
    BY <1>7, <2>2, <2>3, <2>4
  <2>9. \A i \in DOMAIN all : all[i][1] = page.sub /\ all[i][2] <= r.cursor
    BY <1>7, <2>2, <2>6, <2>8
  <2>10. \A i \in DOMAIN shown : shown[i][1] = page.sub /\ shown[i][2] <= r.cursor
    BY <2>7, <2>9
  <2>11. \A s \in requests' : ~Counts(s)'
    BY <1>6 DEF Counts
  <2>12. Ordered(page.shown)'
    BY <1>2, <2>1, <2>7
  <2>13. QED
    BY <1>2, <2>1, <2>2, <2>10, <2>11, <2>12 DEF OrderInv
<1>10. r.step \in {"done", "failed"}
  BY DEF Drain
<1>11. QED
  BY <1>8, <1>9, <1>10

\* Every step keeps the order.
LEMMA OrderStep ==
    ASSUME TypeOK, StreamInv, TurnInv, OrderInv, [Next]_vars
    PROVE  OrderInv'
<1>1. lapses \subseteq lapses' /\ page \in Pages /\ requests \in SUBSET Requests
  BY LapsesGrow DEF TypeOK, Pages
<1>2. ~page.running \/ ~page.here => \A r \in requests : ~Counts(r)
  BY DEF StreamInv
<1>3. CASE Visit
  <2>1. page' = Fresh(page.visit + 1) /\ page.visit + 1 \in 0..MaxVisits /\ ~page.here
    BY <1>1, <1>3, BoundsAssumption DEF Visit, Pages
  <2>2. page'.shown = <<>> /\ page'.visit \in 0..MaxVisits
    BY <2>1, FreshFacts
  <2>3. ListCall(page'.visit).kind = "list"
    BY <2>2, ListFacts
  <2>4. \A r \in requests' : ~Counts(r)
    BY <1>2, <1>3, <2>1, <2>3 DEF Visit, Counts
  <2>5. QED
    BY <1>1, <2>2, <2>4, OrderStarts
<1>4. CASE Leave
  <2> DEFINE set == {r \in requests : r.kind # "list"}
  <2>1. page' = [Fresh(page.visit) EXCEPT !.here = FALSE] /\ requests' = Cancelled(set)
    BY <1>4 DEF Leave
  <2>2. page'.shown = <<>>
    BY <1>1, <2>1, FreshFacts DEF Pages
  <2>3. \A r \in requests' : ~Counts(r)
    BY <1>1, <2>1, CancelledFacts
  <2>4. QED
    BY <1>1, <2>2, <2>3, OrderStarts
<1>5. CASE Stop
  <2> DEFINE stop == IF hook.starts THEN StopCall(page.sub) ELSE {}
  <2>1. /\ page' = [page EXCEPT !.running = FALSE, !.sub = 0] /\ page.running
        /\ requests' = SetRunning(FALSE, requests) \cup stop
    BY <1>5 DEF Stop
  <2>2. ~page'.running /\ page'.shown = page.shown
    BY <1>1, <2>1 DEF Pages
  <2>3. \A r \in stop : r.kind = "stop"
    BY <1>1, StopFacts DEF Pages
  <2>4. \A r \in SetRunning(FALSE, requests) : ~Counts(r)
    BY <1>1, <2>1, SetRunningFacts
  <2> HIDE DEF stop
  <2>5. \A r \in requests' : ~Counts(r)
    BY <2>1, <2>3, <2>4 DEF Counts
  <2>6. QED
    BY <1>1, <2>2, <2>5, OrderStarts
<1>6. CASE Clear
  <2>1. page' = [page EXCEPT !.shown = <<>>] /\ requests' = requests /\ lapses' = lapses
    BY <1>6 DEF Clear
  <2>2. /\ page'.shown = <<>> /\ page'.sub = page.sub /\ page'.cursor = page.cursor
        /\ DOMAIN <<>> = {}
    BY <1>1, <2>1 DEF Pages
  <2>3. \A r : Counts(r)' = Counts(r)
    BY DEF Counts
  <2>4. Ordered(page.shown)'
    BY <2>2 DEF Ordered
  <2>5. QED
    BY <2>1, <2>2, <2>3, <2>4 DEF OrderInv, Ordered
<1>7. CASE Poll
  <2>1. /\ requests' = requests \cup {PollCall} /\ page' = page
        /\ "slow" \notin lapses' => \A r \in Pending("poll") : r.cancelled
    BY <1>7 DEF Poll, Lapse
  <2>2. SUFFICES ASSUME lapses' \cap {"slow", "hasty"} = {}
                 PROVE  OrderInv'
    BY DEF OrderInv
  <2>3. \A r \in requests : ~Counts(r)
    BY <2>1, <2>2 DEF Pending, Counts
  <2>4. \A r \in requests' : Counts(r)' => r = PollCall
    BY <2>1, <2>3 DEF Counts
  <2>5. PollCall.id = page.sub /\ PollCall.step = "sent" /\ PollCall.cursor = page.cursor
    BY <1>1, PollFacts
  <2>6. Ordered(page.shown)' = Ordered(page.shown)
    BY <2>1
  <2>7. QED
    BY <1>1, <2>1, <2>2, <2>4, <2>5, <2>6 DEF OrderInv
<1>8. ASSUME NEW filter \in Filters, Start(filter)
      PROVE  OrderInv'
  <2>1. /\ page' = [page EXCEPT !.sub = 0, !.cursor = 0, !.shown = <<>>] /\ ~page.running
        /\ requests' = (requests \cup StopCall(page.sub)) \cup {StartCall(filter)}
    BY <1>8 DEF Start, CanStart
  <2>2. page'.shown = <<>>
    BY <1>1, <2>1 DEF Pages
  <2>3. StartCall(filter).kind = "start" /\ \A r \in StopCall(page.sub) : r.kind = "stop"
    BY <1>1, StartFacts, StopFacts DEF Pages
  <2>4. \A r \in requests' : ~Counts(r)
    BY <1>2, <2>1, <2>3 DEF Counts
  <2>5. QED
    BY <1>1, <2>2, <2>4, OrderStarts
<1>9. ASSUME NEW topic \in Ids, Follow(topic)
      PROVE  OrderInv'
  <2>1. page'.shown = <<>> /\ requests' = requests /\ ~page.running
    BY <1>1, <1>9 DEF Follow, Pages
  <2>2. QED
    BY <1>1, <1>2, <2>1, OrderStarts
<1>10. ASSUME NEW filter \in Filters, Deliver(filter)
       PROVE  OrderInv'
  BY <1>1, <1>10, OrderFrame DEF Deliver
<1>11. ASSUME NEW r \in requests,
              \/ Register(r) \/ Subscribe(r) \/ Refuse(r) \/ Remove(r) \/ Unsubscribe(r)
              \/ List(r)
       PROVE  OrderInv'
  <2>1. r \in Requests /\ UNCHANGED page
    BY <1>1, <1>11 DEF Register, Subscribe, Refuse, Remove, Unsubscribe, List
  <2>2. ASSUME NEW id, NEW step
        PROVE  /\ [r EXCEPT !.id = id, !.step = step].kind = r.kind
               /\ [r EXCEPT !.step = step].kind = r.kind
    BY <2>1 DEF Requests
  <2>3. PICK s : /\ s.kind # "poll"
                 /\ requests' \subseteq requests \cup {s}
    <3>1. r.kind # "poll"
      BY <1>11 DEF Register, Subscribe, Refuse, Remove, Unsubscribe, List
    <3>2. \/ requests' \subseteq requests
          \/ \E id, step : \/ requests' = Replace(r, [r EXCEPT !.id = id, !.step = step])
                          \/ requests' = Replace(r, [r EXCEPT !.step = step])
      <4>1. CASE Register(r)
        BY <4>1 DEF Register
      <4>2. CASE List(r)
        BY <4>2 DEF List
      <4>3. QED
        BY <1>11, <4>1, <4>2 DEF Subscribe, Refuse, Remove, Unsubscribe
    <3>3. CASE requests' \subseteq requests
      BY <3>1, <3>3
    <3>4. ASSUME NEW s, s.kind = r.kind, requests' = Replace(r, s)
          PROVE  s.kind # "poll" /\ requests' \subseteq requests \cup {s}
      BY <3>1, <3>4 DEF Replace
    <3>5. QED
      BY <2>2, <3>2, <3>3, <3>4
  <2>4. QED
    BY <1>1, <2>1, <2>3, OrderFrame DEF Counts
<1>12. ASSUME NEW r \in requests, Answer(r)
       PROVE  OrderInv'
  <2>1. PICK s \in Requests :
          /\ requests' = Replace(r, s)
          /\ r.kind = "poll" /\ r.step = "sent"
          /\ s.kind = "poll" /\ s.id = r.id /\ s.cancelled = r.cancelled
          /\ s.step \in {"done", "failed"}
          /\ s.step = "done" =>
                /\ Ordered(s.batch)
                /\ s.cursor \in Nat /\ (r.cursor # AtEnd => r.cursor <= s.cursor)
                /\ \A i \in DOMAIN s.batch :
                      /\ s.batch[i][1] = r.id /\ s.batch[i][2] <= s.cursor
                      /\ r.cursor # AtEnd => r.cursor < s.batch[i][2]
    BY <1>12, AnswerFacts
  <2>2. UNCHANGED <<page, lapses>> /\ Counts(s) = Counts(r)
    BY <1>12, <2>1 DEF Answer, Counts
  <2>3. CASE ~Counts(r)
    BY <1>1, <2>1, <2>2, <2>3, OrderFrame DEF Replace
  <2>4. CASE Counts(r)
    <3>1. SUFFICES ASSUME lapses \cap {"slow", "hasty"} = {}
                   PROVE  OrderInv'
      BY <2>2 DEF OrderInv
    <3>2. r.id = page.sub /\ r.cursor = page.cursor
      BY <2>1, <2>4, <3>1 DEF OrderInv
    <3>3. \A q \in requests' : Counts(q)' => q = s
      BY <2>1, <2>4, <3>1 DEF OrderInv, Replace, Counts
    <3>4. Ordered(page.shown)' = Ordered(page.shown) /\ AtEnd \notin Nat
      BY <2>2, BoundsAssumption
    <3>5. Ordered(s.batch)' = Ordered(s.batch)
      OBVIOUS
    <3>6. s.step = "done" =>
             /\ Ordered(s.batch)'
             /\ s.cursor # AtEnd /\ (page.cursor # AtEnd => page.cursor <= s.cursor)
             /\ \A i \in DOMAIN s.batch :
                   /\ s.batch[i][1] = page.sub /\ s.batch[i][2] <= s.cursor
                   /\ page.cursor # AtEnd => page.cursor < s.batch[i][2]
      BY <2>1, <3>2, <3>4, <3>5
    <3>7. s.step # "sent" /\ s.id = page.sub
      BY <2>1, <3>2
    <3>8. QED
      BY <2>2, <3>1, <3>3, <3>4, <3>6, <3>7 DEF OrderInv
  <2>5. QED
    BY <2>3, <2>4
<1>13. ASSUME NEW r \in requests, Down(r)
       PROVE  OrderInv'
  <2> DEFINE s == [r EXCEPT !.step = "failed"]
  <2>1. /\ requests' = Replace(r, s) /\ UNCHANGED <<page, lapses>>
        /\ s.kind = r.kind /\ s.id = r.id /\ s.cancelled = r.cancelled /\ s.step = "failed"
    BY <1>1, <1>13 DEF Down, Requests
  <2> HIDE DEF s
  <2>2. Counts(s) = Counts(r)
    BY <2>1 DEF Counts
  <2>3. CASE ~Counts(r)
    BY <1>1, <2>1, <2>2, <2>3, OrderFrame DEF Replace
  <2>4. CASE Counts(r)
    <3>1. SUFFICES ASSUME lapses \cap {"slow", "hasty"} = {}
                   PROVE  OrderInv'
      BY <2>1 DEF OrderInv
    <3>2. \A q \in requests' : Counts(q)' => q = s
      BY <2>1, <2>4, <3>1 DEF OrderInv, Replace, Counts
    <3>3. s.id = page.sub /\ s.step = "failed"
      BY <2>1, <2>4, <3>1 DEF OrderInv
    <3>4. Ordered(page.shown)' = Ordered(page.shown)
      BY <2>1
    <3>5. QED
      BY <2>1, <3>1, <3>2, <3>3, <3>4 DEF OrderInv
  <2>5. QED
    BY <2>3, <2>4
<1>14. ASSUME NEW r \in requests, Started(r) \/ Adopt(r)
       PROVE  OrderInv'
  <2>1. r \in Asking
    BY <1>14 DEF Asking, Pending, Started, Adopt
  <2>2. PICK pageNow \in Pages :
          /\ Reply(r, pageNow) /\ pageNow.here = page.here /\ pageNow.visit = page.visit
          /\ pageNow.shown = page.shown
    <3>1. CASE Started(r)
      BY <3>1, StartedFacts
    <3>2. CASE Adopt(r)
      BY <3>2, AdoptFacts
    <3>3. QED
      BY <1>14, <3>1, <3>2
  <2>3. /\ page' = pageNow /\ lapses' = lapses
        /\ pageNow.running => requests' = requests \ {r}
        /\ ~pageNow.running => \A s \in requests' : ~Counts(s)
    BY <2>2, ReplyFacts
  <2>4. SUFFICES ASSUME lapses \cap {"slow", "hasty"} = {}
                 PROVE  OrderInv'
    BY <2>3 DEF OrderInv
  <2>5. ~page.running /\ page.shown = <<>>
    BY <2>1, <2>4 DEF TurnInv
  <2>6. \A s \in requests' : ~Counts(s)
    BY <1>2, <2>3, <2>5 DEF Pages
  <2>7. QED
    BY <1>1, <2>2, <2>3, <2>5, <2>6, OrderStarts
<1>15. CASE UNCHANGED vars
  BY <1>1, <1>15, OrderFrame DEF vars
<1>16. CASE Reading
  BY <1>1, <1>16, ReadSteps, OrderFrame
<1>17. QED
  BY <1>3, <1>4, <1>5, <1>6, <1>7, <1>8, <1>9, <1>10, <1>11, <1>12, <1>13, <1>14, <1>15,
     <1>16, OrderDrain DEF Next, Reading

(***************************************************************************)
(* The theorems.                                                           *)
(***************************************************************************)
LEMMA InitStep ==
    Init => IInv
<1>1. SUFFICES ASSUME Init
               PROVE  IInv
  OBVIOUS
<1>2. 0 \in 0..MaxVisits /\ 0 \in Nat
  BY BoundsAssumption
<1>3. /\ page \in Pages /\ ~page.here /\ ~page.running /\ page.sub = 0 /\ page.shown = <<>>
  BY <1>1, <1>2, FreshFacts DEF Init
<1>4. /\ hook \in Hooks /\ hook.starts \in BOOLEAN /\ requests = {} /\ lapses = {} /\ reads = {}
      /\ heard = IF hook.starts THEN {} ELSE Ids
      /\ streams = [id \in Ids |-> IF hook.starts THEN Unused
                                   ELSE [Unused EXCEPT !.used = TRUE, !.known = TRUE]]
  BY <1>1, HooksAssumption DEF Init
<1> DEFINE topic == [Unused EXCEPT !.used = TRUE, !.known = TRUE]
<1>5. topic \in Streams /\ topic.used /\ topic.known
  BY UnusedFacts DEF Streams
<1> HIDE DEF topic
<1>6. /\ \A id \in Ids : streams[id] = IF hook.starts THEN Unused ELSE topic
      /\ streams \in [Ids -> Streams]
  BY <1>4, <1>5, UnusedFacts DEF topic
<1>7. Known = (IF hook.starts THEN {} ELSE Ids) /\ Known \subseteq Used
  BY <1>4, <1>5, <1>6, UnusedFacts DEF Known, Used
<1>8. Pending("start") = {} /\ Pending("stop") = {} /\ Pending("list") = {} /\ Asking = {}
  BY <1>4 DEF Pending, Asking
<1>9. TypeOK
  BY <1>3, <1>4, <1>6 DEF TypeOK, Pages, Streams
<1>10. StreamInv
  BY <1>3, <1>4, <1>7 DEF StreamInv
<1>11. TurnInv
  BY <1>8 DEF TurnInv
<1>12. OneInv
  BY <1>3, <1>7, <1>8 DEF OneInv
<1>13. HeardInv
  <2>1. ~hook.starts => \A id \in Ids : Key(id) = id
    BY <1>4, HooksAssumption DEF Key, KeyOf
  <2>2. QED
    BY <1>4, <1>7, <1>8, <2>1 DEF HeardInv, Secure
<1>14. OrderInv
  <2>1. DOMAIN <<>> = {}
    OBVIOUS
  <2>2. QED
    BY <1>3, <1>4, <2>1 DEF OrderInv, Ordered
<1>15. ReadInv
  BY <1>4 DEF ReadInv
<1>16. QED
  BY <1>9, <1>10, <1>11, <1>12, <1>13, <1>14, <1>15 DEF IInv

LEMMA NextStep ==
    IInv /\ [Next]_vars => IInv'
<1>1. SUFFICES ASSUME IInv, [Next]_vars
               PROVE  IInv'
  OBVIOUS
<1>2. TypeOK /\ StreamInv /\ TurnInv /\ OneInv /\ HeardInv /\ ReadInv /\ OrderInv
  BY <1>1 DEF IInv
<1>3. TypeOK' /\ StreamInv' /\ OrderInv'
  BY <1>1, <1>2, StreamStep, OrderStep
<1>4. TurnInv' /\ OneInv' /\ HeardInv'
  <2>1. Quiet => TurnInv' /\ OneInv' /\ HeardInv'
    BY <1>1, <1>2, LapsesGrow, QuietKeeps
  <2>2. CASE UNCHANGED vars \/ Clear \/ Poll \/ \E filter \in Filters : Deliver(filter)
    BY <1>1, <1>2, <2>1, <2>2, QuietSteps
  <2>3. CASE \E r \in requests : Answer(r) \/ Down(r) \/ Drain(r)
    BY <1>1, <1>2, <2>1, <2>3, QuietSteps
  <2>4. QED
    BY <1>1, <1>2, <2>2, <2>3, PageTurns, DriverTurns, ReplyTurns, ReadTurns DEF Next, Reading
<1>5. ReadInv'
  BY <1>1, <1>2, ReadSteps, ReadKeeps, ReadTurns
<1>6. QED
  BY <1>3, <1>4, <1>5 DEF IInv

\* What the hooks, the workbenches and the driver keep between them.
THEOREM StreamInvariance ==
    Spec => []IInv
<1>1. QED
  BY InitStep, NextStep, PTL DEF Spec

\* Every value has its type.
THEOREM TypeCorrect ==
    Spec => []TypeOK
<1>1. IInv => TypeOK
  BY DEF IInv
<1>2. QED
  BY <1>1, StreamInvariance, PTL

\* What a page shows is of one stream, in order and without repetition, through
\* every stop, start, adoption and failure, until a poll is made before the
\* previous one is answered or a start before the previous answer.
THEOREM ShownInOrder ==
    Spec => []InOrder
<1>1. IInv => InOrder
  <2>1. SUFFICES ASSUME IInv, lapses \cap {"slow", "hasty"} = {},
                        NEW i \in 1..Len(page.shown) - 1
                 PROVE  /\ page.shown[i][1] = page.shown[i + 1][1]
                        /\ page.shown[i][2] < page.shown[i + 1][2]
    BY DEF InOrder
  <2>2. Ordered(page.shown) /\ page.shown \in Seq(Messages)
    BY <2>1 DEF IInv, OrderInv, TypeOK
  <2>3. i \in DOMAIN page.shown /\ i + 1 \in DOMAIN page.shown /\ i < i + 1
    BY <2>2
  <2>4. QED
    BY <2>2, <2>3 DEF Ordered
<1>2. QED
  BY <1>1, StreamInvariance, PTL

\* One stream per page: apart from those that are being stopped the driver holds
\* at most one, over any number of visits, until somebody hurries.
THEOREM OneStreamPerPage ==
    Spec => []OneStream
<1>1. IInv => OneStream
  <2> DEFINE live == {id \in Known : ~\E r \in Pending("stop") : r.id = id}
  <2>1. SUFFICES ASSUME IInv, hook.starts, lapses \cap {"hasty", "overlap"} = {}
                 PROVE  Cardinality(live) <= 1
    BY DEF OneStream
  <2>2. \A a, b \in live : a = b
    BY <2>1 DEF IInv, OneInv
  <2> HIDE DEF live
  <2>3. CASE live = {}
    BY <2>3, FS_EmptySet
  <2>4. CASE live # {}
    <3>1. PICK a : live = {a}
      BY <2>2, <2>4
    <3>2. QED
      BY <3>1, FS_Singleton
  <2>5. QED
    BY <2>3, <2>4
<1>2. QED
  BY <1>1, StreamInvariance, PTL

\* What a stream watches stays subscribed on the broker once its start has been
\* answered, beside the stops of other streams and the listings of other boards,
\* as long as none of them was under way together with a start on its filter.
\* A stream on the broker's own tree is outside it: readSys takes it away.
THEOREM StreamsStayHeard ==
    Spec => []StillHeard
<1>1. IInv => StillHeard
  BY DEF IInv, HeardInv, StillHeard, Secure
<1>2. QED
  BY <1>1, StreamInvariance, PTL
===============================================================================
