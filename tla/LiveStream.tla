------------------------------ MODULE LiveStream ------------------------------
(***************************************************************************)
(* A page that follows messages as they arrive: the hooks useMqttStream,   *)
(* useNatsStream, useActiveMQStream and useMessageTail, the workbenches    *)
(* around them, and the driver of the connection they talk to.             *)
(*                                                                         *)
(* A stream lives in the driver, which buffers what the broker sends; the  *)
(* page drains it by sequence number on a timer.  Every call crosses the   *)
(* bridge: it is made, carried out and answered at three different times,  *)
(* and others run in between.  The stream outlives the page, which adopts  *)
(* one on its next visit.  A tail has no stream: it reads a topic from     *)
(* where its cursor is, one request at a time.                             *)
(*                                                                         *)
(* The connection stays open: closing it drops every stream.               *)
(*                                                                         *)
(* The subscriptions of an MQTT session belong to the session: two streams *)
(* on one filter are one subscription on the broker, and so are a stream   *)
(* and a board that reads what the broker has retained.  Those reads       *)
(* subscribe, collect and unsubscribe, a listing of topics when no stream  *)
(* wants the filter, the read of the broker's own tree in any case.        *)
(***************************************************************************)
EXTENDS Naturals, Sequences, FiniteSets

CONSTANTS
    Hooks,          \* the hooks, as records of their control
    Filters,        \* filters, subjects or topics
    SystemTree,     \* the filter of the broker's own tree, $SYS/#
    Offered,        \* for each hook, those its user picks
    MaxStreams,     \* streams ever started
    MaxVisits,      \* visits to the page
    MaxMessages,    \* for each hook, the messages a stream receives
    MaxPolls,       \* polls in the air
    MaxLapses,      \* kinds of lapses in one behaviour
    Buffer,         \* messages the driver holds for a stream
    Keep,           \* messages the page holds
    AtEnd           \* the cursor of a tail that has not read yet

ASSUME BoundsAssumption ==
    /\ {MaxStreams, MaxVisits, MaxPolls, MaxLapses} \subseteq Nat
    /\ {Buffer, Keep} \subseteq Nat \ {0}
    /\ AtEnd \notin Nat
    /\ Filters # {}
    /\ SystemTree \notin Nat

\* A hook that starts nothing has no session to share.
ASSUME HooksAssumption ==
    \A h \in Hooks :
        /\ h \in [starts : BOOLEAN, single : BOOLEAN, shared : BOOLEAN]
        /\ h.shared => h.starts

VARIABLES
    hook,       \* the hook of this page
    page,       \* its state and its refs
    requests,   \* calls that are under way
    streams,    \* what the driver holds of each stream
    heard,      \* what the broker has subscribed
    reads,      \* reads of the session's other boards
    lapses      \* what the user or a slow bridge has done so far

vars == <<hook, page, requests, streams, heard, reads, lapses>>

Hook(starts, single, shared) ==
    [starts |-> starts, single |-> single, shared |-> shared]

useMqttStream == Hook(TRUE, FALSE, TRUE)
useNatsStream == Hook(TRUE, FALSE, FALSE)
useActiveMQStream == Hook(TRUE, FALSE, FALSE)
useMessageTail == Hook(FALSE, TRUE, FALSE)

-----------------------------------------------------------------------------
Ids == 1..MaxStreams
Unused == [used |-> FALSE, known |-> FALSE, filter |-> CHOOSE f \in Filters : TRUE,
           count |-> 0]
Known == {id \in Ids : streams[id].known}

\* What the broker subscribes for a stream: its filter, or the stream itself.
KeyOf(id, filter) == IF hook.shared THEN filter ELSE id
Key(id) == KeyOf(id, streams[id].filter)

Fresh(visit) == [visit |-> visit, here |-> TRUE, running |-> FALSE, sub |-> 0,
                 cursor |-> 0, shown |-> <<>>]

Request(kind, visit, id, filter, cursor) ==
    [kind |-> kind, visit |-> visit, id |-> id, step |-> "sent", filter |-> filter,
     cursor |-> cursor, batch |-> <<>>, cancelled |-> FALSE]

PollCall == Request("poll", page.visit, page.sub, Unused.filter, page.cursor)
ListCall(visit) == Request("list", visit, 0, Unused.filter, 0)
StartCall(filter) == Request("start", page.visit, 0, filter, 0)
StopCall(id) == IF id = 0 THEN {} ELSE {Request("stop", 0, id, Unused.filter, 0)}

Pending(kind) == {r \in requests : r.kind = kind}
Replace(r, s) == (requests \ {r}) \cup {s}

\* The cleanup of the effect that polls: the replies of polls that are under
\* way are refused from now on.  A request whose reply is refused is left out,
\* but for the one of a tail, which holds the next one back until it ends.
Cancelled_Not(set) == set

Cancelled(set) ==
    LET others == {r \in set : r.kind # "poll"}
        polls == set \ others
    IN  IF hook.single
        THEN others \cup {[r EXCEPT !.cancelled = TRUE] : r \in polls}
        ELSE others

SetRunning(value, set) ==
    IF page.running /\ ~value THEN Cancelled(set) ELSE set

\* What the user, or a slow bridge, has done.
Lapse(kind, happened) ==
    /\ lapses' = IF happened THEN lapses \cup {kind} ELSE lapses
    /\ Cardinality(lapses') <= MaxLapses

-----------------------------------------------------------------------------
Init ==
    /\ hook \in Hooks
    /\ page = [Fresh(0) EXCEPT !.here = FALSE]
    /\ requests = {}
    /\ streams = [id \in Ids |-> IF hook.starts THEN Unused
                                 ELSE [Unused EXCEPT !.used = TRUE, !.known = TRUE]]
    /\ heard = IF hook.starts THEN {} ELSE Ids
    /\ reads = {}
    /\ lapses = {}

\* The page appears and asks the driver for a stream to adopt.
Visit ==
    /\ ~page.here
    /\ page.visit < MaxVisits
    /\ page' = Fresh(page.visit + 1)
    /\ requests' = IF hook.starts
                   THEN requests \cup {ListCall(page'.visit)}
                   ELSE requests
    /\ UNCHANGED <<hook, streams, heard, reads, lapses>>

\* The refs go with the page, and the answer to the listing is refused.
Leave ==
    /\ page.here
    /\ page' = [Fresh(page.visit) EXCEPT !.here = FALSE]
    /\ requests' = Cancelled({r \in requests : r.kind # "list"})
    /\ Lapse("hasty", Pending("start") # {})
    /\ UNCHANGED <<hook, streams, heard, reads>>

CanStart ==
    /\ page.here /\ ~page.running
    /\ hook.starts
    /\ Cardinality(Pending("start")) + Cardinality({id \in Ids : streams[id].used}) < MaxStreams

Listing(filter) == filter # SystemTree /\ \E r \in reads : r.filter = filter

Hurried(filter) ==
    LET hasty == Pending("start") \cup Pending("list") # {}
        overlap == Pending("stop") # {} \/ page.sub \in Known \/ Listing(filter)
    IN  /\ lapses' = lapses \cup (IF hasty THEN {"hasty"} ELSE {})
                            \cup (IF overlap THEN {"overlap"} ELSE {})
        /\ Cardinality(lapses') <= MaxLapses

\* start: the stream the page still refers to is stopped, and neither call
\* waits for the other.  The button is there while nothing runs, which is so
\* until the answer arrives.
Start(filter) ==
    /\ CanStart
    /\ filter \in Offered[hook]
    /\ page' = [page EXCEPT !.sub = 0, !.cursor = 0, !.shown = <<>>]
    /\ requests' = requests \cup StopCall(page.sub) \cup {StartCall(filter)}
    /\ Hurried(filter)
    /\ UNCHANGED <<hook, streams, heard, reads>>

Stop_Forgets ==
    /\ page.here /\ page.running
    /\ page' = [page EXCEPT !.running = FALSE, !.sub = 0]
    /\ requests' = SetRunning(FALSE, requests)
    /\ Lapse("overlap", Pending("start") # {})
    /\ UNCHANGED <<hook, streams, heard, reads>>

Stop ==
    /\ page.here /\ page.running
    /\ page' = [page EXCEPT !.running = FALSE, !.sub = 0]
    /\ requests' = SetRunning(FALSE, requests)
                     \cup (IF hook.starts THEN StopCall(page.sub) ELSE {})
    /\ Lapse("overlap", Pending("start") # {})
    /\ UNCHANGED <<hook, streams, heard, reads>>

\* The tail is switched on for the topic that is picked.
Follow(topic) ==
    /\ page.here /\ ~page.running
    /\ ~hook.starts
    /\ page' = [page EXCEPT !.running = TRUE, !.sub = topic, !.cursor = AtEnd,
                            !.shown = <<>>]
    /\ UNCHANGED <<hook, requests, streams, heard, reads, lapses>>

Clear ==
    /\ page.here
    /\ hook.starts
    /\ page' = [page EXCEPT !.shown = <<>>]
    /\ UNCHANGED <<hook, requests, streams, heard, reads, lapses>>

\* A tick of the timer.
Poll ==
    /\ page.here /\ page.running
    /\ page.sub # 0
    /\ Cardinality(Pending("poll")) < MaxPolls
    /\ hook.single => \A r \in Pending("poll") : r.visit # page.visit
    /\ requests' = requests \cup {PollCall}
    /\ Lapse("slow", \E r \in Pending("poll") : ~r.cancelled)
    /\ UNCHANGED <<hook, page, streams, heard, reads>>

(***************************************************************************)
(* The driver.                                                             *)
(***************************************************************************)

\* StartLiveSubscription of MQTT takes the stream in, then subscribes; the
\* others do it in the opposite order, so that nobody sees the difference.
Register(r) ==
    /\ r.kind = "start" /\ r.step = "sent"
    /\ \E id \in Ids :
          /\ ~streams[id].used
          /\ \A s \in Ids : s < id => streams[s].used
          /\ streams' = [streams EXCEPT ![id] = [used |-> TRUE, known |-> TRUE,
                                                 filter |-> r.filter, count |-> 0]]
          /\ requests' = Replace(r, [r EXCEPT !.id = id,
                                     !.step = IF hook.shared THEN "registered" ELSE "done"])
          /\ heard' = IF hook.shared THEN heard ELSE heard \cup {id}
    /\ UNCHANGED <<hook, page, reads, lapses>>

Subscribe(r) ==
    /\ r.kind = "start" /\ r.step = "registered"
    /\ heard' = heard \cup {KeyOf(r.id, r.filter)}
    /\ requests' = Replace(r, [r EXCEPT !.step = "done"])
    /\ UNCHANGED <<hook, page, streams, reads, lapses>>

\* The broker refuses: the stream is taken out again.
Refuse(r) ==
    /\ r.kind = "start" /\ r.step \in {"sent", "registered"}
    /\ streams' = IF r.step = "sent" THEN streams
                  ELSE [streams EXCEPT ![r.id].known = FALSE]
    /\ requests' = Replace(r, [r EXCEPT !.step = "failed"])
    /\ UNCHANGED <<hook, page, heard, reads, lapses>>

InUse(key, id) == \E other \in Known \ {id} : Key(other) = key

\* readSys, or collectRetainedFrom of one topic or of all, on behalf of another
\* board: it subscribes, and collects for a while.
Read(filter) ==
    /\ hook.shared
    /\ \A r \in reads : r.filter # filter
    /\ reads' = reads \cup {[filter |-> filter, step |-> "collecting"]}
    /\ heard' = heard \cup {filter}
    /\ Lapse("overlap", filter # SystemTree /\ \E r \in Pending("start") : r.filter = filter)
    /\ UNCHANGED <<hook, page, requests, streams>>

\* A filter that a stream wants is left alone, but for that of the tree.
Collected_Unchecked(r) ==
    /\ r.step = "collecting"
    /\ reads' = (reads \ {r}) \cup {[r EXCEPT !.step = "collected"]}
    /\ UNCHANGED <<hook, page, requests, streams, heard, lapses>>

Collected(r) ==
    /\ r.step = "collecting"
    /\ reads' = IF r.filter # SystemTree /\ InUse(r.filter, 0) THEN reads \ {r}
                ELSE (reads \ {r}) \cup {[r EXCEPT !.step = "collected"]}
    /\ UNCHANGED <<hook, page, requests, streams, heard, lapses>>

\* Nobody hears of a failure of this one either.
LetGo(r) ==
    /\ r.step = "collected"
    /\ heard' \in {heard, heard \ {r.filter}}
    /\ reads' = reads \ {r}
    /\ UNCHANGED <<hook, page, requests, streams, lapses>>

\* StopLiveSubscription takes the stream out and finds the filters no other
\* stream wants; they are unsubscribed afterwards.
Remove(r) ==
    /\ r.kind = "stop" /\ r.step = "sent"
    /\ streams' = [streams EXCEPT ![r.id].known = FALSE]
    /\ requests' = IF r.id \in Known /\ ~InUse(Key(r.id), r.id)
                   THEN Replace(r, [r EXCEPT !.step = "removed"])
                   ELSE requests \ {r}
    /\ UNCHANGED <<hook, page, heard, reads, lapses>>

\* Nobody waits for the end of a stop, or hears of its failure.
Unsubscribe(r) ==
    /\ r.kind = "stop" /\ r.step = "removed"
    /\ heard' \in {heard, heard \ {Key(r.id)}}
    /\ requests' = requests \ {r}
    /\ UNCHANGED <<hook, page, streams, reads, lapses>>

\* A message is published.
Deliver(filter) ==
    LET receivers == {id \in Known : streams[id].filter = filter /\ Key(id) \in heard}
    IN  /\ receivers # {}
        /\ \A id \in receivers : streams[id].count < MaxMessages[hook]
        /\ streams' = [id \in Ids |-> IF id \in receivers
                                      THEN [streams[id] EXCEPT !.count = @ + 1]
                                      ELSE streams[id]]
        /\ UNCHANGED <<hook, page, requests, heard, reads, lapses>>

\* poll: what arrived after the cursor and is still in the ring, oldest first.
Answer(r) ==
    LET stream == streams[r.id]
        oldest == IF stream.count > Buffer THEN stream.count - Buffer ELSE 0
        after == IF r.cursor = AtEnd THEN stream.count
                 ELSE IF r.cursor < oldest THEN oldest ELSE r.cursor
        last == IF after + Keep < stream.count THEN after + Keep ELSE stream.count
        size == IF after < last THEN last - after ELSE 0
    IN  /\ r.kind = "poll" /\ r.step = "sent"
        /\ requests' = Replace(r,
              IF r.id \in Known
              THEN [r EXCEPT !.step = "done", !.cursor = IF size = 0 THEN after ELSE last,
                             !.batch = [i \in 1..size |-> <<r.id, after + i>>]]
              ELSE [r EXCEPT !.step = "failed"])
        /\ UNCHANGED <<hook, page, streams, heard, reads, lapses>>

\* The list has no failure of its own: the driver reads it from memory, and the
\* service refuses it only when the connection is not open, when the page has
\* no stream either.  A refused list leaves the page as an empty one does.
List(r) ==
    /\ r.kind = "list" /\ r.step = "sent"
    /\ \E id \in IF Known = {} THEN {0} ELSE Known :
          requests' = Replace(r, [r EXCEPT !.id = id, !.step = "done"])
    /\ UNCHANGED <<hook, page, streams, heard, reads, lapses>>

\* The broker cannot be reached.  The driver answers for a stream by itself.
Down(r) ==
    /\ r.kind = "poll" /\ r.step = "sent"
    /\ ~hook.starts
    /\ requests' = Replace(r, [r EXCEPT !.step = "failed"])
    /\ UNCHANGED <<hook, page, streams, heard, reads, lapses>>

(***************************************************************************)
(* The answers.                                                            *)
(***************************************************************************)
Reply(r, pageNow) ==
    /\ page' = pageNow
    /\ requests' = SetRunning(pageNow.running, requests \ {r})
    /\ UNCHANGED <<hook, streams, heard, reads, lapses>>

Started(r) ==
    /\ r.kind = "start" /\ r.step \in {"done", "failed"}
    /\ Reply(r, IF ~page.here \/ r.visit # page.visit THEN page
                ELSE IF r.step = "failed" THEN [page EXCEPT !.running = FALSE]
                ELSE [page EXCEPT !.sub = r.id, !.running = TRUE])

\* A page that has gone meanwhile refuses: Leave has left the listing out.
Adopt(r) ==
    /\ r.kind = "list" /\ r.step = "done"
    /\ Reply(r, IF r.id = 0 THEN page
                ELSE [page EXCEPT !.sub = r.id, !.cursor = 0, !.running = TRUE])

\* The page keeps the last of what it has shown.  A stream that cannot be read
\* ends; a tail tries again.
Show(messages) ==
    IF Len(messages) > Keep
    THEN SubSeq(messages, Len(messages) - Keep + 1, Len(messages)) ELSE messages

Drain(r) ==
    /\ r.kind = "poll" /\ r.step \in {"done", "failed"}
    /\ Reply(r, IF r.cancelled THEN page
                ELSE IF r.step = "failed" THEN [page EXCEPT !.running = ~hook.starts]
                ELSE [page EXCEPT !.cursor = r.cursor, !.shown = Show(@ \o r.batch)])

Next ==
    \/ Visit \/ Leave \/ Stop \/ Clear \/ Poll
    \/ \E filter \in Filters : Start(filter) \/ Deliver(filter) \/ Read(filter)
    \/ \E r \in reads : Collected(r) \/ LetGo(r)
    \/ \E topic \in Ids : Follow(topic)
    \/ \E r \in requests :
          \/ Register(r) \/ Subscribe(r) \/ Refuse(r) \/ Remove(r) \/ Unsubscribe(r)
          \/ Answer(r) \/ List(r) \/ Down(r)
          \/ Started(r) \/ Adopt(r) \/ Drain(r)

Spec == Init /\ [][Next]_vars

-----------------------------------------------------------------------------
\* What a page shows comes from one stream, in the order of its sequence
\* numbers and without repetition, through every stop, start, adoption and
\* failure: replies to polls of a run that has ended are refused.  A tail never
\* has two requests in the air.  The streams have no such guard: the property
\* ends with the first poll that is made before the previous one is answered,
\* or with a second start before the answer to the first.
InOrder ==
    lapses \cap {"slow", "hasty"} = {} =>
        \A i \in 1..Len(page.shown) - 1 :
            /\ page.shown[i][1] = page.shown[i + 1][1]
            /\ page.shown[i][2] < page.shown[i + 1][2]

\* One stream per page: apart from streams that are being stopped the driver
\* holds at most one, over any number of visits, so that the next visit adopts
\* the one that was left and no second one runs beside it, as long as nobody
\* presses start, or leaves, while a start or the listing is unanswered, and no
\* start and stop, or start and listing of topics, were under way together.
OneStream ==
    hook.starts /\ lapses \cap {"hasty", "overlap"} = {} =>
        Cardinality({id \in Known : ~\E r \in Pending("stop") : r.id = id}) <= 1

\* What a stream watches is subscribed on the broker once its start has been
\* answered, however many streams on the same filter were started and stopped
\* and however often a board listed the topics of that filter, as long as no
\* start was under way together with a stop or with such a listing.  A stream
\* on the broker's own tree has no such promise: readSys unsubscribes $SYS/#
\* whoever watches it.
StillHeard ==
    "overlap" \notin lapses =>
        \A id \in Known :
            (\A r \in Pending("start") : r.id # id) /\ Key(id) # SystemTree
                => Key(id) \in heard

-----------------------------------------------------------------------------
(***************************************************************************)
(* The inductive invariant.                                                *)
(***************************************************************************)
Messages == Ids \X Nat

StepsOf(kind) ==
    CASE kind = "start" -> {"sent", "registered", "done", "failed"}
      [] kind = "stop" -> {"sent", "removed"}
      [] kind = "poll" -> {"sent", "done", "failed"}
      [] kind = "list" -> {"sent", "done"}

Requests ==
    [kind : {"start", "stop", "poll", "list"}, visit : 0..MaxVisits,
     id : {0} \cup Ids, step : {"sent", "registered", "removed", "done", "failed"},
     filter : Filters, cursor : Nat \cup {AtEnd}, batch : Seq(Messages),
     cancelled : BOOLEAN]

TypeOK ==
    /\ hook \in Hooks
    /\ page \in [visit : 0..MaxVisits, here : BOOLEAN, running : BOOLEAN,
                 sub : {0} \cup Ids, cursor : Nat \cup {AtEnd}, shown : Seq(Messages)]
    /\ requests \subseteq Requests
    /\ streams \in [Ids -> [used : BOOLEAN, known : BOOLEAN, filter : Filters, count : Nat]]
    /\ reads \subseteq [filter : Filters, step : {"collecting", "collected"}]
    /\ lapses \subseteq {"slow", "hasty", "overlap"}

Used == {id \in Ids : streams[id].used}

\* What a call under way refers to: no id before the driver has given one, then
\* a stream that has been started, as the call says.
RequestOK(r) ==
    /\ r.step \in StepsOf(r.kind)
    /\ r.kind # "poll" => hook.starts
    /\ r.kind = "start" =>
          /\ r.step = "sent" => r.id = 0
          /\ r.step = "registered" => hook.shared
          /\ r.step \in {"registered", "done"} =>
                r.id \in Used /\ r.filter = streams[r.id].filter
          /\ r.step = "failed" => r.id = 0 \/ r.id \in Used \ Known
    /\ r.kind = "stop" => r.id \in IF r.step = "sent" THEN Used ELSE Used \ Known
    /\ r.kind = "poll" => r.id \in Used
    /\ r.kind = "list" => r.id \in {0} \cup Used

\* A poll whose answer will be looked at.
Counts(r) == r.kind = "poll" /\ ~r.cancelled

StreamInv ==
    /\ Known \subseteq Used
    /\ page.sub \in {0} \cup Used
    /\ ~hook.starts => Known = Ids /\ heard = Ids
    /\ reads # {} => hook.shared
    /\ \A r \in requests : RequestOK(r)
    /\ \A r \in requests : Counts(r) =>
          page.here /\ page.running /\ r.visit = page.visit

\* A page that is not hurried waits for one answer at a time, with nothing on
\* screen, before it runs.
Asking == Pending("start") \cup Pending("list")
TurnInv ==
    "hasty" \notin lapses =>
        /\ \A r \in Asking :
              page.here /\ ~page.running /\ page.shown = <<>> /\ r.visit = page.visit
        /\ \A r, q \in Asking : r = q

\* Then the driver has at most one stream, and the page, a call or nobody has it.
Stopping == {r.id : r \in Pending("stop")}
OneInv ==
    hook.starts /\ lapses \cap {"hasty", "overlap"} = {} =>
        /\ \A a, b \in Known : a = b
        /\ \A r \in Pending("start") : Known \subseteq {r.id}
        /\ \A r \in Pending("list") : r.step = "done" => Known \subseteq {r.id}
        /\ page.here /\ Asking = {} => Known \subseteq {page.sub} \cup Stopping

\* A stop that runs beside a start is about a stream that is gone already, and
\* what a stop is about to unsubscribe nobody watches.
Secure == heard \cup {SystemTree}
HeardInv ==
    "overlap" \notin lapses =>
        /\ Pending("start") # {} =>
              \A r \in Pending("stop") : r.step = "sent" /\ r.id \notin Known
        /\ \A r \in Pending("stop") : r.step = "removed" =>
              \A id \in Known : Key(id) # Key(r.id)
        /\ \A id \in Known :
              \/ Key(id) \in Secure
              \/ \E r \in Pending("start") : r.id = id /\ r.step = "registered"

\* No listing runs beside a start on its filter, and what one is about to
\* unsubscribe nobody watches.
ReadInv ==
    "overlap" \notin lapses =>
        \A r \in reads : r.filter # SystemTree =>
            /\ \A q \in Pending("start") : q.filter # r.filter
            /\ r.step = "collected" => \A id \in Known : Key(id) # r.filter

\* Messages of one stream, in the order of their numbers.
Ordered(messages) ==
    /\ \A i, j \in DOMAIN messages : messages[i][1] = messages[j][1]
    /\ \A i, j \in DOMAIN messages : i < j => messages[i][2] < messages[j][2]

\* The one poll whose answer counts continues what the page shows.
OrderInv ==
    lapses \cap {"slow", "hasty"} = {} =>
        /\ Ordered(page.shown)
        /\ page.running => \A i \in DOMAIN page.shown :
              /\ page.shown[i][1] = page.sub
              /\ page.cursor # AtEnd /\ page.shown[i][2] <= page.cursor
        /\ \A r, q \in requests : Counts(r) /\ Counts(q) => r = q
        /\ \A r \in requests : Counts(r) =>
              /\ r.id = page.sub
              /\ r.step = "sent" => r.cursor = page.cursor
              /\ r.step = "done" =>
                    /\ Ordered(r.batch)
                    /\ r.cursor # AtEnd
                    /\ page.cursor # AtEnd => page.cursor <= r.cursor
                    /\ \A i \in DOMAIN r.batch :
                          /\ r.batch[i][1] = page.sub /\ r.batch[i][2] <= r.cursor
                          /\ page.cursor # AtEnd => page.cursor < r.batch[i][2]

IInv == TypeOK /\ StreamInv /\ TurnInv /\ OneInv /\ HeardInv /\ ReadInv /\ OrderInv
=============================================================================
