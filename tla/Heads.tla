-------------------------------- MODULE Heads --------------------------------
(***************************************************************************)
(* How live indexing learns of new blocks (datasources/api/heads.ts) and   *)
(* what it makes of their failures (runLive in runtime/realtime.ts).       *)
(*                                                                         *)
(* Four fibers: the source follows a websocket subscription, reconnects    *)
(* after a backoff and falls back to polling; the watchdog reports stalls; *)
(* the consumer processes the newest head; the client retries requests.    *)
(* Around them the chain grows, the server answers and pushes, the socket  *)
(* breaks and time passes.                                                 *)
(*                                                                         *)
(* A block is the number of blocks that replaced it as the chain tip: the  *)
(* tip is 0, and hashes differ where numbers do.  Sleeps are countdowns    *)
(* that end on time; requests and passes take any time.                    *)
(***************************************************************************)
EXTENDS FailureBudget, ApiRequest, Sequences

CONSTANTS
    Transport,   \* live.transport: "websocket" or "polling"
    RetryLimit,  \* WEBSOCKET_RETRY_LIMIT
    Interval,    \* live.pollingInterval, in ticks
    Stall,       \* STALL_MS, in ticks
    MaxBehind,   \* bound: a block in flight is less than this behind the tip
    MaxFrames    \* bound: notifications the reader buffers

ASSUME HeadsAssumption ==
    /\ Transport \in {"websocket", "polling"}
    /\ RetryLimit \in Nat \ {0}
    /\ Interval \in Nat \ {0}
    /\ Stall \in Nat \ {0}
    /\ MaxBehind \in Nat \ {0}
    /\ MaxFrames \in Nat

Blocks == 0..MaxBehind

ASSUME MissingAssumption ==
    Missing \notin Blocks \cup Request(Blocks) \cup Response(Blocks)

VARIABLES
    socket,      \* the connection: "none", "open", "subscribed" at the server
    frames,      \* notifications received and not yet read
    source,      \* where the source's fiber stands
    failures,    \* consecutive websocket failures
    sleep,       \* what is left of the source's sleep
    pollBudget,  \* the failure budget of pollHeads
    head,        \* HeadState: the last emitted head
    watch,       \* what is left of the watchdog's sleep
    buffer,      \* the head in the sliding buffer
    taken,       \* the last head the consumer took
    busy,        \* the consumer processes it
    liveBudget,  \* the failure budget of runLive
    live         \* following heads, or why no longer

\* History variables.
VARIABLES
    recovered,   \* this connection's poll was answered
    unannounced, \* a block was mined after that poll was read and before the
                 \* server handled the subscription: nothing announces it
    deaf,        \* connections that ended since the last notification
    reports,     \* stalls reported since the last emitted head
    sinceIndexed, \* ticks since a pass succeeded, and since a poll was
    sinceAnswered \* answered, counted up to MinSpan

sourceVars == <<socket, frames, source, failures, sleep, pollBudget>>
emitVars == <<head, buffer, reports>>
consumerVars == <<taken, busy, liveBudget, sinceIndexed>>
connectionHistory == <<recovered, unannounced, deaf>>

headsVars == <<requestVars, sourceVars, emitVars, consumerVars,
               connectionHistory, watch, sinceAnswered, live>>

Sources == {"connect", "recover", "read", "backoff", "poll", "pause"}

\* Every variable but the source's sleep holds a value of its kind.
Typed ==
    /\ request \in Request(Blocks) \cup {Missing}
    /\ attempts \in Nat
    /\ socket \in {"none", "open", "subscribed"}
    /\ frames \in Seq(Blocks)
    /\ source \in Sources
    /\ failures \in 0..RetryLimit
    /\ pollBudget \in Budget
    /\ head \in [block: Blocks \cup {Missing}, age: 0..(Stall + 1), reported: BOOLEAN]
    /\ watch \in 0..Stall
    /\ buffer \in Blocks \cup {Missing}
    /\ taken \in Blocks \cup {Missing}
    /\ busy \in BOOLEAN
    /\ liveBudget \in Budget
    /\ live \in {"following", "complete", "spent", "fatal", "headsFailed"}
    /\ recovered \in BOOLEAN
    /\ unannounced \in BOOLEAN
    /\ deaf \in 0..RetryLimit
    /\ reports \in Nat
    /\ sinceIndexed \in 0..MinSpan
    /\ sinceAnswered \in 0..MinSpan

\* Every variable holds a value of its kind.
HeadsTypeOK == Typed /\ sleep \in Nat

HeadsInit ==
    /\ RequestInit
    /\ socket = "none"
    /\ frames = <<>>
    /\ source = IF Transport = "websocket" THEN "connect" ELSE "poll"
    /\ failures = 0
    /\ sleep = 0
    /\ pollBudget = FullBudget
    /\ head = [block |-> Missing, age |-> 0, reported |-> FALSE]
    /\ watch = 0
    /\ buffer = Missing
    /\ taken = Missing
    /\ busy = FALSE
    /\ liveBudget = FullBudget
    /\ live = "following"
    /\ recovered = FALSE
    /\ unannounced = FALSE
    /\ deaf = 0
    /\ reports = 0
    /\ sinceIndexed = 0
    /\ sinceAnswered = 0

-----------------------------------------------------------------------------
(* The source. *)

\* Mutant of Emit: a full buffer drops the new head, not the waiting one.
EmitDropping(block) ==
    IF block = head.block THEN UNCHANGED emitVars
    ELSE /\ head' = [block |-> block, age |-> 0, reported |-> FALSE]
         /\ buffer' = IF buffer = Missing THEN block ELSE buffer
         /\ reports' = 0

\* emit, into the consumer's sliding buffer: a head other than the last one
\* ends a stall and replaces a head that waits.
Emit(block) ==
    IF block = head.block THEN UNCHANGED emitVars
    ELSE /\ head' = [block |-> block, age |-> 0, reported |-> FALSE]
         /\ buffer' = block
         /\ reports' = 0

\* subscribeHeads: the socket opens and the subscription is written; the poll
\* is sent without waiting for the server to confirm it.
Connect ==
    /\ source = "connect"
    /\ socket' = "open"
    /\ frames' = <<>>
    /\ source' = "recover"
    /\ UNCHANGED <<requestVars, failures, sleep, pollBudget, emitVars,
                   connectionHistory, sinceAnswered, live>>

\* Mutant of ConnectionFailed: one more connection is tried.
ConnectionFailedOnceMore ==
    /\ failures' = failures + 1
    /\ deaf' = Older(deaf, RetryLimit)
    /\ socket' = "none"
    /\ frames' = <<>>
    /\ IF failures' <= RetryLimit
       THEN source' = "backoff" /\ sleep' = 2 ^ failures'
       ELSE source' = "poll" /\ sleep' = 0
    /\ recovered' = FALSE
    /\ unannounced' = FALSE
    /\ UNCHANGED <<requestVars, pollBudget, emitVars, sinceAnswered, live>>

\* Mutant of ConnectionFailed: after the last connection the source waits.
ConnectionFailedForGood ==
    /\ failures' = failures + 1
    /\ deaf' = Older(deaf, RetryLimit)
    /\ socket' = "none"
    /\ frames' = <<>>
    /\ IF failures' < RetryLimit
       THEN source' = "backoff" /\ sleep' = 2 ^ failures'
       ELSE source' = "wait" /\ sleep' = 0
    /\ recovered' = FALSE
    /\ unannounced' = FALSE
    /\ UNCHANGED <<requestVars, pollBudget, emitVars, sinceAnswered, live>>

\* The loop of webSocketHeads, once a connection ended.
ConnectionFailed ==
    /\ failures' = failures + 1
    /\ deaf' = Older(deaf, RetryLimit)
    /\ socket' = "none"
    /\ frames' = <<>>
    /\ IF failures' < RetryLimit
       THEN source' = "backoff" /\ sleep' = 2 ^ failures'
       ELSE source' = "poll" /\ sleep' = 0
    /\ recovered' = FALSE
    /\ unannounced' = FALSE
    /\ UNCHANGED <<requestVars, pollBudget, emitVars, sinceAnswered, live>>

ConnectFails == source = "connect" /\ ConnectionFailed

\* The frames read before the connection broke are handled first.
ConnectionEnds ==
    /\ source = "read"
    /\ frames = <<>>
    /\ socket = "none"
    /\ ConnectionFailed

\* A poll is due: the first of a connection, or one of pollHeads.
SendPoll ==
    /\ source \in {"recover", "poll"}
    /\ Send
    /\ UNCHANGED <<sourceVars, emitVars, connectionHistory, sinceAnswered, live>>

\* Mutant of Recover: what was received meanwhile is not kept.
RecoverUnbuffered ==
    /\ source = "recover"
    /\ \/ Answered /\ Emit(request.response.payload) /\ recovered' = TRUE
       \/ Failed /\ UNCHANGED <<emitVars, recovered>>
    /\ source' = "read"
    /\ frames' = <<>>
    /\ Return
    /\ sinceAnswered' = IF Answered THEN 0 ELSE sinceAnswered
    /\ UNCHANGED <<socket, failures, sleep, pollBudget, unannounced,
                   deaf, live>>

\* The poll of a connection: its failure is only logged.
Recover ==
    /\ source = "recover"
    /\ \/ Answered /\ Emit(request.response.payload) /\ recovered' = TRUE
       \/ Failed /\ UNCHANGED <<emitVars, recovered>>
    /\ source' = "read"
    /\ Return
    /\ sinceAnswered' = IF Answered THEN 0 ELSE sinceAnswered
    /\ UNCHANGED <<socket, frames, failures, sleep, pollBudget, unannounced,
                   deaf, live>>

\* Mutant of ReadFrame: a notification does not end a run of failures.
ReadFrameCountingOn ==
    /\ source = "read"
    /\ frames # <<>>
    /\ deaf' = 0
    /\ Emit(Head(frames))
    /\ frames' = Tail(frames)
    /\ UNCHANGED <<requestVars, socket, source, failures, sleep, pollBudget,
                   recovered, unannounced, sinceAnswered, live>>

\* onNotification
ReadFrame ==
    /\ source = "read"
    /\ frames # <<>>
    /\ failures' = 0
    /\ deaf' = 0
    /\ Emit(Head(frames))
    /\ frames' = Tail(frames)
    /\ UNCHANGED <<requestVars, socket, source, sleep, pollBudget, recovered,
                   unannounced, sinceAnswered, live>>

\* pollHeads: a success clears its budget.
PollAnswered ==
    /\ source = "poll"
    /\ Answered
    /\ Emit(request.response.payload)
    /\ pollBudget' = ResetBudget(pollBudget)
    /\ sinceAnswered' = 0
    /\ source' = "pause"
    /\ sleep' = Interval
    /\ Return
    /\ UNCHANGED <<socket, frames, failures, connectionHistory, live>>

\* pollHeads: a failure that spends the budget ends the stream and `live`.
PollFailed ==
    /\ source = "poll"
    /\ Failed
    /\ pollBudget' = RecordFailure(pollBudget)
    /\ IF Spent(pollBudget')
       THEN live' = "headsFailed" /\ UNCHANGED <<source, sleep>>
       ELSE source' = "pause" /\ sleep' = Interval /\ UNCHANGED live
    /\ Return
    /\ UNCHANGED <<socket, frames, failures, emitVars, connectionHistory,
                   sinceAnswered>>

\* A sleep ends: the next connection, or the next poll.
WakeUp ==
    /\ source \in {"backoff", "pause"}
    /\ sleep = 0
    /\ source' = IF source = "backoff" THEN "connect" ELSE "poll"
    /\ UNCHANGED <<requestVars, socket, frames, failures, sleep, pollBudget,
                   emitVars, connectionHistory, sinceAnswered, live>>

\* The client's own loops.
RetryRequest ==
    /\ RetryStep
    /\ UNCHANGED <<sourceVars, emitVars, connectionHistory, sinceAnswered, live>>

-----------------------------------------------------------------------------
(* The watchdog. *)

\* Mutant of WatchStalls: it always sleeps a whole stall.
WatchEveryStall ==
    /\ watch = 0
    /\ watch' = Stall
    /\ IF head.age >= Stall /\ ~head.reported
       THEN head' = [head EXCEPT !.reported = TRUE] /\ reports' = reports + 1
       ELSE UNCHANGED <<head, reports>>
    /\ UNCHANGED buffer

\* watchStalls
WatchStalls ==
    /\ watch = 0
    /\ IF head.age < Stall
       THEN watch' = Stall - head.age /\ UNCHANGED <<head, reports>>
       ELSE /\ watch' = Stall
            /\ IF head.reported THEN UNCHANGED <<head, reports>>
               ELSE head' = [head EXCEPT !.reported = TRUE] /\ reports' = reports + 1
    /\ UNCHANGED buffer

-----------------------------------------------------------------------------
(* The consumer: the loop of runLive. *)

TakeHead ==
    /\ ~busy
    /\ buffer # Missing
    /\ taken' = buffer
    /\ buffer' = Missing
    /\ busy' = TRUE
    /\ UNCHANGED <<liveBudget, sinceIndexed, live, head, reports>>

\* handleHead, a pass that indexed the head or skipped it: `live` goes on, or
\* ends because every contract reached its end block.
PassSucceeds ==
    /\ busy
    /\ liveBudget' = ResetBudget(liveBudget)
    /\ sinceIndexed' = 0
    /\ live' \in {"following", "complete"}
    /\ busy' = FALSE
    /\ UNCHANGED <<taken, emitVars>>

\* Mutant of PassFails: any failure past MaxFailures is fatal.
PassFailsBySpanless ==
    /\ busy
    /\ liveBudget' = RecordFailure(liveBudget)
    /\ live' = IF liveBudget'.failures >= MaxFailures THEN "spent" ELSE "following"
    /\ busy' = FALSE
    /\ UNCHANGED <<taken, sinceIndexed, emitVars>>

\* A transient failure: retried with the next head within the budget.
PassFails ==
    /\ busy
    /\ liveBudget' = RecordFailure(liveBudget)
    /\ live' = IF Spent(liveBudget') THEN "spent" ELSE "following"
    /\ busy' = FALSE
    /\ UNCHANGED <<taken, sinceIndexed, emitVars>>

\* A failure that is not transient ends `live` at once.
PassFailsForGood ==
    /\ busy
    /\ liveBudget' = RecordFailure(liveBudget)
    /\ live' = "fatal"
    /\ busy' = FALSE
    /\ UNCHANGED <<taken, sinceIndexed, emitVars>>

-----------------------------------------------------------------------------
(* Around the indexer. *)

\* The server handles the subscription.
Subscribe ==
    /\ socket = "open"
    /\ socket' = "subscribed"
    /\ UNCHANGED <<requestVars, frames, source, failures, sleep, pollBudget,
                   emitVars, connectionHistory, sinceAnswered, live>>

\* The connection breaks, or delivers what is not a notification: the
\* frames before that point are still read.
SocketBreaks ==
    /\ socket # "none"
    /\ socket' = "none"
    /\ \E n \in 0..Len(frames) : frames' = SubSeq(frames, 1, n)
    /\ UNCHANGED <<requestVars, source, failures, sleep, pollBudget, emitVars,
                   connectionHistory, sinceAnswered, live>>

\* GET /extended/v2/blocks?limit=1 answers with the chain tip, or fails.
ServerResponds ==
    /\ Respond(0)
    /\ UNCHANGED <<sourceVars, emitVars, connectionHistory, sinceAnswered, live>>

\* Blocks on their way to the indexer.
InFlightBlocks ==
    {frames[i] : i \in DOMAIN frames} \cup
    (IF Answered THEN {request.response.payload} ELSE {})

\* The oldest number stands for every older block.
BehindAtMost(block) ==
    IF block = Missing THEN Missing ELSE Older(block, MaxBehind)

\* The poll of this connection was read: a later block is not in its answer.
PollRead == source = "read" \/ (source = "recover" /\ Answered)

\* The chain tip is replaced, by a block on top of it or a fork; the server
\* pushes it to a subscriber.
NewTip ==
    /\ \A block \in InFlightBlocks : block + 1 < MaxBehind
    /\ Len(frames) < MaxFrames
    /\ frames' = LET older == [i \in DOMAIN frames |-> frames[i] + 1]
                 IN  IF socket = "subscribed" THEN Append(older, 0) ELSE older
    /\ request' = IF Answered
                  THEN [request EXCEPT !.response.payload = @ + 1] ELSE request
    /\ head' = [head EXCEPT !.block = BehindAtMost(@)]
    /\ buffer' = BehindAtMost(buffer)
    /\ taken' = BehindAtMost(taken)
    /\ unannounced' = (unannounced \/ (socket = "open" /\ PollRead))
    /\ UNCHANGED <<attempts, socket, source, failures, sleep, pollBudget, watch,
                   busy, liveBudget, live, recovered, deaf, reports,
                   sinceIndexed, sinceAnswered>>

\* Time passes; no sleep is overslept.
Tick ==
    /\ watch > 0
    /\ source \in {"backoff", "pause"} => sleep > 0
    /\ sleep' = IF sleep > 0 THEN sleep - 1 ELSE 0
    /\ watch' = watch - 1
    /\ head' = [head EXCEPT !.age = Older(@, Stall + 1)]
    /\ pollBudget' = Aged(pollBudget)
    /\ liveBudget' = Aged(liveBudget)
    /\ sinceIndexed' = Older(sinceIndexed, MinSpan)
    /\ sinceAnswered' = Older(sinceAnswered, MinSpan)
    /\ UNCHANGED <<requestVars, socket, frames, source, failures, buffer, taken,
                   busy, live, connectionHistory, reports>>

-----------------------------------------------------------------------------

SourceStep ==
    /\ \/ Connect
       \/ ConnectFails
       \/ ConnectionEnds
       \/ SendPoll
       \/ Recover
       \/ ReadFrame
       \/ PollAnswered
       \/ PollFailed
       \/ WakeUp
       \/ RetryRequest
    /\ UNCHANGED <<consumerVars, watch>>

WatchStep ==
    /\ WatchStalls
    /\ UNCHANGED <<requestVars, sourceVars, consumerVars, connectionHistory,
                   sinceAnswered, live>>

ConsumerStep ==
    /\ \/ TakeHead
       \/ PassSucceeds
       \/ PassFails
       \/ PassFailsForGood
    /\ UNCHANGED <<requestVars, sourceVars, connectionHistory, watch, sinceAnswered>>

ServerStep ==
    /\ Subscribe \/ ServerResponds
    /\ UNCHANGED <<consumerVars, watch>>

BreakStep == SocketBreaks /\ UNCHANGED <<consumerVars, watch>>

\* Once `live` ended its scope is closed: nothing runs any more.
HeadsNext ==
    /\ live = "following"
    /\ \/ SourceStep
       \/ WatchStep
       \/ ConsumerStep
       \/ ServerStep
       \/ BreakStep
       \/ NewTip
       \/ Tick

HeadsSpec == HeadsInit /\ [][HeadsNext]_headsVars

\* Fibers are scheduled, the server answers, time passes and blocks come.
\* Nothing is asked of the socket, which may break for ever, nor of what the
\* server answers, nor of how a pass ends.
FairHeadsSpec ==
    /\ HeadsSpec
    /\ WF_headsVars(live = "following" /\ SourceStep)
    /\ WF_headsVars(live = "following" /\ WatchStep)
    /\ WF_headsVars(live = "following" /\ ConsumerStep)
    /\ WF_headsVars(live = "following" /\ ServerStep)
    /\ WF_headsVars(live = "following" /\ NewTip)
    /\ WF_headsVars(live = "following" /\ Tick)

-----------------------------------------------------------------------------
(* Properties. *)

\* heads.ts:193-205: subscribing before the poll leaves no gap. Once the poll
\* was answered and every frame read, the last emitted head is the chain tip,
\* unless the tip moved between the poll and the server's handling of the
\* subscription, whose confirmation nobody awaits.
NoHeadMissed ==
    source = "read" /\ recovered /\ socket = "subscribed" /\ frames = <<>> =>
        head.block = 0 \/ unannounced

\* The sliding buffer loses only heads that a newer one replaced: with nothing
\* waiting, the last head taken is the last one emitted.
NewestIsTaken == buffer = Missing => taken = head.block

\* README.md:177: the source gives the websocket up only after RetryLimit
\* connections in a row ended without a notification.
FallbackIsEarned ==
    Transport = "websocket" /\ source \in {"poll", "pause"} => deaf = RetryLimit

\* README.md:180: live ends on transient failures only after MinSpan without
\* one success, of the passes or of the polls.
EndsOnlyAfterSpan ==
    /\ live = "spent" => sinceIndexed >= MinSpan
    /\ live = "headsFailed" => sinceAnswered >= MinSpan

\* heads.ts:272: every stall is reported, once, when the head is Stall old,
\* however heads and the watchdog's sleeps fall.
StallsReportedOnce ==
    /\ reports <= 1
    /\ head.age > Stall => reports = 1

\* Following never goes deaf: as long as blocks come, heads are processed,
\* through broken connections, backoffs and the fallback, until live ends.
NeverDeaf == []<><<TakeHead>>_headsVars \/ <>(live # "following")

-----------------------------------------------------------------------------
(* Why heads are neither missed nor given up: the inductive invariant behind *)
(* the safety properties.                                                    *)

\* The attempts made so far, in full rounds of the limiter and what is begun.
AttemptsCounted ==
    IF request = Missing THEN attempts = 0
    ELSE attempts <= request.retries * (LimitRetries + 1) + request.limited
                     + (IF request.response = Missing THEN 0 ELSE 1)

\* What waits in the buffer is the last head; what does not was taken.
BufferIsNewest == IF buffer = Missing THEN taken = head.block ELSE buffer = head.block

\* A streak is no older than the last success, and only pollHeads counts polls.
StreaksFollowSuccess ==
    /\ liveBudget.failures > 0 => liveBudget.age <= sinceIndexed
    /\ pollBudget.failures > 0 =>
         pollBudget.age <= sinceAnswered /\ source \in {"poll", "pause"}

\* The watchdog wakes up no later than a stall that it has to report.
WatchdogWakesUp ==
    IF head.reported THEN reports = 1 ELSE reports = 0 /\ watch + head.age <= Stall

\* Failures in a row are connections without a notification.
FailuresAreDeaf ==
    /\ failures = deaf
    /\ source \in {"connect", "recover", "read", "backoff"} => failures < RetryLimit
    /\ Transport = "websocket" /\ source \in {"poll", "pause"} => failures = RetryLimit

\* Only polls are requested.  Once the poll of a connection was read, the newest
\* block is the last notification of a subscription, or nothing announces it;
\* without unread notifications, it is what the poll answered, or the last head.
NewestIsKnown ==
    /\ request # Missing => source \in {"recover", "poll"}
    /\ recovered => source = "read"
    /\ socket = "open" => frames = <<>>
    /\ socket = "subscribed" /\ frames # <<>> => frames[Len(frames)] = 0
    /\ socket # "none" /\ frames = <<>> /\ ~unannounced =>
         /\ source = "recover" /\ Answered => request.response.payload = 0
         /\ source = "read" /\ recovered => head.block = 0

HeadsInv ==
    /\ Typed
    /\ AttemptsCounted
    /\ BufferIsNewest
    /\ StreaksFollowSuccess
    /\ EndsOnlyAfterSpan
    /\ WatchdogWakesUp
    /\ FailuresAreDeaf
    /\ NewestIsKnown

=============================================================================
