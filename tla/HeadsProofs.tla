----------------------------- MODULE HeadsProofs -----------------------------
(***************************************************************************)
(* The safety properties of Heads for any transport, limits and timings:   *)
(* HeadsInv is inductive.  One lemma per action.                           *)
(***************************************************************************)
EXTENDS Heads, SequenceTheorems, TLAPS

\* A poll that succeeded was answered with a block.
LEMMA PollAnswer ==
    ASSUME Typed, Answered
    PROVE  request.response.payload \in Blocks
    BY DEF Typed, Answered, Arrived, Request, Response, AnyFault

\* A recorded failure and a reset leave a budget.
LEMMA BudgetKept ==
    ASSUME NEW budget \in Budget
    PROVE  RecordFailure(budget) \in Budget /\ ResetBudget(budget) \in Budget
<1>1. Older(budget.failures, MaxFailures) \in 0..MaxFailures
  BY BudgetAssumption DEF Budget, Older
<1> QED
  BY <1>1, BudgetAssumption DEF Budget, RecordFailure, ResetBudget, FullBudget

\* Emitting a block makes it the last head, which waits or was taken.
LEMMA EmitKeeps ==
    ASSUME Typed, BufferIsNewest, WatchdogWakesUp, NEW block \in Blocks,
           Emit(block), UNCHANGED <<taken, watch>>
    PROVE  /\ head' \in [block: Blocks \cup {Missing}, age: 0..(Stall + 1), reported: BOOLEAN]
           /\ buffer' \in Blocks \cup {Missing}
           /\ reports' \in Nat
           /\ head'.block = block
           /\ BufferIsNewest'
           /\ WatchdogWakesUp'
<1>1. CASE block = head.block
  BY <1>1 DEF Emit, emitVars, Typed, BufferIsNewest, WatchdogWakesUp
<1>2. CASE block # head.block
  <2>1. /\ head' = [block |-> block, age |-> 0, reported |-> FALSE]
        /\ buffer' = block
        /\ reports' = 0
    BY <1>2 DEF Emit
  <2>2. 0 \in 0..(Stall + 1) /\ block # Missing /\ watch <= Stall
    BY HeadsAssumption, MissingAssumption DEF Typed
  <2>3. watch' + head'.age <= Stall
    BY <2>1, <2>2 DEF Typed
  <2> QED
    BY <2>1, <2>2, <2>3 DEF BufferIsNewest, WatchdogWakesUp
<1> QED
  BY <1>1, <1>2

\* The socket opened.
LEMMA ConnectInv ==
    ASSUME HeadsInv, live = "following", Connect, UNCHANGED <<consumerVars, watch>>
    PROVE  HeadsInv'
<1> USE DEF HeadsInv, Connect, requestVars, emitVars, connectionHistory,
            consumerVars
<1>1. Typed'
  BY DEF Typed, Sources
<1>2. AttemptsCounted'
  BY DEF AttemptsCounted
<1>3. BufferIsNewest'
  BY DEF BufferIsNewest
<1>4. StreaksFollowSuccess' /\ EndsOnlyAfterSpan'
  BY DEF StreaksFollowSuccess, EndsOnlyAfterSpan
<1>5. WatchdogWakesUp'
  BY DEF WatchdogWakesUp
<1>6. FailuresAreDeaf'
  BY DEF FailuresAreDeaf
<1>7. NewestIsKnown'
  BY DEF NewestIsKnown, Answered, Arrived
<1> QED BY <1>1, <1>2, <1>3, <1>4, <1>5, <1>6, <1>7

\* A connection ended.
LEMMA ConnectionFailedInv ==
    ASSUME HeadsInv, live = "following", ConnectionFailed, source \in {"connect", "read"},
           UNCHANGED <<consumerVars, watch>>
    PROVE  HeadsInv'
<1> USE HeadsAssumption DEF HeadsInv, ConnectionFailed, requestVars, emitVars,
                            connectionHistory, consumerVars
<1>1. Typed'
  <2>1. failures' \in 0..RetryLimit /\ deaf' \in 0..RetryLimit
    BY DEF Typed, Older, FailuresAreDeaf
  <2>2. source' \in Sources /\ frames' \in Seq(Blocks)
    BY DEF Sources
  <2> QED
    BY <2>1, <2>2 DEF Typed
<1>2. AttemptsCounted'
  BY DEF AttemptsCounted
<1>3. BufferIsNewest'
  BY DEF BufferIsNewest
<1>4. StreaksFollowSuccess' /\ EndsOnlyAfterSpan'
  BY DEF StreaksFollowSuccess, EndsOnlyAfterSpan
<1>5. WatchdogWakesUp'
  BY DEF WatchdogWakesUp
<1>6. FailuresAreDeaf'
  BY DEF FailuresAreDeaf, Typed, Older
<1>7. NewestIsKnown'
  BY DEF NewestIsKnown
<1> QED BY <1>1, <1>2, <1>3, <1>4, <1>5, <1>6, <1>7

\* A poll is sent.
LEMMA SendPollInv ==
    ASSUME HeadsInv, live = "following", SendPoll,
           UNCHANGED <<consumerVars, watch>>
    PROVE  HeadsInv'
<1> USE DEF HeadsInv, SendPoll, Send, requestVars, sourceVars, emitVars,
            consumerVars, connectionHistory
<1>1. Typed'
  BY RequestAssumption DEF Typed, NewRequest, Request
<1>2. AttemptsCounted'
  BY RequestAssumption DEF AttemptsCounted, NewRequest, Typed
<1>3. BufferIsNewest'
  BY DEF BufferIsNewest
<1>4. StreaksFollowSuccess' /\ EndsOnlyAfterSpan'
  BY DEF StreaksFollowSuccess, EndsOnlyAfterSpan
<1>5. WatchdogWakesUp'
  BY DEF WatchdogWakesUp
<1>6. FailuresAreDeaf'
  BY DEF FailuresAreDeaf
<1>7. NewestIsKnown'
  BY DEF NewestIsKnown, Answered, Arrived, NewRequest
<1> QED BY <1>1, <1>2, <1>3, <1>4, <1>5, <1>6, <1>7

\* A poll failed.
LEMMA PollFailedInv ==
    ASSUME HeadsInv, live = "following", PollFailed,
           UNCHANGED <<consumerVars, watch>>
    PROVE  HeadsInv'
<1> USE DEF HeadsInv, PollFailed, Return, requestVars, sourceVars, emitVars,
            consumerVars, connectionHistory
<1>1. Typed'
  BY BudgetKept DEF Typed, Sources
<1>2. AttemptsCounted'
  BY DEF AttemptsCounted
<1>3. BufferIsNewest'
  BY DEF BufferIsNewest
<1>4. StreaksFollowSuccess' /\ EndsOnlyAfterSpan'
  BY BudgetAssumption DEF StreaksFollowSuccess, EndsOnlyAfterSpan, Typed,
                          Budget, RecordFailure, Older, Spent
<1>5. WatchdogWakesUp'
  BY DEF WatchdogWakesUp
<1>6. FailuresAreDeaf'
  BY DEF FailuresAreDeaf
<1>7. NewestIsKnown'
  BY DEF NewestIsKnown, Answered, Arrived
<1> QED BY <1>1, <1>2, <1>3, <1>4, <1>5, <1>6, <1>7

\* A sleep ended.
LEMMA WakeUpInv ==
    ASSUME HeadsInv, live = "following", WakeUp,
           UNCHANGED <<consumerVars, watch>>
    PROVE  HeadsInv'
<1> USE DEF HeadsInv, WakeUp, requestVars, sourceVars, emitVars, consumerVars,
            connectionHistory
<1>1. Typed'
  BY DEF Typed, Sources
<1>2. AttemptsCounted'
  BY DEF AttemptsCounted
<1>3. BufferIsNewest'
  BY DEF BufferIsNewest
<1>4. StreaksFollowSuccess' /\ EndsOnlyAfterSpan'
  BY DEF StreaksFollowSuccess, EndsOnlyAfterSpan
<1>5. WatchdogWakesUp'
  BY DEF WatchdogWakesUp
<1>6. FailuresAreDeaf'
  BY DEF FailuresAreDeaf
<1>7. NewestIsKnown'
  BY DEF NewestIsKnown, Answered, Arrived
<1> QED BY <1>1, <1>2, <1>3, <1>4, <1>5, <1>6, <1>7

\* The watchdog looked at the head.
LEMMA WatchStepInv ==
    ASSUME HeadsInv, live = "following", WatchStep
    PROVE  HeadsInv'
<1> USE DEF HeadsInv, WatchStep, WatchStalls, requestVars, sourceVars, emitVars,
            consumerVars, connectionHistory
<1>1. Typed'
  <2>1. watch' \in 0..Stall /\ reports' \in Nat
    BY HeadsAssumption DEF Typed
  <2>2. head' \in [block: Blocks \cup {Missing}, age: 0..(Stall + 1), reported: BOOLEAN]
    <3>1. CASE UNCHANGED head
      BY <3>1 DEF Typed
    <3>2. CASE head' = [head EXCEPT !.reported = TRUE]
      BY <3>2 DEF Typed
    <3> QED
      BY <3>1, <3>2
  <2> QED
    BY <2>1, <2>2 DEF Typed
<1>2. AttemptsCounted'
  BY DEF AttemptsCounted
<1>3. BufferIsNewest'
  BY DEF BufferIsNewest, Typed
<1>4. StreaksFollowSuccess' /\ EndsOnlyAfterSpan'
  BY DEF StreaksFollowSuccess, EndsOnlyAfterSpan
<1>5. WatchdogWakesUp'
  BY HeadsAssumption DEF WatchdogWakesUp, Typed
<1>6. FailuresAreDeaf'
  BY DEF FailuresAreDeaf
<1>7. NewestIsKnown'
  BY DEF NewestIsKnown, Answered, Arrived, Typed
<1> QED BY <1>1, <1>2, <1>3, <1>4, <1>5, <1>6, <1>7

\* The consumer took the head.
LEMMA TakeHeadInv ==
    ASSUME HeadsInv, live = "following", TakeHead,
           UNCHANGED <<requestVars, sourceVars, connectionHistory, watch, sinceAnswered>>
    PROVE  HeadsInv'
<1> USE DEF HeadsInv, TakeHead, requestVars, sourceVars, emitVars, consumerVars,
            connectionHistory
<1>1. Typed'
  BY DEF Typed
<1>2. AttemptsCounted'
  BY DEF AttemptsCounted
<1>3. BufferIsNewest'
  BY DEF BufferIsNewest
<1>4. StreaksFollowSuccess' /\ EndsOnlyAfterSpan'
  BY DEF StreaksFollowSuccess, EndsOnlyAfterSpan
<1>5. WatchdogWakesUp'
  BY DEF WatchdogWakesUp
<1>6. FailuresAreDeaf'
  BY DEF FailuresAreDeaf
<1>7. NewestIsKnown'
  BY DEF NewestIsKnown, Answered, Arrived
<1> QED BY <1>1, <1>2, <1>3, <1>4, <1>5, <1>6, <1>7

\* A pass succeeded.
LEMMA PassSucceedsInv ==
    ASSUME HeadsInv, live = "following", PassSucceeds,
           UNCHANGED <<requestVars, sourceVars, connectionHistory, watch, sinceAnswered>>
    PROVE  HeadsInv'
<1> USE DEF HeadsInv, PassSucceeds, requestVars, sourceVars, emitVars,
            consumerVars, connectionHistory
<1>1. Typed'
  <2>1. sinceIndexed' \in 0..MinSpan /\ liveBudget' \in Budget
    BY BudgetKept, BudgetAssumption DEF Typed
  <2> QED
    BY <2>1 DEF Typed
<1>2. AttemptsCounted'
  BY DEF AttemptsCounted
<1>3. BufferIsNewest'
  BY DEF BufferIsNewest
<1>4. StreaksFollowSuccess' /\ EndsOnlyAfterSpan'
  BY BudgetAssumption DEF StreaksFollowSuccess, EndsOnlyAfterSpan, Typed,
                          Budget, RecordFailure, ResetBudget, FullBudget, Older,
                          Spent
<1>5. WatchdogWakesUp'
  BY DEF WatchdogWakesUp
<1>6. FailuresAreDeaf'
  BY DEF FailuresAreDeaf
<1>7. NewestIsKnown'
  BY DEF NewestIsKnown, Answered, Arrived
<1> QED BY <1>1, <1>2, <1>3, <1>4, <1>5, <1>6, <1>7

\* A pass failed.
LEMMA PassFailsInv ==
    ASSUME HeadsInv, live = "following", PassFails,
           UNCHANGED <<requestVars, sourceVars, connectionHistory, watch, sinceAnswered>>
    PROVE  HeadsInv'
<1> USE DEF HeadsInv, PassFails, requestVars, sourceVars, emitVars,
            consumerVars, connectionHistory
<1>1. Typed'
  BY BudgetKept DEF Typed
<1>2. AttemptsCounted'
  BY DEF AttemptsCounted
<1>3. BufferIsNewest'
  BY DEF BufferIsNewest
<1>4. StreaksFollowSuccess' /\ EndsOnlyAfterSpan'
  BY BudgetAssumption DEF StreaksFollowSuccess, EndsOnlyAfterSpan, Typed,
                          Budget, RecordFailure, ResetBudget, FullBudget, Older,
                          Spent
<1>5. WatchdogWakesUp'
  BY DEF WatchdogWakesUp
<1>6. FailuresAreDeaf'
  BY DEF FailuresAreDeaf
<1>7. NewestIsKnown'
  BY DEF NewestIsKnown, Answered, Arrived
<1> QED BY <1>1, <1>2, <1>3, <1>4, <1>5, <1>6, <1>7

\* A pass failed for good.
LEMMA PassFailsForGoodInv ==
    ASSUME HeadsInv, live = "following", PassFailsForGood,
           UNCHANGED <<requestVars, sourceVars, connectionHistory, watch, sinceAnswered>>
    PROVE  HeadsInv'
<1> USE DEF HeadsInv, PassFailsForGood, requestVars, sourceVars, emitVars,
            consumerVars, connectionHistory
<1>1. Typed'
  BY BudgetKept DEF Typed
<1>2. AttemptsCounted'
  BY DEF AttemptsCounted
<1>3. BufferIsNewest'
  BY DEF BufferIsNewest
<1>4. StreaksFollowSuccess' /\ EndsOnlyAfterSpan'
  BY BudgetAssumption DEF StreaksFollowSuccess, EndsOnlyAfterSpan, Typed,
                          Budget, RecordFailure, ResetBudget, FullBudget, Older,
                          Spent
<1>5. WatchdogWakesUp'
  BY DEF WatchdogWakesUp
<1>6. FailuresAreDeaf'
  BY DEF FailuresAreDeaf
<1>7. NewestIsKnown'
  BY DEF NewestIsKnown, Answered, Arrived
<1> QED BY <1>1, <1>2, <1>3, <1>4, <1>5, <1>6, <1>7

\* The server subscribed the client.
LEMMA SubscribeInv ==
    ASSUME HeadsInv, live = "following", Subscribe,
           UNCHANGED <<consumerVars, watch>>
    PROVE  HeadsInv'
<1> USE DEF HeadsInv, Subscribe, requestVars, sourceVars, emitVars,
            consumerVars, connectionHistory
<1>1. Typed'
  BY DEF Typed
<1>2. AttemptsCounted'
  BY DEF AttemptsCounted
<1>3. BufferIsNewest'
  BY DEF BufferIsNewest
<1>4. StreaksFollowSuccess' /\ EndsOnlyAfterSpan'
  BY DEF StreaksFollowSuccess, EndsOnlyAfterSpan
<1>5. WatchdogWakesUp'
  BY DEF WatchdogWakesUp
<1>6. FailuresAreDeaf'
  BY DEF FailuresAreDeaf
<1>7. NewestIsKnown'
  BY DEF NewestIsKnown, Answered, Arrived
<1> QED BY <1>1, <1>2, <1>3, <1>4, <1>5, <1>6, <1>7

\* An age that counts up to a bound stays within it and never falls.
LEMMA OlderCounts ==
    ASSUME NEW bound \in Nat, NEW age \in 0..bound
    PROVE  /\ Older(age, bound) \in 0..bound
           /\ age <= Older(age, bound)
           /\ age < bound => Older(age, bound) = age + 1
    BY DEF Older

\* A streak ages no faster than the clock.
LEMMA AgedBudget ==
    ASSUME NEW budget \in Budget, NEW since \in 0..MinSpan,
           budget.failures > 0 => budget.age <= since
    PROVE  /\ Aged(budget) \in Budget
           /\ Aged(budget).failures = budget.failures
           /\ Aged(budget).failures > 0 => Aged(budget).age <= Older(since, MinSpan)
<1> USE BudgetAssumption
<1>1. CASE budget.failures = 0
    BY <1>1 DEF Budget, Aged
<1>2. CASE budget.failures # 0
  <2>1. Aged(budget) = [failures |-> budget.failures, age |-> Older(budget.age, MinSpan)]
    BY <1>2 DEF Aged, Budget
  <2>2. Older(budget.age, MinSpan) \in 0..MinSpan
    BY OlderCounts DEF Budget
  <2>3. Older(budget.age, MinSpan) <= Older(since, MinSpan)
    BY <1>2 DEF Older, Budget
  <2> QED
    BY <2>1, <2>2, <2>3 DEF Budget
<1> QED
    BY <1>1, <1>2

\* Time passes.
LEMMA TickInv ==
    ASSUME HeadsInv, live = "following", Tick
    PROVE  HeadsInv'
<1> USE DEF HeadsInv
<1>a. /\ UNCHANGED <<requestVars, socket, frames, source, failures, buffer, taken,
                      busy, live, connectionHistory, reports>>
      /\ watch > 0
      /\ watch' = watch - 1
      /\ sinceIndexed' = Older(sinceIndexed, MinSpan)
      /\ sinceAnswered' = Older(sinceAnswered, MinSpan)
      /\ liveBudget' = Aged(liveBudget)
      /\ pollBudget' = Aged(pollBudget)
  BY DEF Tick
<1>b. head' = [block |-> head.block, age |-> Older(head.age, Stall + 1),
               reported |-> head.reported]
  BY DEF Tick, Typed
<1>c. /\ Older(head.age, Stall + 1) \in 0..(Stall + 1)
      /\ head.age < Stall + 1 => Older(head.age, Stall + 1) = head.age + 1
  BY OlderCounts, HeadsAssumption DEF Typed
<1>d. /\ liveBudget' \in Budget
      /\ liveBudget'.failures > 0 => liveBudget'.age <= sinceIndexed'
  BY <1>a, AgedBudget DEF Typed, StreaksFollowSuccess
<1>e. /\ pollBudget' \in Budget
      /\ pollBudget'.failures > 0 =>
           pollBudget'.age <= sinceAnswered' /\ source \in {"poll", "pause"}
  BY <1>a, AgedBudget DEF Typed, StreaksFollowSuccess
<1>1. Typed'
  <2>1. /\ sinceIndexed' \in 0..MinSpan
        /\ sinceAnswered' \in 0..MinSpan
    BY <1>a, OlderCounts, BudgetAssumption DEF Typed
  <2>2. watch' \in 0..Stall
    BY <1>a, HeadsAssumption DEF Typed
  <2>3. head' \in [block: Blocks \cup {Missing}, age: 0..(Stall + 1), reported: BOOLEAN]
    BY <1>b, <1>c DEF Typed
  <2> QED
    BY <1>a, <1>d, <1>e, <2>1, <2>2, <2>3 DEF Typed, requestVars,
        connectionHistory
<1>2. AttemptsCounted'
  BY <1>a DEF AttemptsCounted, requestVars
<1>3. BufferIsNewest'
  BY <1>a, <1>b DEF BufferIsNewest
<1>4. StreaksFollowSuccess' /\ EndsOnlyAfterSpan'
  BY <1>a, <1>d, <1>e DEF StreaksFollowSuccess, EndsOnlyAfterSpan
<1>5. WatchdogWakesUp'
  BY <1>a, <1>b, <1>c, HeadsAssumption DEF WatchdogWakesUp, Typed
<1>6. FailuresAreDeaf'
  BY <1>a DEF FailuresAreDeaf, connectionHistory
<1>7. NewestIsKnown'
  BY <1>a, <1>b DEF NewestIsKnown, Answered, Arrived, requestVars,
                    connectionHistory
<1> QED BY <1>1, <1>2, <1>3, <1>4, <1>5, <1>6, <1>7

\* The poll of a connection ended.
LEMMA RecoverInv ==
    ASSUME HeadsInv, live = "following", Recover, UNCHANGED <<consumerVars, watch>>
    PROVE  HeadsInv'
<1> USE DEF HeadsInv
<1>a. /\ UNCHANGED <<socket, frames, failures, sleep, pollBudget, unannounced,
                     deaf, live, consumerVars, watch>>
      /\ source = "recover" /\ source' = "read"
      /\ request' = Missing /\ attempts' = 0
      /\ sinceAnswered' = IF Answered THEN 0 ELSE sinceAnswered
  BY DEF Recover, Return
<1>b. /\ head' \in [block: Blocks \cup {Missing}, age: 0..(Stall + 1), reported: BOOLEAN]
      /\ buffer' \in Blocks \cup {Missing}
      /\ reports' \in Nat
      /\ BufferIsNewest'
      /\ WatchdogWakesUp'
      /\ recovered' \in BOOLEAN
      /\ recovered' => Answered /\ head'.block = request.response.payload
  <2>1. CASE Answered /\ Emit(request.response.payload) /\ recovered' = TRUE
    <3>1. request.response.payload \in Blocks
      BY <2>1, PollAnswer
    <3>2. UNCHANGED <<taken, watch>>
      BY <1>a DEF consumerVars
    <3> QED
      BY <2>1, <3>1, <3>2, EmitKeeps
  <2>2. CASE Failed /\ UNCHANGED <<emitVars, recovered>>
    <3>1. ~recovered
      BY <1>a DEF NewestIsKnown
    <3> QED
      BY <1>a, <2>2, <3>1 DEF emitVars, consumerVars, Typed, BufferIsNewest,
          WatchdogWakesUp
  <2> QED
    BY <2>1, <2>2 DEF Recover
<1>1. Typed'
  <2>1. sinceAnswered' \in 0..MinSpan
    BY <1>a, BudgetAssumption DEF Typed
  <2> QED
    BY <1>a, <1>b, <2>1 DEF Typed, Sources, consumerVars
<1>2. AttemptsCounted'
  BY <1>a DEF AttemptsCounted
<1>3. BufferIsNewest'
  BY <1>b
<1>4. StreaksFollowSuccess' /\ EndsOnlyAfterSpan'
  <2>1. pollBudget.failures \in Nat /\ ~(pollBudget.failures > 0)
    BY <1>a DEF StreaksFollowSuccess, Typed, Budget
  <2> QED
    BY <1>a, <2>1 DEF StreaksFollowSuccess, EndsOnlyAfterSpan, consumerVars
<1>5. WatchdogWakesUp'
  BY <1>b
<1>6. FailuresAreDeaf'
  BY <1>a DEF FailuresAreDeaf
<1>7. NewestIsKnown'
  BY <1>a, <1>b DEF NewestIsKnown
<1> QED BY <1>1, <1>2, <1>3, <1>4, <1>5, <1>6, <1>7

\* A notification was read.
LEMMA ReadFrameInv ==
    ASSUME HeadsInv, live = "following", ReadFrame, UNCHANGED <<consumerVars, watch>>
    PROVE  HeadsInv'
<1> USE DEF HeadsInv
<1>a. /\ UNCHANGED <<requestVars, socket, source, sleep, pollBudget, recovered,
                     unannounced, sinceAnswered, live, consumerVars, watch>>
      /\ source = "read" /\ frames # <<>>
      /\ failures' = 0 /\ deaf' = 0
      /\ Emit(Head(frames))
      /\ frames' = Tail(frames)
  BY DEF ReadFrame
<1>b. /\ frames \in Seq(Blocks)
      /\ Head(frames) \in Blocks
      /\ frames' \in Seq(Blocks)
      /\ Head(frames) = frames[1]
      /\ frames' = <<>> => Len(frames) = 1
      /\ frames' # <<>> => frames'[Len(frames')] = frames[Len(frames)]
  <2>1. frames \in Seq(Blocks)
    BY DEF Typed
  <2>2. Len(frames) \in Nat \ {0}
    BY <1>a, <2>1, EmptySeq
  <2>3. /\ Head(frames) \in Blocks
        /\ Tail(frames) \in Seq(Blocks)
        /\ Len(Tail(frames)) = Len(frames) - 1
        /\ \A i \in 1..Len(Tail(frames)) : Tail(frames)[i] = frames[i + 1]
    BY <1>a, <2>1, HeadTailProperties
  <2>4. Head(frames) = frames[1]
    BY <1>a, <2>1
  <2>5. ASSUME Tail(frames) = <<>>
        PROVE  Len(frames) = 1
    <3> DEFINE rest == Tail(frames)
    <3>1. Len(rest) = Len(frames) - 1 /\ rest = <<>>
      BY <2>3, <2>5
    <3> HIDE DEF rest
    <3>2. Len(rest) = 0
      BY <3>1
    <3> QED
      BY <2>2, <3>1, <3>2
  <2>6. ASSUME Tail(frames) # <<>>
        PROVE  Tail(frames)[Len(Tail(frames))] = frames[Len(frames)]
    <3>1. Len(Tail(frames)) \in Nat \ {0}
      BY <2>3, <2>6, EmptySeq
    <3> QED
      BY <2>2, <2>3, <3>1
  <2> QED
    BY <1>a, <2>1, <2>3, <2>4, <2>5, <2>6
<1>c. /\ head' \in [block: Blocks \cup {Missing}, age: 0..(Stall + 1), reported: BOOLEAN]
      /\ buffer' \in Blocks \cup {Missing}
      /\ reports' \in Nat
      /\ head'.block = Head(frames)
      /\ BufferIsNewest'
      /\ WatchdogWakesUp'
  <2>1. UNCHANGED <<taken, watch>>
    BY <1>a DEF consumerVars
  <2> QED
    BY <1>a, <1>b, <2>1, EmitKeeps
<1>1. Typed'
  <2>1. failures' \in 0..RetryLimit /\ deaf' \in 0..RetryLimit
    BY <1>a, HeadsAssumption
  <2> QED
    BY <1>a, <1>b, <1>c, <2>1 DEF Typed, consumerVars, requestVars
<1>2. AttemptsCounted'
  BY <1>a DEF AttemptsCounted, requestVars
<1>3. BufferIsNewest'
  BY <1>c
<1>4. StreaksFollowSuccess' /\ EndsOnlyAfterSpan'
  BY <1>a DEF StreaksFollowSuccess, EndsOnlyAfterSpan, consumerVars
<1>5. WatchdogWakesUp'
  BY <1>c
<1>6. FailuresAreDeaf'
  BY <1>a, HeadsAssumption DEF FailuresAreDeaf
<1>7. NewestIsKnown'
  <2>1. socket # "open"
    BY <1>a DEF NewestIsKnown
  <2>2. socket = "subscribed" => frames[Len(frames)] = 0
    BY <1>a DEF NewestIsKnown
  <2>3. socket \in {"none", "subscribed"}
    BY <2>1 DEF Typed
  <2>4. request' = Missing
    BY <1>a DEF NewestIsKnown, requestVars
  <2> QED
    BY <1>a, <1>b, <1>c, <2>2, <2>3, <2>4 DEF NewestIsKnown
<1> QED BY <1>1, <1>2, <1>3, <1>4, <1>5, <1>6, <1>7

\* pollHeads: a poll was answered.
LEMMA PollAnsweredInv ==
    ASSUME HeadsInv, live = "following", PollAnswered, UNCHANGED <<consumerVars, watch>>
    PROVE  HeadsInv'
<1> USE DEF HeadsInv
<1>a. /\ UNCHANGED <<socket, frames, failures, connectionHistory, live,
                     consumerVars, watch>>
      /\ source = "poll" /\ source' = "pause"
      /\ request' = Missing /\ attempts' = 0
      /\ Answered /\ Emit(request.response.payload)
      /\ pollBudget' = ResetBudget(pollBudget)
      /\ sinceAnswered' = 0
  BY DEF PollAnswered, Return
<1>b. /\ head' \in [block: Blocks \cup {Missing}, age: 0..(Stall + 1), reported: BOOLEAN]
      /\ buffer' \in Blocks \cup {Missing}
      /\ reports' \in Nat
      /\ BufferIsNewest'
      /\ WatchdogWakesUp'
  <2>1. request.response.payload \in Blocks /\ UNCHANGED <<taken, watch>>
    BY <1>a, PollAnswer DEF consumerVars
  <2> QED
    BY <1>a, <2>1, EmitKeeps
<1>1. Typed'
  <2>1. sinceAnswered' \in 0..MinSpan /\ pollBudget' \in Budget
    BY <1>a, BudgetAssumption, BudgetKept DEF Typed
  <2> QED
    BY <1>a, <1>b, <2>1 DEF Typed, Sources, consumerVars, connectionHistory
<1>2. AttemptsCounted'
  BY <1>a DEF AttemptsCounted
<1>3. BufferIsNewest'
  BY <1>b
<1>4. StreaksFollowSuccess' /\ EndsOnlyAfterSpan'
  BY <1>a DEF StreaksFollowSuccess, EndsOnlyAfterSpan, consumerVars,
              ResetBudget, FullBudget
<1>5. WatchdogWakesUp'
  BY <1>b
<1>6. FailuresAreDeaf'
  BY <1>a DEF FailuresAreDeaf, connectionHistory
<1>7. NewestIsKnown'
  BY <1>a DEF NewestIsKnown, connectionHistory
<1> QED BY <1>1, <1>2, <1>3, <1>4, <1>5, <1>6, <1>7

\* The frame of the steps that touch the request in flight alone.
LEMMA RequestStepInv ==
    ASSUME HeadsInv, source \in {"recover", "poll"},
           request' \in Request(Blocks), attempts' \in Nat, AttemptsCounted',
           Answered' => Answered \/ request'.response.payload = 0,
           Answered /\ Answered' => request'.response = request.response,
           UNCHANGED <<sourceVars, emitVars, connectionHistory, sinceAnswered, live,
                       consumerVars, watch>>
    PROVE  HeadsInv'
<1> USE DEF HeadsInv, sourceVars, emitVars, consumerVars, connectionHistory
<1>1. Typed'
  BY DEF Typed
<1>2. BufferIsNewest'
  BY DEF BufferIsNewest
<1>3. StreaksFollowSuccess' /\ EndsOnlyAfterSpan'
  BY DEF StreaksFollowSuccess, EndsOnlyAfterSpan
<1>4. WatchdogWakesUp' /\ FailuresAreDeaf'
  BY DEF WatchdogWakesUp, FailuresAreDeaf
<1>5. NewestIsKnown'
  BY DEF NewestIsKnown
<1> QED BY <1>1, <1>2, <1>3, <1>4, <1>5

\* A round of the limiter is no more than LimitRetries + 1 attempts.
LEMMA FullRound ==
    ASSUME NEW r \in Nat, NEW l \in Nat
    PROVE  (r + 1) * (l + 1) = r * (l + 1) + l + 1
    OBVIOUS

\* An attempt was answered.
LEMMA ServerRespondsInv ==
    ASSUME HeadsInv, live = "following", ServerResponds, UNCHANGED <<consumerVars, watch>>
    PROVE  HeadsInv'
<1> USE DEF HeadsInv
<1>a. /\ request \in Request(Blocks) /\ request # Missing /\ request.response = Missing
      /\ attempts' = attempts + 1 /\ attempts \in Nat
      /\ UNCHANGED <<sourceVars, emitVars, connectionHistory, sinceAnswered, live>>
  BY DEF ServerResponds, Respond, InFlight, Typed
<1>b. PICK response \in Response({0}) : request' = [request EXCEPT !.response = response]
  BY DEF ServerResponds, Respond
<1>c. 0 \in Blocks
  BY HeadsAssumption DEF Blocks
<1>d. response \in Response(Blocks) /\ (response.type = "ok" => response.payload = 0)
  BY <1>b, <1>c DEF Response, AnyFault
<1>e. /\ request' \in Request(Blocks)
      /\ request'.response = response
      /\ request'.retries = request.retries
      /\ request'.limited = request.limited
  BY <1>a, <1>b, <1>d DEF Request
<1>f. request' # Missing /\ response # Missing
  BY <1>d, <1>e, MissingAssumption
<1>1. AttemptsCounted'
  <2>1. attempts <= request.retries * (LimitRetries + 1) + request.limited
    BY <1>a, RequestAssumption DEF AttemptsCounted, Request
  <2> QED
    BY <1>a, <1>e, <1>f, <2>1, RequestAssumption DEF AttemptsCounted, Request
<1>2. source \in {"recover", "poll"}
  BY <1>a DEF NewestIsKnown
<1> QED
  BY <1>a, <1>d, <1>e, <1>f, <1>1, <1>2, RequestStepInv DEF Answered, Arrived

\* The client retried a request.
LEMMA RetryRequestInv ==
    ASSUME HeadsInv, live = "following", RetryRequest, UNCHANGED <<consumerVars, watch>>
    PROVE  HeadsInv'
<1> USE DEF HeadsInv
<1>a. /\ request \in Request(Blocks) /\ request # Missing /\ request.response # Missing
      /\ attempts' = attempts /\ attempts \in Nat
      /\ UNCHANGED <<sourceVars, emitVars, connectionHistory, sinceAnswered, live>>
  BY DEF RetryRequest, RetryStep, RetryLimited, RetryTransient, Arrived, Typed
<1>b. attempts <= request.retries * (LimitRetries + 1) + request.limited + 1
  BY <1>a, RequestAssumption DEF AttemptsCounted, Request
<1>1. /\ request' \in Request(Blocks)
      /\ request'.response = Missing
      /\ attempts <= request'.retries * (LimitRetries + 1) + request'.limited
  <2>1. CASE RetryLimited
    <3>1. request' = [retries |-> request.retries, limited |-> request.limited + 1,
                      response |-> Missing]
      BY <1>a, <2>1 DEF RetryLimited, Request
    <3>2. request.limited + 1 \in 0..LimitRetries /\ request.retries \in 0..Retries
      BY <1>a, <2>1, RequestAssumption DEF RetryLimited, Request
    <3> QED
      BY <1>b, <3>1, <3>2, <1>a, RequestAssumption DEF Request
  <2>2. CASE RetryTransient
    <3>1. request' = [retries |-> request.retries + 1, limited |-> 0,
                      response |-> Missing]
      BY <1>a, <2>2 DEF RetryTransient, Request
    <3>2. request.retries + 1 \in 0..Retries /\ request.retries \in Nat
      BY <1>a, <2>2, RequestAssumption DEF RetryTransient, Request
    <3>3. request' \in Request(Blocks)
      BY <3>1, <3>2, RequestAssumption DEF Request
    <3>4. request.limited <= LimitRetries /\ request.limited \in Nat
      BY <1>a, RequestAssumption DEF Request
    <3>5. (request.retries + 1) * (LimitRetries + 1)
            = request.retries * (LimitRetries + 1) + LimitRetries + 1
      BY <3>2, FullRound, RequestAssumption
    <3>6. request.retries * (LimitRetries + 1) \in Nat
      BY <3>2, RequestAssumption
    <3>7. attempts <= (request.retries + 1) * (LimitRetries + 1)
      BY <1>a, <1>b, <3>4, <3>5, <3>6, RequestAssumption
    <3>8. (request.retries + 1) * (LimitRetries + 1) \in Nat
      BY <3>2, RequestAssumption
    <3> QED
      BY <3>1, <3>3, <3>7, <3>8
  <2> QED
    BY <2>1, <2>2 DEF RetryRequest, RetryStep
<1>f. request' # Missing
  BY <1>1, MissingAssumption
<1>2. AttemptsCounted'
  <2>1. /\ request'.limited \in Nat
        /\ request'.retries * (LimitRetries + 1) \in Nat
    BY <1>1, RequestAssumption DEF Request
  <2> QED
    BY <1>a, <1>1, <1>f, <2>1 DEF AttemptsCounted
<1>3. source \in {"recover", "poll"}
  BY <1>a DEF NewestIsKnown
<1>4. ~Answered'
  BY <1>1 DEF Answered, Arrived
<1> QED
  BY <1>a, <1>1, <1>2, <1>3, <1>4, RequestStepInv

\* The connection broke.
LEMMA SocketBreaksInv ==
    ASSUME HeadsInv, live = "following", SocketBreaks, UNCHANGED <<consumerVars, watch>>
    PROVE  HeadsInv'
<1> USE DEF HeadsInv
<1>a. /\ UNCHANGED <<requestVars, source, failures, sleep, pollBudget, emitVars,
                     connectionHistory, sinceAnswered, live>>
      /\ socket' = "none"
  BY DEF SocketBreaks
<1>b. frames' \in Seq(Blocks)
  <2>1. PICK n \in 0..Len(frames) : frames' = SubSeq(frames, 1, n)
    BY DEF SocketBreaks
  <2> QED
    BY <2>1 DEF Typed
<1> USE DEF requestVars, emitVars, connectionHistory, consumerVars
<1>1. Typed'
  BY <1>a, <1>b DEF Typed
<1>2. AttemptsCounted'
  BY <1>a DEF AttemptsCounted
<1>3. BufferIsNewest'
  BY <1>a DEF BufferIsNewest
<1>4. StreaksFollowSuccess' /\ EndsOnlyAfterSpan'
  BY <1>a DEF StreaksFollowSuccess, EndsOnlyAfterSpan
<1>5. WatchdogWakesUp'
  BY <1>a DEF WatchdogWakesUp
<1>6. FailuresAreDeaf'
  BY <1>a DEF FailuresAreDeaf
<1>7. NewestIsKnown'
  BY <1>a DEF NewestIsKnown
<1> QED BY <1>1, <1>2, <1>3, <1>4, <1>5, <1>6, <1>7

\* One block further behind is still a block, or still none.
LEMMA Behind ==
    ASSUME NEW block \in Blocks \cup {Missing}
    PROVE  /\ BehindAtMost(block) \in Blocks \cup {Missing}
           /\ BehindAtMost(block) = Missing <=> block = Missing
<1>1. CASE block = Missing
  BY <1>1 DEF BehindAtMost
<1>2. CASE block # Missing
  <2>1. BehindAtMost(block) \in Blocks
    BY <1>2, HeadsAssumption DEF BehindAtMost, Blocks, Older
  <2> QED
    BY <1>2, <2>1, MissingAssumption
<1> QED
  BY <1>1, <1>2

\* A new tip is pushed to a subscriber, or announced by nothing.
LEMMA NewTipInv ==
    ASSUME HeadsInv, live = "following", NewTip
    PROVE  HeadsInv'
<1> USE DEF HeadsInv
<1>a. /\ UNCHANGED <<attempts, socket, source, failures, sleep, pollBudget, watch,
                     busy, liveBudget, live, recovered, deaf, reports,
                     sinceIndexed, sinceAnswered>>
      /\ buffer' = BehindAtMost(buffer)
      /\ taken' = BehindAtMost(taken)
      /\ unannounced' = (unannounced \/ (socket = "open" /\ PollRead))
      /\ request' = IF Answered THEN [request EXCEPT !.response.payload = @ + 1] ELSE request
  BY DEF NewTip
<1>b. /\ head' = [block |-> BehindAtMost(head.block), age |-> head.age,
                  reported |-> head.reported]
  BY DEF NewTip, Typed
<1> DEFINE older == [i \in DOMAIN frames |-> frames[i] + 1]
<1>c. frames' = IF socket = "subscribed" THEN Append(older, 0) ELSE older
  BY DEF NewTip
<1>d. older \in Seq(Blocks)
  <2>1. frames \in Seq(Blocks)
    BY DEF Typed
  <2>2. \A i \in 1..Len(frames) : older[i] \in Blocks
    <3>1. SUFFICES ASSUME NEW i \in 1..Len(frames)
                   PROVE  frames[i] + 1 \in Blocks
      BY <2>1
    <3>2. frames[i] \in Blocks
      BY <2>1
    <3>3. frames[i] + 1 < MaxBehind
      BY <2>1 DEF NewTip, InFlightBlocks
    <3> QED
      BY <3>2, <3>3, HeadsAssumption DEF Blocks
  <2>3. DOMAIN frames = 1..Len(frames) /\ Len(frames) \in Nat
    BY <2>1, LenProperties
  <2>4. older \in [1..Len(frames) -> Blocks]
    BY <2>2, <2>3
  <2> QED
    BY <2>3, <2>4, SeqDef
<1>e. frames' \in Seq(Blocks)
  <2>1. 0 \in Blocks
    BY HeadsAssumption DEF Blocks
  <2> QED
    BY <1>c, <1>d, <2>1, AppendProperties
<1>f. /\ request' \in Request(Blocks) \cup {Missing}
      /\ request' = Missing <=> request = Missing
      /\ Answered' <=> Answered
      /\ request # Missing =>
           /\ request'.retries = request.retries
           /\ request'.limited = request.limited
           /\ request'.response = Missing <=> request.response = Missing
  <2>1. CASE ~Answered
    BY <1>a, <2>1 DEF Typed, Answered, Arrived
  <2>2. CASE Answered
    <3>1. request.response.payload \in Blocks
      BY <2>2, PollAnswer
    <3>2. request.response.payload + 1 < MaxBehind
      BY <2>2 DEF NewTip, InFlightBlocks
    <3>3. request.response.payload + 1 \in Blocks
      BY <3>1, <3>2, HeadsAssumption DEF Blocks
    <3>4. /\ request \in Request(Blocks)
          /\ request.response = [type |-> "ok", payload |-> request.response.payload]
      BY <2>2 DEF Answered, Arrived, Typed, Request, Response, AnyFault
    <3>5. request' = [retries |-> request.retries, limited |-> request.limited,
                      response |-> [type |-> "ok", payload |-> request.response.payload + 1]]
      BY <1>a, <2>2, <3>4 DEF Request
    <3>6. request'.response \in Response(Blocks)
      BY <3>3, <3>5 DEF Response
    <3>7. request' \in Request(Blocks)
      BY <3>4, <3>5, <3>6 DEF Request
    <3>8. request' # Missing /\ request'.response # Missing
      BY <3>6, <3>7, MissingAssumption
    <3> QED
      BY <2>2, <3>5, <3>7, <3>8 DEF Answered, Arrived
  <2> QED
    BY <2>1, <2>2
<1>g. /\ head.block \in Blocks \cup {Missing}
      /\ buffer \in Blocks \cup {Missing}
      /\ taken \in Blocks \cup {Missing}
  BY DEF Typed
<1>1. Typed'
  <2>1. head' \in [block: Blocks \cup {Missing}, age: 0..(Stall + 1), reported: BOOLEAN]
    BY <1>b, <1>g, Behind DEF Typed
  <2>2. buffer' \in Blocks \cup {Missing} /\ taken' \in Blocks \cup {Missing}
    BY <1>a, <1>g, Behind
  <2>3. unannounced' \in BOOLEAN
    BY <1>a DEF Typed
  <2> QED
    BY <1>a, <1>e, <1>f, <2>1, <2>2, <2>3 DEF Typed
<1>2. AttemptsCounted'
  BY <1>a, <1>f DEF AttemptsCounted
<1>3. BufferIsNewest'
  BY <1>a, <1>b, <1>g, Behind DEF BufferIsNewest
<1>4. StreaksFollowSuccess' /\ EndsOnlyAfterSpan'
  BY <1>a DEF StreaksFollowSuccess, EndsOnlyAfterSpan
<1>5. WatchdogWakesUp'
  BY <1>a, <1>b DEF WatchdogWakesUp
<1>6. FailuresAreDeaf'
  BY <1>a DEF FailuresAreDeaf
<1>7. NewestIsKnown'
  <2>1. ASSUME socket = "subscribed"
        PROVE  frames' # <<>> /\ frames'[Len(frames')] = 0
    <3>1. Len(older) \in Nat /\ 0 \in Blocks
      BY <1>d, LenProperties, HeadsAssumption DEF Blocks
    <3>2. Len(Append(older, 0)) = Len(older) + 1
      BY <1>d, <3>1, AppendProperties
    <3>3. Append(older, 0)[Len(older) + 1] = 0
      BY <1>d, <3>1, AppendProperties
    <3>4. frames' = Append(older, 0)
      BY <1>c, <2>1
    <3> HIDE DEF older
    <3> QED
      BY <3>1, <3>2, <3>3, <3>4
  <2>2. socket = "open" => frames' = <<>>
    <3>1. ASSUME socket = "open" PROVE frames' = <<>>
      <4>1. frames = <<>> /\ frames' = older
        BY <1>c, <3>1 DEF NewestIsKnown
      <4>2. DOMAIN older = DOMAIN frames
        OBVIOUS
      <4>3. Len(older) = 0
        BY <1>d, <4>1, <4>2
      <4> QED
        BY <1>d, <4>1, <4>3
    <3> QED
      BY <3>1
  <2>3. socket = "open" /\ ~unannounced' => source # "read" /\ ~(source = "recover" /\ Answered)
    BY <1>a DEF PollRead
  <2>4. socket \in {"none", "open", "subscribed"}
    BY DEF Typed
  <2> QED
    BY <1>a, <1>f, <2>1, <2>2, <2>3, <2>4 DEF NewestIsKnown
<1> QED BY <1>1, <1>2, <1>3, <1>4, <1>5, <1>6, <1>7

-----------------------------------------------------------------------------

\* Nothing was emitted, counted or requested yet.
LEMMA InitInv == HeadsInit => HeadsInv
<1> SUFFICES ASSUME HeadsInit PROVE HeadsInv
  OBVIOUS
<1> USE DEF HeadsInit, RequestInit
<1>1. Typed
  <2>1. FullBudget \in Budget
    BY BudgetAssumption DEF FullBudget, Budget
  <2>2. /\ 0 \in 0..RetryLimit
        /\ 0 \in 0..Stall
        /\ 0 \in 0..MinSpan
        /\ head \in [block: Blocks \cup {Missing}, age: 0..(Stall + 1), reported: BOOLEAN]
    BY HeadsAssumption, BudgetAssumption
  <2>3. source \in Sources /\ frames \in Seq(Blocks)
    BY DEF Sources
  <2> QED
    BY <2>1, <2>2, <2>3 DEF Typed
<1>2. AttemptsCounted /\ BufferIsNewest
  BY DEF AttemptsCounted, BufferIsNewest
<1>3. StreaksFollowSuccess /\ EndsOnlyAfterSpan
  BY DEF StreaksFollowSuccess, EndsOnlyAfterSpan, FullBudget
<1>4. WatchdogWakesUp
  BY HeadsAssumption DEF WatchdogWakesUp
<1>5. FailuresAreDeaf
  BY HeadsAssumption DEF FailuresAreDeaf
<1>6. NewestIsKnown
  BY DEF NewestIsKnown
<1> QED BY <1>1, <1>2, <1>3, <1>4, <1>5, <1>6 DEF HeadsInv

\* Nothing happened.
LEMMA StutterInv ==
    ASSUME HeadsInv, UNCHANGED headsVars
    PROVE  HeadsInv'
<1> USE DEF headsVars, requestVars, sourceVars, emitVars, consumerVars,
            connectionHistory
<1>1. Typed'
  BY DEF HeadsInv, Typed
<1>2. /\ AttemptsCounted' /\ BufferIsNewest' /\ WatchdogWakesUp' /\ FailuresAreDeaf'
      /\ StreaksFollowSuccess' /\ EndsOnlyAfterSpan'
  BY DEF HeadsInv, AttemptsCounted, BufferIsNewest, WatchdogWakesUp,
         FailuresAreDeaf,
         StreaksFollowSuccess, EndsOnlyAfterSpan
<1>3. NewestIsKnown'
  BY DEF HeadsInv, NewestIsKnown, Answered, Arrived
<1> QED BY <1>1, <1>2, <1>3 DEF HeadsInv

\* Every step keeps the invariant.
LEMMA NextInv ==
    ASSUME HeadsInv, [HeadsNext]_headsVars
    PROVE  HeadsInv'
<1>1. CASE UNCHANGED headsVars
  BY <1>1, StutterInv
<1>2. ASSUME live = "following", SourceStep
      PROVE  HeadsInv'
  <2>1. UNCHANGED <<consumerVars, watch>>
    BY <1>2 DEF SourceStep
  <2>2. CASE Connect
    BY <1>2, <2>1, <2>2, ConnectInv
  <2>3. CASE ConnectFails \/ ConnectionEnds
    BY <1>2, <2>1, <2>3, ConnectionFailedInv DEF ConnectFails, ConnectionEnds
  <2>4. CASE SendPoll
    BY <1>2, <2>1, <2>4, SendPollInv
  <2>5. CASE Recover
    BY <1>2, <2>1, <2>5, RecoverInv
  <2>6. CASE ReadFrame
    BY <1>2, <2>1, <2>6, ReadFrameInv
  <2>7. CASE PollAnswered
    BY <1>2, <2>1, <2>7, PollAnsweredInv
  <2>8. CASE PollFailed
    BY <1>2, <2>1, <2>8, PollFailedInv
  <2>9. CASE WakeUp
    BY <1>2, <2>1, <2>9, WakeUpInv
  <2>10. CASE RetryRequest
    BY <1>2, <2>1, <2>10, RetryRequestInv
  <2> QED
    BY <1>2, <2>2, <2>3, <2>4, <2>5, <2>6, <2>7, <2>8, <2>9, <2>10 DEF SourceStep
<1>3. ASSUME live = "following", ConsumerStep
      PROVE  HeadsInv'
  BY <1>3, TakeHeadInv, PassSucceedsInv, PassFailsInv, PassFailsForGoodInv DEF
      ConsumerStep
<1>4. ASSUME live = "following", ServerStep \/ BreakStep
      PROVE  HeadsInv'
  BY <1>4, SubscribeInv, ServerRespondsInv, SocketBreaksInv DEF ServerStep,
      BreakStep
<1>5. ASSUME live = "following", WatchStep \/ NewTip \/ Tick
      PROVE  HeadsInv'
  BY <1>5, WatchStepInv, NewTipInv, TickInv
<1> QED
  BY <1>1, <1>2, <1>3, <1>4, <1>5 DEF HeadsNext

\* The strengthening of the properties below: budgets, watchdog, buffer and
\* notifications agree with what happened, whatever the code's limits.
THEOREM HeadsInvariant == HeadsSpec => []HeadsInv
<1>1. HeadsInit => HeadsInv
  BY InitInv
<1>2. HeadsInv /\ [HeadsNext]_headsVars => HeadsInv'
  BY NextInv
<1> QED
  BY <1>1, <1>2, PTL DEF HeadsSpec

\* execute and withRateLimiter: whatever an endpoint answers, one request makes
\* no more attempts than every retry with a full round of the limiter.
THEOREM AttemptsStayBounded == HeadsSpec => []AttemptsBounded
<1>1. HeadsInv => AttemptsBounded
  <2> SUFFICES ASSUME HeadsInv PROVE AttemptsBounded
    OBVIOUS
  <2>1. (Retries + 1) * (LimitRetries + 1) \in Nat
    BY RequestAssumption
  <2>2. CASE request = Missing
    BY <2>1, <2>2 DEF HeadsInv, AttemptsCounted, AttemptsBounded
  <2>3. CASE request # Missing
    <3>1. /\ request.retries \in Nat /\ request.retries <= Retries
          /\ request.limited \in Nat /\ request.limited <= LimitRetries
      BY <2>3, RequestAssumption DEF HeadsInv, Typed, Request
    <3> DEFINE rounds == request.retries * (LimitRetries + 1)
    <3>2. rounds \in Nat /\ rounds <= Retries * (LimitRetries + 1)
      BY <3>1, RequestAssumption
    <3>3. attempts \in Nat /\ attempts <= rounds + request.limited + 1
      BY <2>3, <3>1, <3>2 DEF HeadsInv, Typed, AttemptsCounted
    <3>4. (Retries + 1) * (LimitRetries + 1) = Retries * (LimitRetries + 1) + LimitRetries + 1
      BY FullRound, RequestAssumption
    <3>5. Retries * (LimitRetries + 1) \in Nat
      BY RequestAssumption
    <3> HIDE DEF rounds
    <3> QED
      BY <3>1, <3>2, <3>3, <3>4, <3>5, RequestAssumption DEF AttemptsBounded
  <2> QED
    BY <2>2, <2>3
<1> QED
  BY <1>1, HeadsInvariant, PTL

\* The sliding buffer between the source and runLive loses only heads that a
\* newer one replaced.
THEOREM NewestStaysTaken == HeadsSpec => []NewestIsTaken
<1>1. HeadsInv => NewestIsTaken
  BY DEF HeadsInv, BufferIsNewest, NewestIsTaken
<1> QED
  BY <1>1, HeadsInvariant, PTL

\* webSocketHeads falls back to polling only after RetryLimit connections in a
\* row that ended without a notification.
THEOREM FallbackStaysEarned == HeadsSpec => []FallbackIsEarned
<1>1. HeadsInv => FallbackIsEarned
  BY DEF HeadsInv, FailuresAreDeaf, FallbackIsEarned
<1> QED
  BY <1>1, HeadsInvariant, PTL

\* Whatever MaxFailures is, runLive and pollHeads give up only after MinSpan
\* without a success.
THEOREM SpanIsWaited == HeadsSpec => []EndsOnlyAfterSpan
<1>1. HeadsInv => EndsOnlyAfterSpan
  BY DEF HeadsInv
<1> QED
  BY <1>1, HeadsInvariant, PTL

\* watchStalls, which sleeps for what is left of a stall, reports each of them
\* once and in time.
THEOREM StallsStayReported == HeadsSpec => []StallsReportedOnce
<1>1. HeadsInv => StallsReportedOnce
  BY HeadsAssumption DEF HeadsInv, WatchdogWakesUp, StallsReportedOnce, Typed
<1> QED
  BY <1>1, HeadsInvariant, PTL

\* subscribeHeads, which subscribes before it polls, misses no head but one
\* mined before the server handled the subscription.
THEOREM HeadsAreNotMissed == HeadsSpec => []NoHeadMissed
<1>1. HeadsInv => NoHeadMissed
  BY DEF HeadsInv, NewestIsKnown, NoHeadMissed
<1> QED
  BY <1>1, HeadsInvariant, PTL

=============================================================================
