---------------------------- MODULE FailureBudget ----------------------------
(***************************************************************************)
(* lib/failure-budget.ts: a streak of failures is fatal once it holds      *)
(* MaxFailures of them and spans MinSpan.  A budget is a value of whoever  *)
(* retries; the moment of the streak's first failure is kept as its age,   *)
(* which the clock's ticks raise up to MinSpan, past which no comparison   *)
(* tells two ages apart.                                                   *)
(***************************************************************************)
EXTENDS Integers

CONSTANTS
    MaxFailures,  \* DEFAULT_MAX_CONSECUTIVE_FAILURES
    MinSpan       \* DEFAULT_MIN_FAILURE_SPAN_MILLIS, in ticks of the clock

ASSUME BudgetAssumption == MaxFailures \in Nat \ {0} /\ MinSpan \in Nat

\* More failures than MaxFailures are counted as MaxFailures.
Budget == [failures: 0..MaxFailures, age: 0..MinSpan]

\* createFailureBudget
FullBudget == [failures |-> 0, age |-> 0]

\* One tick of the clock, for an age that counts up to a bound.
Older(age, bound) == IF age < bound THEN age + 1 ELSE bound
Aged(budget) ==
    IF budget.failures = 0 THEN budget
    ELSE [budget EXCEPT !.age = Older(@, MinSpan)]

\* recordFailure, the streak's part: the first failure of a streak starts it.
RecordFailure(budget) ==
    [failures |-> Older(budget.failures, MaxFailures),
     age      |-> IF budget.failures = 0 THEN 0 ELSE budget.age]

\* recordFailure, its answer.
Spent(budget) == budget.failures >= MaxFailures /\ budget.age >= MinSpan

\* reset: the start of a streak matters only while the streak lasts.
ResetBudget(budget) == FullBudget

=============================================================================
