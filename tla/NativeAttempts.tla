---------------------------- MODULE NativeAttempts ----------------------------
(***************************************************************************)
(* The retry loop of src/src/core.mjs: runNativeAttempts with              *)
(* retryDecision, the only owner of native retries.  It runs one page's    *)
(* attempts under four budgets: a wall deadline, a time limit for each     *)
(* attempt, a number of retries, and one retry after a 429 answer, which   *)
(* waits as long as the server asks, up to a cap.                          *)
(*                                                                         *)
(* Time is a counter.  Every await of the loop has an instant at which it  *)
(* is due (at once for the two callbacks, the attempt timer for the        *)
(* adapter, the requested delay for the sleep) and ends at most Slack      *)
(* later: Slack is how late the event loop and the disk can be.            *)
(***************************************************************************)
EXTENDS Naturals, Sequences, FiniteSets

CONSTANTS
  WallMs, PerAttemptMs, Retries, MaxRetryAfterMs,   (* limitsFor            *)
  RetryAfters,   (* delays a 429 answer asks for                             *)
  Slack          (* how late an await can end                                *)

ASSUME LimitsAssumption ==
  /\ WallMs \in Nat \ {0}
  /\ PerAttemptMs \in Nat \ {0}
  /\ Retries \in Nat
  /\ MaxRetryAfterMs \in Nat \ {0}
  /\ RetryAfters \subseteq Nat
  /\ Slack \in Nat

VARIABLES
  now,                (* the clock, 0 when the loop starts                   *)
  pc,                 (* the await the loop is at                            *)
  due,                (* when that await is due                              *)
  startedMs,          (* attemptStartedMs                                    *)
  finishedMs,
  outcome,            (* of the last attempt                                 *)
  timeline,           (* the attempts made                                   *)
  retriesUsed,
  rateLimitRetries,
  result              (* what the loop returned, or "none"                   *)

vars == <<now, pc, due, startedMs, finishedMs, outcome, timeline,
          retriesUsed, rateLimitRetries, result>>

(* "transient" stands for the codes network, timeout and http_5xx.          *)
Outcome == [code: {"ok", "terminal", "broken", "transient"}, retryAfterMs: {0}]
             \cup [code: {"rate_limited"}, retryAfterMs: RetryAfters \cup {0}]

Entry == [started: Nat, finished: Nat, code: {o.code : o \in Outcome}, delay: Nat]

deadlineMs == WallMs

Least(a, b) == IF a <= b THEN a ELSE b

-----------------------------------------------------------------------------
(* retryDecision.                                                           *)

(* Faulty: a rate limit is retried like any transient failure.              *)
RetryableEvenTwice ==
  /\ retriesUsed < Retries
  /\ outcome.code \in {"transient", "rate_limited"}

Retryable ==
  /\ retriesUsed < Retries
  /\ \/ outcome.code = "transient"
     \/ outcome.code = "rate_limited" /\ rateLimitRetries < 1

Delay == Least(outcome.retryAfterMs, MaxRetryAfterMs)

-----------------------------------------------------------------------------
Init ==
  /\ now = 0
  /\ pc = "top"
  /\ due = 0
  /\ startedMs = 0
  /\ finishedMs = 0
  /\ outcome = [code |-> "broken", retryAfterMs |-> 0]
  /\ timeline = <<>>
  /\ retriesUsed = 0
  /\ rateLimitRetries = 0
  /\ result = "none"

(* The head of the loop: onAttemptStart is called while time is left.       *)
Start ==
  /\ pc = "top"
  /\ now < deadlineMs
  /\ pc' = "starting"
  /\ due' = now
  /\ startedMs' = now
  /\ UNCHANGED <<now, finishedMs, outcome, timeline, retriesUsed, rateLimitRetries, result>>

(* Faulty: the deadline itself is still in time.                            *)
ExpireLate ==
  /\ pc = "top"
  /\ now > deadlineMs
  /\ pc' = "returned"
  /\ result' = "hard_limit"
  /\ UNCHANGED <<now, due, startedMs, finishedMs, outcome, timeline,
                 retriesUsed, rateLimitRetries>>

Expire ==
  /\ pc = "top"
  /\ now >= deadlineMs
  /\ pc' = "returned"
  /\ result' = "hard_limit"
  /\ UNCHANGED <<now, due, startedMs, finishedMs, outcome, timeline,
                 retriesUsed, rateLimitRetries>>

(* Faulty: the last attempt gets a full budget.                             *)
RunUnbounded ==
  /\ pc = "starting"
  /\ pc' = "running"
  /\ due' = now + PerAttemptMs
  /\ UNCHANGED <<now, startedMs, finishedMs, outcome, timeline, retriesUsed, rateLimitRetries, result>>

(* The attempt timer is set after onAttemptStart, to the budget computed    *)
(* before it.                                                               *)
Run ==
  /\ pc = "starting"
  /\ pc' = "running"
  /\ due' = now + Least(PerAttemptMs, deadlineMs - startedMs)
  /\ UNCHANGED <<now, startedMs, finishedMs, outcome, timeline, retriesUsed, rateLimitRetries, result>>

(* The adapter settles, on its own or soon after the timer has aborted it;  *)
(* then onAttemptFinish is called.                                          *)
Finish(o) ==
  /\ pc = "running"
  /\ pc' = "finishing"
  /\ due' = now
  /\ finishedMs' = now
  /\ outcome' = o
  /\ timeline' = Append(timeline, [started |-> startedMs, finished |-> now,
                                   code |-> o.code, delay |-> 0])
  /\ UNCHANGED <<now, startedMs, retriesUsed, rateLimitRetries, result>>

(* No retry is left or none applies: the last outcome is the result.        *)
Return ==
  /\ pc = "finishing"
  /\ ~Retryable
  /\ pc' = "returned"
  /\ result' = outcome.code
  /\ UNCHANGED <<now, due, startedMs, finishedMs, outcome, timeline,
                 retriesUsed, rateLimitRetries>>

(* Faulty: the delay is compared before it is capped.                       *)
AbandonUncapped ==
  /\ pc = "finishing"
  /\ Retryable
  /\ finishedMs + outcome.retryAfterMs >= deadlineMs
  /\ pc' = "returned"
  /\ result' = "hard_limit"
  /\ UNCHANGED <<now, due, startedMs, finishedMs, outcome, timeline,
                 retriesUsed, rateLimitRetries>>

(* The delay would reach the deadline, counted from the finish of the       *)
(* attempt and not from the end of its callback.                            *)
Abandon ==
  /\ pc = "finishing"
  /\ Retryable
  /\ finishedMs + Delay >= deadlineMs
  /\ pc' = "returned"
  /\ result' = "hard_limit"
  /\ UNCHANGED <<now, due, startedMs, finishedMs, outcome, timeline,
                 retriesUsed, rateLimitRetries>>

Sleep ==
  /\ pc = "finishing"
  /\ Retryable
  /\ finishedMs + Delay < deadlineMs
  /\ pc' = "sleeping"
  /\ due' = now + Delay
  /\ timeline' = [timeline EXCEPT ![Len(timeline)].delay = Delay]
  /\ retriesUsed' = retriesUsed + 1
  /\ rateLimitRetries' = IF outcome.code = "rate_limited"
                         THEN rateLimitRetries + 1 ELSE rateLimitRetries
  /\ UNCHANGED <<now, startedMs, finishedMs, outcome, result>>

(* Faulty: the sleep is not awaited.                                        *)
WakeEarly ==
  /\ pc = "sleeping"
  /\ pc' = "top"
  /\ UNCHANGED <<now, due, startedMs, finishedMs, outcome, timeline,
                 retriesUsed, rateLimitRetries, result>>

Wake ==
  /\ pc = "sleeping"
  /\ now >= due
  /\ pc' = "top"
  /\ UNCHANGED <<now, due, startedMs, finishedMs, outcome, timeline,
                 retriesUsed, rateLimitRetries, result>>

(* Time passes only while the loop awaits something.                        *)
Tick ==
  /\ pc \in {"starting", "running", "finishing", "sleeping"}
  /\ now < due + Slack
  /\ now' = now + 1
  /\ UNCHANGED <<pc, due, startedMs, finishedMs, outcome, timeline,
                 retriesUsed, rateLimitRetries, result>>

Step ==
  \/ Start \/ Expire \/ Run \/ Return \/ Abandon \/ Sleep \/ Wake
  \/ \E o \in Outcome : Finish(o)

Next == Step \/ Tick

Spec == Init /\ [][Next]_vars

(* The callbacks and the adapter settle, and the clock advances.            *)
FairSpec == Spec /\ WF_vars(Step) /\ WF_vars(Tick)

-----------------------------------------------------------------------------
(* Properties.                                                              *)

TypeOK ==
  /\ now \in Nat
  /\ pc \in {"top", "starting", "running", "finishing", "sleeping", "returned"}
  /\ due \in Nat
  /\ startedMs \in Nat
  /\ finishedMs \in Nat
  /\ outcome \in Outcome
  /\ timeline \in Seq(Entry)
  /\ retriesUsed \in Nat
  /\ rateLimitRetries \in Nat
  /\ result \in {"none", "hard_limit"} \cup {o.code : o \in Outcome}

RateLimited == {i \in DOMAIN timeline : timeline[i].code = "rate_limited"}

(* The budgets are not spent twice: one attempt more than the retries at    *)
(* most, and never a third 429 answer drawn from the server, in whatever    *)
(* order rate limits and transient failures alternate.                      *)
BudgetKept ==
  /\ Len(timeline) <= Retries + 1
  /\ Cardinality(RateLimited) <= 2

(* A retry never comes before the server allowed it: the next attempt       *)
(* starts no earlier than the recorded delay after the finish.              *)
RetryAfterHonoured ==
  \A i \in 2..Len(timeline) :
    timeline[i].started >= timeline[i-1].finished + timeline[i-1].delay

(* No attempt starts at or after the deadline, and the loop is over soon    *)
(* after it: the budget of the last attempt, the callbacks and the sleep    *)
(* are computed from clock readings taken before an await, and each of the  *)
(* awaits that follow can add its lateness, but not more.                   *)
EndsNearDeadline ==
  /\ \A i \in 1..Len(timeline) : timeline[i].started < deadlineMs
  /\ now <= deadlineMs + 3 * Slack

(* The loop gives up only for the reason it states: a transient failure is  *)
(* final when the retries are spent, a rate limit when they are or when it  *)
(* is the second one, and hard_limit means the wall leaves no retry.        *)
GivesUpForAReason ==
  /\ result = "transient" => retriesUsed = Retries
  /\ result = "rate_limited" => retriesUsed = Retries \/ rateLimitRetries = 1
  /\ result = "hard_limit" => now >= deadlineMs \/ finishedMs + Delay >= deadlineMs

(* The loop returns, whatever the server answers.                           *)
LoopReturns == <>(pc = "returned")

=============================================================================
