------------------------ MODULE NativeAttempts_proofs ------------------------
(***************************************************************************)
(* The budgets of the native retry loop hold for every wall limit, attempt *)
(* limit, number of retries, Retry-After cap and lateness of the host.     *)
(***************************************************************************)
EXTENDS NativeAttempts, FiniteSetTheorems, SequenceTheorems, TLAPS

LEMMA LimitTypes ==
  /\ WallMs \in Nat /\ PerAttemptMs \in Nat /\ Retries \in Nat
  /\ MaxRetryAfterMs \in Nat /\ Slack \in Nat /\ RetryAfters \subseteq Nat
  /\ WallMs > 0
BY LimitsAssumption

LEMMA OutcomeTypes ==
  ASSUME NEW o \in Outcome
  PROVE  o.retryAfterMs \in Nat
<1>1. CASE o \in [code: {"ok", "terminal", "broken", "transient"}, retryAfterMs: {0}]
  <2>1. o.retryAfterMs \in {0}
    BY <1>1
  <2> QED BY <2>1
<1>2. CASE o \in [code: {"rate_limited"}, retryAfterMs: RetryAfters \cup {0}]
  <2>1. o.retryAfterMs \in RetryAfters \cup {0}
    BY <1>2
  <2>2. RetryAfters \subseteq Nat
    BY LimitTypes
  <2>3. 0 \in Nat
    OBVIOUS
  <2> QED BY <2>1, <2>2, <2>3, Zenon
<1> QED BY <1>1, <1>2 DEF Outcome

(* The delay before a retry is a time, and never above the cap.             *)
LEMMA DelayCapped ==
  ASSUME outcome \in Outcome
  PROVE  Delay \in Nat /\ Delay <= MaxRetryAfterMs
<1>1. outcome.retryAfterMs \in Nat
  BY OutcomeTypes
<1> QED BY <1>1, LimitTypes DEF Delay, Least

(* Noting the delay changes the last entry only, and only its delay.        *)
LEMMA DelayNoted ==
  ASSUME NEW t \in Seq(Entry), NEW n \in Nat, n = Len(t), n > 0, NEW d \in Nat,
         NEW u, u = [t EXCEPT ![n].delay = d]
  PROVE  /\ u \in Seq(Entry)
         /\ Len(u) = n
         /\ \A i \in 1..n : /\ u[i].started = t[i].started
                            /\ u[i].finished = t[i].finished
                            /\ u[i].code = t[i].code
                            /\ u[i].delay = IF i = n THEN d ELSE t[i].delay
<1>1. n \in 1..Len(t)
  OBVIOUS
<1>2. t[n] \in Entry
  BY <1>1, ElementOfSeq
<1> DEFINE e == [t[n] EXCEPT !.delay = d]
<1>3. /\ e \in Entry
      /\ e.started = t[n].started /\ e.finished = t[n].finished
      /\ e.code = t[n].code /\ e.delay = d
  BY <1>2 DEF Entry
<1>4. u = [t EXCEPT ![n] = e]
  OBVIOUS
<1> HIDE DEF e
<1>5. /\ u \in Seq(Entry)
      /\ Len(u) = Len(t)
      /\ \A j \in 1..Len(t) : u[j] = IF j = n THEN e ELSE t[j]
  BY <1>1, <1>3, <1>4, ExceptSeq
<1> QED BY <1>3, <1>5

-----------------------------------------------------------------------------
(* The inductive invariant.                                                 *)

Entries == Len(timeline)

(* One attempt per retry used, and one more once the attempt has finished.  *)
Counted ==
  /\ retriesUsed <= Retries
  /\ pc \in {"top", "starting", "running", "sleeping"} => Entries = retriesUsed
  /\ pc = "finishing" => Entries = retriesUsed + 1
  /\ pc = "returned" => Entries <= retriesUsed + 1

(* The same for the answers 429, of which only one is retried.              *)
RateCounted ==
  LET n == Cardinality(RateLimited) IN
  /\ rateLimitRetries <= 1
  /\ pc \in {"top", "starting", "running", "sleeping"} => n <= rateLimitRetries
  /\ pc = "finishing" =>
       n <= IF outcome.code = "rate_limited" THEN rateLimitRetries + 1 ELSE rateLimitRetries
  /\ pc = "returned" => n <= 2

(* Where the clock is when each await begins and ends.                      *)
Timed ==
  /\ pc = "top" => now = 0 \/ now < deadlineMs + 2 * Slack
  /\ pc \in {"starting", "running"} => startedMs < deadlineMs
  /\ pc = "starting" => due = startedMs
  /\ pc = "running" => due <= deadlineMs + Slack
  /\ pc = "finishing" => due = finishedMs /\ finishedMs <= deadlineMs + 2 * Slack
  /\ pc = "sleeping" => due < deadlineMs + Slack
  /\ pc \in {"starting", "running", "finishing", "sleeping"} => now <= due + Slack
  /\ pc = "returned" => now <= deadlineMs + 3 * Slack

Released(t) == timeline[Entries].finished + timeline[Entries].delay <= t

(* What the next attempt knows of the last one.                             *)
Spaced ==
  /\ pc \in {"starting", "running", "finishing"} => startedMs <= now
  /\ pc = "finishing" => /\ timeline[Entries].finished = finishedMs
                         /\ finishedMs <= now
  /\ pc = "sleeping" /\ Entries > 0 => Released(due)
  /\ pc = "top" /\ Entries > 0 => Released(now)
  /\ pc \in {"starting", "running"} /\ Entries > 0 => Released(startedMs)

StartsInTime == \A i \in 1..Entries : timeline[i].started < deadlineMs

Inv == TypeOK /\ Counted /\ RateCounted /\ Timed /\ Spaced /\ RetryAfterHonoured /\ StartsInTime

-----------------------------------------------------------------------------
LEMMA RateFinite ==
  ASSUME timeline \in Seq(Entry)
  PROVE  IsFiniteSet(RateLimited) /\ Cardinality(RateLimited) \in Nat
<1>1. Len(timeline) \in Nat /\ RateLimited \subseteq 1..Len(timeline)
  BY DEF RateLimited
<1>2. IsFiniteSet(1..Len(timeline))
  BY <1>1, FS_Interval
<1> QED BY <1>1, <1>2, FS_Subset, FS_CardinalityType

LEMMA InvInit == Init => Inv
<1> SUFFICES ASSUME Init PROVE Inv
  OBVIOUS
<1>1. Outcome # {} /\ outcome \in Outcome /\ timeline \in Seq(Entry)
  BY DEF Init, Outcome
<1>2. RateLimited = {}
  BY DEF Init, RateLimited
<1>3. Cardinality(RateLimited) = 0
  BY <1>2, FS_EmptySet
<1> USE LimitTypes
<1>4. TypeOK
  BY <1>1 DEF Init, TypeOK
<1>5. Counted /\ Timed /\ Spaced /\ RetryAfterHonoured /\ StartsInTime
  BY DEF Init, Counted, Entries, Timed, Spaced, RetryAfterHonoured, StartsInTime
<1>6. RateCounted
  BY <1>3 DEF Init, RateCounted
<1> QED BY <1>4, <1>5, <1>6 DEF Inv

(* Steps that leave the timeline alone leave what is said of it alone.      *)
LEMMA SameTimeline ==
  ASSUME UNCHANGED timeline
  PROVE  /\ RateLimited' = RateLimited
         /\ Entries' = Entries
         /\ RetryAfterHonoured => RetryAfterHonoured'
         /\ StartsInTime => StartsInTime'
BY DEF RateLimited, Entries, RetryAfterHonoured, StartsInTime, deadlineMs

LEMMA StartKeeps == Inv /\ Start => Inv'
<1> SUFFICES ASSUME Inv, Start PROVE Inv'
  OBVIOUS
<1>0. UNCHANGED timeline
  BY DEF Start
<1> USE LimitTypes, SameTimeline
<1>1. TypeOK'
  BY DEF Inv, TypeOK, Start
<1>2. Counted'
  BY <1>0 DEF Inv, Counted, Start
<1>3. RateCounted'
  BY <1>0 DEF Inv, RateCounted, Start
<1>4. Timed'
  BY DEF Inv, TypeOK, Timed, Start, deadlineMs
<1>5. Spaced'
  BY <1>0 DEF Inv, TypeOK, Spaced, Released, Start
<1> QED BY <1>0, <1>1, <1>2, <1>3, <1>4, <1>5 DEF Inv

LEMMA RunKeeps == Inv /\ Run => Inv'
<1> SUFFICES ASSUME Inv, Run PROVE Inv'
  OBVIOUS
<1>0. UNCHANGED timeline
  BY DEF Run
<1> USE LimitTypes, SameTimeline
<1> DEFINE budget == Least(PerAttemptMs, deadlineMs - startedMs)
<1>1. budget \in Nat /\ budget <= deadlineMs - startedMs
  BY DEF Inv, TypeOK, Timed, Run, Least, deadlineMs
<1>2. due' = now + budget
  BY DEF Run
<1> HIDE DEF budget
<1>3. TypeOK'
  BY <1>1, <1>2 DEF Inv, TypeOK, Run
<1>4. Counted'
  BY <1>0 DEF Inv, Counted, Run
<1>5. RateCounted'
  BY <1>0 DEF Inv, RateCounted, Run
<1>6. Timed'
  BY <1>1, <1>2 DEF Inv, TypeOK, Timed, Run, deadlineMs
<1>7. Spaced'
  BY <1>0 DEF Inv, TypeOK, Spaced, Released, Run
<1> QED BY <1>0, <1>3, <1>4, <1>5, <1>6, <1>7 DEF Inv

(* The three ways out of the loop.                                          *)
LEMMA EndKeeps == Inv /\ (Expire \/ Return \/ Abandon) => Inv'
<1> SUFFICES ASSUME Inv, Expire \/ Return \/ Abandon PROVE Inv'
  OBVIOUS
<1>0. /\ pc \in {"top", "finishing"} /\ pc' = "returned"
      /\ result' \in {"hard_limit", outcome.code}
      /\ UNCHANGED <<now, due, startedMs, finishedMs, outcome, timeline,
                     retriesUsed, rateLimitRetries>>
  BY DEF Expire, Return, Abandon
<1> USE LimitTypes, SameTimeline
<1>1. TypeOK'
  BY <1>0 DEF Inv, TypeOK
<1>2. Counted'
  BY <1>0 DEF Inv, TypeOK, Counted, Entries
<1>3. RateCounted'
  <2>1. Cardinality(RateLimited) \in Nat
    BY RateFinite DEF Inv, TypeOK
  <2> QED BY <1>0, <2>1 DEF Inv, TypeOK, RateCounted
<1>4. Timed'
  BY <1>0 DEF Inv, TypeOK, Timed, deadlineMs
<1>5. Spaced'
  BY <1>0 DEF Inv, TypeOK, Spaced
<1> QED BY <1>0, <1>1, <1>2, <1>3, <1>4, <1>5 DEF Inv

LEMMA FinishKeeps == ASSUME NEW o \in Outcome PROVE Inv /\ Finish(o) => Inv'
<1> SUFFICES ASSUME Inv, Finish(o) PROVE Inv'
  OBVIOUS
<1> USE LimitTypes
<1> DEFINE e == [started |-> startedMs, finished |-> now, code |-> o.code, delay |-> 0]
<1>1. /\ e \in Entry
      /\ e.started = startedMs /\ e.finished = now /\ e.code = o.code /\ e.delay = 0
  BY DEF Inv, TypeOK, Entry
<1>2. timeline \in Seq(Entry) /\ timeline' = Append(timeline, e)
  BY DEF Inv, TypeOK, Finish
<1> HIDE DEF e
<1> DEFINE n == Len(timeline)
<1>3. /\ n \in Nat
      /\ timeline' \in Seq(Entry)
      /\ Len(timeline') = n + 1
      /\ \A i \in 1..n : timeline'[i] = timeline[i]
      /\ timeline'[n + 1] = e
  BY <1>1, <1>2, AppendProperties
<1>4. TypeOK'
  BY <1>3 DEF Inv, TypeOK, Finish
<1>5. Counted'
  BY <1>3 DEF Inv, TypeOK, Counted, Entries, Finish
<1>6. RateCounted'
  <2>1. RateLimited' = IF o.code = "rate_limited" THEN RateLimited \cup {n + 1} ELSE RateLimited
    <3>1. DOMAIN timeline = 1..n /\ DOMAIN timeline' = 1..(n + 1)
      BY <1>2, <1>3
    <3> QED BY <1>1, <1>3, <3>1 DEF RateLimited
  <2>2. n + 1 \notin RateLimited
    BY <1>2, <1>3 DEF RateLimited
  <2>3. IsFiniteSet(RateLimited) /\ Cardinality(RateLimited) \in Nat
    BY <1>2, RateFinite
  <2>4. Cardinality(RateLimited \cup {n + 1}) = Cardinality(RateLimited) + 1
    BY <2>2, <2>3, FS_AddElement
  <2>5. Cardinality(RateLimited') = IF o.code = "rate_limited"
                                   THEN Cardinality(RateLimited) + 1 ELSE Cardinality(RateLimited)
    BY <2>1, <2>4
  <2> QED BY <2>3, <2>5 DEF Inv, TypeOK, RateCounted, Finish
<1>7. Timed'
  BY DEF Inv, TypeOK, Timed, Finish, deadlineMs
<1>8. Spaced'
  BY <1>1, <1>3 DEF Inv, TypeOK, Spaced, Entries, Finish
<1>9. RetryAfterHonoured'
  <2> SUFFICES ASSUME NEW i \in 2..(n + 1)
               PROVE  timeline'[i].started >= timeline'[i-1].finished + timeline'[i-1].delay
    BY <1>3 DEF RetryAfterHonoured
  <2>1. CASE i <= n
    BY <1>3, <2>1 DEF Inv, RetryAfterHonoured
  <2>2. CASE i = n + 1
    <3>1. n > 0 /\ timeline'[i] = e /\ timeline'[i-1] = timeline[n]
      BY <1>3, <2>2
    <3>2. timeline[n].finished + timeline[n].delay <= startedMs
      BY <3>1 DEF Inv, Spaced, Released, Entries, Finish
    <3>3. timeline[n] \in Entry
      BY <1>2, <1>3, <3>1, ElementOfSeq
    <3> QED BY <1>1, <3>1, <3>2, <3>3 DEF Inv, TypeOK, Entry
  <2> QED BY <1>3, <2>1, <2>2
<1>10. StartsInTime'
  BY <1>1, <1>3 DEF Inv, StartsInTime, Entries, Timed, Finish, deadlineMs
<1> QED BY <1>4, <1>5, <1>6, <1>7, <1>8, <1>9, <1>10 DEF Inv

LEMMA SleepKeeps == Inv /\ Sleep => Inv'
<1> SUFFICES ASSUME Inv, Sleep PROVE Inv'
  OBVIOUS
<1> USE LimitTypes
<1> DEFINE n == Len(timeline)
<1>1. Delay \in Nat
  BY DelayCapped DEF Inv, TypeOK
<1>2. timeline \in Seq(Entry) /\ n \in Nat /\ n = retriesUsed + 1 /\ n > 0
  BY DEF Inv, TypeOK, Counted, Entries, Sleep
<1>3. timeline' = [timeline EXCEPT ![n].delay = Delay]
  BY DEF Sleep
<1>4. /\ timeline' \in Seq(Entry)
      /\ Len(timeline') = n
      /\ \A i \in 1..n : /\ timeline'[i].started = timeline[i].started
                         /\ timeline'[i].finished = timeline[i].finished
                         /\ timeline'[i].code = timeline[i].code
                         /\ timeline'[i].delay = IF i = n THEN Delay ELSE timeline[i].delay
  BY <1>1, <1>2, <1>3, DelayNoted
<1>5. RateLimited' = RateLimited
  <2>1. DOMAIN timeline = 1..n /\ DOMAIN timeline' = 1..n
    BY <1>2, <1>4
  <2> QED BY <1>4, <2>1 DEF RateLimited
<1>6. TypeOK'
  BY <1>1, <1>4 DEF Inv, TypeOK, Sleep
<1>7. Counted'
  BY <1>2, <1>4 DEF Inv, TypeOK, Counted, Entries, Sleep, Retryable
<1>8. RateCounted'
  <2>1. Cardinality(RateLimited) \in Nat
    BY <1>2, RateFinite
  <2> QED BY <1>5, <2>1 DEF Inv, TypeOK, RateCounted, Sleep, Retryable
<1>9. Timed'
  <2>1. /\ finishedMs + Delay < deadlineMs /\ pc = "finishing"
        /\ pc' = "sleeping" /\ due' = now + Delay /\ now' = now
    BY DEF Sleep
  <2>2. now <= finishedMs + Slack /\ now \in Nat /\ finishedMs \in Nat
    BY <2>1 DEF Inv, TypeOK, Timed
  <2>3. due' < WallMs + Slack /\ now <= due' + Slack
    BY <1>1, <2>1, <2>2 DEF deadlineMs
  <2> QED BY <2>1, <2>3 DEF Timed, deadlineMs
<1>10. Spaced'
  BY <1>1, <1>2, <1>4 DEF Inv, TypeOK, Spaced, Released, Entries, Sleep
<1>11. RetryAfterHonoured'
  BY <1>2, <1>4 DEF Inv, RetryAfterHonoured
<1>12. StartsInTime'
  BY <1>4 DEF Inv, StartsInTime, Entries, deadlineMs
<1> QED BY <1>6, <1>7, <1>8, <1>9, <1>10, <1>11, <1>12 DEF Inv

LEMMA WakeKeeps == Inv /\ (Wake \/ Tick \/ UNCHANGED vars) => Inv'
<1> SUFFICES ASSUME Inv, Wake \/ Tick \/ UNCHANGED vars PROVE Inv'
  OBVIOUS
<1>0. UNCHANGED timeline
  BY DEF Wake, Tick, vars
<1>1. /\ timeline \in Seq(Entry) /\ Entries \in Nat
      /\ Entries > 0 => timeline[Entries] \in Entry
  <2>1. timeline \in Seq(Entry) /\ Len(timeline) \in Nat
    BY DEF Inv, TypeOK
  <2> QED BY <2>1, ElementOfSeq DEF Entries
<1> USE LimitTypes, SameTimeline
<1>2. TypeOK'
  BY DEF Inv, TypeOK, Wake, Tick, vars
<1>3. Counted'
  BY <1>0 DEF Inv, Counted, Wake, Tick, vars
<1>4. RateCounted'
  BY <1>0 DEF Inv, RateCounted, Wake, Tick, vars
<1>5. Timed'
  BY DEF Inv, TypeOK, Timed, Wake, Tick, vars, deadlineMs
<1>6. Spaced'
  <2>1. Entries > 0 => timeline[Entries].finished + timeline[Entries].delay \in Nat
    BY <1>1 DEF Entry
  <2> QED BY <1>0, <1>1, <2>1 DEF Inv, TypeOK, Spaced, Released, Entries, Wake, Tick, vars
<1> QED BY <1>0, <1>2, <1>3, <1>4, <1>5, <1>6 DEF Inv

-----------------------------------------------------------------------------
LEMMA InvHolds == Spec => []Inv
<1>1. Inv /\ [Next]_vars => Inv'
  BY StartKeeps, EndKeeps, RunKeeps, FinishKeeps, SleepKeeps, WakeKeeps DEF Next, Step
<1> QED BY InvInit, <1>1, PTL DEF Spec

(* The variables of the loop keep their types: in particular the attempt    *)
(* timer is never set to a negative budget.                                 *)
THEOREM LoopTyped == Spec => []TypeOK
<1>1. Inv => TypeOK
  BY DEF Inv
<1> QED BY <1>1, InvHolds, PTL

(* The retry budget and the single retry after a 429 answer are kept.       *)
THEOREM LoopKeepsBudget == Spec => []BudgetKept
<1>1. Inv => BudgetKept
  <2> SUFFICES ASSUME Inv PROVE BudgetKept
    OBVIOUS
  <2>1. Len(timeline) \in Nat /\ Cardinality(RateLimited) \in Nat
    BY RateFinite DEF Inv, TypeOK
  <2> QED BY <2>1, LimitTypes DEF Inv, TypeOK, Counted, RateCounted, Entries, BudgetKept
<1> QED BY <1>1, InvHolds, PTL

(* No retry starts before the delay the server asked for has passed.        *)
THEOREM LoopHonoursRetryAfter == Spec => []RetryAfterHonoured
<1>1. Inv => RetryAfterHonoured
  BY DEF Inv
<1> QED BY <1>1, InvHolds, PTL

(* No attempt starts at the deadline or later, and the loop overruns it by  *)
(* three late awaits at most, whatever the limits are.                      *)
THEOREM LoopEndsNearDeadline == Spec => []EndsNearDeadline
<1>1. Inv => EndsNearDeadline
  BY LimitTypes DEF Inv, TypeOK, StartsInTime, Entries, Timed, EndsNearDeadline, deadlineMs
<1> QED BY <1>1, InvHolds, PTL

(* The loop gives up only for the reason it states.                         *)
THEOREM LoopGivesUpForAReason == Spec => []GivesUpForAReason
<1> DEFINE Reasoned == (pc # "returned" => result = "none") /\ GivesUpForAReason
<1>1. Init => Reasoned
  BY DEF Init, GivesUpForAReason
<1>2. Inv /\ Reasoned /\ [Next]_vars => Reasoned'
  <2> SUFFICES ASSUME Inv, Reasoned, [Next]_vars PROVE Reasoned'
    OBVIOUS
  <2> USE LimitTypes
  <2>1. CASE pc' # "returned" /\ result' = result
    <3>1. pc # "returned"
      BY <2>1 DEF Next, Step, vars, Start, Run, Finish, Sleep, Wake, Tick, Expire, Return, Abandon
    <3> QED BY <2>1, <3>1 DEF GivesUpForAReason
  <2>2. CASE Expire
    BY <2>2 DEF GivesUpForAReason, Expire, deadlineMs
  <2>3. CASE Abandon
    BY <2>3 DEF GivesUpForAReason, Abandon, deadlineMs, Delay
  <2>4. CASE Return
    <3>1. result' = outcome.code /\ pc' = "returned" /\ ~Retryable
          /\ UNCHANGED <<retriesUsed, rateLimitRetries>>
      BY <2>4 DEF Return
    <3>2. outcome.code \in {"ok", "terminal", "broken", "transient", "rate_limited"}
      BY DEF Inv, TypeOK, Outcome
    <3>3. retriesUsed < Retries \/ retriesUsed = Retries
      BY DEF Inv, TypeOK, Counted
    <3>4. rateLimitRetries < 1 \/ rateLimitRetries = 1
      BY DEF Inv, TypeOK, RateCounted
    <3> QED BY <3>1, <3>2, <3>3, <3>4 DEF GivesUpForAReason, Retryable
  <2>5. CASE UNCHANGED vars
    BY <2>5 DEF vars, GivesUpForAReason, Delay, deadlineMs
  <2>6. CASE Start \/ Run \/ Sleep \/ Wake \/ Tick \/ \E o \in Outcome : Finish(o)
    <3>1. pc' # "returned" /\ result' = result
      BY <2>6 DEF Start, Run, Sleep, Wake, Tick, Finish
    <3> QED BY <2>1, <3>1
  <2> QED BY <2>2, <2>3, <2>4, <2>5, <2>6 DEF Next, Step
<1>3. Reasoned => GivesUpForAReason
  OBVIOUS
<1> QED BY <1>1, <1>2, <1>3, InvHolds, PTL DEF Spec

=============================================================================
