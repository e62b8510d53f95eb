------------------------------ MODULE RouteLoop ------------------------------
(***************************************************************************)
(* The route planner and the model route of src/src/router.mjs.  A job and *)
(* a snapshot of capabilities give a plan; the adapters of the plan that   *)
(* are eligible are run in turn, and after each run the transition table   *)
(* says whether the same adapter is tried again, the next one is, or the   *)
(* route stops with a status.                                              *)
(*                                                                         *)
(* Attempt codes that the table treats alike are one code here.            *)
(***************************************************************************)
EXTENDS Naturals, Sequences

CONSTANTS
  Registries, (* the capability snapshots a process may start with           *)
  Retries,    (* limits.retriesPerAdapter                                    *)
  Unforced    (* no forced engine                                             *)

VARIABLE route

CommandKinds == {"url", "crawl", "extract", "search"}

Network == {"core-http", "guard-proxy", "provider-managed", "none"}

Capability ==
  [id: STRING, kinds: SUBSET CommandKinds, ready: BOOLEAN, free: BOOLEAN,
   automatic: BOOLEAN, network: Network, adapter: BOOLEAN]

Job == [kind: CommandKinds, explain: BOOLEAN, rendered: BOOLEAN, cloud: BOOLEAN,
        forced: {Unforced} \cup UNION {{r[i].id : i \in DOMAIN r} : r \in Registries}]

ASSUME RouteAssumption == Retries \in Nat /\ Registries \subseteq Seq(Capability)

-----------------------------------------------------------------------------
(* candidateFor and buildRoutePlan.                                         *)
Eligible(job, c) ==
  /\ job.kind \in c.kinds /\ c.ready /\ c.free
  /\ c.network = "guard-proxy" => job.rendered
  /\ c.network = "provider-managed" => job.cloud

Planned(job, c) ==
  IF job.forced = Unforced THEN c.automatic /\ job.kind \in c.kinds ELSE c.id = job.forced

(* What is left of a sequence, in its order, at the places I: a recursive   *)
(* function, so that it can be reasoned about.                              *)
Filtered(s, I) ==
  LET kept[n \in 0..Len(s)] ==
        IF n = 0 THEN <<>>
        ELSE IF n \in I THEN Append(kept[n - 1], s[n]) ELSE kept[n - 1]
  IN kept[Len(s)]

Candidates(job, registry) ==
  Filtered(registry, {i \in DOMAIN registry : Planned(job, registry[i]) /\ Eligible(job, registry[i])})

-----------------------------------------------------------------------------
(* The kind with which an adapter must report a code.                       *)
KindOf ==
  [ok |-> "success", skipped |-> "skip", transient |-> "retryable",
   rate_limited |-> "retryable", inadequate |-> "inadequate", denied |-> "terminal",
   missing |-> "terminal", broken |-> "broken"]

Codes == DOMAIN KindOf \cup {"unknown"}

Kinds == {KindOf[c] : c \in DOMAIN KindOf}

Outcome == [kind: Kinds, code: Codes]

InContract(o) == o.code \in DOMAIN KindOf /\ KindOf[o.code] = o.kind

(* decideTransition: "same", "next", or the status of the stop.             *)
Onward(hasNext) == IF hasNext THEN "next" ELSE "exhausted"

(* Faulty: an exhausted rate limit is handed to the next adapter.           *)
TransitionAroundLimit(o, hasNext, used) ==
  IF ~InContract(o) THEN "internal_error"
  ELSE CASE o.code = "ok" -> "ok"
         [] o.code \in {"skipped", "inadequate"} -> Onward(hasNext)
         [] o.code = "transient" -> IF used < Retries THEN "same" ELSE Onward(hasNext)
         [] o.code = "rate_limited" ->
              IF used < Retries THEN "same" ELSE IF hasNext THEN "next" ELSE "blocked"
         [] o.code = "denied" -> "blocked"
         [] o.code = "missing" -> "exhausted"
         [] o.code = "broken" -> "internal_error"

(* Faulty: a broken adapter counts as one that had nothing to offer.        *)
TransitionForgiving(o, hasNext, used) ==
  IF ~InContract(o) THEN "internal_error"
  ELSE CASE o.code = "ok" -> "ok"
         [] o.code \in {"skipped", "inadequate"} -> Onward(hasNext)
         [] o.code = "transient" -> IF used < Retries THEN "same" ELSE Onward(hasNext)
         [] o.code = "rate_limited" -> IF used < Retries THEN "same" ELSE "blocked"
         [] o.code = "denied" -> "blocked"
         [] o.code \in {"missing", "broken"} -> "exhausted"

Transition(o, hasNext, used) ==
  IF ~InContract(o) THEN "internal_error"
  ELSE CASE o.code = "ok" -> "ok"
         [] o.code \in {"skipped", "inadequate"} -> Onward(hasNext)
         [] o.code = "transient" -> IF used < Retries THEN "same" ELSE Onward(hasNext)
         [] o.code = "rate_limited" -> IF used < Retries THEN "same" ELSE "blocked"
         [] o.code = "denied" -> "blocked"
         [] o.code = "missing" -> "exhausted"
         [] o.code = "broken" -> "internal_error"

-----------------------------------------------------------------------------
(* runModelRoute.  runs are the outcomes so far, with their adapter.        *)
Route ==
  [pc: {"off", "run", "sleep", "done"}, candidates: Seq(Capability), at: Nat, retries: Nat,
   runs: Seq([at: Nat, outcome: Outcome]), status: {"none", "ok", "blocked", "exhausted",
                                                    "internal_error"}]

RouteInit ==
  route = [pc |-> "off", candidates |-> <<>>, at |-> 1, retries |-> 0, runs |-> <<>>,
           status |-> "none"]

Stop(status) == [route EXCEPT !.pc = "done", !.status = status]

StartRoute(job, registry) ==
  LET candidates == Candidates(job, registry) IN
  /\ route.pc = "off"
  /\ route' = IF candidates = <<>> THEN Stop("exhausted")
              ELSE [route EXCEPT !.pc = "run", !.candidates = candidates]

(* A capability without a runnable adapter breaks the route's contract.     *)
NoAdapter ==
  /\ route.pc = "run" /\ ~route.candidates[route.at].adapter
  /\ route' = Stop("internal_error")

HasNext == route.at < Len(route.candidates)

(* Faulty: the retries of an adapter are not counted.                       *)
RunAgainFreely(o) ==
  LET said == Transition(o, HasNext, 0)
      noted == Append(route.runs, [at |-> route.at, outcome |-> o]) IN
  /\ route.pc = "run" /\ route.candidates[route.at].adapter
  /\ route' =
       CASE said = "same" -> [route EXCEPT !.pc = "sleep", !.runs = noted]
         [] said = "next" -> [route EXCEPT !.at = @ + 1, !.retries = 0, !.runs = noted]
         [] OTHER -> [Stop(said) EXCEPT !.runs = noted]

(* An adapter answers, or throws: that is a broken adapter.                 *)
RunAdapter(o) ==
  LET said == Transition(o, HasNext, route.retries)
      noted == Append(route.runs, [at |-> route.at, outcome |-> o]) IN
  /\ route.pc = "run" /\ route.candidates[route.at].adapter
  /\ route' =
       CASE said = "same" -> [route EXCEPT !.pc = "sleep", !.retries = @ + 1, !.runs = noted]
         [] said = "next" -> [route EXCEPT !.at = @ + 1, !.retries = 0, !.runs = noted]
         [] OTHER -> [Stop(said) EXCEPT !.runs = noted]

(* The delay before a retry passes, or the sleep rejects.                   *)
Slept ==
  /\ route.pc = "sleep"
  /\ route' = [route EXCEPT !.pc = "run"] \/ route' = Stop("internal_error")

RouteStep == NoAdapter \/ Slept \/ \E o \in Outcome : RunAdapter(o)

RouteNext == RouteStep \/ \E job \in Job, registry \in Registries : StartRoute(job, registry)

RouteSpec == RouteInit /\ [][RouteNext]_route

-----------------------------------------------------------------------------
(* Properties.                                                              *)

Resumable(o) ==
  InContract(o) /\ o.code \in {"skipped", "inadequate", "transient", "rate_limited"}

(* router.test.mjs:80 and 145: after a success, a denial, a missing page, a *)
(* breach of contract or a crash nothing runs any more, and a rate limit is *)
(* never walked around with another adapter.                                *)
VerdictsAreFinal ==
  \A i \in 1..(Len(route.runs) - 1) :
    LET this == route.runs[i]
        next == route.runs[i + 1] IN
    /\ Resumable(this.outcome)
    /\ this.outcome.code = "rate_limited" => next.at = this.at

(* No adapter is tried more often than its own retries allow, and the plan  *)
(* is walked in its order without leaving a candidate out.                  *)
TriesBounded ==
  LET runs == route.runs IN
  /\ \A i \in DOMAIN runs : i + Retries + 1 \in DOMAIN runs => runs[i + Retries + 1].at > runs[i].at
  /\ runs # <<>> => runs[1].at = 1
  /\ \A i \in 1..(Len(runs) - 1) : runs[i + 1].at \in {runs[i].at, runs[i].at + 1}

(* The status of a route can be read off its runs: ok needs an adapter that *)
(* succeeded within its contract, blocked one that was denied or is still   *)
(* rate limited, exhausted that every candidate has had its turn or the     *)
(* page is not there, and an internal error hides no answer of the server.  *)
StatusTells ==
  LET n == Len(route.runs)
      last == route.runs[n]
      code == last.outcome.code IN
  route.pc = "done" =>
    CASE route.status = "ok" -> n > 0 /\ InContract(last.outcome) /\ code = "ok"
      [] route.status = "blocked" ->
           n > 0 /\ InContract(last.outcome) /\ code \in {"denied", "rate_limited"}
      [] route.status = "exhausted" ->
           \/ route.candidates = <<>> /\ n = 0
           \/ /\ n > 0 /\ InContract(last.outcome)
              /\ \/ code = "missing"
                 \/ last.at = Len(route.candidates)
                    /\ code \in {"skipped", "inadequate", "transient"}
      [] route.status = "internal_error" ->
           n > 0 => ~InContract(last.outcome) \/ code = "broken" \/ Resumable(last.outcome)
      [] OTHER -> FALSE

=============================================================================
