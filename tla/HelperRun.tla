------------------------------ MODULE HelperRun ------------------------------
(***************************************************************************)
(* One run of a helper process: the supervisor of src/src/process.mjs and  *)
(* the adapters that call it (python-helper.mjs, playwright.mjs), beside   *)
(* the process group they start.                                           *)
(*                                                                         *)
(* The helper leaves a file in a scratch directory and answers one line.   *)
(* A timeout, an output that is too long and the caller's signal each ask  *)
(* for an end; the first one names the outcome and sends SIGTERM to the    *)
(* group, a grace period later comes SIGKILL, and the run goes on when     *)
(* both the pipes have closed and the grace is over.  The transforms then  *)
(* store what the file holds and remove it, whatever happened.             *)
(*                                                                         *)
(* Both the kill and the removal may fail, and both failures are           *)
(* swallowed.  The kill of a foreign group fails: a render is launched     *)
(* through sudo under a user of its own, whom only a node that runs as     *)
(* root may signal.                                                        *)
(*                                                                         *)
(* The node process may also end in between: the interruption guard of the *)
(* url command exits, or its event loop drains, since the timers of the    *)
(* supervisor do not keep it alive.  The group is detached and goes on.    *)
(***************************************************************************)
EXTENDS Naturals, Sequences

CONSTANT Nothing

VARIABLES
  call,     (* who asked for what                                           *)
  pc,       (* where the run is                                             *)
  node,     (* the node process                                             *)
  signal,   (* whether the caller's signal is aborted                       *)
  stops,    (* the requests to end it, in the order they came (history)     *)
  stop,     (* stopReason                                                   *)
  kill,     (* how far killProcessTree is                                   *)
  group,    (* the process group of the helper                              *)
  file,     (* the output file in the scratch directory                     *)
  unremoved, (* whether its removal failed (history)                        *)
  stored,   (* artifacts put into the store                                 *)
  result

vars == <<call, pc, node, signal, stops, stop, kill, group, file, unremoved, stored, result>>

nodeVars == <<pc, node, signal, stops, stop, kill, unremoved, stored, result>>

(* The url command parses without a signal, under its interruption guard;   *)
(* pages of a crawl and extractions hand theirs on, and so does a render.   *)
Calls ==
  {[operation |-> "parse_html", listens |-> FALSE, guarded |-> TRUE, foreign |-> FALSE],
   [operation |-> "parse_html", listens |-> TRUE, guarded |-> FALSE, foreign |-> FALSE],
   [operation |-> "extract_schema", listens |-> TRUE, guarded |-> FALSE, foreign |-> FALSE],
   [operation |-> "self_check", listens |-> FALSE, guarded |-> FALSE, foreign |-> FALSE],
   [operation |-> "render", listens |-> TRUE, guarded |-> FALSE, foreign |-> FALSE],
   [operation |-> "render", listens |-> TRUE, guarded |-> FALSE, foreign |-> TRUE]}

(* The objects an operation stores: markdown, text, metadata, links and     *)
(* JSON-LD, or the extracted value.                                         *)
Artifacts == [parse_html |-> 5, extract_schema |-> 1, self_check |-> 0, render |-> 0]

Transforms == {"parse_html", "extract_schema"}

Stops == {"timeout", "aborted", "oversized"}

Outcome(kind, code) == [kind |-> kind, code |-> code]

Success == Outcome("success", "ok")
Protocol == Outcome("broken", "adapter_protocol_error")
Crashed == Outcome("broken", "adapter_crash")
Unavailable == Outcome("skip", "unavailable")

(* mapHelperFailure, by the code the helper refuses with.                   *)
HelperFailure ==
  [dependency_unavailable |-> Unavailable,
   unsupported |-> Outcome("skip", "unsupported"),
   required_fields_missing |-> Outcome("inadequate", "parse_failed"),
   parse_failed |-> Outcome("inadequate", "parse_failed"),
   hash_mismatch |-> Outcome("broken", "hash_mismatch"),
   adapter_error |-> Protocol]

(* render_failed is the browser's only refusal that is worth a retry.       *)
RenderFailed == Outcome("retryable", "network")

Refusals == DOMAIN HelperFailure \cup {"render_failed"}

(* What the leader has written to stdout.                                   *)
Sayings == {"nothing", "answer", "junk", "flood"} \cup Refusals

(* terminate: what a stopped run comes to.                                  *)
Stopped(reason) == IF reason = "oversized" THEN Protocol ELSE Outcome("retryable", reason)

Outcomes ==
  {HelperFailure[r] : r \in DOMAIN HelperFailure} \cup {Stopped(r) : r \in Stops}
    \cup {Success, Crashed, RenderFailed}

ASSUME NothingAssumption == Nothing \notin Stops /\ Nothing \notin Outcomes

Group ==
  [leader: {"none", "alive", "exited"}, clean: BOOLEAN,     (* exit code 0 *)
   said: Sayings,
   rest: BOOLEAN, pipes: BOOLEAN]    (* descendants, and whether they hold the pipes *)

Alive == group.leader = "alive" \/ group.rest

-----------------------------------------------------------------------------
Init ==
  /\ call \in Calls
  /\ pc = IF call.operation \in Transforms THEN "input" ELSE "spawn"
  /\ node = "up" /\ signal = FALSE
  /\ stops = <<>> /\ stop = Nothing /\ kill = "none"
  /\ group = [leader |-> "none", clean |-> FALSE, said |-> "nothing", rest |-> FALSE, pipes |-> FALSE]
  /\ file = "none" /\ unremoved = FALSE /\ stored = 0 /\ result = Nothing

(* The guard has begun to finalize but node still runs.                     *)
Running == node \in {"up", "interrupting"}

(* The supervisor's or the adapter's outcome: only the transforms have a    *)
(* file to remove.                                                          *)
Finish(outcome) ==
  /\ result' = outcome
  /\ pc' = IF call.operation \in Transforms THEN "remove" ELSE "returned"

Asked(reason) == \E i \in DOMAIN stops : stops[i] = reason

(* killProcessTree: it begins with a SIGTERM, once, unless there is no child *)
(* to send it to.                                                           *)
KillTree ==
  IF kill # "none" THEN kill ELSE IF group.leader = "none" THEN "done" ELSE "term"

(* Faulty: the last reason to end the run names the outcome.                *)
TerminateLast(reason) ==
  /\ stops' = Append(stops, reason)
  /\ stop' = reason
  /\ kill' = KillTree

(* terminate: the first reason stays, and one killProcessTree serves all.   *)
Terminate(reason) ==
  /\ stops' = Append(stops, reason)
  /\ stop' = IF stop = Nothing THEN reason ELSE stop
  /\ kill' = KillTree

(* runHelper, up to the supervisor: the stored input is verified and the    *)
(* scratch directory made, or there is nothing to clean up yet.             *)
Input ==
  /\ Running /\ pc = "input"
  /\ \/ pc' = "spawn" /\ UNCHANGED result
     \/ /\ pc' = "returned"
        /\ result' \in {Protocol, Unavailable, HelperFailure.hash_mismatch}
  /\ UNCHANGED <<call, node, signal, stops, stop, kill, group, file, unremoved, stored>>

(* run, up to its wait: the request and its paths are checked, an aborted   *)
(* signal starts nothing, and the executable may be missing or refused: at  *)
(* once, or as an 'error' of a child that never was and still has to close. *)
Spawn ==
  /\ Running /\ pc = "spawn"
  /\ IF call.listens /\ signal
     THEN /\ Finish(Stopped("aborted"))
          /\ UNCHANGED group
     ELSE \/ /\ \E outcome \in {Protocol, Unavailable, Crashed} : Finish(outcome)
             /\ UNCHANGED group
          \/ /\ pc' = "running"
             /\ group' \in {group, [group EXCEPT !.leader = "alive"]}
             /\ UNCHANGED result
  /\ UNCHANGED <<call, node, signal, stops, stop, kill, file, unremoved, stored>>

(* While the child has not closed, its timer and its output can end it.     *)
Ends(reason) ==
  /\ Running /\ pc = "running"
  /\ ~Asked(reason)
  /\ Terminate(reason)
  /\ UNCHANGED <<call, pc, node, group, file, unremoved, stored, result>>

(* Faulty: the timer is cleared as soon as the helper answers.              *)
TimeoutUntilAnswer == group.said = "nothing" /\ Ends("timeout") /\ UNCHANGED signal

Timeout == Ends("timeout") /\ UNCHANGED signal

Overflow == group.said = "flood" /\ Ends("oversized") /\ UNCHANGED signal

(* The caller gives up; only a running child is listening.                  *)
Abort ==
  /\ Running /\ call.listens /\ ~signal
  /\ signal' = TRUE
  /\ IF pc = "running"
     THEN Terminate("aborted")
     ELSE UNCHANGED <<stops, stop, kill>>
  /\ UNCHANGED <<call, pc, node, group, file, unremoved, stored, result>>

(* defaultKillProcessTree, after the grace: SIGKILL to the group, which a   *)
(* foreign one survives.                                                    *)
Grace ==
  /\ Running /\ kill = "term"
  /\ kill' = "done"
  /\ group' = IF call.foreign THEN group
              ELSE [group EXCEPT !.leader = "exited", !.rest = FALSE, !.pipes = FALSE]
  /\ UNCHANGED <<call, pc, node, signal, stops, stop, file, unremoved, stored, result>>

(* 'close': the leader is gone, if there was one, and its pipes are read to *)
(* their end.                                                               *)
Close ==
  /\ Running /\ pc = "running"
  /\ group.leader # "alive" /\ ~group.pipes
  /\ group.said = "flood" => Asked("oversized")
  /\ pc' = "closed"
  /\ UNCHANGED <<call, node, signal, stops, stop, kill, group, file, unremoved, stored, result>>

(* mapHelperFailure, or the browser adapter's look at a refusal.            *)
Refused ==
  CASE call.operation = "render" -> IF group.said = "render_failed" THEN RenderFailed ELSE Protocol
    [] group.said \in DOMAIN HelperFailure -> HelperFailure[group.said]
    [] OTHER -> Protocol

(* The outcome, by precedence: a child that never was, the stop, the exit   *)
(* code, the response, which may be badly framed or name another file, and  *)
(* for the transforms a file.                                               *)
NeverStarted == group.leader = "none"

Ended == ~NeverStarted /\ stop = Nothing

Conclude ==
  \/ NeverStarted /\ \E outcome \in {Unavailable, Crashed} : Finish(outcome)
  \/ ~NeverStarted /\ stop # Nothing /\ Finish(Stopped(stop))
  \/ Ended /\ ~group.clean /\ Finish(Crashed)
  \/ Ended /\ group.clean /\ group.said \in Refusals /\ Finish(Refused)
  \/ Ended /\ group.clean /\ group.said \notin Refusals /\ Finish(Protocol)
  \/ /\ Ended /\ group.clean /\ group.said = "answer"
     /\ IF call.operation \in Transforms
        THEN pc' = "store" /\ UNCHANGED result
        ELSE Finish(Success)

(* Faulty: the run does not wait for the group to be killed.                *)
SettleAtOnce ==
  /\ Running /\ pc = "closed"
  /\ Conclude
  /\ UNCHANGED <<call, node, signal, stops, stop, kill, group, file, unremoved, stored>>

(* run, after its wait: a run that was stopped waits for the grace as well. *)
Settle ==
  /\ Running /\ pc = "closed" /\ kill # "term"
  /\ Conclude
  /\ UNCHANGED <<call, node, signal, stops, stop, kill, group, file, unremoved, stored>>

(* Faulty: the file is only removed when the transform succeeds.            *)
CleanupOfSuccess ==
  /\ Running /\ pc = "remove"
  /\ file' = IF result = Success THEN "none" ELSE file
  /\ pc' = "returned"
  /\ UNCHANGED <<unremoved, call, node, signal, stops, stop, kill, group, stored, result>>

(* parseHtml and extractSchema: the file is read and checked, then one      *)
(* object after the other is put.                                           *)
Store ==
  /\ Running /\ pc = "store"
  /\ \/ stored < Artifacts[call.operation] /\ file = "whole"
        /\ stored' = stored + 1 /\ UNCHANGED <<pc, result>>
     \/ stored = Artifacts[call.operation] /\ Finish(Success) /\ UNCHANGED stored
     \/ Finish(Protocol) /\ UNCHANGED stored
     \/ /\ call.operation = "extract_schema" /\ stored = 0
        /\ Finish(HelperFailure.required_fields_missing) /\ UNCHANGED stored
  /\ UNCHANGED <<call, node, signal, stops, stop, kill, group, file, unremoved>>

(* The finally of both: rm of the output path, if it is there.  That it     *)
(* fails is told nobody.                                                    *)
Cleanup ==
  /\ Running /\ pc = "remove"
  /\ pc' = "returned"
  /\ \/ file' = "none" /\ UNCHANGED unremoved
     \/ unremoved' = TRUE /\ UNCHANGED file
  /\ UNCHANGED <<call, node, signal, stops, stop, kill, group, stored, result>>

-----------------------------------------------------------------------------
(* The node process.                                                        *)

(* finalize of the interruption guard: it claims the run and aborts its own *)
(* controller, which this run does not listen to; the pipeline goes on      *)
(* until the guard, with its line and its manifest written, exits.          *)
Interrupt ==
  /\ node = "up" /\ call.guarded /\ pc # "returned"
  /\ node' = "interrupting" /\ signal' = TRUE
  /\ UNCHANGED <<call, pc, stops, stop, kill, group, file, unremoved, stored, result>>

Exit ==
  /\ node = "interrupting"
  /\ node' = "interrupted"
  /\ UNCHANGED <<call, pc, signal, stops, stop, kill, group, file, unremoved, stored, result>>

(* In the grace after a close only an unref'd timer is left of this run: if *)
(* nothing else keeps the event loop alive, node ends with the run pending. *)
LoopDrains ==
  /\ Running /\ pc = "closed" /\ kill = "term"
  /\ node' = "drained"
  /\ UNCHANGED <<call, pc, signal, stops, stop, kill, group, file, unremoved, stored, result>>

-----------------------------------------------------------------------------
(* The process group, whatever becomes of node.                             *)

(* write_output of the helper creates the file, then fills it; the browser  *)
(* renames a finished one.                                                  *)
Write ==
  /\ group.leader = "alive" /\ group.said = "nothing" /\ call.operation # "self_check"
  /\ \/ file = "none" /\ call.operation \in Transforms /\ file' = "partial"
     \/ file = "partial" /\ file' = "whole"
     \/ file = "none" /\ call.operation = "render" /\ file' = "whole"
  /\ UNCHANGED <<call, nodeVars, group>>

(* One line, as handle or render returns it, or what a library prints.      *)
Say(line) ==
  /\ group.leader = "alive" /\ group.said = "nothing"
  /\ line = "answer" => file = "whole" \/ call.operation = "self_check"
  /\ line \in Refusals => file = "none"
  /\ line = "render_failed" => call.operation = "render"
  /\ group' = [group EXCEPT !.said = line]
  /\ UNCHANGED <<call, nodeVars, file>>

(* The leader ends, by itself or by a signal; a clean end is one that       *)
(* answered.                                                                *)
LeaderEnds(clean) ==
  /\ group.leader = "alive"
  /\ clean => group.said # "nothing"
  /\ group' = [group EXCEPT !.leader = "exited", !.clean = clean]
  /\ UNCHANGED <<call, nodeVars, file>>

(* A browser starts processes of its own, which may inherit the pipes.      *)
Fork(pipes) ==
  /\ group.leader = "alive" /\ call.operation = "render" /\ ~group.rest
  /\ group' = [group EXCEPT !.rest = TRUE, !.pipes = pipes]
  /\ UNCHANGED <<call, nodeVars, file>>

RestEnds ==
  /\ group.rest
  /\ group' = [group EXCEPT !.rest = FALSE, !.pipes = FALSE]
  /\ UNCHANGED <<call, nodeVars, file>>

-----------------------------------------------------------------------------
NodeStep ==
  \/ Input \/ Spawn \/ Timeout \/ Overflow \/ Abort \/ Grace \/ Close \/ Settle \/ Store \/ Cleanup

Next ==
  \/ NodeStep
  \/ Interrupt \/ Exit \/ LoopDrains
  \/ Write \/ RestEnds
  \/ \E line \in Sayings \ {"nothing"} : Say(line)
  \/ \E clean \in BOOLEAN : LeaderEnds(clean)
  \/ \E pipes \in BOOLEAN : Fork(pipes)

Spec == Init /\ [][Next]_vars

(* Node runs what is due while its loop lives; the helper owes nothing.     *)
FairSpec ==
  /\ Spec
  /\ WF_vars(Input) /\ WF_vars(Spawn) /\ WF_vars(Timeout) /\ WF_vars(Overflow)
  /\ WF_vars(Grace) /\ WF_vars(Close) /\ WF_vars(Settle) /\ WF_vars(Store) /\ WF_vars(Cleanup)
  /\ WF_vars(Exit)

-----------------------------------------------------------------------------
(* Properties.                                                              *)

TypeOK ==
  /\ call \in Calls
  /\ pc \in {"input", "spawn", "running", "closed", "store", "remove", "returned"}
  /\ node \in {"up", "interrupting", "interrupted", "drained"}
  /\ signal \in BOOLEAN
  /\ stops \in Seq(Stops)
  /\ stop \in Stops \cup {Nothing}
  /\ kill \in {"none", "term", "done"}
  /\ group \in Group
  /\ file \in {"none", "partial", "whole"} /\ unremoved \in BOOLEAN
  /\ stored \in 0..Artifacts[call.operation]
  /\ result \in Outcomes \cup {Nothing}

Returned == pc = "returned"

(* process.mjs:324-328 waits for the close and for the kill: no run returns *)
(* while its leader lives or anyone holds its pipes, and when a run that    *)
(* was stopped returns, nothing of a group that node may signal is left to  *)
(* write a file or hold a port.  (Of a foreign group a process that gave up *)
(* the pipes may be left.)  And a caller that has given up is not left with *)
(* a helper it did not know of: whenever the abort comes, its kill has      *)
(* begun or it never starts.                                                *)
StoppedMeansDead ==
  /\ Returned => group.leader # "alive" /\ ~group.pipes
  /\ Returned /\ stops # <<>> /\ ~call.foreign => ~Alive
  /\ call.listens /\ signal /\ Running /\ group.leader = "alive" => kill # "none"

(* However a transform ends, stopped halfway through its file, crashed,     *)
(* refused or with a store that fails, nothing of it stays in the scratch   *)
(* directory, but for a file whose removal failed, and nobody is left to    *)
(* put it there again.                                                      *)
ScratchCleared ==
  Returned /\ call.operation \in Transforms =>
    (file = "none" \/ unremoved) /\ group.leader # "alive"

(* The outcome names the first reason to end the run, although others came  *)
(* in the grace and the helper may have answered meanwhile, unless no       *)
(* helper was there to stop; a success means that it answered, ended well,  *)
(* was never stopped, and that every artifact is stored.                    *)
OutcomeTellsWhatHappened ==
  /\ TypeOK
  /\ Returned =>
       /\ stops # <<>> => IF NeverStarted THEN result \in {Unavailable, Crashed}
                                          ELSE result = Stopped(Head(stops))
       /\ result = Success =>
            stops = <<>> /\ group.clean /\ group.said = "answer" /\ stored = Artifacts[call.operation]

(* Every run returns, although the helper may hang, flood or ignore         *)
(* SIGTERM, unless node itself ends, or the kill was refused and a foreign  *)
(* group hangs on for ever: no later timer ends the wait of such a render.  *)
HangsOn ==
  /\ call.foreign /\ kill = "done" /\ pc = "running"
  /\ group.leader = "alive" \/ group.pipes

EveryRunReturns == pc = "running" ~> Returned \/ ~Running \/ []HangsOn

=============================================================================
