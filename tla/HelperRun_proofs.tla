-------------------------- MODULE HelperRun_proofs --------------------------
(***************************************************************************)
(* What a helper run that has returned leaves behind: no live process of a *)
(* stopped group that node may signal, no file in the scratch directory    *)
(* but one whose removal failed, an outcome that says what happened.  The  *)
(* invariant goes through the run by its pc: before the child there is     *)
(* nothing of it, while it runs a stop has its reason and its kill, after  *)
(* it the grace is over, and what the outcome was made of no longer        *)
(* changes.                                                                *)
(***************************************************************************)
EXTENDS HelperRun, TLAPS

(* A stop, its first request and its kill come together.                    *)
StopAgrees ==
  /\ stop = Nothing <=> stops = <<>>
  /\ stop = Nothing <=> kill = "none"
  /\ stops # <<>> => stop = stops[1]

(* Only while a run waits for it can its leader be alive or hold its pipes; *)
(* a kill that is over has ended what node may signal.                      *)
GroupFits ==
  /\ group.leader = "alive" \/ group.pipes => pc = "running"
  /\ kill = "done" /\ ~call.foreign => group.leader # "alive" /\ ~group.rest
  /\ group.leader = "none" => ~group.rest /\ ~group.pipes /\ kill # "term"
  /\ pc \in {"input", "spawn"} =>
       group.leader = "none" /\ ~group.rest /\ stops = <<>> /\ file = "none" /\ stored = 0
  /\ pc = "input" => call.operation \in Transforms

(* Nobody listens to the signal that aborts and goes on unkilled.           *)
SignalFits == call.listens /\ signal /\ pc = "running" => kill # "none"

(* After the wait the grace is over and the outcome is what it was.         *)
Settled ==
  /\ pc \in {"store", "remove", "returned"} => kill # "term"
  /\ pc = "store" => stop = Nothing /\ group.clean /\ group.said = "answer"
  /\ pc \in {"remove", "returned"} /\ stop # Nothing =>
       IF NeverStarted THEN result \in {Unavailable, Crashed} ELSE result = Stopped(stop)
  /\ result = Success =>
       /\ pc \in {"remove", "returned"} /\ stop = Nothing
       /\ group.clean /\ group.said = "answer" /\ stored = Artifacts[call.operation]
  /\ pc = "returned" /\ call.operation \in Transforms => file = "none" \/ unremoved

HInv == TypeOK /\ StopAgrees /\ GroupFits /\ SignalFits /\ Settled

-----------------------------------------------------------------------------
(* The outcomes tell success and stops from all the others.                 *)
LEMMA OutcomesDiffer ==
  /\ {Success, Protocol, Crashed, Unavailable, RenderFailed} \subseteq Outcomes
  /\ \A r \in DOMAIN HelperFailure : HelperFailure[r] \in Outcomes /\ HelperFailure[r] # Success
  /\ \A r \in Stops : Stopped(r) \in Outcomes /\ Stopped(r) # Success
  /\ Success \notin {Protocol, Crashed, Unavailable, RenderFailed, Nothing}
<1>1. DOMAIN HelperFailure = {"dependency_unavailable", "unsupported", "required_fields_missing",
                              "parse_failed", "hash_mismatch", "adapter_error"}
  BY DEF HelperFailure
<1>2. /\ HelperFailure["dependency_unavailable"] = Unavailable
      /\ HelperFailure["unsupported"] = Outcome("skip", "unsupported")
      /\ HelperFailure["required_fields_missing"] = Outcome("inadequate", "parse_failed")
      /\ HelperFailure["parse_failed"] = Outcome("inadequate", "parse_failed")
      /\ HelperFailure["hash_mismatch"] = Outcome("broken", "hash_mismatch")
      /\ HelperFailure["adapter_error"] = Protocol
  BY DEF HelperFailure
<1>3. \A kind, code : Outcome(kind, code) = Success => kind = "success"
  BY DEF Outcome, Success
<1>4. \A r \in DOMAIN HelperFailure : HelperFailure[r] # Success
  BY <1>1, <1>2, <1>3 DEF Unavailable, Protocol
<1>5. \A r \in Stops : Stopped(r) # Success
  BY <1>3 DEF Stopped, Protocol
<1>6. /\ \A r \in DOMAIN HelperFailure : HelperFailure[r] \in Outcomes
      /\ \A r \in Stops : Stopped(r) \in Outcomes
      /\ Success \in Outcomes /\ Crashed \in Outcomes /\ RenderFailed \in Outcomes
  BY DEF Outcomes
<1>7. Protocol \in Outcomes /\ Unavailable \in Outcomes
  BY <1>1, <1>2, <1>6
<1>8. Success \notin {Protocol, Crashed, Unavailable, RenderFailed, Nothing}
  BY <1>3, <1>6, NothingAssumption DEF Protocol, Crashed, Unavailable, RenderFailed
<1> QED
  BY <1>4, <1>5, <1>6, <1>7, <1>8

LEMMA InitHInv == Init => HInv
<1> SUFFICES ASSUME Init PROVE HInv
  OBVIOUS
<1>1. group \in Group
  BY DEF Init, Group, Sayings
<1>2. call.operation \in {"parse_html", "extract_schema", "self_check", "render"}
  BY DEF Init, Calls
<1>3. Artifacts[call.operation] \in Nat
  BY <1>2 DEF Artifacts
<1>31. pc \in {"input", "spawn"} /\ 0 \in 0..Artifacts[call.operation] /\ stops \in Seq(Stops)
  BY <1>3 DEF Init
<1>4. TypeOK
  BY <1>1, <1>31 DEF Init, TypeOK
<1>5. StopAgrees /\ GroupFits /\ SignalFits
  BY DEF Init, StopAgrees, GroupFits, SignalFits
<1>6. Settled
  BY OutcomesDiffer DEF Init, Settled
<1> QED
  BY <1>4, <1>5, <1>6 DEF HInv

(* What a run comes to when its child has closed.                           *)
LEMMA ConcludeDoes ==
  ASSUME HInv, Conclude
  PROVE  \/ /\ pc' = "store" /\ result' = result
            /\ stop = Nothing /\ group.clean /\ group.said = "answer"
         \/ /\ pc' \in {"remove", "returned"} /\ result' \in Outcomes
            /\ call.operation \in Transforms => pc' = "remove"
            /\ stop # Nothing =>
                 IF NeverStarted THEN result' \in {Unavailable, Crashed} ELSE result' = Stopped(stop)
            /\ result' = Success => /\ stop = Nothing /\ group.clean /\ group.said = "answer"
                                    /\ call.operation \notin Transforms
<1>1. CASE ~NeverStarted /\ stop # Nothing
  BY <1>1, OutcomesDiffer DEF HInv, TypeOK, Conclude, Finish, Ended
<1>2. ASSUME NEW outcome \in {Crashed, Protocol, Unavailable, Refused}, Finish(outcome)
      PROVE  pc' \in {"remove", "returned"} /\ result' \in Outcomes /\ result' # Success
             /\ (call.operation \in Transforms => pc' = "remove")
  <2>1. Refused \in Outcomes /\ Refused # Success
    BY OutcomesDiffer DEF Refused
  <2> QED
    BY <1>2, <2>1, OutcomesDiffer DEF Finish
<1>3. CASE NeverStarted
  <2>1. PICK outcome \in {Unavailable, Crashed} : Finish(outcome)
    BY <1>3 DEF Conclude, Ended
  <2>2. result' = outcome
    BY <2>1 DEF Finish
  <2> QED
    BY <1>2, <1>3, <2>1, <2>2
<1>4. CASE Ended /\ \E outcome \in {Crashed, Protocol, Refused} : Finish(outcome)
  BY <1>2, <1>4 DEF Ended
<1>5. CASE /\ Ended /\ group.clean /\ group.said = "answer"
           /\ IF call.operation \in Transforms THEN pc' = "store" /\ UNCHANGED result
                                              ELSE Finish(Success)
  BY <1>5, OutcomesDiffer DEF Finish, Ended
<1> QED
  BY <1>1, <1>3, <1>4, <1>5 DEF Conclude

LEMMA Sizes ==
  ASSUME HInv
  PROVE  /\ Artifacts[call.operation] \in Nat /\ stored \in Nat
         /\ call.operation \notin Transforms => Artifacts[call.operation] = 0
         /\ call.guarded => ~call.listens
<1>1. /\ call.operation \in {"parse_html", "extract_schema", "self_check", "render"}
      /\ call.guarded => ~call.listens
  BY DEF HInv, TypeOK, Calls
<1>2. /\ Artifacts["parse_html"] = 5 /\ Artifacts["extract_schema"] = 1
      /\ Artifacts["self_check"] = 0 /\ Artifacts["render"] = 0
  BY DEF Artifacts
<1> QED
  BY <1>1, <1>2 DEF HInv, TypeOK, Transforms

LEMMA InputKeeps ==
  ASSUME HInv, Input
  PROVE  HInv'
<1>1. /\ \/ pc' = "spawn" /\ result' = result
         \/ /\ pc' = "returned" /\ result' \in Outcomes
            /\ result' # Success
      /\ pc = "input" /\ UNCHANGED <<call, node, signal, stops, stop, kill, group, file, unremoved, stored>>
  BY OutcomesDiffer DEF Input, HelperFailure
<1>2. TypeOK'
  BY <1>1 DEF HInv, TypeOK
<1>3. StopAgrees' /\ GroupFits' /\ SignalFits'
  BY <1>1 DEF HInv, StopAgrees, GroupFits, SignalFits
<1>4. Settled'
  BY <1>1 DEF HInv, StopAgrees, GroupFits, Settled, NeverStarted
<1> QED
  BY <1>2, <1>3, <1>4 DEF HInv

LEMMA SpawnKeeps ==
  ASSUME HInv, Spawn
  PROVE  HInv'
<1>1. /\ \/ /\ pc' \in {"remove", "returned"} /\ result' \in Outcomes /\ result' # Success
            /\ call.operation \in Transforms => pc' = "remove"
            /\ group' = group
         \/ /\ pc' = "running" /\ group' \in {group, [group EXCEPT !.leader = "alive"]}
            /\ result' = result /\ ~(call.listens /\ signal)
      /\ pc = "spawn" /\ UNCHANGED <<call, node, signal, stops, stop, kill, file, unremoved, stored>>
  BY OutcomesDiffer DEF Spawn, Finish, Stops
<1>2. group' \in Group
  BY <1>1 DEF HInv, TypeOK, Group
<1>3. TypeOK'
  BY <1>1, <1>2 DEF HInv, TypeOK
<1>4. StopAgrees' /\ SignalFits'
  BY <1>1 DEF HInv, StopAgrees, SignalFits
<1>5. GroupFits'
  BY <1>1 DEF HInv, TypeOK, StopAgrees, GroupFits, Group
<1>6. Settled'
  BY <1>1 DEF HInv, StopAgrees, GroupFits, Settled, NeverStarted
<1> QED
  BY <1>3, <1>4, <1>5, <1>6 DEF HInv

LEMMA StopKeeps ==
  ASSUME HInv, Timeout \/ Overflow \/ Abort
  PROVE  HInv'
<1>1. /\ UNCHANGED <<call, pc, node, group, file, unremoved, stored, result>>
      /\ signal' \in BOOLEAN
      /\ \/ pc = "running" /\ \E reason \in Stops : Terminate(reason)
         \/ pc # "running" /\ UNCHANGED <<stops, stop, kill>>
  BY DEF Timeout, Overflow, Ends, Abort, Stops, HInv, TypeOK
<1>2. CASE pc # "running" /\ UNCHANGED <<stops, stop, kill>>
  BY <1>1, <1>2 DEF HInv, TypeOK, StopAgrees, GroupFits, SignalFits, Settled, NeverStarted
<1>3. ASSUME pc = "running", NEW reason \in Stops, Terminate(reason) PROVE HInv'
  <2>1. stops \in Seq(Stops) /\ stop \in Stops \cup {Nothing}
    BY DEF HInv, TypeOK
  <2>2. /\ stops' = Append(stops, reason) /\ stops' \in Seq(Stops) /\ stops' # <<>>
        /\ stops # <<>> => stops'[1] = stops[1]
        /\ stops = <<>> => stops'[1] = reason
    BY <1>3, <2>1 DEF Terminate
  <2>3. /\ stop' = (IF stop = Nothing THEN reason ELSE stop)
        /\ kill' = (IF kill # "none" THEN kill ELSE IF group.leader = "none" THEN "done" ELSE "term")
        /\ stop' \in Stops /\ stop' # Nothing
    BY <1>3, <2>1, NothingAssumption DEF Terminate, KillTree
  <2>4. TypeOK'
    BY <1>1, <2>2, <2>3 DEF HInv, TypeOK
  <2>5. StopAgrees'
    BY <2>1, <2>2, <2>3 DEF HInv, StopAgrees
  <2>6. GroupFits' /\ SignalFits' /\ Settled'
    BY <1>1, <1>3, <2>3 DEF HInv, GroupFits, SignalFits, Settled, NeverStarted
  <2> QED
    BY <2>4, <2>5, <2>6 DEF HInv
<1> QED
  BY <1>1, <1>2, <1>3

LEMMA GraceKeeps ==
  ASSUME HInv, Grace
  PROVE  HInv'
<1>1. /\ kill = "term" /\ kill' = "done" /\ group.leader # "none"
      /\ UNCHANGED <<call, pc, node, signal, stops, stop, file, unremoved, stored, result>>
  BY DEF Grace, HInv, GroupFits
<1>2. /\ group' \in Group /\ group'.leader # "none"
      /\ \/ group' = group
         \/ group'.leader # "alive" /\ ~group'.rest /\ ~group'.pipes
      /\ ~call.foreign => group'.leader # "alive" /\ ~group'.rest
      /\ group'.clean = group.clean /\ group'.said = group.said
  BY <1>1 DEF HInv, TypeOK, Grace, Group
<1>3. TypeOK'
  BY <1>1, <1>2 DEF HInv, TypeOK
<1>4. StopAgrees' /\ GroupFits' /\ SignalFits'
  BY <1>1, <1>2 DEF HInv, StopAgrees, GroupFits, SignalFits
<1>5. Settled'
  BY <1>1, <1>2 DEF HInv, Settled, NeverStarted
<1> QED
  BY <1>3, <1>4, <1>5 DEF HInv

LEMMA CloseKeeps ==
  ASSUME HInv, Close
  PROVE  HInv'
<1>1. /\ pc = "running" /\ pc' = "closed" /\ group.leader # "alive" /\ ~group.pipes
      /\ UNCHANGED <<call, node, signal, stops, stop, kill, group, file, unremoved, stored, result>>
  BY DEF Close
<1>2. TypeOK'
  BY <1>1 DEF HInv, TypeOK
<1>3. StopAgrees' /\ GroupFits' /\ SignalFits' /\ Settled'
  BY <1>1 DEF HInv, StopAgrees, GroupFits, SignalFits, Settled, NeverStarted
<1> QED
  BY <1>2, <1>3 DEF HInv

LEMMA StoreKeeps ==
  ASSUME HInv, Store
  PROVE  HInv'
<1>1. /\ pc = "store" /\ UNCHANGED <<call, node, signal, stops, stop, kill, group, file, unremoved>>
      /\ \/ /\ pc' = pc /\ result' = result
            /\ stored < Artifacts[call.operation] /\ stored' = stored + 1
         \/ /\ pc' \in {"remove", "returned"} /\ result' \in Outcomes /\ stored' = stored
            /\ call.operation \in Transforms => pc' = "remove"
            /\ result' = Success => stored = Artifacts[call.operation]
  BY OutcomesDiffer DEF Store, Finish, HelperFailure
<1>2. stored' \in 0..Artifacts[call.operation]
  BY <1>1, Sizes DEF HInv, TypeOK
<1>3. TypeOK'
  BY <1>1, <1>2 DEF HInv, TypeOK
<1>4. StopAgrees' /\ GroupFits' /\ SignalFits'
  BY <1>1 DEF HInv, StopAgrees, GroupFits, SignalFits
<1>5. Settled'
  BY <1>1 DEF HInv, Settled, NeverStarted
<1> QED
  BY <1>3, <1>4, <1>5 DEF HInv

LEMMA CleanupKeeps ==
  ASSUME HInv, Cleanup
  PROVE  HInv'
<1>1. /\ pc = "remove" /\ pc' = "returned" /\ file' \in {"none", file}
      /\ (file' = "none" \/ unremoved') /\ unremoved' \in BOOLEAN
      /\ UNCHANGED <<call, node, signal, stops, stop, kill, group, stored, result>>
  BY DEF Cleanup, HInv, TypeOK
<1>2. TypeOK'
  BY <1>1 DEF HInv, TypeOK
<1>3. StopAgrees' /\ GroupFits' /\ SignalFits' /\ Settled'
  BY <1>1 DEF HInv, StopAgrees, GroupFits, SignalFits, Settled, NeverStarted
<1> QED
  BY <1>2, <1>3 DEF HInv

(* The signal of the guard is one that its run does not listen to.          *)
LEMMA NodeKeeps ==
  ASSUME HInv, Interrupt \/ Exit \/ LoopDrains
  PROVE  HInv'
<1>1. /\ UNCHANGED <<call, pc, stops, stop, kill, group, file, unremoved, stored, result>>
      /\ node' \in {"up", "interrupting", "interrupted", "drained"} /\ signal' \in BOOLEAN
      /\ signal' = signal \/ call.guarded
  BY DEF HInv, TypeOK, Interrupt, Exit, LoopDrains
<1>2. TypeOK'
  BY <1>1 DEF HInv, TypeOK
<1>3. StopAgrees' /\ GroupFits' /\ Settled'
  BY <1>1 DEF HInv, StopAgrees, GroupFits, Settled, NeverStarted
<1>4. SignalFits'
  BY <1>1, Sizes DEF HInv, SignalFits
<1> QED
  BY <1>2, <1>3, <1>4 DEF HInv

LEMMA SettleKeeps ==
  ASSUME HInv, Settle
  PROVE  HInv'
<1>1. /\ pc = "closed" /\ kill # "term" /\ Conclude
      /\ UNCHANGED <<call, node, signal, stops, stop, kill, group, file, unremoved, stored>>
  BY DEF Settle
<1>2. stored \in 0..Artifacts[call.operation] /\ result # Success
  BY <1>1 DEF HInv, TypeOK, Settled
<1>3. TypeOK'
  BY <1>1, <1>2, ConcludeDoes DEF HInv, TypeOK
<1>4. StopAgrees' /\ GroupFits' /\ SignalFits'
  BY <1>1, ConcludeDoes DEF HInv, StopAgrees, GroupFits, SignalFits
<1>5. Settled'
  BY <1>1, <1>2, ConcludeDoes, Sizes DEF HInv, Settled, NeverStarted
<1> QED
  BY <1>3, <1>4, <1>5 DEF HInv

(* The group changes its file and itself, and only while the run waits, or  *)
(* when its leader is no longer there to matter.                            *)
LEMMA GroupKeeps ==
  ASSUME HInv,
         \/ Write \/ RestEnds
         \/ \E line \in Sayings \ {"nothing"} : Say(line)
         \/ \E clean \in BOOLEAN : LeaderEnds(clean)
         \/ \E pipes \in BOOLEAN : Fork(pipes)
  PROVE  HInv'
<1>1. UNCHANGED <<call, pc, node, signal, stops, stop, kill, unremoved, stored, result>>
  BY DEF Write, RestEnds, Say, LeaderEnds, Fork, nodeVars
<1>2. CASE Write
  <2>1. pc = "running" /\ group' = group /\ file' \in {"partial", "whole"}
    BY <1>2 DEF HInv, GroupFits, Write
  <2>2. TypeOK'
    BY <1>1, <2>1 DEF HInv, TypeOK
  <2> QED
    BY <1>1, <2>1, <2>2 DEF HInv, StopAgrees, GroupFits, SignalFits, Settled, NeverStarted
<1>3. CASE RestEnds
  <2>1. group' = [group EXCEPT !.rest = FALSE, !.pipes = FALSE] /\ file' = file /\ group.rest
    BY <1>3 DEF RestEnds
  <2>2. /\ group' \in Group /\ ~group'.rest
        /\ group'.leader = group.leader /\ ~group'.pipes /\ group'.clean = group.clean /\ group'.said = group.said
    BY <2>1 DEF HInv, TypeOK, Group
  <2>3. TypeOK'
    BY <1>1, <2>1, <2>2 DEF HInv, TypeOK
  <2> QED
    BY <1>1, <2>1, <2>2, <2>3 DEF HInv, StopAgrees, GroupFits, SignalFits, Settled, NeverStarted
<1>4. CASE \/ \E line \in Sayings \ {"nothing"} : Say(line)
           \/ \E clean \in BOOLEAN : LeaderEnds(clean)
           \/ \E pipes \in BOOLEAN : Fork(pipes)
  <2>1. /\ pc = "running" /\ (kill # "done" \/ call.foreign) /\ file' = file
        /\ group.leader = "alive" /\ group'.leader # "none"
    BY <1>4 DEF HInv, TypeOK, Group, GroupFits, Say, LeaderEnds, Fork
  <2>2. group' \in Group
    BY <1>4 DEF HInv, TypeOK, Group, Say, LeaderEnds, Fork
  <2>3. TypeOK'
    BY <1>1, <2>1, <2>2 DEF HInv, TypeOK
  <2> QED
    BY <1>1, <2>1, <2>3 DEF HInv, StopAgrees, GroupFits, SignalFits, Settled, NeverStarted
<1> QED
  BY <1>2, <1>3, <1>4

LEMMA NextHInv == HInv /\ [Next]_vars => HInv'
<1> SUFFICES ASSUME HInv, [Next]_vars PROVE HInv'
  OBVIOUS
<1>1. CASE UNCHANGED vars
  BY <1>1 DEF vars, HInv, TypeOK, StopAgrees, GroupFits, SignalFits, Settled, NeverStarted
<1>2. CASE NodeStep
  BY <1>2, InputKeeps, SpawnKeeps, StopKeeps, GraceKeeps, CloseKeeps, SettleKeeps, StoreKeeps,
     CleanupKeeps DEF NodeStep
<1>3. CASE Next /\ ~NodeStep
  BY <1>3, NodeKeeps, GroupKeeps DEF Next
<1> QED
  BY <1>1, <1>2, <1>3

LEMMA RunInv == Spec => []HInv
BY InitHInv, NextHInv, PTL DEF Spec

-----------------------------------------------------------------------------
(* No run returns before its leader has ended and its pipes have closed;    *)
(* when one that was stopped returns, nothing of a group that node may      *)
(* signal is alive; and whoever aborts leaves no helper whose kill has not  *)
(* begun (process.mjs 165-183, 236-329).                                    *)
THEOREM HelperStops == Spec => []StoppedMeansDead
<1>1. HInv => StoppedMeansDead
  BY DEF HInv, TypeOK, StopAgrees, GroupFits, SignalFits, Settled, StoppedMeansDead, Returned, Alive
<1> QED
  BY <1>1, RunInv, PTL

(* However a transform ends, its scratch file is gone, unless its removal   *)
(* failed, and nobody is left to write it again (python-helper.mjs 560-676). *)
THEOREM HelperClearsScratch == Spec => []ScratchCleared
<1>1. HInv => ScratchCleared
  BY DEF HInv, GroupFits, Settled, ScratchCleared, Returned
<1> QED
  BY <1>1, RunInv, PTL

(* The outcome names the first reason to end the run, unless there never    *)
(* was a helper to end, and a success means an answer, a clean end and      *)
(* every artifact stored.                                                   *)
THEOREM HelperTellsTheTruth == Spec => []OutcomeTellsWhatHappened
<1>1. ASSUME HInv PROVE OutcomeTellsWhatHappened
  <2>1. stops # <<>> => stop = Head(stops)
    BY <1>1 DEF HInv, TypeOK, StopAgrees
  <2>2. stops = <<>> <=> stop = Nothing
    BY <1>1 DEF HInv, StopAgrees
  <2> QED
    BY <1>1, <2>1, <2>2 DEF HInv, Settled, NeverStarted, OutcomeTellsWhatHappened, Returned
<1> QED
  BY <1>1, RunInv, PTL

=============================================================================
