---------------------------- MODULE MCRobotsGate ----------------------------
(***************************************************************************)
(* A small instance of RobotsGate: two callers, two origins, room for one  *)
(* answer; and every robots.txt of at most four of the lines below.        *)
(***************************************************************************)
EXTENDS RobotsGate, TLC

CONSTANTS c1, c2, here, there, open, closed

MCChecks == {c1, c2}
MCOrigins == {here, there}
MCPaths == {open, closed}

MCRule(allow, matches, specificity) ==
  [field |-> "rule", rule |-> [allow |-> allow, matches |-> matches, specificity |-> specificity]]

(* Every file of so many lines.  An agent is another crawler, anyone, or us *)
(* by two tokens; two rules for one page tie and a longer one disallows all.*)
MCLines ==
  {[field |-> "agent", agents |-> agents] : agents \in {{}, {0}, {3}, {7}}}
    \cup {[field |-> "directive"]}
    \cup {MCRule(TRUE, {open}, 2), MCRule(FALSE, {open}, 2), MCRule(FALSE, {open, closed}, 3)}

MCFiles == UNION {[1..n -> MCLines] : n \in 0..4}

(* What a site answers: the robots.txt it has, now this and now that.       *)
MCResources == {[status |-> "found"], [status |-> "absent"]}

MCRetryAfters == {0, 1}

MCSymmetry == Permutations(MCChecks)

=============================================================================
