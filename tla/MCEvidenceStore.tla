--------------------------- MODULE MCEvidenceStore ---------------------------
(***************************************************************************)
(* Small instances of EvidenceStore: arbitrary callers, two writers.       *)
(***************************************************************************)
EXTENDS EvidenceStore, TLC

CONSTANTS r1, r2, s, a, w1, w2

MCRuns == {r1, r2}
MCObjects == {s, a}
MCWriters == {w1, w2}

MCManifest(r, status, source, artifact, artifacts) ==
  [run |-> r, status |-> status, source |-> source,
   artifact |-> artifact, artifacts |-> artifacts]

(* An ok manifest of each run, and an interrupted one racing the first.     *)
MCSubmissions ==
  {MCManifest(r1, "ok", s, a, {s, a}),
   MCManifest(r1, "interrupted", s, None, {s}),
   MCManifest(r2, "ok", s, s, {s})}

MCLines == {{s}, {ManifestName}}

(* Two ways to keep the instance small, in one run: the commit of manifests *)
(* and cache entries, of any object and submission, without journals and    *)
(* recovery reports; or all of the files but the cache index, with one      *)
(* object and one submission.  No output file in either.                    *)
MCOneSubmission == MCManifest(r2, "ok", s, s, {s})

MCCommitOnly == report = None /\ \A r \in Runs : ~journals[r].exists

MCOneObjectOnly ==
  /\ objects[a] = "absent"
  /\ \A r \in Runs : manifests[r] \in {None, MCOneSubmission}
  /\ \A w \in Writers :
       /\ op[w].file # "cache"
       /\ op[w].file = "object" => op[w].value = s
       /\ op[w].file = "manifest" => op[w].value = MCOneSubmission

MCBounded ==
  /\ \A r \in Runs : outputs[r] = None
  /\ MCCommitOnly \/ MCOneObjectOnly

MCSymmetry == Permutations(MCWriters)

=============================================================================
