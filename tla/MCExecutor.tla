----------------------------- MODULE MCExecutor -----------------------------
(***************************************************************************)
(* A small instance of Executor: one process on a store that an earlier    *)
(* one has used.                                                           *)
(***************************************************************************)
EXTENDS Executor

CONSTANTS run, earlier, p1, p2, main, a, b, d, x, l,
          plain, spelled, second, inner

MCRuns == {run, earlier}
MCPages == {p1, p2}
MCWriters == {p1, p2, main}
MCObjects == {a, b, d, x, l}
MCBodies == {a, b}
MCProjection == [o \in MCBodies |-> IF o = a THEN None ELSE d]
MCExtracts == {x}
MCFragile == {x}

(* The objects of an earlier process: none, or a page and the ledgers of a  *)
(* crawl that came to the same, one of them damaged.                        *)
MCNothingLeft == [o \in MCObjects |-> "absent"]

MCLeft ==
  {MCNothingLeft}
    \cup {[MCNothingLeft EXCEPT ![a] = "intact", ![l] = "damaged"],
          [MCNothingLeft EXCEPT ![a] = "damaged", ![l] = "intact"]}

(* The default registry, its native adapter enabled as lynceuz.mjs does it, *)
(* and one in which native is not ready and other local adapters are.       *)
MCEngine(id, kinds, ready, free, network, adapter) ==
  [id |-> id, kinds |-> kinds, ready |-> ready, free |-> free, automatic |-> TRUE,
   network |-> network, adapter |-> adapter]

MCPageKinds == {"url", "crawl", "extract"}

MCDefault ==
  <<MCEngine("native", MCPageKinds, TRUE, TRUE, "core-http", FALSE),
    MCEngine("playwright", MCPageKinds, FALSE, TRUE, "guard-proxy", FALSE),
    MCEngine("firecrawl", CommandKinds, FALSE, FALSE, "provider-managed", FALSE)>>

MCWithoutNative ==
  <<MCEngine("native", MCPageKinds, FALSE, TRUE, "core-http", FALSE),
    MCEngine("parser", {"extract", "url"}, TRUE, TRUE, "none", TRUE),
    MCEngine("playwright", MCPageKinds, TRUE, TRUE, "guard-proxy", TRUE),
    MCEngine("firecrawl", CommandKinds, TRUE, TRUE, "provider-managed", FALSE)>>

MCRegistries == {MCDefault, MCWithoutNative}

MCJob(kind, explain, allowed, forced) ==
  [kind |-> kind, explain |-> explain, rendered |-> allowed, cloud |-> allowed,
   forced |-> forced]

MCJobs ==
  {MCJob(kind, FALSE, FALSE, Unforced) : kind \in CommandKinds}
    \cup {MCJob(kind, TRUE, TRUE, Unforced) : kind \in CommandKinds}
    \cup {MCJob("url", FALSE, TRUE, forced) : forced \in {Unforced, "native", "playwright"}}

MCLinks == {plain, spelled, second, inner}
MCCanonical == [o \in MCLinks |-> IF o = inner THEN Refused ELSE IF o = spelled THEN plain ELSE o]
MCAnswers == {<<>>, <<inner, plain, spelled, second, plain>>, <<second, plain, spelled>>}

=============================================================================
