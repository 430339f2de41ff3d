----------------------------- MODULE DataSources -----------------------------
(***************************************************************************)
(* The deployment-owned lifecycle of a data source (resources/): operators  *)
(* provision, populate, index and retire it while readers pass the readiness *)
(* gate and retrieve from it.                                               *)
(*                                                                         *)
(* One source.  What a call does to it is what InMemoryDataSourceBackend     *)
(* does, in one step; the awaits around that step are those of any           *)
(* DataSourceBackend, so calls and probes overlap.  The backend refuses      *)
(* content and fails to index or retire as it likes.                        *)
(***************************************************************************)
EXTENDS Integers, FiniteSets

CONSTANTS Operators, Readers,
          Configs,      \* fingerprints of provisioning configurations
          Items,        \* content ids, in the order a batch is applied
          Bodies,       \* body digests
          Batches,      \* the content batches that are submitted
          Checks,       \* ReadinessPolicy.checks
          TTL,          \* ReadinessPolicy.readiness_ttl
          MaxTime, MaxRevision,   \* bounds of the clock and of provisioning
          NoBody, NoConfig, NoVerdict, NoBinding

Content == [Items -> Bodies \cup {NoBody}]
Empty == [i \in Items |-> NoBody]

ASSUME SourcesAssumption ==
  /\ Items \subseteq Nat /\ NoBody \notin Bodies /\ NoConfig \notin Configs
  /\ \A b \in Batches : DOMAIN b \subseteq Items /\ DOMAIN b # {} /\ \A i \in DOMAIN b : b[i] \in Bodies
  /\ Checks \subseteq {"on_start", "on_invoke"} /\ {TTL, MaxTime, MaxRevision} \subseteq Nat

VARIABLES
  source,   \* _SourceState, with the revision the backend counts on
  corpus,   \* history: numbers the corpora: a fresh _SourceState is a new one
  torn,     \* history: a batch was cut in the middle, and nothing was indexed since
  cache,    \* ReadinessGate._verdicts
  now,
  calls,    \* whether the call of an operator has had its effect, but not returned
  bindings, \* the binding each operator was given last
  readers   \* where each reader is, and the verdict of its probe

sourceVars == <<source, corpus, torn>>
resourceVars == <<sourceVars, cache, now, calls, bindings, readers>>

IndexingStates == {"empty", "indexing", "indexed", "partial", "failed"}
Binding == [config : Configs, revision : 1 .. MaxRevision, corpus : Nat]
Verdict == [ready : BOOLEAN, revision : 0 .. MaxRevision, indexed : Content, overtaken : BOOLEAN]

Source == [state : {"absent", "provisioned", "retired"}, config : Configs \cup {NoConfig},
           revision : 0 .. MaxRevision, indexing : IndexingStates, accepted : Content,
           indexed : Content, outstanding : SUBSET Items, applied : SUBSET Batches]
ReaderState == [at : {"idle", "probing", "judged", "verified"}, verdict : Verdict]

SourceTypeOK ==
  /\ source \in Source
  /\ corpus \in Nat /\ torn \in BOOLEAN
  /\ cache = NoVerdict \/ cache \in [verdict : Verdict, expires : Nat]
  /\ now \in 0 .. MaxTime
  /\ calls \in [Operators -> {"idle", "effected"}]
  /\ bindings \in [Operators -> Binding \cup {NoBinding}]
  /\ readers \in [Readers -> ReaderState]

NotJudged == [ready |-> FALSE, revision |-> 0, indexed |-> Empty, overtaken |-> FALSE]
Reader(where) == [at |-> where, verdict |-> NotJudged]

SourceInit ==
  /\ source = [state |-> "absent", config |-> NoConfig, revision |-> 0, indexing |-> "empty",
               accepted |-> Empty, indexed |-> Empty, outstanding |-> {}, applied |-> {}]
  /\ corpus = 0 /\ torn = FALSE /\ cache = NoVerdict /\ now = 0
  /\ calls = [o \in Operators |-> "idle"] /\ bindings = [o \in Operators |-> NoBinding]
  /\ readers = [r \in Readers |-> Reader("idle")]

-----------------------------------------------------------------------------
(* The backend.  Until its effect a call shows nothing, so it begins there.  *)

Held(content) == {i \in Items : content[i] # NoBody}

\* DataSourceDescription.is_queryable
Queryable == source.state = "provisioned" /\ source.indexing = "indexed" /\ Held(source.indexed) # {}

\* _require_live, and the same checks of retire
Live(b) == /\ source.state = "provisioned" /\ b # NoBinding
           /\ b.config = source.config /\ b.revision = source.revision

\* A probe or a verdict of before is no longer about the source.
Overtake == readers' = [r \in Readers |->
              [readers[r] EXCEPT !.verdict.overtaken = @ \/ readers[r].at = "judged"]]

NextRevision == source.revision + 1

Effected(o) == calls' = [calls EXCEPT ![o] = "effected"]

Provision(o, config) ==
  /\ calls[o] = "idle"
  /\ IF source.state = "provisioned" /\ source.config = config
     THEN UNCHANGED <<sourceVars, readers>>
     ELSE /\ source.revision < MaxRevision
          /\ source' = [source EXCEPT !.state = "provisioned", !.config = config,
                          !.revision = NextRevision, !.indexing = "empty", !.accepted = Empty,
                          !.indexed = Empty, !.outstanding = {}, !.applied = {}]
          /\ corpus' = corpus + 1 /\ torn' = FALSE /\ Overtake
  /\ bindings' = [bindings EXCEPT ![o] =
       [config |-> config, revision |-> source'.revision, corpus |-> corpus']]
  /\ Effected(o) /\ UNCHANGED <<cache, now>>

\* What the loop of ingest has done to the content of a batch after the items
\* `seen', some of them refused.
Applied(batch, seen, refused) ==
  LET fresh == {i \in seen \ refused : source.accepted[i] # batch[i]} IN
  [source EXCEPT !.accepted = [i \in Items |-> IF i \in fresh THEN batch[i] ELSE @[i]],
                 !.indexed = [i \in Items |-> IF i \in fresh THEN NoBody ELSE @[i]],
                 !.outstanding = (@ \ seen) \cup refused]

\* The end of ingest.
Settled(batch, refused, src) ==
  [src EXCEPT !.indexing = IF refused = DOMAIN batch THEN "failed"
                           ELSE IF refused # {} THEN "partial"
                           ELSE IF Held(src.indexed) # Held(src.accepted) THEN "indexing" ELSE @,
              !.applied = IF refused = {} THEN @ \cup {batch} ELSE @]

Ingest(o, batch, refused) ==
  /\ calls[o] = "idle" /\ Live(bindings[o])
  /\ source' = IF batch \in source.applied THEN source
               ELSE Settled(batch, refused, Applied(batch, DOMAIN batch, refused))
  /\ Overtake /\ Effected(o)
  /\ UNCHANGED <<corpus, torn, cache, now, bindings>>

\* The budget runs out before an item: what came before it stays.
IngestCut(o, batch, refused, item) ==
  LET seen == {i \in DOMAIN batch : i < item} IN
  /\ calls[o] = "idle" /\ Live(bindings[o]) /\ batch \notin source.applied
  /\ source' = Applied(batch, seen, refused \cap seen)
  /\ torn' = (torn \/ source' # source)
  /\ Overtake /\ Effected(o)
  /\ UNCHANGED <<corpus, cache, now, bindings>>

\* Mutant: content that was refused is forgotten.
NothingHeldBack == TRUE
Resolved == source.outstanding = {}

Index(o, fails) ==
  /\ calls[o] = "idle" /\ Live(bindings[o])
  /\ IF ~fails /\ Resolved /\ Held(source.accepted) # {}
     THEN /\ source' = [source EXCEPT !.indexed = source.accepted, !.indexing = "indexed"]
          /\ torn' = FALSE
     ELSE /\ source' = [source EXCEPT !.indexing =
                          IF fails THEN "failed" ELSE IF ~Resolved THEN "partial" ELSE "empty"]
          /\ UNCHANGED torn
  /\ Overtake /\ Effected(o)
  /\ UNCHANGED <<corpus, cache, now, bindings>>

Retire(o) ==
  /\ calls[o] = "idle" /\ Live(bindings[o])
  /\ source' = [source EXCEPT !.state = "retired", !.indexing = "empty",
                              !.accepted = Empty, !.indexed = Empty, !.applied = {}]
  /\ corpus' = corpus + 1 /\ torn' = FALSE
  /\ Overtake /\ Effected(o)
  /\ UNCHANGED <<cache, now, bindings>>

\* An exhausted budget, a stale binding, a refusal to retire.
Raises(o) ==
  /\ calls[o] = "idle" /\ Effected(o)
  /\ UNCHANGED <<sourceVars, cache, now, bindings, readers>>

-----------------------------------------------------------------------------
(* DataSourceLifecycle: the invalidation that ends each call.                *)

\* Mutant: only a call that returns invalidates, not one that raises.
AfterSuccess == IF source.indexing \in {"partial", "failed"} THEN cache ELSE NoVerdict
Invalidated == NoVerdict

Return(o) ==
  /\ calls[o] = "effected"
  /\ calls' = [calls EXCEPT ![o] = "idle"]
  /\ cache' = Invalidated
  /\ UNCHANGED <<sourceVars, now, bindings, readers>>

-----------------------------------------------------------------------------
(* ReadinessGate and the retrievers.                                        *)

Goes(r, where) == readers' = [readers EXCEPT ![r] = Reader(where)]

\* _verify, up to the probe; an expired verdict is dropped.
Verify(r, moment) ==
  LET fresh == cache # NoVerdict /\ now < cache.expires IN
  /\ readers[r].at = "idle"
  /\ Goes(r, IF moment \notin Checks \/ (moment = "on_invoke" /\ fresh) THEN "verified"
              ELSE "probing")
  /\ cache' = IF moment = "on_invoke" /\ moment \in Checks /\ ~fresh THEN NoVerdict ELSE cache
  /\ UNCHANGED <<sourceVars, now, calls, bindings>>

Probe(r) ==
  /\ readers[r].at = "probing"
  /\ readers' = [readers EXCEPT ![r].at = "judged",
       ![r].verdict = [ready |-> Queryable, revision |-> source.revision,
                       indexed |-> source.indexed, overtaken |-> FALSE]]
  /\ UNCHANGED <<sourceVars, cache, now, calls, bindings>>

\* The probe fails, or its budget ends before or after it concluded.
ProbeFails(r) ==
  /\ readers[r].at \in {"probing", "judged"}
  /\ Goes(r, "idle") /\ cache' = NoVerdict
  /\ UNCHANGED <<sourceVars, now, calls, bindings>>

Conclude(r) ==
  /\ readers[r].at = "judged"
  /\ IF readers[r].verdict.ready
     THEN /\ cache' = IF TTL > 0 THEN [verdict |-> readers[r].verdict, expires |-> now + TTL]
                      ELSE cache
          /\ Goes(r, "verified")
     ELSE cache' = NoVerdict /\ Goes(r, "idle")
  /\ UNCHANGED <<sourceVars, now, calls, bindings>>

\* InMemoryRetriever.retrieve describes the source itself; a start check ends here.
Retrieve(r) ==
  /\ readers[r].at = "verified" /\ Goes(r, "idle")
  /\ UNCHANGED <<sourceVars, cache, now, calls, bindings>>

Tick ==
  /\ now < MaxTime /\ now' = now + 1
  /\ UNCHANGED <<sourceVars, cache, calls, bindings, readers>>

SourceNext ==
  \/ \E o \in Operators :
       \/ \E config \in Configs : Provision(o, config)
       \/ \E batch \in Batches : \E refused \in SUBSET DOMAIN batch :
            \/ Ingest(o, batch, refused)
            \/ \E item \in DOMAIN batch : IngestCut(o, batch, refused, item)
       \/ \E fails \in BOOLEAN : Index(o, fails)
       \/ Retire(o) \/ Raises(o) \/ Return(o)
  \/ \E r \in Readers :
       \/ \E moment \in {"on_start", "on_invoke"} : Verify(r, moment)
       \/ Probe(r) \/ ProbeFails(r) \/ Conclude(r) \/ Retrieve(r)
  \/ Tick

SourceSpec == SourceInit /\ [][SourceNext]_resourceVars

-----------------------------------------------------------------------------
(* Properties.                                                              *)

\* A source that reports INDEXED serves all it accepted, and nothing an
\* earlier batch left unresolved is missing from it, unless a budget cut a
\* batch in the middle since the last index().
IndexedIsWhole ==
  source.indexing = "indexed" /\ ~torn =>
    source.indexed = source.accepted /\ source.outstanding = {}

\* A binding that is live names the corpus it was issued for: the binding of
\* a source that was retired or re-provisioned never becomes valid again.
BindingsNameOneCorpus ==
  \A o \in Operators : Live(bindings[o]) => bindings[o].corpus = corpus

\* A source that says it is indexed holds a whole corpus, and a live binding of
\* an operator names that corpus.
CorpusIsWholeAndOne == IndexedIsWhole /\ BindingsNameOneCorpus

\* Once no mutation waits for its invalidation, a cached verdict describes the
\* corpus that is there, unless a mutation overtook the probe it comes from.
VerdictsDescribeTheCorpus ==
  cache # NoVerdict /\ ~cache.verdict.overtaken /\ (\A o \in Operators : calls[o] # "effected") =>
    /\ cache.verdict.revision = source.revision
    /\ cache.verdict.indexed = source.indexed
    /\ Queryable

\* resources/lifecycle.py, DataSourceLifecycle: "Every mutation of a source,
\* including a partial or failed ingestion, invalidates any cached affirmative
\* readiness verdict for that source, so a stale verdict can never outlive the
\* corpus it described."
StaleVerdictsEnd ==
  cache # NoVerdict /\ (\A o \in Operators : calls[o] # "effected") =>
    cache.verdict.revision = source.revision /\ cache.verdict.indexed = source.indexed

\* docs/data-source-lifecycle.md: "the source stays `PARTIAL` so readiness
\* cannot pass over an incomplete corpus".
ReadyIsWhole == Queryable => source.outstanding = {}
=============================================================================
