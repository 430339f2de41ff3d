----------------------------- MODULE MCProviders -----------------------------
(* A registry that shuts down, and the conversations over one adapter: each    *)
(* behaviour is of one part, the other stands still.                           *)
EXTENDS ProviderRegistry, ModelCompletion

CONSTANTS q1, q2, q3, a1, a2, b1, b2, n1
MCRuns == {q1, q2, q3}
MCClosers == {a1, a2}
MCBodies == {b1, b2}
MCDeadlined == {q1}
MCStatuses == {0, 401}
MCHints == {"rate limit"}
\* Two runs share a borrowed client; a run with a deadline is there while an owned one
\* closes.
MCDeployments == {[owned |-> FALSE, users |-> {q2, q3}], [owned |-> TRUE, users |-> {q1}]}

VARIABLE part
all == <<part, vars, completionVars>>
Registry(A) == part = "registry" /\ A /\ UNCHANGED <<part, completionVars>>
Adapter(A)  == part = "adapter" /\ A /\ UNCHANGED <<part, vars>>

MCInit ==
  /\ part \in {"registry", "adapter"} /\ Init /\ CompletionInit
  /\ part = "registry" => deployment.owned
  \* The adapters close alike, and the failures of "openai" include those of "ollama".
  /\ adapter = IF deployment.owned THEN "ollama" ELSE "openai"
MCNext == Registry(Next) \/ Adapter(CompletionNext)

\* Fairness of ProviderRegistry and CompletionSpec of ModelCompletion.
MCFairness ==
  /\ \A c \in Clients : /\ WF_all(Registry(RetiredCleanup(c)))
                         /\ WF_all(Registry(CloseSucceeds(c) \/ CloseFails(c)))
                         /\ WF_all(Registry(ShutdownPrepare(c) \/ ShutdownJoin(c)))
  /\ \A u \in Users : /\ WF_all(Registry(Acquire(u) \/ Refused(u)))
                      /\ WF_all(Registry(Release(u) \/ ReleaseCancelled(u)))
  /\ \A k \in Constructors : WF_all(Registry(Publish(k) \/ Reject(k) \/ FinishConstruction(k)))
  /\ WF_all(Registry(DeadlineExpires)) /\ WF_all(Registry(CaptureShutdown))
  /\ WF_all(Registry(ShutdownReport))
  /\ \A r \in Runs : WF_all(Adapter(Serves(r))) /\ WF_all(Adapter(OuterTimer(r)))
  /\ \A c \in Closers : WF_all(Adapter(Enters(c))) /\ WF_all(Adapter(CloserEnds(c)))
  /\ WF_all(Adapter(PoolCloses))

\* A shutdown with a deadline returns and retired clients close; model calls end,
\* and everyone who waits for the close of an adapter learns how it ended.
ProvidersComeToRest == ShutdownCompletes /\ RetiredClientsClose /\ CallsEnd /\ ClosesEnd

MCSpec == MCInit /\ [][MCNext]_all /\ MCFairness
=============================================================================
