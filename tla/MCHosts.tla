------------------------------- MODULE MCHosts -------------------------------
(* The hosts a request enters by: an A2A host that drains and stops, an MCP    *)
(* host, and the boundary in front of the A2A application.  Each behaviour is  *)
(* of one part, the others stand still.                                        *)
EXTENDS A2AHost, McpHost, RequestBoundary

CONSTANTS q1, q2
MCBoundaryRequests == {q1, q2}
MCAddresses == {"proxy", "alice", "bob"}
MCMtlsSubjects == {"svc"}
MCDeployed ==
  {[proxies |-> {"proxy"}, trusts |-> {"for", "host", "proto"}, rejects |-> FALSE],
   [proxies |-> {"proxy"}, trusts |-> {"for"}, rejects |-> TRUE]}
Bare == [n \in ForwardedNames |-> NoHeader]
ForBob == [Bare EXCEPT !["for"] = "bob", !["port"] = "other"]
ToOurs == [Bare EXCEPT !["host"] = "ours", !["proto"] = "https"]
Plain == [peer |-> "alice", scheme |-> "https", host |-> "ours", forwarded |-> Bare,
          reserved |-> {}, trace |-> "valid", subject |-> NoHeader, path |-> "rpc", faults |-> {}]
MCArriving ==
  {[Plain EXCEPT !.forwarded = ForBob, !.reserved = Reserved, !.subject = "svc"],
   [Plain EXCEPT !.peer = "proxy", !.forwarded = ForBob],
   [Plain EXCEPT !.peer = "proxy", !.host = "other", !.forwarded = ToOurs, !.reserved = Reserved,
                 !.trace = "malformed"],
   [Plain EXCEPT !.host = "other", !.faults = {"content"}], [Plain EXCEPT !.path = "liveness"]}

VARIABLE part
all == <<part, vars, mcpVars, boundaryVars>>
A2A(A)  == part = "a2a" /\ A /\ UNCHANGED <<part, mcpVars, boundaryVars>>
Mcp(A)  == part = "mcp" /\ A /\ UNCHANGED <<part, vars, boundaryVars>>
Boundary(A) == part = "boundary" /\ A /\ UNCHANGED <<part, vars, mcpVars>>

MCInit ==
  /\ part \in {"a2a", "mcp", "boundary"} /\ Init /\ McpInit /\ BoundaryInit
  /\ part # "mcp" => transport = "http"
  /\ part # "boundary" => config.rejects
MCNext == A2A(Next) \/ Mcp(McpNext) \/ Boundary(BoundaryNext)

\* Fairness of A2AHost, McpFairness and BoundaryFairness.
MCFairness ==
  /\ \A r \in Requests : WF_all(A2A(Publish(r))) /\ WF_all(A2A(CapabilityDeadline(r)))
  /\ WF_all(A2A(DrainIdle \/ DrainExpires))
  /\ \A p \in Stoppers : WF_all(A2A(CancelEnds(p))) /\ WF_all(A2A(Sweep(p)))
  /\ \A c \in Calls : WF_all(Mcp(EndCancelled(c)))
  /\ WF_all(Mcp(GraceOver)) /\ WF_all(Mcp(HttpClosed)) /\ WF_all(Mcp(StdioClosed))
  /\ \A r \in BoundaryRequests : /\ WF_all(Boundary(Completes(r) \/ WaitEnds(r)))
                                 /\ WF_all(Boundary(CancellationEnds(r)))

\* drain and aclose of the A2A host return and its work settles; aclose of the MCP
\* host returns and the calls a stdio host drains end; a request leaves the care of its deadline.
HostsComeToRest ==
  /\ StopsComplete /\ WorkSettles
  /\ ClosesCome /\ DrainedWorkEnds
  /\ ServingEnds

MCSpec == MCInit /\ [][MCNext]_all /\ MCFairness
=============================================================================
