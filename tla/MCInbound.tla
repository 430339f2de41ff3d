------------------------------ MODULE MCInbound ------------------------------
(* What an inbound request depends on: its approval and evidence, its delegated *)
(* tokens, its message's one execution.  Each behaviour is of one part, the     *)
(* others stand still.                                                          *)
EXTENDS ApprovalFlow, TokenExchange, A2AMessages, TLC

CONSTANTS both, single, r1, r2, yes, no, t1

\* A challenge for two roles and one for a single role, in one task, and two
\* tokens for the latter: one approves, one denies.
Require == [a \in Approvals |-> IF a = both THEN {r1, r2} ELSE {r1}]
OneTask == [a \in Approvals |-> t1]
ForSingle == [k \in Tokens |-> single]

MCAllowedAt == [d \in Destinations |-> Scopes]

Send(rid, mid, arguments, decision) ==
  [principal |-> "p", rid |-> rid, mid |-> mid, task |-> "t", arguments |-> arguments,
   decision |-> decision, valid |-> TRUE]
\* A message and two resumes of the challenge it may meet, under one message
\* id: for its own arguments and, in another request, for others.
MCMessages == {Send("r1", "m1", "a", "none"), Send("r2", "m2", "a", "m1"),
               Send("r3", "m2", "b", "m1")}

VARIABLE part
all == <<part, vars, tokenVars, messageVars>>
Approving(A)  == part = "approvals" /\ A /\ UNCHANGED <<part, tokenVars, messageVars>>
Exchanging(A) == part = "tokens" /\ A /\ UNCHANGED <<part, vars, messageVars>>
Messaging(A)  == part = "messages" /\ A /\ UNCHANGED <<part, vars, tokenVars>>

MCInit ==
  /\ part \in {"approvals", "tokens", "messages"} /\ Init /\ TokenInit /\ MessagesInit
  \* An agent that asks for certificates does whatever one that does not ask does.
  /\ certified <=> part = "tokens"
MCNext == Approving(Next) \/ Exchanging(TokenNext) \/ Messaging(MessagesNext)
MCSpec == MCInit /\ [][MCNext]_all

\* The calls, requests and deliveries have the same names, so that one
\* permutation renames them in every part.
Interchangeable == Permutations(Requests)
=============================================================================
