--------------------------- MODULE MCRegistration ---------------------------
(* Values for model checking Registration.                                 *)
EXTENDS Registration

CONSTANTS a1, i1, o1, p1, k1, k2, cardA, c1

OneCard == {NoCard, cardA} \X {cardA}
Ask(op, key, expected, lease, card) ==
  [op |-> op, id |-> <<a1, i1>>, owner |-> o1, principal |-> p1, key |-> key,
   expected |-> expected, lease |-> lease, handle |-> TRUE, card |-> card]
\* One client registers; another renews, drains or deregisters.
MCRequests == {Ask("register", k1, 0, 1, cardA), Ask("renew", k2, 1, 2, NoCard),
               Ask("drain", k2, 1, 0, NoCard), Ask("deregister", k2, 1, 0, NoCard)}
Tries == [c \in Clients |-> IF c = c1 THEN 2 ELSE 1]
============================================================================
