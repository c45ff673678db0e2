-------------------------- MODULE ConnectionPoolSpec --------------------------
(***************************************************************************)
(* What the users of a connection pool rely on: until the pool is closed a *)
(* connection is in at most one hand.  A connection is taken and given     *)
(* back one at a time; after the close nothing is promised any more.       *)
(***************************************************************************)
CONSTANTS Clients, Conns

VARIABLES
  hands,  \* the connections each client works on
  closed

Init ==
  /\ hands = [c \in Clients |-> {}]
  /\ closed \in BOOLEAN

Take(c, x) ==
  /\ \A d \in Clients : x \notin hands[d]
  /\ hands' = [hands EXCEPT ![c] = @ \cup {x}]
  /\ UNCHANGED closed

Give(c, x) ==
  /\ x \in hands[c]
  /\ hands' = [hands EXCEPT ![c] = @ \ {x}]
  /\ UNCHANGED closed

Next ==
  \/ \E c \in Clients, x \in Conns : Take(c, x) \/ Give(c, x)
  \/ closed'

Spec == Init /\ [][Next]_<<hands, closed>>
=============================================================================
