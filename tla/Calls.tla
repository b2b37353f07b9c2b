-------------------------------- MODULE Calls --------------------------------
(***************************************************************************)
(* The writes a page has in flight, a set of records with the name of the  *)
(* operation, its arguments and how far it got: "sent", and once the       *)
(* server has handled it "done" or "refused".  A call whose answer is lost *)
(* fails like one that was refused, whatever the server did.               *)
(***************************************************************************)
EXTENDS FiniteSets, Naturals

CONSTANT Limits   \* bounds: what the user does -> [calls : in flight, writes : that the server carries out]

ASSUME CallsAssumption == \A doing \in DOMAIN Limits : Limits[doing] \in [calls : Nat, writes : Nat]

CallStates == {"sent", "done", "refused"}

Busy(flight, ops) == \E c \in flight : c.op \in ops

CanSend(flight, writes, doing) == Cardinality(flight) < Limits[doing].calls /\ writes < Limits[doing].writes

Become(flight, c, state) == (flight \ {c}) \cup {[c EXCEPT !.state = state]}
=============================================================================
