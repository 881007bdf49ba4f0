------------------------------ MODULE Custody ------------------------------
(***************************************************************************)
(* What the supply-chain chaincode promises about the custody of a batch,  *)
(* without records, identities or evidence: a batch passes through four    *)
(* hands in one order, a hold stops it where it is and is lifted there,    *)
(* a recall takes it away for good.  SupplyChain implements this.          *)
(***************************************************************************)

CONSTANTS Batches

VARIABLES
  stage,                   \* batch -> "NONE", the last hand it reached, or "RECALLED"
  held                     \* the batches on hold

vars == <<stage, held>>

Hands == {"CREATED", "PROCESSED", "IN_TRANSIT", "DELIVERED"}

\* The order of the hands.
NextHand == {<<"NONE", "CREATED">>, <<"CREATED", "PROCESSED">>,
             <<"PROCESSED", "IN_TRANSIT">>, <<"IN_TRANSIT", "DELIVERED">>}

TypeOK == /\ stage \in [Batches -> Hands \cup {"NONE", "RECALLED"}]
          /\ held \subseteq Batches

InHand(b) == stage[b] \in Hands

Init == /\ stage = [b \in Batches |-> "NONE"]
        /\ held = {}

\* Only a batch that is not on hold is passed on.
PassOn(b) ==
  /\ b \notin held
  /\ \E next \in Hands : /\ <<stage[b], next>> \in NextHand
                         /\ stage' = [stage EXCEPT ![b] = next]
  /\ UNCHANGED held

Hold(b) == InHand(b) /\ held' = held \cup {b} /\ UNCHANGED stage

Lift(b) == b \in held /\ held' = held \ {b} /\ UNCHANGED stage

\* A recall ends a hold as well: nobody can lift it any more.
Recall(b) == /\ InHand(b)
             /\ stage' = [stage EXCEPT ![b] = "RECALLED"]
             /\ held' = held \ {b}

Next == \E b \in Batches : PassOn(b) \/ Hold(b) \/ Lift(b) \/ Recall(b)

Spec == Init /\ [][Next]_vars
============================================================================
