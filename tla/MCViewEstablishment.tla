------------------------ MODULE MCViewEstablishment ------------------------
(***************************************************************************)
(* Constants of the runs of ViewEstablishment: who is faulty, and the      *)
(* states the nodes start in.                                              *)
(***************************************************************************)
EXTENDS ViewEstablishment

AllCorrect == [i \in Node |-> "NONE"]
LastUnresponsive == [AllCorrect EXCEPT ![N - 1] = "UNRESPONSIVE"]

(* The boot of the program.                                                *)
Boot == { [i \in Node |-> FreshState] }

(* A node that has been serving clients in view v for a while.             *)
ServingIn(v) ==
  LET info == [views |-> [current |-> v, next |-> v], phase |-> 0,
               witnesses |-> TRUE, vChange |-> FALSE]
  IN  [FreshState EXCEPT !.views = [k \in Node |-> info.views],
                         !.witnesses = [k \in Node |-> TRUE],
                         !.witnesses_set = Node,
                         !.echo = [k \in Node |-> info],
                         !.aliased = TRUE]

InService == { [i \in Node |-> ServingIn(0)] }

(* The same, when every Primary Monitoring has just asked for a change.    *)
InServiceDemanded ==
  { [i \in Node |-> [ServingIn(0) EXCEPT !.vChange[i] = TRUE]] }

(* Bound: how many messages are on all the links together.                 *)
CONSTANT MaxInFlight
FewInFlight ==
  Cardinality({ l \in Node \X Node : net[l[1]][l[2]] # <<>> }) <= MaxInFlight

(* Bound: the loops of send_msg() of different nodes do not overlap.       *)
OneSender == Cardinality({ i \in Node : pc[i] # N }) <= 1

(* Bound: Replication demands a reset only of nodes that no demand of a    *)
(* view change has reached, and then the loops do not overlap.             *)
ResetsApart == demands.flushes = 0 \/ (demands.viewChanges = 0 /\ OneSender)
=============================================================================
