------------------------ MODULE MCPrimaryMonitoring ------------------------
(***************************************************************************)
(* Constants of the runs of PrimaryMonitoring: what a View Establishment   *)
(* may answer.                                                             *)
(***************************************************************************)
EXTENDS PrimaryMonitoring

(* Every node is thought to be in view v, in service or in a view change.  *)
Serving(v) == [views |-> [k \in Node |-> v], service |-> TRUE]
LeavingView(v) == [Serving(v) EXCEPT !.service = FALSE]

(* The boot of the program.                                                *)
Boot == { [i \in Node |-> FreshDetector] }

(* The view has changed since the last tokens, in which nodes 1 and 2 told *)
(* each other that they suspect the primary of view 0 (fields that the     *)
(* injected start state of __init__ sets; the threads start after it).     *)
LeftViewZero ==
  { [i \in Node |-> [FreshDetector EXCEPT
       !.prim = 0,
       !.prim_susp = [k \in Node |-> i \in {1, 2} /\ k \in {1, 2}]]] }

OnlyViewOne == { Serving(1) }
OnlyViewZero == { Serving(0) }
TwoViews == { Serving(0), LeavingView(0), Serving(1) }

(* Bound: a view moves or a token is repeated; a node that moves leaves    *)
(* the service, or another has left it.                                    *)
OneDisturbance == /\ moves + repeats <= 1
                  /\ moves = 0 \/ \E i \in Correct : ~ve[i].service

(* Bound: one thing is done after the other, of all nodes together: a      *)
(* round of a loop, the delivery of its messages, the handling of a token. *)
(* A round begins when as many tokens go either way.                       *)
Busy == { i \in Node : pc[i] # "refresh" \/ \E j \in Node : net[i][j] # <<>> }

OneByOne ==
  /\ Cardinality(Busy) <= 1
  /\ \A i \in Busy : pc[i] = "refresh" \/ \A j \in Node : net[i][j] = <<>>
  /\ Cardinality({ i \in Node : taken[i] # {} }) <= 1
  /\ Busy # {} => \A i, j \in Node : /\ taken[i] = {}
                                    /\ Len(tokens[i][j]) = Len(tokens[j][i])

(* Bound: the Failure Detectors begin when all nodes have left the status  *)
(* OK and know that; each of them greets before a token is handled; and    *)
(* Primary Monitoring goes on when all detectors have seen the new view.   *)
InStages ==
  \/ \A i \in Correct : /\ fd[i].first_run
                        /\ vcm[i][i].v_status # "V_CHANGE"
  \/ \A i, k \in Correct : pc[i] = "refresh" /\ taken[i] = {}
        /\ vcm[i][k] = vcm[k][k] /\ vcm[k][k].v_status = "NO_SERVICE"
  \/ /\ \A i \in Correct : /\ ~fd[i].first_run
                           /\ vcm[i][i].v_status = "NO_SERVICE"
     /\ \/ \A i \in Correct : fd[i].prim = CurrentView(i)
        \/ \A i \in Correct : pc[i] = "refresh"
=============================================================================
