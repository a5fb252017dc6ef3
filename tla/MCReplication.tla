---------------------------- MODULE MCReplication ----------------------------
(***************************************************************************)
(* Instances of Replication for TLC.                                       *)
(***************************************************************************)
EXTENDS Replication

CONSTANTS a, b, c  \* client requests, and what they append

Identity == [r \in ClientRequest |-> r]
AllRequests == {a, b, c}
OneRequest == {a}

AllCorrect == [i \in Node |-> "NONE"]

InView(v) ==
  [views |-> [j \in Node |-> v], service |-> TRUE, no_view_change |-> TRUE]
InViewZero == InView(0)
OnlyViewZero == { InView(0) }
ViewsZeroOne == { InView(0), InView(1) }

(* The view stays or changes, or a module suspends the service.            *)
Troubled ==
  ViewsZeroOne \cup { [InView(0) EXCEPT !.service = FALSE],
                      [InView(0) EXCEPT !.no_view_change = FALSE] }

(* All nodes have executed request a, which node 0 gave number 0.          *)
Established ==
  LET entry == [request |-> [client_request |-> a, view |-> 0, seq_num |-> 0],
                x_set |-> Node]
      s(j) == [FreshStructure(K) EXCEPT !.rep_state = <<ValueOf[a]>>,
                                        !.r_log = <<entry>>,
                                        !.seq_num = IF j = 0 THEN 0 ELSE -1]
  IN  { [i \in Node |-> [j \in Node |-> s(j)]] }

(* Request a is pending at all nodes, as at the start of                   *)
(* test_req_is_applied_in_mal_free_execution.py.                           *)
Pending ==
  { [i \in Node |-> [j \in Node |-> [FreshStructure(K) EXCEPT !.pend_reqs = {a}]]] }

(* Bound: the loops of send_msg() of different nodes do not overlap, and   *)
(* the last node is slow: its first loop does not come to an end.          *)
LoopsApart == /\ Cardinality({ i \in Node : pc[i] # N }) <= 1
              /\ pc[N - 1] = N

(* Bound: in a view change at most one request is not executed yet.        *)
OneInChange ==
  \/ \A i \in Node : ve[i].views[i] = 0
  \/ Cardinality(UNION { asked[i] : i \in Node }) <= 2

(* Bound: no answer changes while the body of a loop runs.                 *)
BodiesApart == moves' # moves => pc' = pc
=============================================================================
