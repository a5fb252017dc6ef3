-------------------------- MODULE ReplicaStructure --------------------------
(***************************************************************************)
(* The replica structure of the Replication module and what is done to it  *)
(* (src/modules/replication/models/), free of VARIABLES.                   *)
(*                                                                         *)
(* pend_reqs and req_q are lists in the program, and sets here: what is    *)
(* decided by their order (which request is numbered first, which of the   *)
(* oldest pending ones is dropped) may go any way.  Of last_req only       *)
(* counts whether it holds anything.                                       *)
(***************************************************************************)
EXTENDS Integers, FiniteSets, SequencesExt

CONSTANTS
  N,              \* number_of_nodes
  F,              \* number_of_byzantine
  SIGMA,          \* threshold for assigning sequence numbers
  ClientRequest,  \* what clients ask for: client, timestamp and operation
  Dummy,          \* the request that does nothing
  Value,          \* what a list may hold
  ValueOf         \* the value that a client request appends

ASSUME NodesAssumption == N \in Nat /\ F \in Nat /\ 3 * F < N
ASSUME SigmaAssumption == SIGMA \in Nat
ASSUME RequestAssumption == /\ Dummy \notin ClientRequest
                            /\ ValueOf \in [ClientRequest -> Value]

Node == 0 .. N - 1
TEE == -1
View == Node \cup {TEE}

Status == {"PRE_PREP", "PREP", "COMMIT"}
Request == [client_request : ClientRequest \cup {Dummy}, view : View,
            seq_num : Int]
ReqPair == [request : Request, status : SUBSET Status]
LogEntry == [request : Request, x_set : SUBSET Node]

Structure ==
  [rep_state : Seq(Value), r_log : Seq(LogEntry),
   pend_reqs : SUBSET ClientRequest, req_q : SUBSET ReqPair,
   last_req : BOOLEAN, seq_num : Int, con_flag : BOOLEAN,
   view_changed : BOOLEAN, prim : View, number_of_clients : Nat]

-----------------------------------------------------------------------------
(* __init__, set_to_tee() and the tests for the default values.            *)

FreshStructure(clients) ==
  [rep_state |-> <<>>, r_log |-> <<>>, pend_reqs |-> {}, req_q |-> {},
   last_req |-> TRUE, seq_num |-> -1, con_flag |-> FALSE,
   view_changed |-> FALSE, prim |-> 0, number_of_clients |-> clients]

SetToTee(s) ==
  [FreshStructure(s.number_of_clients) EXCEPT !.last_req = FALSE, !.prim = TEE]

IsTee(s) == s = SetToTee(s)

IsDefPrefix(s) == /\ s.rep_state = <<>>
                  /\ s.r_log = <<>>
                  /\ s.pend_reqs = {}
                  /\ s.req_q = {}

IsDefState(s) == s = [SetToTee(s) EXCEPT !.seq_num = 0, !.prim = 0]

-----------------------------------------------------------------------------
(* Requests and logs.                                                      *)

(* Requests that a structure holds numbers for.                            *)
QueueRequests(s) == { q.request : q \in s.req_q }
LogRequests(s) == { s.r_log[n].request : n \in DOMAIN s.r_log }
RequestsOf(s) == QueueRequests(s) \cup LogRequests(s)

LastExec(s) == IF s.r_log = <<>> THEN -1 ELSE Last(s.r_log).request.seq_num

(* The list that comes of executing a log from the empty list on: of the   *)
(* n-th entry in it that is no dummy, the value.                           *)
Real(log) == { k \in DOMAIN log : log[k].request.client_request # Dummy }
Rank(log, k) == Cardinality({ m \in Real(log) : m <= k })

Executed(log) ==
  LET at(n) == CHOOSE k \in Real(log) : Rank(log, k) = n
  IN  [n \in 1 .. Cardinality(Real(log)) |->
         ValueOf[log[at(n)].request.client_request]]

-----------------------------------------------------------------------------
(* The bounded queues.  Each operation gives the set of its outcomes.      *)

(* Over the bound the oldest go, those that came before the new ones.      *)
ExtendPendReqs(s, C) ==
  LET all == s.pend_reqs \cup C
      new == C \ s.pend_reqs
      limit == SIGMA * s.number_of_clients
  IN  { [s EXCEPT !.pend_reqs = kept] :
          kept \in IF Cardinality(all) <= limit THEN {all}
                   ELSE { T \in kSubset(limit, all) : new \subseteq T \/ T \subseteq new } }

(* A request that is there keeps its status.  Over the bound those with    *)
(* the lowest numbers go.                                                  *)
AddToReqQ(s, P) ==
  LET all == s.req_q \cup { p \in P : p.request \notin QueueRequests(s) }
      limit == SIGMA * s.number_of_clients
  IN  { [s EXCEPT !.req_q = kept] :
          kept \in IF P = {} THEN {s.req_q}
                   ELSE IF Cardinality(all) <= limit THEN {all}
                   ELSE { T \in kSubset(limit, all) :
                            \A p \in T, q \in all \ T :
                               q.request.seq_num <= p.request.seq_num } }

(* What is left of a log when the entries with the lowest numbers, which   *)
(* are the first ones, are gone.                                           *)
Newest(s, log) ==
  LET limit == 3 * SIGMA * s.number_of_clients
  IN  IF Len(log) <= limit THEN log
      ELSE SubSeq(log, Len(log) - limit + 1, Len(log))

(* The own structure is replaced, but for the bound of its queues.         *)
SetReplicaStructure(s, t) ==
  [t EXCEPT !.con_flag = FALSE, !.view_changed = FALSE,
            !.number_of_clients = s.number_of_clients]

=============================================================================
