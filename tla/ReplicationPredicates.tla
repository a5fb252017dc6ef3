------------------------ MODULE ReplicationPredicates ------------------------
(***************************************************************************)
(* The macros of the Replication module and the parts of its loop          *)
(* (src/modules/replication/module.py), free of VARIABLES.  S is rep, the  *)
(* structures that a node believes all nodes to have, and i the node, so   *)
(* S[i] is its own.                                                        *)
(***************************************************************************)
EXTENDS ReplicaStructure

CONSTANTS
  K,         \* number_of_clients
  MAXINT,    \* the sequence number limit
  Behaviour, \* BYZANTINE_BEHAVIOR of each node
  Forged     \* the client request of a node that modifies those it gets

Behaviours ==
  {"NONE", "UNRESPONSIVE", "STOP_ASSIGNING_SEQNUMS", "REUSE_SEQNUMS",
   "SEQNUM_OUT_BOUND", "MODIFY_CLIENT_REQ"}

ASSUME ClientsAssumption == K \in Nat /\ MAXINT \in Nat
ASSUME BehaviourAssumption == /\ Behaviour \in [Node -> Behaviours]
                              /\ Forged \in ClientRequest

Quorum == N - 2 * F            \* "3f+1 processors"

(* Without a view the index of the primary is -1: the last of the list.    *)
At(p) == IF p = TEE THEN N - 1 ELSE p

-----------------------------------------------------------------------------
(* Consolidated states.                                                    *)

Agree(s, t) == IsPrefix(s, t) \/ IsPrefix(t, s)

ArePrefixes(s, t) ==
  IF IsDefPrefix(s) \/ IsDefPrefix(t) THEN IsDefPrefix(s) /\ IsDefPrefix(t)
  ELSE Agree(s.rep_state, t.rep_state)

(* The nodes of A with the shortest state, a prefix of those of the rest.  *)
Shortest(S, A) ==
  { j \in A : \A k \in A : IsPrefix(S[j].rep_state, S[k].rep_state) }

PrefixLength(S, A) ==
  IF Shortest(S, A) = {} THEN -1
  ELSE Len(S[CHOOSE j \in Shortest(S, A) : TRUE].rep_state)

(* Of two sets of the same size itertools.combinations() gives that one    *)
(* first, which has the smallest node that only one of them has.           *)
ComesFirst(A, B) == A = B \/ Min(SymDiff(A, B)) \in A

(* The first of the sets of nodes of that size with the longest prefix.    *)
ComPrefStates(S, size) ==
  LET candidates == { A \in kSubset(size, Node) :
                        \A j, k \in A : j = k \/ ArePrefixes(S[j], S[k]) }
      longest == { A \in candidates : \A B \in candidates :
                     PrefixLength(S, B) <= PrefixLength(S, A) }
      first == { A \in longest : \A B \in longest : ComesFirst(A, B) }
  IN  IF first = {} THEN {} ELSE CHOOSE A \in first : TRUE

(* Mutant: the log of the first node of A, as it is.                       *)
FirstRLog(S, A, state) == S[Min(A)].r_log

(* The first beginning of a log of A whose execution gives the end of the  *)
(* state, whatever comes before in the state: logs are bounded.            *)
CorrespondingRLog(S, A, state) ==
  LET matches == { m \in UNION { {j} \X DOMAIN S[j].r_log : j \in A } :
                     IsSuffix(Executed(SubSeq(S[m[1]].r_log, 1, m[2])), state) }
      first == { m \in matches : \A o \in matches :
                   m[1] < o[1] \/ (m[1] = o[1] /\ m[2] <= o[2]) }
      m == CHOOSE o \in first : TRUE
  IN  IF first = {} THEN <<>> ELSE SubSeq(S[m[1]].r_log, 1, m[2])

(* -1 in the place of the state.                                           *)
NoState == [ok |-> FALSE, rep_state |-> <<>>, r_log |-> <<>>, default |-> FALSE]

FindConsState(S, A) ==
  LET state == S[CHOOSE j \in Shortest(S, A) : TRUE].rep_state
      log == CorrespondingRLog(S, A, state)
  IN  IF Shortest(S, A) = {} \/ (log = <<>> /\ state # <<>>) THEN NoState
      ELSE [ok |-> TRUE, rep_state |-> state, r_log |-> log,
            default |-> \E j \in A : IsDefPrefix(S[j])]

CheckNewXPrefix(s, X) ==
  IF IsDefPrefix(s) THEN X.default
  ELSE ~X.default /\ Agree(s.rep_state, X.rep_state)

GetDsState(S) ==
  LET X == FindConsState(S, ComPrefStates(S, N - 3 * F))
      empty == { j \in Node : S[j].rep_state = <<>> }
      like == { j \in Node \ empty : CheckNewXPrefix(S[j], X) }
  IN  IF /\ X.ok
         /\ Cardinality(like) \in N - 3 * F .. Quorum - 1
         /\ Cardinality(like) + Cardinality(empty) >= N - F
      THEN X ELSE NoState

-----------------------------------------------------------------------------
(* Stale and conflicting states.                                           *)

Double(s) ==
  \E p, q \in s.req_q :
     /\ p.request.client_request = q.request.client_request
     /\ p.request # q.request

StaleRep(s) ==
  \/ LastExec(s) + K * SIGMA > MAXINT
  \/ Double(s)
  \/ \E n \in DOMAIN s.r_log : Cardinality(s.r_log[n].x_set) < Quorum

Conflict(S) == Cardinality({ j \in Node : S[j].con_flag }) >= N - F

(* Some node has executed more than the log of this one can catch up with. *)
Delayed(S, i) ==
  \E j \in Node :
     /\ S[j].r_log # <<>>
     /\ Cardinality(Last(S[j].r_log).x_set) >= Quorum
     /\ LastExec(S[i]) < LastExec(S[j]) - 3 * K * SIGMA

-----------------------------------------------------------------------------
(* Requests that enough nodes know, with what status.                      *)

KnownPendReqs(S) ==
  { c \in UNION { S[j].pend_reqs : j \in Node } :
      Cardinality({ j \in Node : c \in S[j].pend_reqs }) >= Quorum }

QueueBacking(S, status, r) ==
  Cardinality(UNION { { <<j, q>> : q \in { p \in S[j].req_q : /\ p.request = r
                                                             /\ status \subseteq p.status } } :
                      j \in Node })

LogBacking(S, r) ==
  Cardinality(UNION { { <<j, n>> : n \in { m \in DOMAIN S[j].r_log :
                                             S[j].r_log[m].request = r } } :
                      j \in Node })

(* Mutant: one node more is needed.                                        *)
SupportedReqsByMore(S, i, status) ==
  { r \in UNION { RequestsOf(S[j]) : j \in Node } :
      /\ QueueBacking(S, status, r) + LogBacking(S, r) > Quorum
      /\ r \notin LogRequests(S[i]) }

SupportedReqs(S, i, status) ==
  { r \in UNION { RequestsOf(S[j]) : j \in Node } :
      /\ QueueBacking(S, status, r) + LogBacking(S, r) >= Quorum
      /\ r \notin LogRequests(S[i]) }

CommittedSet(S, r) ==
  { j \in Node : \/ \E q \in S[j].req_q : q.request = r /\ "COMMIT" \in q.status
                 \/ r \in LogRequests(S[j]) }

(* The client requests with a number in queue of the primary p.            *)
ExistsPreprep(S, p, c) ==
  \E q \in S[At(p)].req_q : /\ "PRE_PREP" \in q.status
                           /\ q.request.client_request = c


UnassignedReqs(S, i) ==
  { c \in S[i].pend_reqs :
      /\ ~ExistsPreprep(S, S[i].prim, c)
      /\ ~ \E q \in S[i].req_q :
             /\ q.request.client_request = c
             /\ {"PREP", "COMMIT"} \subseteq q.status
             /\ QueueBacking(S, {"PREP", "COMMIT"}, q.request) >= Quorum }

(* A request for c that the primary p has numbered, and rightly so.        *)
NumberedFor(S, i, p, c, r) ==
  /\ r.client_request = c
  /\ r.view = p
  /\ r.seq_num \in LastExec(S[i]) + 1 .. LastExec(S[i]) + SIGMA * K

AcceptReqPreprep(S, i, p, c) ==
  /\ c \in KnownPendReqs(S)
  /\ ExistsPreprep(S, p, c)
  /\ \E r \in RequestsOf(S[At(p)]) : /\ NumberedFor(S, i, p, c, r)
                                    /\ r \notin RequestsOf(S[i])

-----------------------------------------------------------------------------
(* A view change.  views[j] is get_current_view(j).  Each step gives the   *)
(* set of the structures that may become the node's own.                   *)

(* Members of M that are at least as large as all of it.                   *)
Largest(M) == { n \in M : \A m \in M : m <= n }

(* The number to go on from: the last executed one or that of a request    *)
(* that was prepared and not committed.                                    *)
NewSeqs(s) ==
  Largest({-1, LastExec(s)} \cup
          { q.request.seq_num : q \in { p \in s.req_q :
                                          p.status = {"PRE_PREP", "PREP"} } })

(* A dummy for every number up to the new one that nobody has.             *)
DummyReqs(s, i, newSeq) ==
  { [request |-> [client_request |-> Dummy, view |-> i, seq_num |-> n],
     status |-> {"PRE_PREP"}] :
      n \in LastExec(s) + 1 .. newSeq \ { r.seq_num : r \in QueueRequests(s) } }

(* Pairs that all nodes of the set have only PRE_PREP for get new numbers, *)
(* in the order of the numbering f; what not all have pending is dropped.  *)
Renewable(S, s, i, ids) ==
  { q \in s.req_q : /\ q.status = {"PRE_PREP"}
                    /\ \A j \in ids \ {i} : q \in S[j].req_q }

RenewReqs(S, s, i, ids) ==
  LET old == Renewable(S, s, i, ids)
      new(q, f) == [request |-> [q.request EXCEPT !.view = i,
                                                  !.seq_num = s.seq_num + f[q]],
                    status |-> {"PRE_PREP", "PREP"}]
  IN  { [s EXCEPT !.pend_reqs = { c \in @ : \A j \in ids \ {i} : c \in S[j].pend_reqs },
                  !.req_q = (@ \ old) \cup { new(q, f) : q \in old },
                  !.seq_num = @ + Cardinality(old)] :
          f \in Injection(old, 1 .. Cardinality(old)) }

(* The new primary goes on from the state of Quorum nodes.                 *)
Consolidated(S, s, i) ==
  LET T == [S EXCEPT ![i] = s]
      X == FindConsState(T, ComPrefStates(T, Quorum))
  IN  IF X.ok THEN [s EXCEPT !.rep_state = X.rep_state, !.r_log = X.r_log,
                             !.view_changed = FALSE]
      ELSE SetToTee(s)

ActAsPrim(S, i, views) ==
  LET ids == { j \in Node : S[j].view_changed /\ views[j] = i }
  IN  IF Cardinality(ids) < N - F THEN { S[i] }
      ELSE { Consolidated(S, u, i) :
               u \in UNION { RenewReqs(S, t, i, ids) :
               t \in UNION { AddToReqQ([S[i] EXCEPT !.seq_num = n],
                                       DummyReqs(S[i], i, n)) :
               n \in NewSeqs(S[i]) } } }

(* Dummies of the new primary have their numbers for themselves, its other *)
(* requests of the new view were not prepared by Quorum nodes for nothing. *)
CheckRequest(S, i, p, r) ==
  IF r.client_request = Dummy
    THEN \A o \in QueueRequests(S[At(p)]) :
           o.seq_num = r.seq_num => o.client_request = Dummy
    ELSE \/ Cardinality(UNION { { <<j, q>> : q \in { o \in S[j].req_q :
                /\ o.status = {"PRE_PREP"}
                /\ o.request.client_request = r.client_request } } : j \in Node })
              >= Quorum
         \/ AcceptReqPreprep(S, i, p, r.client_request)

CheckNewVState(S, i, p) ==
  /\ \A r \in QueueRequests(S[At(p)]) : r.view = p => CheckRequest(S, i, p, r)
  /\ S[At(p)].pend_reqs \subseteq KnownPendReqs(S)
  /\ Cardinality({ j \in Node : IsPrefix(S[At(p)].rep_state, S[j].rep_state) })
       >= Quorum
  /\ Executed(S[At(p)].r_log) = S[At(p)].rep_state

ActAsNonprim(S, i, views, p) ==
  IF /\ Cardinality({ j \in Node : views[j] = p }) >= N - F
     /\ CheckNewVState(S, i, p)
  THEN SetReplicaStructure(S[i], S[At(p)])
  ELSE S[i]

(* Lines 1 to 8 of the algorithm.  The view is read twice: first before it *)
(* is compared, and again before it is taken.                              *)
ViewPart(S, i, read, again) ==
  LET changed == IF S[i].view_changed THEN TRUE
                 ELSE ~IsTee(S[i]) /\ read.views[i] # S[i].prim
      p == again.views[i]
      T == [S EXCEPT ![i].view_changed = changed, ![i].prim = p]
  IN  IF ~read.service THEN { S[i] }
      ELSE IF ~changed THEN { T[i] }
      ELSE IF p = i THEN ActAsPrim(T, i, again.views)
      ELSE IF ~T[At(p)].view_changed /\ T[At(p)].prim = p
        THEN { ActAsNonprim(T, i, again.views, p) }
      ELSE { T[i] }

-----------------------------------------------------------------------------
(* Lines 9 to 14: the own state is made to agree with the others'.         *)

(* Mutant: the consolidated state is always taken.                         *)
ConsolidateAlways(S, i) ==
  LET own == FindConsState(S, ComPrefStates(S, Quorum))
      X == IF own.ok THEN own ELSE GetDsState(S)
      s == [S[i] EXCEPT !.con_flag = ~X.ok]
  IN  IF X.ok THEN [s EXCEPT !.rep_state = X.rep_state, !.r_log = X.r_log] ELSE s

Consolidate(S, i) ==
  LET own == FindConsState(S, ComPrefStates(S, Quorum))
      X == IF own.ok THEN own ELSE GetDsState(S)
      s == [S[i] EXCEPT !.con_flag = ~X.ok]
  IN  IF X.ok /\ (~CheckNewXPrefix(s, X) \/ IsDefState(s) \/ Delayed(S, i))
        THEN [s EXCEPT !.rep_state = X.rep_state, !.r_log = X.r_log]
        ELSE s

MustFlush(S, i) ==
  Behaviour[i] = "NONE" /\ (StaleRep(S[i]) \/ Conflict(S))

(* flush_local() forgets how many clients there are: 6 is the default.     *)
FlushLocal == [j \in Node |-> SetToTee(FreshStructure(6))]

-----------------------------------------------------------------------------
(* Lines 15 to 25: requests are numbered, prepared, committed, executed.   *)

(* How far each number is from the last one.                               *)
Step(i) == CASE Behaviour[i] = "REUSE_SEQNUMS" -> 0
             [] Behaviour[i] = "SEQNUM_OUT_BOUND" -> SIGMA * K + 2
             [] OTHER -> 1

(* Mutant: the number is given before it is incremented.                   *)
AssignLast(S, i, p) ==
  LET s == S[i]
      todo == UnassignedReqs(S, i)
      turns == { n \in 1 .. Cardinality(todo) :
                   s.seq_num + (n - 1) * Step(i) < LastExec(s) + SIGMA * K }
      pair(n, c) ==
        [request |-> [client_request |-> c, view |-> p,
                      seq_num |-> s.seq_num + (n - 1) * Step(i)],
         status |-> {"PRE_PREP", "PREP"}]
  IN  UNION { AddToReqQ([s EXCEPT !.seq_num = @ + Cardinality(turns) * Step(i)],
                        { pair(n, f[n]) : n \in turns }) :
                f \in Injection(turns, todo) }

(* The primary numbers unassigned requests, in any order, while the last   *)
(* number is less than SIGMA * K ahead of the last executed.               *)
Assign(S, i, p) ==
  LET s == S[i]
      todo == UnassignedReqs(S, i)
      turns == { n \in 1 .. Cardinality(todo) :
                   s.seq_num + (n - 1) * Step(i) < LastExec(s) + SIGMA * K }
      pair(n, c) ==
        [request |-> [client_request |-> IF Behaviour[i] = "MODIFY_CLIENT_REQ"
                                           THEN Forged ELSE c,
                      view |-> p, seq_num |-> s.seq_num + n * Step(i)],
         status |-> {"PRE_PREP", "PREP"}]
  IN  UNION { AddToReqQ([s EXCEPT !.seq_num = @ + Cardinality(turns) * Step(i)],
                        { pair(n, f[n]) : n \in turns }) :
                f \in Injection(turns, todo) }

(* The others take over the number the primary gave to a request, one per  *)
(* request if it gave several.                                             *)
AcceptPreprep(S, i, p) ==
  LET from(c) == { r \in QueueRequests(S[At(p)]) : NumberedFor(S, i, p, c, r) }
      accepted == { c \in ClientRequest : /\ AcceptReqPreprep(S, i, p, c)
                                          /\ from(c) # {} }
  IN  UNION { AddToReqQ(S[i], { [request |-> r, status |-> {"PRE_PREP"}] : r \in R }) :
                R \in { M \in SUBSET UNION { from(c) : c \in accepted } :
                          \A c \in accepted : Cardinality(M \cap from(c)) = 1 } }

(* Mutant: a status that is not of the protocol.                           *)
RaiseFinally(s, R, status, to) ==
  [s EXCEPT !.req_q = { IF q.request \in R /\ q.status = status
                          THEN [q EXCEPT !.status = to \cup {"DONE"}] ELSE q : q \in @ }]

Raise(s, R, status, to) ==
  [s EXCEPT !.req_q = { IF q.request \in R /\ q.status = status
                          THEN [q EXCEPT !.status = to] ELSE q : q \in @ }]

Prepare(S, i) ==
  Raise(S[i], SupportedReqs(S, i, {"PRE_PREP"}), {"PRE_PREP"}, {"PRE_PREP", "PREP"})

(* A request that Quorum nodes have prepared is committed even if unknown. *)
CommitPrepared(S, i) ==
  LET R == SupportedReqs(S, i, {"PREP"})
  IN  { [t EXCEPT !.pend_reqs = @ \ { r.client_request : r \in R }] :
          t \in AddToReqQ(Raise(S[i], R, {"PRE_PREP", "PREP"}, Status),
                          { [request |-> r, status |-> Status] : r \in R }) }

Executable(S, i) ==
  { r \in SupportedReqs(S, i, {"PREP", "COMMIT"}) :
      Cardinality(CommittedSet(S, r)) >= Quorum }

(* Mutant: any request that comes after the last one.                      *)
OrdersWithGaps(S, i) ==
  { o \in UNION { [1 .. n -> Executable(S, i)] : n \in 0 .. Cardinality(Executable(S, i)) } :
      \A n \in DOMAIN o :
        o[n].seq_num > IF n = 1 THEN LastExec(S[i]) ELSE o[n - 1].seq_num }

(* Those that come in the right order are executed in one round: the next  *)
(* one, and some of its successors.                                        *)
ExecutionOrders(S, i) ==
  { o \in UNION { [1 .. n -> Executable(S, i)] : n \in 0 .. Cardinality(Executable(S, i)) } :
      /\ \A n \in DOMAIN o : o[n].seq_num = LastExec(S[i]) + n
      /\ o = <<>> => \A r \in Executable(S, i) : r.seq_num # LastExec(S[i]) + 1 }

(* commit(), for each of them.                                             *)
Commit(S, s, o) ==
  LET entries == [n \in DOMAIN o |-> [request |-> o[n], x_set |-> CommittedSet(S, o[n])]]
  IN  [s EXCEPT !.rep_state = @ \o Executed(entries),
                !.r_log = Newest(s, @ \o entries),
                !.pend_reqs = @ \ { r.client_request : r \in Range(o) },
                !.req_q = { q \in @ : q.request \notin Range(o) },
                !.last_req = @ \/ o # <<>>]

ExecuteInOrder(S, i) == { Commit(S, S[i], o) : o \in ExecutionOrders(S, i) }

ProcessRequests(S, i, p) ==
  LET own(s) == [S EXCEPT ![i] = s]
      numbered == IF p = i /\ Behaviour[i] # "STOP_ASSIGNING_SEQNUMS"
                    THEN Assign(S, i, p)
                    ELSE { Prepare(own(s), i) : s \in AcceptPreprep(S, i, p) }
      committed == UNION { CommitPrepared(own(s), i) : s \in numbered }
  IN  UNION { ExecuteInOrder(own(s), i) : s \in committed }

=============================================================================
