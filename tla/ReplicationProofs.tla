-------------------------- MODULE ReplicationProofs --------------------------
(***************************************************************************)
(* Proofs about Replication, for every number of nodes, clients and        *)
(* requests, all byzantine behaviours and whatever the other two modules   *)
(* answer.                                                                 *)
(***************************************************************************)
EXTENDS Replication, ReplicaStructureProofs, WellFoundedInduction

-----------------------------------------------------------------------------
(* A structure is fine if its requests are of R and, if that is asked for  *)
(* (ord), the numbers in its log follow each other.                        *)

Entries(R) == [request : R, x_set : SUBSET Node]
Pairs(R) == [request : R, status : SUBSET Status]

Follow(log) ==
  \A n \in 1 .. Len(log) - 1 :
    log[n + 1].request.seq_num = log[n].request.seq_num + 1

LogIsFine(log, R, ord) == log \in Seq(Entries(R)) /\ (ord => Follow(log))

Whole(s) ==
  s = [rep_state |-> s.rep_state, r_log |-> s.r_log,
       pend_reqs |-> s.pend_reqs, req_q |-> s.req_q, last_req |-> s.last_req,
       seq_num |-> s.seq_num, con_flag |-> s.con_flag,
       view_changed |-> s.view_changed, prim |-> s.prim,
       number_of_clients |-> s.number_of_clients]

Fine(s, R, ord) ==
  /\ Whole(s)
  /\ LogIsFine(s.r_log, R, ord)
  /\ s.pend_reqs \subseteq ClientRequest /\ IsFiniteSet(s.pend_reqs)
  /\ s.req_q \subseteq Pairs(R) /\ IsFiniteSet(s.req_q)
  /\ s.rep_state \in Seq(Value)
  /\ s.seq_num \in Int /\ s.number_of_clients \in Nat /\ s.prim \in View
  /\ s.last_req \in BOOLEAN /\ s.con_flag \in BOOLEAN
  /\ s.view_changed \in BOOLEAN

FineAll(S, R, ord) == DOMAIN S = Node /\ \A j \in Node : Fine(S[j], R, ord)

-----------------------------------------------------------------------------
(* One field is changed at a time.                                         *)

LEMMA WithPending ==
  ASSUME NEW R, NEW ord, NEW s, Fine(s, R, ord),
         NEW T, T \subseteq ClientRequest, IsFiniteSet(T)
  PROVE  Fine([s EXCEPT !.pend_reqs = T], R, ord)
BY DEF Fine, Whole

LEMMA WithQueue ==
  ASSUME NEW R, NEW ord, NEW s, Fine(s, R, ord),
         NEW Q, Q \subseteq Pairs(R), IsFiniteSet(Q)
  PROVE  Fine([s EXCEPT !.req_q = Q], R, ord)
BY DEF Fine, Whole

LEMMA WithNumber ==
  ASSUME NEW R, NEW ord, NEW s, Fine(s, R, ord),
         NEW n, n \in Int
  PROVE  Fine([s EXCEPT !.seq_num = n], R, ord)
BY DEF Fine, Whole

LEMMA WithFlag ==
  ASSUME NEW R, NEW ord, NEW s, Fine(s, R, ord), NEW b \in BOOLEAN
  PROVE  /\ Fine([s EXCEPT !.con_flag = b], R, ord)
         /\ Fine([s EXCEPT !.view_changed = b], R, ord)
         /\ Fine([s EXCEPT !.last_req = b], R, ord)
<1>1. Fine([s EXCEPT !.con_flag = b], R, ord)
  BY DEF Fine, Whole
<1>2. Fine([s EXCEPT !.view_changed = b], R, ord)
  BY DEF Fine, Whole
<1>3. Fine([s EXCEPT !.last_req = b], R, ord)
  BY DEF Fine, Whole
<1> QED
  BY <1>1, <1>2, <1>3

LEMMA WithPrim ==
  ASSUME NEW R, NEW ord, NEW s, Fine(s, R, ord), NEW p \in View
  PROVE  Fine([s EXCEPT !.prim = p], R, ord)
BY DEF Fine, Whole

LEMMA WithClients ==
  ASSUME NEW R, NEW ord, NEW s, Fine(s, R, ord), NEW n \in Nat
  PROVE  Fine([s EXCEPT !.number_of_clients = n], R, ord)
BY DEF Fine, Whole

LEMMA WithList ==
  ASSUME NEW R, NEW ord, NEW s, Fine(s, R, ord), NEW st \in Seq(Value)
  PROVE  Fine([s EXCEPT !.rep_state = st], R, ord)
BY SMTT(30) DEF Fine, Whole

LEMMA WithLog ==
  ASSUME NEW R, NEW ord, NEW s, Fine(s, R, ord),
         NEW log, LogIsFine(log, R, ord)
  PROVE  Fine([s EXCEPT !.r_log = log], R, ord)
BY DEF Fine, Whole

LEMMA WithState ==
  ASSUME NEW R, NEW ord, NEW s, Fine(s, R, ord), NEW st \in Seq(Value),
         NEW log, LogIsFine(log, R, ord)
  PROVE  Fine([s EXCEPT !.rep_state = st, !.r_log = log], R, ord)
<1> DEFINE t == [s EXCEPT !.rep_state = st]
<1>1. Fine(t, R, ord)
  BY WithList
<1>2. Fine([t EXCEPT !.r_log = log], R, ord)
  BY <1>1, WithLog
<1> QED
  BY <1>2

LEMMA FreshFine ==
  ASSUME NEW R, NEW ord, NEW k \in Nat
  PROVE  Fine(FreshStructure(k), R, ord)
<1>1. LogIsFine(<<>>, R, ord)
  BY DEF LogIsFine, Follow
<1>2. 0 \in View /\ <<>> \in Seq(Value)
  BY NodesAssumption DEF View, Node
<1> QED
  BY <1>1, <1>2, FS_EmptySet DEF FreshStructure, Fine, Whole

LEMMA TeeFine ==
  ASSUME NEW R, NEW ord, NEW s, s.number_of_clients \in Nat
  PROVE  Fine(SetToTee(s), R, ord)
<1> DEFINE t == FreshStructure(s.number_of_clients)
           u == [t EXCEPT !.last_req = FALSE]
<1>1. Fine(t, R, ord)
  BY FreshFine
<1>2. Fine(u, R, ord)
  BY <1>1, WithFlag
<1>3. Fine([u EXCEPT !.prim = TEE], R, ord)
  BY <1>2, WithPrim DEF View
<1> QED
  BY <1>3 DEF SetToTee

(* More requests may be allowed, and the order forgotten.                  *)
LEMMA FineInMore ==
  ASSUME NEW R, NEW Q, R \subseteq Q, NEW ord, NEW s, Fine(s, R, ord)
  PROVE  Fine(s, Q, ord)
<1>1. Entries(R) \subseteq Entries(Q) /\ Pairs(R) \subseteq Pairs(Q)
  BY DEF Entries, Pairs
<1>2. s.r_log \in Seq(Entries(Q))
  BY <1>1 DEF Fine, LogIsFine
<1> QED
  BY <1>1, <1>2 DEF Fine, LogIsFine

-----------------------------------------------------------------------------
(* The bounded queues, and parts of logs.                                  *)

LEMMA ExtendFine ==
  ASSUME NEW R, NEW ord, NEW s, Fine(s, R, ord),
         NEW C, C \subseteq ClientRequest, IsFiniteSet(C),
         NEW t \in ExtendPendReqs(s, C)
  PROVE  Fine(t, R, ord) /\ t = [s EXCEPT !.pend_reqs = t.pend_reqs]
<1> DEFINE limit == SIGMA * s.number_of_clients
           all == s.pend_reqs \cup C
<1>1. PICK kept \in SUBSET all : t = [s EXCEPT !.pend_reqs = kept]
  BY DEF ExtendPendReqs, kSubset
<1>2. kept \subseteq ClientRequest /\ IsFiniteSet(kept)
  BY FS_Union, FS_Subset DEF Fine
<1>3. Fine(t, R, ord)
  BY <1>1, <1>2, WithPending
<1>4. t.pend_reqs = kept
  BY <1>1 DEF Fine, Whole
<1> QED
  BY <1>1, <1>3, <1>4

LEMMA AddFine ==
  ASSUME NEW R, NEW ord, NEW s, Fine(s, R, ord),
         NEW P, P \subseteq Pairs(R), IsFiniteSet(P),
         NEW t \in AddToReqQ(s, P)
  PROVE  Fine(t, R, ord) /\ t = [s EXCEPT !.req_q = t.req_q]
<1> DEFINE new == { p \in P : p.request \notin QueueRequests(s) }
           all == s.req_q \cup new
<1>1. PICK kept \in SUBSET all : t = [s EXCEPT !.req_q = kept]
  BY DEF AddToReqQ, kSubset
<1>2. kept \subseteq Pairs(R) /\ IsFiniteSet(kept)
  <2>1. IsFiniteSet(new)
    BY FS_Subset
  <2> QED
    BY <2>1, FS_Union, FS_Subset DEF Fine
<1>3. Fine(t, R, ord)
  BY <1>1, <1>2, WithQueue
<1>4. t.req_q = kept
  BY <1>1 DEF Fine, Whole
<1> QED
  BY <1>1, <1>3, <1>4

(* A part of a log is a log.                                               *)
LEMMA PartFine ==
  ASSUME NEW R, NEW ord, NEW log, LogIsFine(log, R, ord),
         NEW m \in 1 .. Len(log), NEW n \in 0 .. Len(log)
  PROVE  LogIsFine(SubSeq(log, m, n), R, ord)
<1> DEFINE part == SubSeq(log, m, n)
<1>1. log \in Seq(Entries(R))
  BY DEF LogIsFine
<1>2. /\ part \in Seq(Entries(R))
      /\ Len(part) = IF m <= n THEN n - m + 1 ELSE 0
      /\ \A k \in 1 .. Len(part) : part[k] = log[m + k - 1]
  BY <1>1
<1>3. ASSUME ord PROVE Follow(part)
  <2>1. SUFFICES ASSUME NEW k \in 1 .. Len(part) - 1
                 PROVE  part[k + 1].request.seq_num = part[k].request.seq_num + 1
    BY DEF Follow
  <2>2. /\ k \in 1 .. Len(part) /\ k + 1 \in 1 .. Len(part)
        /\ m + k - 1 \in 1 .. Len(log) - 1 /\ Len(log) \in Nat
    BY <1>1, <1>2
  <2>3. part[k] = log[m + k - 1] /\ part[k + 1] = log[(m + k - 1) + 1]
    BY <1>2, <2>2
  <2> QED
    BY <1>3, <2>2, <2>3 DEF LogIsFine, Follow
<1> QED
  BY <1>2, <1>3 DEF LogIsFine

LEMMA NewestFine ==
  ASSUME NEW R, NEW ord, NEW s, s.number_of_clients \in Nat,
         NEW log, LogIsFine(log, R, ord)
  PROVE  LogIsFine(Newest(s, log), R, ord)
<1> DEFINE limit == 3 * SIGMA * s.number_of_clients
<1>1. limit \in Nat
  BY SigmaAssumption
<1>2. CASE Len(log) <= limit
  BY <1>2 DEF Newest
<1>3. CASE ~(Len(log) <= limit)
  <2>1. log \in Seq(Entries(R)) /\ Len(log) \in Nat
    BY DEF LogIsFine
  <2> HIDE DEF limit
  <2>2. Newest(s, log) = SubSeq(log, Len(log) - limit + 1, Len(log))
    BY <1>3 DEF Newest, limit
  <2>3. CASE limit = 0
    <3>1. Len(log) - limit + 1 = Len(log) + 1
      BY <2>1, <2>3
    <3>2. SubSeq(log, Len(log) + 1, Len(log)) = <<>>
      BY <2>1
    <3>3. LogIsFine(<<>>, R, ord)
      BY DEF LogIsFine, Follow
    <3> QED
      BY <2>2, <3>1, <3>2, <3>3
  <2>4. CASE limit > 0
    <3>1. Len(log) - limit + 1 \in 1 .. Len(log) /\ Len(log) \in 0 .. Len(log)
      BY <1>1, <1>3, <2>1, <2>4
    <3> QED
      BY <2>2, <3>1, PartFine
  <2> QED
    BY <1>1, <2>3, <2>4
<1> QED
  BY <1>2, <1>3

-----------------------------------------------------------------------------
(* Nodes, and what a collection of fine structures holds.                  *)

LEMMA NodesExist ==
  /\ N \in Nat /\ N > 0 /\ IsFiniteSet(Node)
  /\ \A p \in View : At(p) \in Node
<1>1. N \in Nat /\ N > 0
  BY NodesAssumption
<1>2. IsFiniteSet(Node)
  BY <1>1, FS_Interval DEF Node
<1>3. \A p \in View : At(p) \in Node
  BY <1>1 DEF View, Node, TEE, At
<1> QED
  BY <1>1, <1>2, <1>3

LEMMA ImageFinite ==
  ASSUME NEW S, IsFiniteSet(S), NEW f
  PROVE  IsFiniteSet({ f[x] : x \in S })
<1> DEFINE T == { f[x] : x \in S }
           g == [x \in S |-> f[x]]
<1>1. g \in Surjection(S, T)
  BY DEF Surjection
<1> QED
  BY <1>1, FS_Surjection

LEMMA GatherFinite ==
  ASSUME NEW f, \A j \in Node : IsFiniteSet(f[j])
  PROVE  IsFiniteSet(UNION { f[j] : j \in Node })
<1>1. IsFiniteSet({ f[j] : j \in Node })
  BY ImageFinite, NodesExist
<1> QED
  BY <1>1, FS_UNION

LEMMA RequestsFine ==
  ASSUME NEW R, NEW ord, NEW s, Fine(s, R, ord)
  PROVE  /\ RequestsOf(s) \subseteq R /\ IsFiniteSet(RequestsOf(s))
         /\ QueueRequests(s) \subseteq R /\ LogRequests(s) \subseteq R
<1>1. QueueRequests(s) \subseteq R
  BY DEF QueueRequests, Fine, Pairs
<1>2. LogRequests(s) \subseteq R
  <2>1. \A n \in DOMAIN s.r_log : s.r_log[n] \in Entries(R)
    BY DEF Fine, LogIsFine
  <2> QED
    BY <2>1 DEF LogRequests, Entries
<1>3. IsFiniteSet(QueueRequests(s))
  <2> DEFINE f == [q \in s.req_q |-> q.request]
  <2>1. QueueRequests(s) = { f[q] : q \in s.req_q }
    BY DEF QueueRequests
  <2>2. IsFiniteSet(s.req_q)
    BY DEF Fine
  <2> HIDE DEF f
  <2>3. IsFiniteSet({ f[q] : q \in s.req_q })
    BY <2>2, ImageFinite
  <2> QED
    BY <2>1, <2>3
<1>4. IsFiniteSet(LogRequests(s))
  <2> DEFINE f == [n \in DOMAIN s.r_log |-> s.r_log[n].request]
  <2>1. LogRequests(s) = { f[n] : n \in DOMAIN s.r_log }
    BY DEF LogRequests
  <2>2. DOMAIN s.r_log = 1 .. Len(s.r_log) /\ Len(s.r_log) \in Nat
    BY DEF Fine, LogIsFine
  <2>3. IsFiniteSet(DOMAIN s.r_log)
    BY <2>2, FS_Interval
  <2> HIDE DEF f
  <2>4. IsFiniteSet({ f[n] : n \in DOMAIN s.r_log })
    BY <2>3, ImageFinite
  <2> QED
    BY <2>1, <2>4
<1> QED
  BY <1>1, <1>2, <1>3, <1>4, FS_Union DEF RequestsOf

LEMMA LastExecInt ==
  ASSUME NEW R, R \subseteq Request, NEW ord, NEW s, Fine(s, R, ord)
  PROVE  LastExec(s) \in Int
<1>1. CASE s.r_log = <<>>
  BY <1>1 DEF LastExec
<1>2. CASE s.r_log # <<>>
  <2>1. Last(s.r_log) \in Entries(R)
    BY <1>2 DEF Last, Fine, LogIsFine
  <2> QED
    BY <1>2, <2>1 DEF LastExec, Entries, Request
<1> QED
  BY <1>1, <1>2

(* What the other nodes know adds no request that nobody has.              *)
LEMMA KnownFine ==
  ASSUME NEW R, NEW ord, NEW S, FineAll(S, R, ord)
  PROVE  /\ KnownPendReqs(S) \subseteq ClientRequest
         /\ IsFiniteSet(KnownPendReqs(S))
<1> DEFINE f == [j \in Node |-> S[j].pend_reqs]
<1>1. IsFiniteSet(UNION { S[j].pend_reqs : j \in Node })
  <2>1. IsFiniteSet(UNION { f[j] : j \in Node })
    BY GatherFinite DEF FineAll, Fine
  <2> QED
    BY <2>1
<1>2. KnownPendReqs(S) \subseteq UNION { S[j].pend_reqs : j \in Node }
  BY DEF KnownPendReqs
<1>3. UNION { S[j].pend_reqs : j \in Node } \subseteq ClientRequest
  BY DEF FineAll, Fine
<1> QED
  BY <1>1, <1>2, <1>3, FS_Subset

LEMMA SupportedFine ==
  ASSUME NEW R, NEW ord, NEW S, FineAll(S, R, ord), NEW i, NEW status
  PROVE  /\ SupportedReqs(S, i, status) \subseteq R
         /\ IsFiniteSet(SupportedReqs(S, i, status))
<1> DEFINE g == [j \in Node |-> RequestsOf(S[j])]
<1>1. IsFiniteSet(UNION { RequestsOf(S[j]) : j \in Node })
  <2>1. IsFiniteSet(UNION { g[j] : j \in Node })
    BY GatherFinite, RequestsFine DEF FineAll
  <2> QED
    BY <2>1
<1>2. SupportedReqs(S, i, status) \subseteq UNION { RequestsOf(S[j]) : j \in Node }
  BY DEF SupportedReqs
<1>3. UNION { RequestsOf(S[j]) : j \in Node } \subseteq R
  BY RequestsFine DEF FineAll
<1> QED
  BY <1>1, <1>2, <1>3, FS_Subset

-----------------------------------------------------------------------------
(* Consolidated states.                                                    *)

LEMMA ComPrefNodes ==
  ASSUME NEW S, NEW size
  PROVE  ComPrefStates(S, size) \subseteq Node
<1> DEFINE candidates == { A \in kSubset(size, Node) :
                             \A j, k \in A : j = k \/ ArePrefixes(S[j], S[k]) }
           longest == { A \in candidates : \A B \in candidates :
                          PrefixLength(S, B) <= PrefixLength(S, A) }
           first == { A \in longest : \A B \in longest : ComesFirst(A, B) }
<1>1. \A A \in first : A \subseteq Node
  BY DEF kSubset
<1>2. ComPrefStates(S, size) = IF first = {} THEN {} ELSE CHOOSE A \in first : TRUE
  BY DEF ComPrefStates
<1> HIDE DEF first
<1> QED
  BY <1>1, <1>2

LEMMA ConsStateFine ==
  ASSUME NEW R, NEW ord, NEW S, FineAll(S, R, ord), NEW A, A \subseteq Node
  PROVE  /\ LogIsFine(FindConsState(S, A).r_log, R, ord)
         /\ FindConsState(S, A).rep_state \in Seq(Value)
         /\ FindConsState(S, A).ok \in BOOLEAN
<1>1. LogIsFine(<<>>, R, ord)
  BY DEF LogIsFine, Follow
<1>2. ASSUME NEW state
      PROVE  LogIsFine(CorrespondingRLog(S, A, state), R, ord)
  <2> DEFINE matches == { m \in UNION { {j} \X DOMAIN S[j].r_log : j \in A } :
                            IsSuffix(Executed(SubSeq(S[m[1]].r_log, 1, m[2])), state) }
             first == { m \in matches : \A o \in matches :
                          m[1] < o[1] \/ (m[1] = o[1] /\ m[2] <= o[2]) }
             m == CHOOSE o \in first : TRUE
  <2>1. CorrespondingRLog(S, A, state) =
          IF first = {} THEN <<>> ELSE SubSeq(S[m[1]].r_log, 1, m[2])
    BY DEF CorrespondingRLog
  <2>2. \A o \in first : o[1] \in A /\ o[2] \in DOMAIN S[o[1]].r_log
    OBVIOUS
  <2> HIDE DEF first
  <2>3. CASE first = {}
    BY <1>1, <2>1, <2>3
  <2>4. CASE first # {}
    <3>1. m[1] \in Node /\ m[2] \in DOMAIN S[m[1]].r_log
      BY <2>2, <2>4
    <3>2. LogIsFine(S[m[1]].r_log, R, ord)
      BY <3>1 DEF FineAll, Fine
    <3> HIDE DEF m
    <3>3. /\ Len(S[m[1]].r_log) \in Nat
          /\ m[2] \in 1 .. Len(S[m[1]].r_log)
      BY <3>1, <3>2 DEF LogIsFine
    <3>4. 1 \in 1 .. Len(S[m[1]].r_log) /\ m[2] \in 0 .. Len(S[m[1]].r_log)
      BY <3>3
    <3>5. LogIsFine(SubSeq(S[m[1]].r_log, 1, m[2]), R, ord)
      BY <3>2, <3>4, PartFine
    <3> QED
      BY <2>1, <2>4, <3>5
  <2> QED
    BY <2>3, <2>4
<1>3. /\ FindConsState(S, A).r_log = <<>>
      \/ \E state : FindConsState(S, A).r_log = CorrespondingRLog(S, A, state)
  BY DEF FindConsState, NoState
<1>4. FindConsState(S, A).rep_state \in Seq(Value)
  <2> DEFINE j == CHOOSE k \in Shortest(S, A) : TRUE
  <2>1. CASE Shortest(S, A) = {}
    BY <2>1, EmptySeq DEF FindConsState, NoState
  <2>2. CASE Shortest(S, A) # {}
    <3>1. j \in A
      BY <2>2 DEF Shortest
    <3> HIDE DEF j
    <3>2. S[j].rep_state \in Seq(Value)
      BY <3>1 DEF FineAll, Fine
    <3>3. FindConsState(S, A).rep_state \in {<<>>, S[j].rep_state}
      BY DEF FindConsState, NoState, j
    <3>4. FindConsState(S, A).rep_state = <<>>
          \/ FindConsState(S, A).rep_state = S[j].rep_state
      BY <3>3, Zenon
    <3> QED
      BY <3>2, <3>4, EmptySeq
  <2> QED
    BY <2>1, <2>2, EmptySeq
<1>5. FindConsState(S, A).ok \in BOOLEAN
  BY DEF FindConsState, NoState
<1> QED
  BY <1>1, <1>2, <1>3, <1>4, <1>5

LEMMA DsStateFine ==
  ASSUME NEW R, NEW ord, NEW S, FineAll(S, R, ord)
  PROVE  /\ LogIsFine(GetDsState(S).r_log, R, ord)
         /\ GetDsState(S).rep_state \in Seq(Value)
         /\ GetDsState(S).ok \in BOOLEAN
<1> DEFINE X == FindConsState(S, ComPrefStates(S, N - 3 * F))
<1>1. LogIsFine(<<>>, R, ord)
  BY DEF LogIsFine, Follow
<1>2. LogIsFine(X.r_log, R, ord) /\ X.rep_state \in Seq(Value) /\ X.ok \in BOOLEAN
  BY ComPrefNodes, ConsStateFine
<1> HIDE DEF X
<1>3. \/ /\ GetDsState(S).r_log = <<>> /\ GetDsState(S).rep_state = <<>>
         /\ GetDsState(S).ok = FALSE
      \/ GetDsState(S) = X
  BY DEF GetDsState, NoState, X
<1>4. CASE GetDsState(S) = X
  BY <1>2, <1>4
<1>5. CASE GetDsState(S) # X
  <2>1. /\ GetDsState(S).r_log = <<>> /\ GetDsState(S).rep_state = <<>>
        /\ GetDsState(S).ok = FALSE
    BY <1>3, <1>5, Zenon
  <2> QED
    BY <1>1, <2>1, EmptySeq
<1> QED
  BY <1>4, <1>5, Zenon

LEMMA ConsolidateFine ==
  ASSUME NEW R, NEW ord, NEW S, FineAll(S, R, ord), NEW i \in Node
  PROVE  /\ Fine(Consolidate(S, i), R, ord)
         /\ Consolidate(S, i).seq_num = S[i].seq_num
         /\ Consolidate(S, i).prim = S[i].prim
         /\ Consolidate(S, i).view_changed = S[i].view_changed
<1> DEFINE own == FindConsState(S, ComPrefStates(S, Quorum))
           X == IF own.ok THEN own ELSE GetDsState(S)
           s == [S[i] EXCEPT !.con_flag = ~X.ok]
           t == [s EXCEPT !.rep_state = X.rep_state, !.r_log = X.r_log]
<1>1. /\ LogIsFine(own.r_log, R, ord)
      /\ own.rep_state \in Seq(Value) /\ own.ok \in BOOLEAN
  BY ComPrefNodes, ConsStateFine
<1>2. LogIsFine(X.r_log, R, ord) /\ X.rep_state \in Seq(Value) /\ X.ok \in BOOLEAN
  <2> HIDE DEF own
  <2> QED
    BY <1>1, DsStateFine
<1>3. Fine(s, R, ord)
  <2> HIDE DEF X
  <2>1. (~X.ok) \in BOOLEAN
    OBVIOUS
  <2> QED
    BY <2>1, WithFlag DEF FineAll
<1> HIDE DEF own, X
<1>4. Fine(t, R, ord)
  BY <1>2, <1>3, WithState
<1>5. Consolidate(S, i) = s \/ Consolidate(S, i) = t
  BY DEF Consolidate, own, X
<1>6. Whole(S[i])
  BY DEF FineAll, Fine
<1>7. /\ s.seq_num = S[i].seq_num /\ s.prim = S[i].prim
      /\ s.view_changed = S[i].view_changed
  BY <1>6 DEF Whole
<1>8. /\ t.seq_num = s.seq_num /\ t.prim = s.prim
      /\ t.view_changed = s.view_changed
  BY <1>3 DEF Fine, Whole
<1> HIDE DEF s, t
<1> QED
  BY <1>3, <1>4, <1>5, <1>7, <1>8

LEMMA UpdateFine ==
  ASSUME NEW R, NEW ord, NEW S, FineAll(S, R, ord), NEW i \in Node,
         NEW s, Fine(s, R, ord)
  PROVE  /\ FineAll([S EXCEPT ![i] = s], R, ord)
         /\ [S EXCEPT ![i] = s][i] = s
BY DEF FineAll

-----------------------------------------------------------------------------
(* The steps of a view change.                                             *)

LEMMA DummyFine ==
  ASSUME NEW ord, NEW s, Fine(s, Request, ord), NEW i \in Node, NEW n \in Int
  PROVE  /\ DummyReqs(s, i, n) \subseteq Pairs(Request)
         /\ IsFiniteSet(DummyReqs(s, i, n))
<1> DEFINE D == LastExec(s) + 1 .. n \ { r.seq_num : r \in QueueRequests(s) }
           f == [m \in Int |-> [request |-> [client_request |-> Dummy, view |-> i,
                                             seq_num |-> m],
                                status |-> {"PRE_PREP"}]]
<1>1. LastExec(s) \in Int
  BY LastExecInt
<1>2. D \subseteq Int /\ IsFiniteSet(D)
  <2>1. LastExec(s) + 1 \in Int
    BY <1>1
  <2>2. IsFiniteSet(LastExec(s) + 1 .. n)
    BY <2>1, FS_Interval
  <2> QED
    BY <2>1, <2>2, FS_Subset
<1> HIDE DEF D
<1>3. DummyReqs(s, i, n) = { f[m] : m \in D }
  BY <1>2 DEF DummyReqs, D
<1>4. \A m \in Int : f[m] \in Pairs(Request)
  BY DEF Pairs, Request, Status, View
<1> HIDE DEF f
<1>5. IsFiniteSet({ f[m] : m \in D })
  BY <1>2, ImageFinite
<1> QED
  BY <1>2, <1>3, <1>4, <1>5

LEMMA RenewFine ==
  ASSUME NEW ord, NEW S, NEW s, Fine(s, Request, ord), NEW i \in Node, NEW ids,
         NEW t \in RenewReqs(S, s, i, ids)
  PROVE  Fine(t, Request, ord)
<1> DEFINE old == Renewable(S, s, i, ids)
           new(q, f) == [request |-> [q.request EXCEPT !.view = i,
                                                  !.seq_num = s.seq_num + f[q]],
                         status |-> {"PRE_PREP", "PREP"}]
           P == { c \in s.pend_reqs : \A j \in ids \ {i} : c \in S[j].pend_reqs }
<1>1. old \subseteq s.req_q /\ IsFiniteSet(old)
  <2>1. old \subseteq s.req_q
    BY DEF Renewable
  <2> QED
    BY <2>1, FS_Subset DEF Fine
<1>2. Cardinality(old) \in Nat
  BY <1>1, FS_CardinalityType
<1> HIDE DEF old
<1>3. PICK f \in Injection(old, 1 .. Cardinality(old)) :
        t = [s EXCEPT !.pend_reqs = P,
                      !.req_q = (s.req_q \ old) \cup { new(q, f) : q \in old },
                      !.seq_num = s.seq_num + Cardinality(old)]
  BY DEF RenewReqs, old, Fine, Whole
<1> DEFINE Q == { new(q, f) : q \in old }
<1>4. \A q \in old : f[q] \in Int
  BY <1>2, <1>3 DEF Injection
<1>5. Q \subseteq Pairs(Request)
  <2> SUFFICES ASSUME NEW q \in old PROVE new(q, f) \in Pairs(Request)
    OBVIOUS
  <2>1. q.request \in Request
    BY <1>1 DEF Fine, Pairs
  <2>2. s.seq_num + f[q] \in Int
    BY <1>4 DEF Fine
  <2> QED
    BY <2>1, <2>2 DEF Pairs, Request, Status, View
<1>6. IsFiniteSet(Q)
  <2> DEFINE g == [q \in old |-> new(q, f)]
  <2>1. Q = { g[q] : q \in old }
    OBVIOUS
  <2> HIDE DEF g
  <2>2. IsFiniteSet({ g[q] : q \in old })
    BY <1>1, ImageFinite
  <2> QED
    BY <2>1, <2>2
<1> HIDE DEF Q
<1> DEFINE u == [s EXCEPT !.pend_reqs = P]
           v == [u EXCEPT !.req_q = (s.req_q \ old) \cup Q]
<1>7. Fine(u, Request, ord)
  <2>1. P \subseteq s.pend_reqs
    OBVIOUS
  <2> HIDE DEF P
  <2>2. P \subseteq ClientRequest /\ IsFiniteSet(P)
    BY <2>1, FS_Subset DEF Fine
  <2> QED
    BY <2>2, WithPending
<1>8. Fine(v, Request, ord)
  <2> HIDE DEF u
  <2>1. IsFiniteSet(s.req_q \ old) /\ s.req_q \ old \subseteq Pairs(Request)
    BY FS_Difference DEF Fine
  <2>2. /\ (s.req_q \ old) \cup Q \subseteq Pairs(Request)
        /\ IsFiniteSet((s.req_q \ old) \cup Q)
    BY <1>5, <1>6, <2>1, FS_Union
  <2> QED
    BY <1>7, <2>2, WithQueue
<1>9. Fine([v EXCEPT !.seq_num = s.seq_num + Cardinality(old)], Request, ord)
  <2>1. s.seq_num + Cardinality(old) \in Int
    BY <1>2 DEF Fine
  <2> QED
    BY <1>8, <2>1, WithNumber
<1> QED
  BY <1>3, <1>9 DEF Q

LEMMA ConsolidatedFine ==
  ASSUME NEW ord, NEW S, FineAll(S, Request, ord), NEW i \in Node,
         NEW s, Fine(s, Request, ord)
  PROVE  Fine(Consolidated(S, s, i), Request, ord)
<1> DEFINE T == [S EXCEPT ![i] = s]
           X == FindConsState(T, ComPrefStates(T, Quorum))
           u == [s EXCEPT !.rep_state = X.rep_state, !.r_log = X.r_log]
<1>1. FineAll(T, Request, ord)
  BY UpdateFine
<1> HIDE DEF T
<1>2. LogIsFine(X.r_log, Request, ord) /\ X.rep_state \in Seq(Value)
  BY <1>1, ComPrefNodes, ConsStateFine
<1> HIDE DEF X
<1>3. Fine(u, Request, ord)
  BY <1>2, WithState
<1>4. Fine([u EXCEPT !.view_changed = FALSE], Request, ord)
  BY <1>3, WithFlag
<1>5. Fine(SetToTee(s), Request, ord)
  BY TeeFine DEF Fine
<1>6. \/ Consolidated(S, s, i) = [u EXCEPT !.view_changed = FALSE]
      \/ Consolidated(S, s, i) = SetToTee(s)
  BY DEF Consolidated, X, T
<1> HIDE DEF u
<1> QED
  BY <1>4, <1>5, <1>6

(* A new primary consolidates a structure that is fine.                    *)
LEMMA PrimGoesOn ==
  ASSUME NEW ord, NEW S, FineAll(S, Request, ord), NEW i \in Node, NEW views,
         NEW t \in ActAsPrim(S, i, views)
  PROVE  t = S[i] \/ \E v : Fine(v, Request, ord) /\ t = Consolidated(S, v, i)
<1> DEFINE ids == { j \in Node : S[j].view_changed /\ views[j] = i }
<1>1. Fine(S[i], Request, ord)
  BY DEF FineAll
<1>2. CASE Cardinality(ids) < N - F
  BY <1>1, <1>2 DEF ActAsPrim
<1>3. CASE ~(Cardinality(ids) < N - F)
  <2> HIDE DEF ids
  <2>1. PICK n \in NewSeqs(S[i]) :
         \E u \in AddToReqQ([S[i] EXCEPT !.seq_num = n], DummyReqs(S[i], i, n)) :
         \E v \in RenewReqs(S, u, i, ids) : t = Consolidated(S, v, i)
    BY <1>3 DEF ActAsPrim, ids
  <2>2. n \in Int
    <3>1. LastExec(S[i]) \in Int
      BY <1>1, LastExecInt
    <3>2. \A q \in S[i].req_q : q.request.seq_num \in Int
      BY <1>1 DEF Fine, Pairs, Request
    <3> QED
      BY <3>1, <3>2 DEF NewSeqs, Largest
  <2>3. Fine([S[i] EXCEPT !.seq_num = n], Request, ord)
    BY <1>1, <2>2, WithNumber
  <2>4. PICK u \in AddToReqQ([S[i] EXCEPT !.seq_num = n], DummyReqs(S[i], i, n)) :
          \E v \in RenewReqs(S, u, i, ids) : t = Consolidated(S, v, i)
    BY <2>1
  <2>5. Fine(u, Request, ord)
    BY <1>1, <2>2, <2>3, <2>4, DummyFine, AddFine
  <2>6. PICK v \in RenewReqs(S, u, i, ids) : t = Consolidated(S, v, i)
    BY <2>4
  <2>7. Fine(v, Request, ord)
    BY <2>5, <2>6, RenewFine
  <2> QED
    BY <2>6, <2>7
<1> QED
  BY <1>2, <1>3

LEMMA ActAsPrimFine ==
  ASSUME NEW ord, NEW S, FineAll(S, Request, ord), NEW i \in Node, NEW views,
         NEW t \in ActAsPrim(S, i, views)
  PROVE  Fine(t, Request, ord)
BY PrimGoesOn, ConsolidatedFine DEF FineAll

LEMMA ActAsNonprimFine ==
  ASSUME NEW ord, NEW S, FineAll(S, Request, ord), NEW i \in Node, NEW views,
         NEW p \in View
  PROVE  Fine(ActAsNonprim(S, i, views, p), Request, ord)
<1> DEFINE t == S[At(p)]
           u == [t EXCEPT !.con_flag = FALSE]
           v == [u EXCEPT !.view_changed = FALSE]
           w == [v EXCEPT !.number_of_clients = S[i].number_of_clients]
<1>1. Fine(t, Request, ord) /\ Fine(S[i], Request, ord)
  BY NodesExist DEF FineAll
<1> HIDE DEF t
<1>2. Fine(u, Request, ord)
  BY <1>1, WithFlag
<1> HIDE DEF u
<1>3. Fine(v, Request, ord)
  BY <1>2, WithFlag
<1> HIDE DEF v
<1>4. Fine(w, Request, ord)
  <2>1. S[i].number_of_clients \in Nat
    BY <1>1 DEF Fine
  <2> QED
    BY <1>3, <2>1, WithClients
<1>5. w = SetReplicaStructure(S[i], S[At(p)])
  BY DEF w, v, u, t, SetReplicaStructure
<1> HIDE DEF w
<1> QED
  BY <1>1, <1>4, <1>5 DEF ActAsNonprim

LEMMA ViewPartFine ==
  ASSUME NEW ord, NEW S, FineAll(S, Request, ord), NEW i \in Node,
         NEW read, NEW again \in Answer, NEW t \in ViewPart(S, i, read, again)
  PROVE  Fine(t, Request, ord)
<1> DEFINE changed == IF S[i].view_changed THEN TRUE
                      ELSE ~IsTee(S[i]) /\ read.views[i] # S[i].prim
           p == again.views[i]
           u == [S[i] EXCEPT !.view_changed = changed]
           w == [u EXCEPT !.prim = p]
           T == [S EXCEPT ![i] = w]
<1>1. Fine(S[i], Request, ord) /\ p \in View /\ changed \in BOOLEAN
  BY DEF FineAll, Answer
<1> HIDE DEF changed, p
<1>2. Fine(u, Request, ord)
  BY <1>1, WithFlag
<1>3. Fine(w, Request, ord)
  BY <1>1, <1>2, WithPrim
<1>4. T = [S EXCEPT ![i].view_changed = changed, ![i].prim = p]
  BY DEF FineAll
<1> HIDE DEF w, u
<1>5. FineAll(T, Request, ord) /\ T[i] = w
  BY <1>3, UpdateFine
<1>6. \/ t = S[i]
      \/ t = T[i]
      \/ t \in ActAsPrim(T, i, again.views)
      \/ t = ActAsNonprim(T, i, again.views, p)
  BY <1>4 DEF ViewPart, changed, p
<1> HIDE DEF T
<1> QED
  BY <1>1, <1>3, <1>5, <1>6, ActAsPrimFine, ActAsNonprimFine

-----------------------------------------------------------------------------
(* The flush, and what happens to requests.                                *)

LEMMA FlushFine ==
  ASSUME NEW R, NEW ord
  PROVE  FineAll(FlushLocal, R, ord)
<1> DEFINE s == FreshStructure(6)
<1>1. Fine(s, R, ord)
  BY FreshFine
<1> HIDE DEF s
<1>2. Fine(SetToTee(s), R, ord)
  BY <1>1, TeeFine DEF Fine
<1>3. FlushLocal = [j \in Node |-> SetToTee(s)]
  BY DEF FlushLocal, s
<1> QED
  BY <1>2, <1>3 DEF FineAll

(* What is left alone while requests are prepared, committed, executed.    *)
SameNumber(s, t) == t.seq_num = s.seq_num /\ t.prim = s.prim

LEMMA QueueOnly ==
  ASSUME NEW R, NEW ord, NEW s, Fine(s, R, ord), NEW Q
  PROVE  SameNumber(s, [s EXCEPT !.req_q = Q])
BY DEF SameNumber, Fine, Whole

LEMMA RaiseFine ==
  ASSUME NEW R, NEW ord, NEW s, Fine(s, R, ord), NEW X, NEW status,
         NEW to, to \subseteq Status
  PROVE  Fine(Raise(s, X, status, to), R, ord) /\ SameNumber(s, Raise(s, X, status, to))
<1> DEFINE g == [q \in s.req_q |-> IF q.request \in X /\ q.status = status
                                     THEN [q EXCEPT !.status = to] ELSE q]
           Q == { g[q] : q \in s.req_q }
<1>1. Raise(s, X, status, to) = [s EXCEPT !.req_q = Q]
  BY DEF Raise, Fine, Whole
<1>2. \A q \in s.req_q : g[q] \in Pairs(R)
  <2> SUFFICES ASSUME NEW q \in s.req_q PROVE g[q] \in Pairs(R)
    OBVIOUS
  <2>1. q \in Pairs(R)
    BY DEF Fine
  <2> QED
    BY <2>1 DEF Pairs
<1> HIDE DEF g
<1>3. Q \subseteq Pairs(R) /\ IsFiniteSet(Q)
  <2>1. IsFiniteSet(s.req_q)
    BY DEF Fine
  <2> QED
    BY <1>2, <2>1, ImageFinite
<1> HIDE DEF Q
<1> QED
  BY <1>1, <1>3, WithQueue, QueueOnly

LEMMA PrepareFine ==
  ASSUME NEW R, NEW ord, NEW S, FineAll(S, R, ord), NEW i \in Node
  PROVE  Fine(Prepare(S, i), R, ord) /\ SameNumber(S[i], Prepare(S, i))
<1>1. {"PRE_PREP", "PREP"} \subseteq Status
  BY DEF Status
<1>2. Fine(S[i], R, ord)
  BY DEF FineAll
<1> QED
  BY <1>1, <1>2, RaiseFine DEF Prepare

(* Requests of R, with a status, are pairs of R.                           *)
PairUp(X, status) == { [request |-> r, status |-> status] : r \in X }

LEMMA PairUpFine ==
  ASSUME NEW R, NEW X, X \subseteq R, IsFiniteSet(X),
         NEW status, status \subseteq Status
  PROVE  PairUp(X, status) \subseteq Pairs(R) /\ IsFiniteSet(PairUp(X, status))
<1> DEFINE f == [r \in X |-> [request |-> r, status |-> status]]
<1>1. PairUp(X, status) = { f[r] : r \in X }
  BY DEF PairUp
<1>2. \A r \in X : f[r] \in Pairs(R)
  BY DEF Pairs
<1> HIDE DEF f
<1>3. IsFiniteSet({ f[r] : r \in X })
  BY ImageFinite
<1> QED
  BY <1>1, <1>2, <1>3

LEMMA AcceptFine ==
  ASSUME NEW R, NEW ord, NEW S, FineAll(S, R, ord), NEW i \in Node,
         NEW p \in View, NEW t \in AcceptPreprep(S, i, p)
  PROVE  Fine(t, R, ord) /\ SameNumber(S[i], t)
<1> DEFINE from(c) == { r \in QueueRequests(S[At(p)]) : NumberedFor(S, i, p, c, r) }
           accepted == { c \in ClientRequest : /\ AcceptReqPreprep(S, i, p, c)
                                               /\ from(c) # {} }
<1>1. PICK X \in SUBSET UNION { from(c) : c \in accepted } :
        t \in AddToReqQ(S[i], { [request |-> r, status |-> {"PRE_PREP"}] : r \in X })
  BY DEF AcceptPreprep
<1>2. X \subseteq QueueRequests(S[At(p)])
  OBVIOUS
<1> HIDE DEF accepted, from
<1>3. Fine(S[At(p)], R, ord) /\ Fine(S[i], R, ord)
  BY NodesExist DEF FineAll
<1>4. X \subseteq R /\ IsFiniteSet(X)
  <2>1. QueueRequests(S[At(p)]) \subseteq RequestsOf(S[At(p)])
    BY DEF RequestsOf
  <2> QED
    BY <1>2, <1>3, <2>1, RequestsFine, FS_Subset
<1> DEFINE P == PairUp(X, {"PRE_PREP"})
<1>5. P \subseteq Pairs(R) /\ IsFiniteSet(P)
  <2>1. {"PRE_PREP"} \subseteq Status
    BY DEF Status
  <2> QED
    BY <1>4, <2>1, PairUpFine
<1>6. t \in AddToReqQ(S[i], P)
  BY <1>1 DEF PairUp
<1> HIDE DEF P
<1>7. Fine(t, R, ord) /\ t = [S[i] EXCEPT !.req_q = t.req_q]
  BY <1>3, <1>5, <1>6, AddFine
<1> QED
  BY <1>3, <1>7, QueueOnly

LEMMA CommitPreparedFine ==
  ASSUME NEW R, NEW ord, NEW S, FineAll(S, R, ord), NEW i \in Node,
         NEW t \in CommitPrepared(S, i)
  PROVE  Fine(t, R, ord) /\ SameNumber(S[i], t)
<1> DEFINE X == SupportedReqs(S, i, {"PREP"})
           P == PairUp(X, Status)
           s == Raise(S[i], X, {"PRE_PREP", "PREP"}, Status)
<1>1. X \subseteq R /\ IsFiniteSet(X)
  BY SupportedFine
<1> HIDE DEF X
<1>2. Fine(s, R, ord) /\ SameNumber(S[i], s)
  BY RaiseFine DEF FineAll
<1>3. P \subseteq Pairs(R) /\ IsFiniteSet(P)
  BY <1>1, PairUpFine
<1>4. PICK u \in AddToReqQ(s, P) :
        t = [u EXCEPT !.pend_reqs = u.pend_reqs \ { r.client_request : r \in X }]
  BY DEF CommitPrepared, X, PairUp
<1> HIDE DEF P, s
<1>5. Fine(u, R, ord) /\ u = [s EXCEPT !.req_q = u.req_q]
  BY <1>2, <1>3, AddFine
<1>6. SameNumber(s, u)
  BY <1>2, <1>5, QueueOnly
<1> DEFINE T == u.pend_reqs \ { r.client_request : r \in X }
<1>7. T \subseteq u.pend_reqs
  OBVIOUS
<1> HIDE DEF T
<1>8. T \subseteq ClientRequest /\ IsFiniteSet(T)
  BY <1>5, <1>7, FS_Subset DEF Fine
<1>9. Fine([u EXCEPT !.pend_reqs = T], R, ord)
  BY <1>5, <1>8, WithPending
<1>10. SameNumber(u, [u EXCEPT !.pend_reqs = T])
  BY <1>5 DEF SameNumber, Fine, Whole
<1>11. t = [u EXCEPT !.pend_reqs = T]
  BY <1>4 DEF T
<1> QED
  BY <1>2, <1>6, <1>9, <1>10, <1>11 DEF SameNumber

(* A log goes on with the number that comes next.                          *)
LEMMA GrowFine ==
  ASSUME NEW R, R \subseteq Request, NEW ord, NEW s, Fine(s, R, ord),
         NEW entries \in Seq(Entries(R)),
         \A n \in DOMAIN entries : entries[n].request.seq_num = LastExec(s) + n
  PROVE  LogIsFine(s.r_log \o entries, R, ord)
<1> DEFINE log == s.r_log
           all == log \o entries
<1>1. log \in Seq(Entries(R)) /\ LastExec(s) \in Int
  BY LastExecInt DEF Fine, LogIsFine
<1>2. /\ all \in Seq(Entries(R))
      /\ Len(log) \in Nat /\ Len(entries) \in Nat
      /\ Len(all) = Len(log) + Len(entries)
      /\ \A n \in 1 .. Len(log) : all[n] = log[n]
      /\ \A n \in 1 .. Len(entries) : all[Len(log) + n] = entries[n]
      /\ DOMAIN entries = 1 .. Len(entries)
  BY <1>1
<1>3. log # <<>> => log[Len(log)].request.seq_num = LastExec(s)
  BY DEF LastExec, Last
<1> HIDE DEF all
<1>4. ASSUME ord PROVE Follow(all)
  <2> SUFFICES ASSUME NEW n \in 1 .. Len(all) - 1
               PROVE  all[n + 1].request.seq_num = all[n].request.seq_num + 1
    BY DEF Follow
  <2>1. CASE n < Len(log)
    <3>1. n \in 1 .. Len(log) - 1 /\ n \in 1 .. Len(log) /\ n + 1 \in 1 .. Len(log)
      BY <1>2, <2>1
    <3>2. log[n + 1].request.seq_num = log[n].request.seq_num + 1
      BY <1>4, <3>1 DEF Fine, LogIsFine, Follow
    <3> QED
      BY <1>2, <3>1, <3>2
  <2>2. CASE n = Len(log)
    <3>1. n \in 1 .. Len(log) /\ 1 \in 1 .. Len(entries) /\ log # <<>>
      BY <1>1, <1>2, <2>2
    <3>2. all[n].request.seq_num = LastExec(s)
      BY <1>2, <1>3, <2>2, <3>1
    <3>3. all[n + 1].request.seq_num = LastExec(s) + 1
      BY <1>2, <2>2, <3>1
    <3> QED
      BY <3>2, <3>3
  <2>3. CASE n > Len(log)
    <3> DEFINE k == n - Len(log)
    <3>1. /\ k \in 1 .. Len(entries) /\ k + 1 \in 1 .. Len(entries)
          /\ n = Len(log) + k /\ n + 1 = Len(log) + (k + 1)
      BY <1>2, <2>3
    <3> HIDE DEF k
    <3>2. all[n].request.seq_num = LastExec(s) + k
      BY <1>2, <3>1
    <3>3. all[n + 1].request.seq_num = LastExec(s) + (k + 1)
      BY <1>2, <3>1
    <3>4. k \in Int
      BY <3>1
    <3> QED
      BY <1>1, <3>2, <3>3, <3>4
  <2> QED
    BY <1>2, <2>1, <2>2, <2>3
<1> QED
  BY <1>2, <1>4 DEF LogIsFine, all

LEMMA ExecuteFine ==
  ASSUME NEW R, R \subseteq Request, NEW ord, NEW S, FineAll(S, R, ord),
         NEW i \in Node, NEW t \in ExecuteInOrder(S, i)
  PROVE  Fine(t, R, ord) /\ SameNumber(S[i], t)
<1> DEFINE s == S[i]
<1>1. Fine(s, R, ord)
  BY DEF FineAll
<1>2. PICK o \in ExecutionOrders(S, i) : t = Commit(S, s, o)
  BY DEF ExecuteInOrder
<1> DEFINE entries == [n \in DOMAIN o |-> [request |-> o[n],
                                           x_set |-> CommittedSet(S, o[n])]]
           st == s.rep_state \o Executed(entries)
           log == Newest(s, s.r_log \o entries)
           T == s.pend_reqs \ { r.client_request : r \in Range(o) }
           Q == { q \in s.req_q : q.request \notin Range(o) }
           b == s.last_req \/ o # <<>>
<1>3. t = [s EXCEPT !.rep_state = st, !.r_log = log, !.pend_reqs = T,
                    !.req_q = Q, !.last_req = b]
  BY <1>1, <1>2 DEF Commit, Fine, Whole
<1>4. PICK n \in Nat : o \in [1 .. n -> Executable(S, i)]
  BY DEF ExecutionOrders
<1>5. /\ \A m \in DOMAIN o : o[m].seq_num = LastExec(s) + m
      /\ Executable(S, i) \subseteq R
  BY SupportedFine DEF ExecutionOrders, Executable
<1>6. entries \in Seq(Entries(R))
  <2>1. \A m \in 1 .. n : o[m] \in R /\ CommittedSet(S, o[m]) \subseteq Node
    BY <1>4, <1>5 DEF CommittedSet
  <2>2. entries \in [1 .. n -> Entries(R)]
    BY <1>4, <2>1 DEF Entries
  <2> HIDE DEF entries
  <2> QED
    BY <2>2
<1>7. \A m \in DOMAIN entries : entries[m].request.seq_num = LastExec(s) + m
  BY <1>5
<1>8. T \subseteq ClientRequest /\ IsFiniteSet(T)
  <2>1. T \subseteq s.pend_reqs
    OBVIOUS
  <2> HIDE DEF T
  <2> QED
    BY <1>1, <2>1, FS_Subset DEF Fine
<1>9. Q \subseteq Pairs(R) /\ IsFiniteSet(Q)
  <2>1. Q \subseteq s.req_q
    OBVIOUS
  <2> HIDE DEF Q
  <2> QED
    BY <1>1, <2>1, FS_Subset DEF Fine
<1>9a. st \in Seq(Value) /\ b \in BOOLEAN
  <2>1. entries \in Seq(LogEntry)
    <3>1. Entries(R) \subseteq LogEntry
      BY DEF Entries, LogEntry
    <3> HIDE DEF entries
    <3> QED
      BY <1>6, <3>1, SeqMonotonic
  <2> HIDE DEF entries
  <2>2. Executed(entries) \in Seq(Value)
    BY <2>1, ExecutedAt
  <2>3. b \in BOOLEAN
    OBVIOUS
  <2> QED
    BY <1>1, <2>2, <2>3, Joined DEF Fine
<1> HIDE DEF s, entries, T, Q, b
<1>10. LogIsFine(log, R, ord)
  BY <1>1, <1>6, <1>7, GrowFine, NewestFine DEF Fine
<1> HIDE DEF st, log
<1> DEFINE u == [s EXCEPT !.rep_state = st, !.r_log = log]
           v == [u EXCEPT !.pend_reqs = T]
           w == [v EXCEPT !.req_q = Q]
<1>11. Fine(u, R, ord) /\ SameNumber(s, u)
  <2>1. Fine(u, R, ord)
    BY <1>1, <1>9a, <1>10, WithState
  <2> QED
    BY <1>1, <2>1 DEF SameNumber, Fine, Whole
<1> HIDE DEF u
<1>12. Fine(v, R, ord) /\ SameNumber(u, v)
  BY <1>8, <1>11, WithPending DEF SameNumber, Fine, Whole
<1> HIDE DEF v
<1>13. Fine(w, R, ord) /\ SameNumber(v, w)
  BY <1>9, <1>12, WithQueue, QueueOnly
<1> HIDE DEF w
<1>14. Fine([w EXCEPT !.last_req = b], R, ord) /\ SameNumber(w, [w EXCEPT !.last_req = b])
  BY <1>9a, <1>13, WithFlag DEF SameNumber, Fine, Whole
<1>15. t = [w EXCEPT !.last_req = b]
  BY <1>3 DEF u, v, w
<1> QED
  BY <1>11, <1>12, <1>13, <1>14, <1>15 DEF SameNumber, s

(* New requests G of a primary that had come to number m and comes to n.   *)
Numbered(G, m, n) ==
  /\ m <= n
  /\ \A r, o \in G : /\ m < r.seq_num /\ r.seq_num <= n
                     /\ r.seq_num = o.seq_num => r = o

LEMMA AssignFine ==
  ASSUME NEW R, R \subseteq Request, NEW ord, NEW S, FineAll(S, R, ord),
         NEW i \in Node, NEW p \in View, NEW t \in Assign(S, i, p)
  PROVE  \E G \in SUBSET Request :
           /\ Fine(t, R \cup G, ord)
           /\ t.prim = S[i].prim
           /\ Behaviour[i] = "NONE" => Numbered(G, S[i].seq_num, t.seq_num)
           /\ \A r \in G : r.client_request \in ClientRequest
<1> DEFINE s == S[i]
           todo == UnassignedReqs(S, i)
           k == Cardinality(todo)
           turns == { n \in 1 .. k :
                        s.seq_num + (n - 1) * Step(i) < LastExec(s) + SIGMA * K }
           pair(n, c) ==
             [request |-> [client_request |-> IF Behaviour[i] = "MODIFY_CLIENT_REQ"
                                                THEN Forged ELSE c,
                           view |-> p, seq_num |-> s.seq_num + n * Step(i)],
              status |-> {"PRE_PREP", "PREP"}]
           new == s.seq_num + Cardinality(turns) * Step(i)
           u == [s EXCEPT !.seq_num = new]
<1>1. Fine(s, R, ord) /\ LastExec(s) \in Int
  BY LastExecInt DEF FineAll
<1>2. todo \subseteq ClientRequest /\ k \in Nat
  <2>1. todo \subseteq s.pend_reqs
    BY DEF UnassignedReqs
  <2> HIDE DEF todo
  <2> QED
    BY <1>1, <2>1, FS_Subset, FS_CardinalityType DEF Fine
<1>3. Step(i) \in Int /\ (Behaviour[i] = "NONE" => Step(i) = 1)
  BY SigmaAssumption, ClientsAssumption DEF Step
<1>4. turns \subseteq 1 .. k /\ IsFiniteSet(turns) /\ Cardinality(turns) \in Nat
  <2>1. turns \subseteq 1 .. k
    OBVIOUS
  <2> HIDE DEF turns, k
  <2>2. IsFiniteSet(1 .. k)
    BY <1>2, FS_Interval
  <2>3. IsFiniteSet(turns)
    BY <2>1, <2>2, FS_Subset
  <2> QED
    BY <2>1, <2>3, FS_CardinalityType
<1>5. PICK f \in Injection(turns, todo) : t \in AddToReqQ(u, { pair(n, f[n]) : n \in turns })
  BY <1>1 DEF Assign, Fine, Whole
<1> HIDE DEF todo
<1> DEFINE req == [n \in turns |-> pair(n, f[n]).request]
           G == { req[n] : n \in turns }
           P == PairUp(G, {"PRE_PREP", "PREP"})
<1>6. new \in Int
  BY <1>1, <1>3, <1>4 DEF Fine
<1>7. Fine(u, R, ord) /\ u.seq_num = new /\ u.prim = s.prim
  <2> HIDE DEF new
  <2> QED
    BY <1>1, <1>6, WithNumber DEF Fine, Whole
<1>8. \A n \in turns : req[n] \in Request /\ req[n].client_request \in ClientRequest
  <2> SUFFICES ASSUME NEW n \in turns
               PROVE  /\ pair(n, f[n]).request \in Request
                      /\ pair(n, f[n]).request.client_request \in ClientRequest
    OBVIOUS
  <2>1. n \in Int /\ f[n] \in ClientRequest
    BY <1>2, <1>4, <1>5 DEF Injection
  <2>2. s.seq_num + n * Step(i) \in Int
    BY <1>1, <1>3, <2>1 DEF Fine
  <2> QED
    BY <2>1, <2>2, BehaviourAssumption DEF Request
<1>9. P = { pair(n, f[n]) : n \in turns }
  BY DEF PairUp
<1>10. \A n \in turns : req[n].seq_num = s.seq_num + n * Step(i)
  OBVIOUS
<1>11. ASSUME Behaviour[i] = "NONE", NEW n \in turns
       PROVE  n <= Cardinality(turns)
  <2>1. n \in 1 .. k
    BY <1>4
  <2>2. 1 .. n \subseteq turns
    BY <1>1, <1>2, <1>3, <1>11, <2>1, SigmaAssumption, ClientsAssumption DEF Fine
  <2> HIDE DEF turns
  <2>3. Cardinality(1 .. n) = n
    BY <2>1, FS_Interval
  <2> QED
    BY <1>4, <2>2, <2>3, FS_Subset
<1> HIDE DEF req, turns, u, new
<1>12. G \subseteq Request /\ IsFiniteSet(G)
  BY <1>4, <1>8, ImageFinite
<1>13. \A r \in G : \E n \in turns : r = req[n]
  OBVIOUS
<1> HIDE DEF G
<1>13a. \A r \in G : r.client_request \in ClientRequest
  BY <1>8, <1>13
<1>14. Fine(t, R \cup G, ord) /\ t = [u EXCEPT !.req_q = t.req_q]
  <2>1. {"PRE_PREP", "PREP"} \subseteq Status
    BY DEF Status
  <2>2. P \subseteq Pairs(R \cup G) /\ IsFiniteSet(P)
    BY <1>12, <2>1, PairUpFine
  <2>3. Fine(u, R \cup G, ord)
    BY <1>7, FineInMore
  <2>4. t \in AddToReqQ(u, P)
    BY <1>5, <1>9
  <2> HIDE DEF P
  <2> QED
    BY <2>2, <2>3, <2>4, AddFine
<1>15. t.seq_num = new /\ t.prim = s.prim
  BY <1>7, <1>14 DEF Fine, Whole
<1>16. ASSUME Behaviour[i] = "NONE"
       PROVE  Numbered(G, s.seq_num, t.seq_num)
  <2>1. s.seq_num \in Int /\ new = s.seq_num + Cardinality(turns)
    BY <1>1, <1>3, <1>4, <1>16 DEF Fine, new
  <2>2. \A n \in turns : req[n].seq_num = s.seq_num + n /\ n \in 1 .. Cardinality(turns)
    BY <1>3, <1>4, <1>10, <1>11, <1>16, <2>1
  <2> QED
    BY <1>4, <1>13, <1>15, <2>1, <2>2 DEF Numbered
<1> QED
  BY <1>12, <1>13a, <1>14, <1>15, <1>16

LEMMA AllInMore ==
  ASSUME NEW R, NEW Q, R \subseteq Q, NEW ord, NEW S, FineAll(S, R, ord)
  PROVE  FineAll(S, Q, ord)
BY FineInMore DEF FineAll

(* What one round of requests makes of the structure s of node i: the      *)
(* primary stays, and only a node that is its own primary numbers some.    *)
Progress(R, ord, i, p, s, t) ==
  \E G \in SUBSET Request :
    /\ Fine(t, R \cup G, ord)
    /\ t.prim = s.prim
    /\ p # i => G = {} /\ t.seq_num = s.seq_num
    /\ Behaviour[i] = "NONE" => Numbered(G, s.seq_num, t.seq_num)

(* The steps of a round: requests are numbered or accepted, then           *)
(* committed, then executed.                                               *)
Numbering(S, i, p) ==
  IF p = i /\ Behaviour[i] # "STOP_ASSIGNING_SEQNUMS"
    THEN Assign(S, i, p)
    ELSE { Prepare([S EXCEPT ![i] = s], i) : s \in AcceptPreprep(S, i, p) }

LEMMA RequestSteps ==
  ASSUME NEW S, NEW i, NEW p, NEW t \in ProcessRequests(S, i, p)
  PROVE  \E u \in Numbering(S, i, p) :
         \E w \in CommitPrepared([S EXCEPT ![i] = u], i) :
           t \in ExecuteInOrder([S EXCEPT ![i] = w], i)
<1> DEFINE own(s) == [S EXCEPT ![i] = s]
           committed == UNION { CommitPrepared(own(s), i) : s \in Numbering(S, i, p) }
<1>1. ProcessRequests(S, i, p) = UNION { ExecuteInOrder(own(s), i) : s \in committed }
  BY DEF ProcessRequests, Numbering
<1> HIDE DEF own, committed
<1>2. PICK w \in committed : t \in ExecuteInOrder(own(w), i)
  BY <1>1
<1>3. PICK u \in Numbering(S, i, p) : w \in CommitPrepared(own(u), i)
  BY <1>2 DEF committed
<1> QED
  BY <1>2, <1>3 DEF own

LEMMA ProcessFine ==
  ASSUME NEW R, R \subseteq Request, NEW ord, NEW S, FineAll(S, R, ord),
         NEW i \in Node, NEW p \in View, NEW t \in ProcessRequests(S, i, p)
  PROVE  Progress(R, ord, i, p, S[i], t)
<1> DEFINE own(s) == [S EXCEPT ![i] = s]
           numbered == Numbering(S, i, p)
<1>1. PICK u \in numbered : \E w \in CommitPrepared(own(u), i) :
             t \in ExecuteInOrder(own(w), i)
  BY RequestSteps
<1>2. Fine(S[i], R, ord) /\ S[i].seq_num \in Int
  BY DEF FineAll, Fine
<1>2a. \A s, Q : /\ FineAll(S, Q, ord) /\ Fine(s, Q, ord)
                => FineAll(own(s), Q, ord) /\ own(s)[i] = s
  BY UpdateFine
<1> HIDE DEF own
<1>3. Progress(R, ord, i, p, S[i], u)
  <2>1. CASE p = i /\ Behaviour[i] # "STOP_ASSIGNING_SEQNUMS"
    <3>1. u \in Assign(S, i, p)
      BY <1>1, <2>1 DEF Numbering
    <3> QED
      BY <2>1, <3>1, AssignFine DEF Progress
  <2>2. CASE ~(p = i /\ Behaviour[i] # "STOP_ASSIGNING_SEQNUMS")
    <3>1. PICK s \in AcceptPreprep(S, i, p) : u = Prepare(own(s), i)
      BY <1>1, <2>2 DEF Numbering, own
    <3>2. Fine(s, R, ord) /\ SameNumber(S[i], s)
      BY AcceptFine
    <3>3. FineAll(own(s), R, ord) /\ own(s)[i] = s
      BY <1>2a, <3>2
    <3>4. Fine(u, R, ord) /\ SameNumber(s, u)
      BY <3>1, <3>3, PrepareFine
    <3>5. R \cup {} = R /\ Numbered({}, S[i].seq_num, S[i].seq_num)
      BY <1>2 DEF Numbered
    <3> QED
      BY <3>2, <3>4, <3>5 DEF SameNumber, Progress
  <2> QED
    BY <2>1, <2>2
<1> HIDE DEF numbered
<1>4. PICK G \in SUBSET Request :
        /\ Fine(u, R \cup G, ord)
        /\ u.prim = S[i].prim
        /\ p # i => G = {} /\ u.seq_num = S[i].seq_num
        /\ Behaviour[i] = "NONE" => Numbered(G, S[i].seq_num, u.seq_num)
  BY <1>3 DEF Progress
<1>5. PICK w \in CommitPrepared(own(u), i) : t \in ExecuteInOrder(own(w), i)
  BY <1>1
<1>6. FineAll(S, R \cup G, ord) /\ R \cup G \subseteq Request
  BY AllInMore
<1>7. FineAll(own(u), R \cup G, ord) /\ own(u)[i] = u
  BY <1>2a, <1>4, <1>6
<1>8. Fine(w, R \cup G, ord) /\ SameNumber(u, w)
  BY <1>5, <1>7, CommitPreparedFine
<1>9. FineAll(own(w), R \cup G, ord) /\ own(w)[i] = w
  BY <1>2a, <1>6, <1>8
<1>10. Fine(t, R \cup G, ord) /\ SameNumber(w, t)
  BY <1>5, <1>6, <1>9, ExecuteFine
<1> QED
  BY <1>4, <1>8, <1>10 DEF SameNumber, Progress

-----------------------------------------------------------------------------
(* The loop body after the steps of a view change.                         *)

LEMMA AskedFine ==
  ASSUME NEW R, NEW ord, NEW S, FineAll(S, R, ord), NEW i \in Node,
         NEW C, C \subseteq ClientRequest, IsFiniteSet(C),
         NEW T \in AskedFor(S, i, C)
  PROVE  FineAll(T, R, ord) /\ SameNumber(S[i], T[i])
<1> DEFINE own(s) == [S EXCEPT ![i] = s]
<1>1. \A s : Fine(s, R, ord) => FineAll(own(s), R, ord) /\ own(s)[i] = s
  BY UpdateFine
<1>2. Fine(S[i], R, ord)
  BY DEF FineAll
<1>3. \E t \in ExtendPendReqs(S[i], C) : \E s \in ExtendPendReqs(t, KnownPendReqs(own(t))) :
        T = own(s)
  BY DEF AskedFor
<1> HIDE DEF own
<1>4. PICK t \in ExtendPendReqs(S[i], C) :
        \E s \in ExtendPendReqs(t, KnownPendReqs(own(t))) : T = own(s)
  BY <1>3
<1>5. PICK s \in ExtendPendReqs(t, KnownPendReqs(own(t))) : T = own(s)
  BY <1>4
<1>6. Fine(t, R, ord) /\ t = [S[i] EXCEPT !.pend_reqs = t.pend_reqs]
  BY <1>2, ExtendFine
<1>7. KnownPendReqs(own(t)) \subseteq ClientRequest /\ IsFiniteSet(KnownPendReqs(own(t)))
  BY <1>1, <1>6, KnownFine
<1>8. Fine(s, R, ord) /\ s = [t EXCEPT !.pend_reqs = s.pend_reqs]
  BY <1>6, <1>7, ExtendFine
<1>9. SameNumber(S[i], t)
  BY <1>2, <1>6 DEF SameNumber, Fine, Whole
<1>10. SameNumber(t, s)
  BY <1>6, <1>8 DEF SameNumber, Fine, Whole
<1> QED
  BY <1>1, <1>5, <1>8, <1>9, <1>10 DEF SameNumber

Placed(S, i, s) == [S EXCEPT ![i] = s]

Considered(S, i, flush) ==
  IF flush THEN FlushLocal ELSE Placed(S, i, Consolidate(S, i))

(* The outcome for a node i with the own structure s, in the view p.  If   *)
(* it does not flush it keeps its primary, and only numbers more requests. *)
Outcome(R, ord, i, p, s, row) ==
  \E G \in SUBSET Request :
    /\ FineAll(row, R \cup G, ord)
    /\ p # i => G = {}
    /\ row[i].prim # TEE =>
         /\ row[i].prim = s.prim
         /\ p # i => row[i].seq_num = s.seq_num
         /\ Behaviour[i] = "NONE" => Numbered(G, s.seq_num, row[i].seq_num)

LEMMA RestFine ==
  ASSUME NEW R, R \subseteq Request, NEW ord, NEW S, FineAll(S, R, ord),
         NEW i \in Node, NEW p \in View, NEW flush \in BOOLEAN,
         NEW C, C \subseteq ClientRequest, IsFiniteSet(C),
         NEW T \in AskedFor(Considered(S, i, flush), i, C),
         NEW s, s \in ProcessRequests(T, i, p) \/ s = T[i]
  PROVE  Outcome(R, ord, i, p, S[i], Placed(T, i, s))
<1> DEFINE U == Considered(S, i, flush)
<1>1. FineAll(U, R, ord) /\ (flush => U[i].prim = TEE) /\ (~flush => SameNumber(S[i], U[i]))
  <2>1. CASE flush
    <3>1. FlushLocal[i].prim = TEE
      BY DEF FlushLocal, SetToTee, FreshStructure
    <3> QED
      BY <2>1, <3>1, FlushFine DEF Considered
  <2>2. CASE ~flush
    BY <2>2, ConsolidateFine, UpdateFine DEF SameNumber, Considered, Placed
  <2> QED
    BY <2>1, <2>2
<1> HIDE DEF U
<1>2. FineAll(T, R, ord) /\ SameNumber(U[i], T[i])
  BY <1>1, AskedFine DEF U
<1>3. Progress(R, ord, i, p, T[i], s)
  <2>1. CASE s \in ProcessRequests(T, i, p)
    BY <1>2, <2>1, ProcessFine
  <2>2. CASE s = T[i]
    <3>1. Fine(s, R, ord) /\ s.seq_num \in Int
      BY <1>2, <2>2 DEF FineAll, Fine
    <3>2. R \cup {} = R /\ Numbered({}, s.seq_num, s.seq_num)
      BY <3>1 DEF Numbered
    <3> QED
      BY <2>2, <3>1, <3>2 DEF Progress
  <2> QED
    BY <2>1, <2>2
<1>4. PICK G \in SUBSET Request :
        /\ Fine(s, R \cup G, ord)
        /\ s.prim = T[i].prim
        /\ p # i => G = {} /\ s.seq_num = T[i].seq_num
        /\ Behaviour[i] = "NONE" => Numbered(G, T[i].seq_num, s.seq_num)
  BY <1>3 DEF Progress
<1>5. FineAll(T, R \cup G, ord)
  BY <1>2, AllInMore
<1>6. FineAll(Placed(T, i, s), R \cup G, ord) /\ Placed(T, i, s)[i] = s
  BY <1>4, <1>5, UpdateFine DEF Placed
<1> QED
  BY <1>1, <1>2, <1>4, <1>6 DEF SameNumber, Outcome

-----------------------------------------------------------------------------
(* The state of all nodes.                                                 *)

RepFine(R, ord) == DOMAIN rep = Node /\ \A i \in Node : FineAll(rep[i], R, ord)

NetFine(R, ord) ==
  \E M : (\A s \in M : Fine(s, R, ord)) /\ net \in [Node -> [Node -> Seq(M)]]

AllFine(R, ord) == RepFine(R, ord) /\ NetFine(R, ord)

(* Nodes send to others only.                                              *)
Wired ==
  /\ ve \in [Node -> Answers]
  /\ pc \in [Node -> 0 .. N]
  /\ \A i \in Node : pc[i] # i /\ net[i][i] = <<>>

(* A step in which the body of a loop runs, and any other step.            *)
BodyStep(i) ==
  \E again, no_view_change, C :
    /\ again \in {ve[i], ve'[i]}
    /\ C \subseteq ClientRequest /\ IsFiniteSet(C)
    /\ RunBody(i, ve[i], again, no_view_change, C)

QuietStep ==
  \/ \E i \in Node : Move(i)
  \/ \E i \in Node, c \in ClientRequest : Inject(i, c)
  \/ \E i, j \in Node : SendTo(i, j) \/ Receive(i, j)
  \/ UNCHANGED vars

LEMMA StepKinds ==
  ASSUME Wired, [Next]_vars
  PROVE  QuietStep \/ \E i \in Node : BodyStep(i)
<1>1. IsFiniteSet({}) /\ \A c \in ClientRequest : IsFiniteSet({c})
  BY FS_EmptySet, FS_Singleton
<1>2. ASSUME NEW i \in Node, Run(i)
      PROVE  BodyStep(i)
  BY <1>1, <1>2 DEF Run, BodyStep
<1>3. ASSUME NEW i \in Node, RunAcrossMove(i)
      PROVE  BodyStep(i)
  <2>1. PICK a \in Answers :
          MoveTo(i, a) /\ \E again \in {ve[i], a} :
                            RunBody(i, ve[i], again, a.no_view_change, {})
    BY <1>3 DEF RunAcrossMove
  <2>2. ve'[i] = a
    BY <2>1 DEF MoveTo, Wired
  <2> QED
    BY <1>1, <2>1, <2>2 DEF BodyStep
<1>4. ASSUME NEW i \in Node, NEW c \in ClientRequest, RunDuringInject(i, c)
      PROVE  BodyStep(i)
  BY <1>1, <1>4 DEF RunDuringInject, BodyStep
<1> QED
  BY <1>2, <1>3, <1>4 DEF Next, QuietStep

LEMMA NextPeerIsOther ==
  ASSUME NEW i \in Node, NEW k
  PROVE  NextPeer(i, k) \in 0 .. N /\ NextPeer(i, k) # i
<1> DEFINE peers == { j \in Alive \ {i} : j >= k }
           first == CHOOSE j \in peers : \A l \in peers : j <= l
           less == OpToRel(<, Nat)
<1>1. NextPeer(i, k) = IF peers = {} THEN N ELSE first
  BY DEF NextPeer
<1>2. N \in 0 .. N /\ N # i
  BY NodesExist DEF Node
<1>3. peers \subseteq Nat /\ peers \subseteq 0 .. N /\ i \notin peers
  BY NodesExist DEF Alive, Node
<1>4. \A m, n \in Nat : m < n => <<m, n>> \in less
  BY DEF OpToRel
<1> HIDE DEF less, peers
<1>5. CASE peers # {}
  <2>1. IsWellFoundedOn(less, Nat)
    BY NatLessThanWellFounded DEF less
  <2>2. PICK j \in peers : \A l \in peers : ~ (<<l, j>> \in less)
    BY <1>3, <1>5, <2>1, WFMin
  <2>3. \A l \in peers : j <= l
    <3>1. SUFFICES ASSUME NEW l \in peers PROVE j <= l
      OBVIOUS
    <3>2. l \in Nat /\ j \in Nat /\ <<l, j>> \notin less
      BY <1>3, <2>2
    <3>3. ~(l < j)
      BY <1>4, <3>2
    <3> QED
      BY <3>2, <3>3
  <2>4. first \in peers
    BY <2>3
  <2> QED
    BY <1>1, <1>3, <1>5, <2>4
<1> QED
  BY <1>1, <1>2, <1>5

LEMMA WiredStep ==
  ASSUME Wired, [Next]_vars
  PROVE  Wired'
<1>1. ve' \in [Node -> Answers]
  <2>1. \A i \in Node, a \in Answers : MoveTo(i, a) => ve' \in [Node -> Answers]
    BY DEF MoveTo, Wired
  <2> QED
    BY <2>1 DEF Wired, Next, Run, RunAcrossMove, Move, Inject, RunDuringInject,
                SendTo, Receive, vars
<1>2. ASSUME NEW i \in Node, BodyStep(i)
      PROVE  /\ pc' \in [Node -> 0 .. N] /\ net' = net
             /\ \A j \in Node : pc'[j] # j
  <2>1. pc' = [pc EXCEPT ![i] = NextPeer(i, 0)] /\ net' = net
    BY <1>2 DEF BodyStep, RunBody, LoopStarts
  <2> QED
    BY <2>1, NextPeerIsOther DEF Wired
<1>3. ASSUME QuietStep
      PROVE  /\ pc' \in [Node -> 0 .. N]
             /\ \A j \in Node : pc'[j] # j /\ net'[j][j] = <<>>
  <2>1. CASE UNCHANGED <<pc, net>>
    BY <2>1 DEF Wired
  <2>2. CASE \E i, j \in Node : SendTo(i, j)
    <3>1. PICK i \in Node, j \in Node : SendTo(i, j)
      BY <2>2
    <3>2. i # j /\ pc' = [pc EXCEPT ![i] = NextPeer(i, j + 1)]
      BY <3>1 DEF SendTo, Wired
    <3>3. \A k \in Node : net'[k][k] = net[k][k]
      BY <3>1, <3>2 DEF SendTo
    <3> QED
      BY <3>2, <3>3, NextPeerIsOther DEF Wired
  <2>3. CASE \E i, j \in Node : Receive(i, j)
    <3>1. PICK i \in Node, j \in Node : Receive(i, j)
      BY <2>3
    <3>2. i # j /\ pc' = pc
      BY <3>1 DEF Receive, Wired
    <3>3. \A k \in Node : net'[k][k] = net[k][k]
      BY <3>1, <3>2 DEF Receive
    <3> QED
      BY <3>2, <3>3 DEF Wired
  <2> QED
    BY <1>3, <2>1, <2>2, <2>3 DEF QuietStep, Move, Inject, vars
<1> QED
  BY <1>1, <1>2, <1>3, StepKinds DEF Wired

-----------------------------------------------------------------------------
(* What the body of a loop leaves.                                         *)

(* It comes from a structure s that the view part gives.                   *)
BodyFrom(i, s, p, C) ==
  \E flush \in BOOLEAN :
  \E T \in AskedFor(Considered(Placed(rep[i], i, s), i, flush), i, C) :
  \E t : /\ t \in ProcessRequests(T, i, p) \/ t = T[i]
         /\ rep' = Placed(rep, i, Placed(T, i, t))

LEMMA BodyParts ==
  ASSUME NEW i \in Node, NEW read, NEW again, NEW no_view_change, NEW C,
         RunBody(i, read, again, no_view_change, C)
  PROVE  \E s \in ViewPart(rep[i], i, read, again) :
           BodyFrom(i, s, again.views[i], C)
<1>1. PICK S \in Agreed(i, read, again) :
        \E T \in AskedFor(IF MustFlush(S, i) THEN FlushLocal ELSE S, i, C) :
        \E t : /\ t \in ProcessRequests(T, i, again.views[i]) \/ t = T[i]
               /\ rep' = Placed(rep, i, Placed(T, i, t))
  BY DEF RunBody, Placed
<1>2. PICK s \in ViewPart(rep[i], i, read, again) :
        S = Placed(Placed(rep[i], i, s), i, Consolidate(Placed(rep[i], i, s), i))
  BY DEF Agreed, Placed
<1>3. /\ MustFlush(S, i) \in BOOLEAN
      /\ Considered(Placed(rep[i], i, s), i, MustFlush(S, i)) =
           IF MustFlush(S, i) THEN FlushLocal ELSE S
  BY <1>2 DEF MustFlush, Considered
<1> QED
  BY <1>1, <1>3 DEF BodyFrom

LEMMA BodyFine ==
  ASSUME NEW R, R \subseteq Request, NEW ord, NEW i \in Node,
         FineAll(rep[i], R, ord), NEW s, Fine(s, R, ord), NEW p \in View,
         NEW C, C \subseteq ClientRequest, IsFiniteSet(C), BodyFrom(i, s, p, C)
  PROVE  \E row : rep' = Placed(rep, i, row) /\ Outcome(R, ord, i, p, s, row)
<1> DEFINE S == Placed(rep[i], i, s)
<1>1. FineAll(S, R, ord) /\ S[i] = s
  BY UpdateFine DEF Placed
<1> HIDE DEF S
<1>2. PICK flush \in BOOLEAN :
        \E T \in AskedFor(Considered(S, i, flush), i, C) :
        \E t : /\ t \in ProcessRequests(T, i, p) \/ t = T[i]
               /\ rep' = Placed(rep, i, Placed(T, i, t))
  BY DEF BodyFrom, S
<1>3. PICK T \in AskedFor(Considered(S, i, flush), i, C) :
        \E t : /\ t \in ProcessRequests(T, i, p) \/ t = T[i]
               /\ rep' = Placed(rep, i, Placed(T, i, t))
  BY <1>2
<1>4. PICK t : /\ t \in ProcessRequests(T, i, p) \/ t = T[i]
               /\ rep' = Placed(rep, i, Placed(T, i, t))
  BY <1>3
<1>5. Outcome(R, ord, i, p, S[i], Placed(T, i, t))
  BY <1>1, <1>4, RestFine
<1> QED
  BY <1>1, <1>4, <1>5

LEMMA RowFine ==
  ASSUME NEW R, NEW ord, RepFine(R, ord), NEW i \in Node,
         NEW row, FineAll(row, R, ord), rep' = Placed(rep, i, row)
  PROVE  RepFine(R, ord)'
<1>1. DOMAIN rep' = Node /\ \A j \in Node : rep'[j] = IF j = i THEN row ELSE rep[j]
  BY DEF RepFine, Placed
<1>2. \A j \in Node : FineAll(rep'[j], R, ord)
  BY <1>1 DEF RepFine
<1> QED
  BY <1>1, <1>2 DEF RepFine, FineAll, Fine, Whole, LogIsFine, Follow

LEMMA BodyStepFine ==
  ASSUME NEW ord \in BOOLEAN, AllFine(Request, ord), Wired, Wired',
         NEW i \in Node, BodyStep(i)
  PROVE  AllFine(Request, ord)'
<1>1. PICK again, no_view_change, C :
        /\ again \in {ve[i], ve'[i]}
        /\ C \subseteq ClientRequest /\ IsFiniteSet(C)
        /\ RunBody(i, ve[i], again, no_view_change, C)
  BY DEF BodyStep
<1>2. again \in Answer /\ again.views[i] \in View
  BY <1>1, AnswersAssumption DEF Wired, Answer
<1>3. PICK s \in ViewPart(rep[i], i, ve[i], again) : BodyFrom(i, s, again.views[i], C)
  BY <1>1, BodyParts
<1>4. FineAll(rep[i], Request, ord)
  BY DEF AllFine, RepFine
<1>5. Fine(s, Request, ord)
  BY <1>2, <1>4, ViewPartFine
<1>6. PICK row : /\ rep' = Placed(rep, i, row)
                 /\ Outcome(Request, ord, i, again.views[i], s, row)
  BY <1>1, <1>2, <1>3, <1>4, <1>5, BodyFine
<1>7. FineAll(row, Request, ord)
  <2>1. \A G \in SUBSET Request : Request \cup G = Request
    OBVIOUS
  <2> QED
    BY <1>6, <2>1 DEF Outcome
<1>8. RepFine(Request, ord)'
  BY <1>6, <1>7, RowFine DEF AllFine
<1>9. net' = net
  BY <1>1 DEF RunBody
<1> QED
  BY <1>8, <1>9 DEF AllFine, NetFine, Fine, Whole, LogIsFine, Follow

(* Other steps bring no request that was not there.                        *)
LEMMA QuietFine ==
  ASSUME NEW R, NEW ord \in BOOLEAN, AllFine(R, ord), Wired, QuietStep
  PROVE  /\ AllFine(R, ord)'
         /\ \A i \in Node : SameNumber(Own(i), Own(i)')
<1> USE DEF AllFine
<1>1. CASE UNCHANGED <<rep, net>>
  <2>1. RepFine(R, ord)'
    BY <1>1 DEF RepFine, FineAll, Fine, Whole, LogIsFine, Follow
  <2>2. PICK M : (\A s \in M : Fine(s, R, ord)) /\ net \in [Node -> [Node -> Seq(M)]]
    BY DEF NetFine
  <2>3. net' \in [Node -> [Node -> Seq(M)]]
    BY <1>1, <2>2
  <2>4. NetFine(R, ord)'
    BY <2>2, <2>3 DEF NetFine, Fine, Whole, LogIsFine, Follow
  <2>5. \A i \in Node : Own(i)' = Own(i)
    BY <1>1 DEF Own
  <2> QED
    BY <2>1, <2>4, <2>5 DEF SameNumber
<1>2. ASSUME NEW i \in Node, NEW c \in ClientRequest, Inject(i, c)
      PROVE  /\ AllFine(R, ord)'
             /\ \A j \in Node : SameNumber(Own(j), Own(j)')
  <2>1. PICK s \in ExtendPendReqs(rep[i][i], {c}) : rep' = [rep EXCEPT ![i][i] = s]
    BY <1>2 DEF Inject
  <2>2. FineAll(rep[i], R, ord) /\ Fine(rep[i][i], R, ord)
    BY DEF RepFine, FineAll
  <2>3. IsFiniteSet({c})
    BY FS_Singleton
  <2>4. Fine(s, R, ord) /\ SameNumber(rep[i][i], s)
    <3>1. Fine(s, R, ord) /\ s = [rep[i][i] EXCEPT !.pend_reqs = s.pend_reqs]
      BY <2>2, <2>3, ExtendFine
    <3> QED
      BY <2>2, <3>1 DEF SameNumber, Fine, Whole
  <2>5. rep' = Placed(rep, i, Placed(rep[i], i, s))
    BY <2>1, <2>2 DEF Placed, RepFine, FineAll
  <2>6. FineAll(Placed(rep[i], i, s), R, ord) /\ Placed(rep[i], i, s)[i] = s
    BY <2>2, <2>4, UpdateFine DEF Placed
  <2>7. RepFine(R, ord)'
    BY <2>5, <2>6, RowFine
  <2>8. \A j \in Node : SameNumber(Own(j), Own(j)')
    BY <2>1, <2>2, <2>4 DEF Own, SameNumber, RepFine, FineAll
  <2>9. net' = net
    BY <1>2 DEF Inject
  <2> QED
    BY <2>7, <2>8, <2>9 DEF NetFine, Fine, Whole, LogIsFine, Follow
<1>3. ASSUME NEW i \in Node, NEW j \in Node, SendTo(i, j)
      PROVE  /\ AllFine(R, ord)'
             /\ \A k \in Node : SameNumber(Own(k), Own(k)')
  <2>1. PICK M : (\A s \in M : Fine(s, R, ord)) /\ net \in [Node -> [Node -> Seq(M)]]
    BY DEF NetFine
  <2> DEFINE L == M \cup {rep[i][i]}
  <2>2. \A s \in L : Fine(s, R, ord)
    BY <2>1 DEF RepFine, FineAll
  <2>3. net' = [net EXCEPT ![i][j] = Append(net[i][j], rep[i][i])] /\ rep' = rep
    BY <1>3 DEF SendTo
  <2>4. net' \in [Node -> [Node -> Seq(L)]]
    <3>1. \A k, l \in Node : net[k][l] \in Seq(L)
      BY <2>1
    <3>2. Append(net[i][j], rep[i][i]) \in Seq(L)
      BY <3>1
    <3> HIDE DEF L
    <3>3. net \in [Node -> [Node -> Seq(L)]]
      BY <2>1, <3>1
    <3> QED
      BY <2>3, <3>2, <3>3
  <2> HIDE DEF L
  <2>5. PICK Q : Q = L
    OBVIOUS
  <2>6. NetFine(R, ord)'
    BY <2>2, <2>4, <2>5 DEF NetFine, Fine, Whole, LogIsFine, Follow
  <2> QED
    BY <2>3, <2>6 DEF RepFine, FineAll, Fine, Whole, LogIsFine, Follow, SameNumber, Own
<1>4. ASSUME NEW i \in Node, NEW j \in Node, Receive(i, j)
      PROVE  /\ AllFine(R, ord)'
             /\ \A k \in Node : SameNumber(Own(k), Own(k)')
  <2>1. PICK M : (\A s \in M : Fine(s, R, ord)) /\ net \in [Node -> [Node -> Seq(M)]]
    BY DEF NetFine
  <2>2. /\ net[j][i] \in Seq(M) /\ net[j][i] # <<>> /\ i # j
        /\ net' = [net EXCEPT ![j][i] = Tail(net[j][i])]
        /\ rep' = [rep EXCEPT ![i][j] = Believed(i, j, Head(net[j][i]))]
    BY <1>4, <2>1 DEF Receive, Wired
  <2>3. Head(net[j][i]) \in M /\ Tail(net[j][i]) \in Seq(M)
    BY <2>2
  <2>4. FineAll(rep[i], R, ord) /\ Fine(rep[i][j], R, ord)
    BY DEF RepFine, FineAll
  <2> DEFINE s == Believed(i, j, Head(net[j][i]))
  <2>5. Fine(s, R, ord)
    <3>1. Fine(Head(net[j][i]), R, ord)
      BY <2>1, <2>3
    <3>2. Fine([rep[i][j] EXCEPT !.rep_state = Head(net[j][i]).rep_state], R, ord)
      <4>1. Head(net[j][i]).rep_state \in Seq(Value)
        BY <3>1 DEF Fine
      <4> QED
        BY <2>4, <4>1, WithList
    <3> QED
      BY <2>4, <3>1, <3>2 DEF Believed
  <2>6. rep' = Placed(rep, i, Placed(rep[i], j, s))
    BY <2>2, <2>4 DEF Placed, RepFine, FineAll
  <2> HIDE DEF s
  <2>7. FineAll(Placed(rep[i], j, s), R, ord)
    BY <2>4, <2>5, UpdateFine DEF Placed
  <2>8. RepFine(R, ord)'
    BY <2>6, <2>7, RowFine
  <2>9. net' \in [Node -> [Node -> Seq(M)]]
    BY <2>1, <2>2, <2>3
  <2>10. NetFine(R, ord)'
    BY <2>1, <2>9 DEF NetFine, Fine, Whole, LogIsFine, Follow
  <2>11. \A k \in Node : Own(k)' = Own(k)
    BY <2>2 DEF Own, RepFine, FineAll
  <2> QED
    BY <2>8, <2>10, <2>11 DEF SameNumber
<1> QED
  BY <1>1, <1>2, <1>3, <1>4 DEF QuietStep, Move, vars

-----------------------------------------------------------------------------
(* From the start on.                                                      *)

LEMMA StructureFine ==
  ASSUME NEW s \in Structure, IsFiniteSet(s.pend_reqs), IsFiniteSet(s.req_q)
  PROVE  Fine(s, Request, FALSE)
<1>1. s.r_log \in Seq(Entries(Request)) /\ s.req_q \subseteq Pairs(Request)
  BY DEF Structure, LogEntry, ReqPair, Entries, Pairs
<1> QED
  BY <1>1 DEF Structure, Fine, Whole, LogIsFine

LEMMA InitFine ==
  ASSUME Init
  PROVE  AllFine(Request, FALSE) /\ Wired
<1>1. PICK S \in StartStates : rep = S
  BY DEF Init
<1>2. rep \in [Node -> [Node -> Structure]]
  BY <1>1, StartAssumption
<1>3. \A i, j \in Node : Fine(rep[i][j], Request, FALSE)
  BY <1>1, <1>2, StartAssumption, StructureFine
<1>4. RepFine(Request, FALSE)
  BY <1>2, <1>3 DEF RepFine, FineAll
<1>5. net \in [Node -> [Node -> Seq({})]]
  BY DEF Init
<1>6. NetFine(Request, FALSE)
  BY <1>5 DEF NetFine
<1>7. N \in 0 .. N /\ \A i \in Node : N # i
  BY NodesAssumption DEF Node
<1>8. Wired
  BY <1>7, AnswersAssumption DEF Init, Wired
<1> QED
  BY <1>4, <1>6, <1>8 DEF AllFine

LEMMA StepFine ==
  ASSUME NEW ord \in BOOLEAN, AllFine(Request, ord), Wired, [Next]_vars
  PROVE  AllFine(Request, ord)' /\ Wired'
<1>1. Wired'
  BY WiredStep
<1>2. CASE QuietStep
  BY <1>1, <1>2, QuietFine
<1>3. ASSUME NEW i \in Node, BodyStep(i)
      PROVE  AllFine(Request, ord)'
  BY <1>1, <1>3, BodyStepFine
<1> QED
  BY <1>1, <1>2, <1>3, StepKinds

(* All structures, believed ones and those in messages too, keep the shape *)
(* that the code relies on: finite queues and logs of requests of clients, *)
(* numbered by integers, through whatever the loops take over from each    *)
(* other; and no node has messages for itself.                             *)
THEOREM Shape == Spec => [](AllFine(Request, FALSE) /\ Wired)
<1>1. Init => AllFine(Request, FALSE) /\ Wired
  BY InitFine
<1>2. AllFine(Request, FALSE) /\ Wired /\ [Next]_vars =>
        (AllFine(Request, FALSE) /\ Wired)'
  BY StepFine
<1> QED
  BY <1>1, <1>2, PTL DEF Spec


-----------------------------------------------------------------------------
(* Type correctness.                                                       *)

LEMMA FineStructure ==
  ASSUME NEW s, Fine(s, Request, FALSE)
  PROVE  s \in Structure
<1>1. s.r_log \in Seq(LogEntry) /\ s.req_q \in SUBSET ReqPair
  BY DEF Fine, LogIsFine, LogEntry, ReqPair, Entries, Pairs
<1>2. /\ s.rep_state \in Seq(Value) /\ s.pend_reqs \in SUBSET ClientRequest
      /\ s.last_req \in BOOLEAN /\ s.con_flag \in BOOLEAN /\ s.view_changed \in BOOLEAN
      /\ s.seq_num \in Int /\ s.prim \in View /\ s.number_of_clients \in Nat
  BY DEF Fine
<1>3. Whole(s)
  BY DEF Fine
<1> QED
  BY <1>1, <1>2, <1>3 DEF Whole, Structure

(* One structure of each node.                                             *)
IsRow(S) == S = [j \in Node |-> S[j]]

LEMMA RowKept ==
  ASSUME NEW S, IsRow(S), NEW i \in Node, NEW s
  PROVE  IsRow([S EXCEPT ![i] = s]) /\ [S EXCEPT ![i] = s][i] = s
BY DEF IsRow

Rows == IsRow(rep) /\ \A i \in Node : IsRow(rep[i])

LEMMA RowsPlaced ==
  ASSUME Rows, NEW i \in Node, NEW row, IsRow(row), rep' = Placed(rep, i, row)
  PROVE  Rows'
<1>1. IsRow(rep)'
  BY RowKept DEF Rows, Placed, IsRow
<1>2. \A j \in Node : rep'[j] = IF j = i THEN row ELSE rep[j]
  BY DEF Rows, Placed, IsRow
<1>3. \A j \in Node : IsRow(rep'[j])
  BY <1>2 DEF Rows
<1> QED
  BY <1>1, <1>3 DEF Rows, IsRow

LEMMA OneRowChanges ==
  ASSUME Rows, NEW i \in Node, NEW j \in Node, NEW s,
         rep' = [rep EXCEPT ![i][j] = s]
  PROVE  Rows'
<1>1. rep' = Placed(rep, i, [rep[i] EXCEPT ![j] = s])
  BY DEF Placed
<1>2. IsRow([rep[i] EXCEPT ![j] = s])
  BY RowKept DEF Rows
<1> QED
  BY <1>1, <1>2, RowsPlaced

LEMMA RowsBody ==
  ASSUME Rows, NEW i \in Node, NEW read, NEW again, NEW no_view_change, NEW C,
         RunBody(i, read, again, no_view_change, C)
  PROVE  Rows'
<1>1. PICK s : BodyFrom(i, s, again.views[i], C)
  BY BodyParts
<1>2. PICK flush \in BOOLEAN :
        \E T \in AskedFor(Considered(Placed(rep[i], i, s), i, flush), i, C) :
        \E t : rep' = Placed(rep, i, Placed(T, i, t))
  BY <1>1 DEF BodyFrom
<1> DEFINE U == Considered(Placed(rep[i], i, s), i, flush)
<1>3. PICK T \in AskedFor(U, i, C) : \E t : rep' = Placed(rep, i, Placed(T, i, t))
  BY <1>2
<1>4. PICK t : rep' = Placed(rep, i, Placed(T, i, t))
  BY <1>3
<1>5. IsRow(U)
  <2>1. IsRow(FlushLocal)
    BY DEF IsRow, FlushLocal
  <2>2. IsRow(Placed(rep[i], i, s))
    BY RowKept DEF Rows, Placed
  <2>3. \A u : IsRow(Placed(Placed(rep[i], i, s), i, u))
    BY <2>2, RowKept DEF Placed
  <2> QED
    BY <2>1, <2>3 DEF Considered
<1> HIDE DEF U
<1>6. IsRow(T)
  <2>1. \E u : T = [U EXCEPT ![i] = u]
    BY DEF AskedFor
  <2>2. PICK u : T = [U EXCEPT ![i] = u]
    BY <2>1
  <2>3. IsRow([U EXCEPT ![i] = u])
    BY <1>5, RowKept
  <2> QED
    BY <2>2, <2>3
<1>7. IsRow(Placed(T, i, t))
  BY <1>6, RowKept DEF Placed
<1> QED
  BY <1>4, <1>7, RowsPlaced

(* What the other threads keep.                                            *)
Counts ==
  /\ Rows
  /\ need_flush \in [Node -> BOOLEAN]
  /\ moves \in 0 .. MaxMoves
  /\ asked \in [Node -> SUBSET ClientRequest]

LEMMA CountsInit ==
  ASSUME Init
  PROVE  Counts
<1>1. \A i \in Node : KnownTo(i) \subseteq ClientRequest
  <2> SUFFICES ASSUME NEW i \in Node PROVE KnownTo(i) \subseteq ClientRequest
    OBVIOUS
  <2>1. Fine(rep[i][i], Request, FALSE)
    BY InitFine DEF AllFine, RepFine, FineAll
  <2>2. rep[i][i].pend_reqs \subseteq ClientRequest
    BY <2>1 DEF Fine
  <2>3. RequestsOf(rep[i][i]) \subseteq Request
    BY <2>1, RequestsFine
  <2> QED
    BY <2>2, <2>3 DEF KnownTo, Request
<1>2. asked \in [Node -> SUBSET ClientRequest]
  BY <1>1 DEF Init
<1>3. moves \in 0 .. MaxMoves
  BY BoundAssumption DEF Init
<1>4. Rows
  <2>1. rep \in [Node -> [Node -> Structure]]
    BY StartAssumption DEF Init
  <2> QED
    BY <2>1 DEF Rows, IsRow
<1> QED
  BY <1>2, <1>3, <1>4 DEF Init, Counts

LEMMA CountsStep ==
  ASSUME Counts, [Next]_vars
  PROVE  Counts'
<1> USE DEF Counts
<1>1. ASSUME NEW i \in Node, NEW a, MoveTo(i, a)
      PROVE  moves' \in 0 .. MaxMoves
  BY <1>1, BoundAssumption DEF MoveTo
<1>2. ASSUME NEW i \in Node, NEW read, NEW again, NEW no_view_change, NEW C,
             RunBody(i, read, again, no_view_change, C)
      PROVE  need_flush' \in [Node -> BOOLEAN] /\ Rows'
  <2>1. \E S \in Agreed(i, read, again) :
          need_flush' = [need_flush EXCEPT ![i] = @ \/ MustFlush(S, i)]
    BY <1>2 DEF RunBody
  <2>2. need_flush' \in [Node -> BOOLEAN]
    BY <2>1
  <2> QED
    BY <1>2, <2>2, RowsBody
<1>2a. ASSUME rep' = rep
       PROVE  Rows'
  BY <1>2a DEF Rows, IsRow
<1>3. ASSUME NEW i \in Node, Run(i)
      PROVE  Counts'
  BY <1>2, <1>3 DEF Run
<1>4. ASSUME NEW i \in Node, RunAcrossMove(i)
      PROVE  Counts'
  BY <1>1, <1>2, <1>4 DEF RunAcrossMove
<1>5. ASSUME NEW i \in Node, Move(i)
      PROVE  Counts'
  BY <1>1, <1>2a, <1>5 DEF Move
<1>6. ASSUME NEW i \in Node, NEW c \in ClientRequest, Inject(i, c)
      PROVE  Counts'
  <2>1. \E s : rep' = [rep EXCEPT ![i][i] = s]
    BY <1>6 DEF Inject
  <2>2. Rows'
    BY <2>1, OneRowChanges
  <2> QED
    BY <1>6, <2>2 DEF Inject
<1>7. ASSUME NEW i \in Node, NEW c \in ClientRequest, RunDuringInject(i, c)
      PROVE  Counts'
  BY <1>2, <1>7 DEF RunDuringInject
<1>8. ASSUME NEW i \in Node, NEW j \in Node, SendTo(i, j) \/ Receive(i, j)
      PROVE  Counts'
  <2>1. rep' = rep \/ \E s : rep' = [rep EXCEPT ![i][j] = s]
    BY <1>8 DEF SendTo, Receive
  <2>2. Rows'
    BY <1>2a, <2>1, OneRowChanges
  <2> QED
    BY <1>8, <2>2 DEF SendTo, Receive
<1>9. CASE UNCHANGED vars
  BY <1>2a, <1>9 DEF vars
<1> QED
  BY <1>3, <1>4, <1>5, <1>6, <1>7, <1>8, <1>9 DEF Next

(* The variables keep the types that TypeOK gives: no loop body, whatever  *)
(* it takes over of a consolidated state or a new primary, no message and  *)
(* no flush leaves anything else in a structure.                           *)
THEOREM TypeCorrect == Spec => []TypeOK
<1>1. Init => Counts
  BY CountsInit
<1>2. Counts /\ [Next]_vars => Counts'
  BY CountsStep
<1>3. Spec => []Counts
  BY <1>1, <1>2, PTL DEF Spec
<1>4. AllFine(Request, FALSE) /\ Wired /\ Counts => TypeOK
  <2> SUFFICES ASSUME AllFine(Request, FALSE), Wired, Counts
               PROVE  TypeOK
    OBVIOUS
  <2>1. \A i, j \in Node : rep[i][j] \in Structure
    BY FineStructure DEF AllFine, RepFine, FineAll
  <2>2. rep \in [Node -> [Node -> Structure]]
    <3>1. \A i \in Node : rep[i] \in [Node -> Structure]
      BY <2>1 DEF Counts, Rows, IsRow
    <3>2. rep = [i \in Node |-> rep[i]]
      BY DEF Counts, Rows, IsRow
    <3> QED
      BY <3>1, <3>2
  <2>3. PICK M : (\A s \in M : Fine(s, Request, FALSE)) /\ net \in [Node -> [Node -> Seq(M)]]
    BY DEF AllFine, NetFine
  <2>4. M \subseteq Structure
    BY <2>3, FineStructure
  <2>5. \A i, j \in Node : net[i][j] \in Seq(Structure)
    BY <2>3, <2>4, SeqMonotonic
  <2>6. net \in [Node -> [Node -> Seq(Structure)]]
    BY <2>3, <2>5
  <2> QED
    BY <2>2, <2>6 DEF TypeOK, Wired, Counts
<1> QED
  BY <1>3, <1>4, Shape, PTL

-----------------------------------------------------------------------------
(* The order of the logs.                                                  *)

LEMMA OrderedIsFine ==
  ASSUME AllFine(Request, FALSE), LogsOrdered
  PROVE  AllFine(Request, TRUE)
<1>1. RepFine(Request, TRUE)
  <2>1. ASSUME NEW i \in Node, NEW j \in Node PROVE Fine(rep[i][j], Request, TRUE)
    <3>1. Fine(rep[i][j], Request, FALSE)
      BY DEF AllFine, RepFine, FineAll
    <3>2. Follow(rep[i][j].r_log)
      BY DEF LogsOrdered, Consecutive, Follow
    <3> QED
      BY <3>1, <3>2 DEF Fine, LogIsFine
  <2> QED
    BY <2>1 DEF AllFine, RepFine, FineAll
<1>2. PICK M : (\A s \in M : Fine(s, Request, FALSE)) /\ net \in [Node -> [Node -> Seq(M)]]
  BY DEF AllFine, NetFine
<1> DEFINE L == { s \in M : Follow(s.r_log) }
<1>3. \A s \in L : Fine(s, Request, TRUE)
  BY <1>2 DEF Fine, LogIsFine
<1>4. ASSUME NEW i \in Node, NEW j \in Node
      PROVE  net[i][j] \in Seq(L)
  <2>1. net[i][j] \in Seq(M)
    BY <1>2
  <2>2. \A m \in DOMAIN net[i][j] : net[i][j][m] \in L
    <3>1. \A m \in DOMAIN net[i][j] : net[i][j][m] \in M
      BY <2>1
    <3>2. \A m \in DOMAIN net[i][j] : Consecutive(net[i][j][m])
      BY DEF LogsOrdered
    <3>3. \A s : Consecutive(s) => Follow(s.r_log)
      BY DEF Consecutive, Follow
    <3> QED
      BY <3>1, <3>2, <3>3
  <2> HIDE DEF L
  <2> QED
    BY <2>1, <2>2
<1> HIDE DEF L
<1>5. net \in [Node -> [Node -> Seq(L)]]
  BY <1>2, <1>4
<1>6. NetFine(Request, TRUE)
  BY <1>3, <1>5 DEF NetFine
<1> QED
  BY <1>1, <1>6 DEF AllFine

LEMMA FineIsOrdered ==
  ASSUME AllFine(Request, TRUE)
  PROVE  LogsOrdered
<1>1. PICK M : (\A s \in M : Fine(s, Request, TRUE)) /\ net \in [Node -> [Node -> Seq(M)]]
  BY DEF AllFine, NetFine
<1>2. ASSUME NEW i \in Node, NEW j \in Node
      PROVE  /\ Fine(rep[i][j], Request, TRUE)
             /\ \A m \in DOMAIN net[i][j] : Fine(net[i][j][m], Request, TRUE)
  <2>1. net[i][j] \in Seq(M)
    BY <1>1
  <2>2. \A m \in DOMAIN net[i][j] : net[i][j][m] \in M
    BY <2>1
  <2>3. Fine(rep[i][j], Request, TRUE)
    BY DEF AllFine, RepFine, FineAll
  <2> QED
    BY <1>1, <2>2, <2>3
<1>3. \A s : Fine(s, Request, TRUE) => Consecutive(s)
  BY DEF Fine, LogIsFine, Consecutive, Follow
<1> QED
  BY <1>2, <1>3 DEF LogsOrdered

(* The numbers of the entries of every log, own, believed or in a message, *)
(* follow each other for ever once they do, see LogsStayOrdered.           *)
THEOREM LogsOrderedForever == Spec => LogsStayOrdered
<1>1. AllFine(Request, TRUE) => LogsOrdered
  BY FineIsOrdered
<1>2. AllFine(Request, FALSE) /\ Wired /\ [Next]_vars /\ LogsOrdered => AllFine(Request, TRUE)'
  BY OrderedIsFine, StepFine
<1> QED
  BY <1>1, <1>2, Shape, PTL DEF Spec, LogsStayOrdered

-----------------------------------------------------------------------------
(* The numbers that the primary gives.                                     *)

LEMMA FineUses ==
  ASSUME NEW R, NEW ord, NEW s, Fine(s, R, ord)
  PROVE  RequestsOf(s) \subseteq R
<1>1. QueueRequests(s) \subseteq R
  BY DEF Fine, Pairs, QueueRequests
<1>2. s.r_log \in Seq(Entries(R))
  BY DEF Fine, LogIsFine
<1>3. \A n \in DOMAIN s.r_log : s.r_log[n] \in Entries(R)
  BY <1>2
<1> QED
  BY <1>1, <1>3 DEF RequestsOf, LogRequests, Entries

LEMMA UsesFine ==
  ASSUME NEW R, NEW s, Fine(s, Request, FALSE), RequestsOf(s) \subseteq R
  PROVE  Fine(s, R, FALSE)
<1>1. s.req_q \subseteq Pairs(R)
  <2>1. ASSUME NEW q \in s.req_q
        PROVE  q \in Pairs(R)
    <3>1. q \in Pairs(Request) /\ q.request \in R
      BY DEF Fine, RequestsOf, QueueRequests
    <3> QED
      BY <3>1 DEF Pairs
  <2> QED
    BY <2>1
<1>2. s.r_log \in Seq(Entries(R))
  <2>1. s.r_log \in Seq(Entries(Request))
    BY DEF Fine, LogIsFine
  <2>2. ASSUME NEW n \in DOMAIN s.r_log
        PROVE  s.r_log[n] \in Entries(R)
    <3>1. s.r_log[n] \in Entries(Request)
      BY <2>1
    <3>2. s.r_log[n].request \in R
      BY DEF RequestsOf, LogRequests
    <3> QED
      BY <3>1, <3>2 DEF Entries
  <2> QED
    BY <2>1, <2>2
<1> QED
  BY <1>1, <1>2 DEF Fine, LogIsFine

(* What holds of a set of structures holds of those in the queues.         *)
LEMMA InQueues ==
  ASSUME NEW M, NEW queues \in [Node -> [Node -> Seq(M)]],
         NEW i \in Node, NEW j \in Node
  PROVE  Range(queues[i][j]) \subseteq M
<1>1. queues[i][j] \in Seq(M)
  OBVIOUS
<1>2. \A m \in DOMAIN queues[i][j] : queues[i][j][m] \in M
  BY <1>1
<1> QED
  BY <1>2 DEF Range

LEMMA FineInUse ==
  ASSUME NEW R, InUse \subseteq R, AllFine(Request, FALSE)
  PROVE  AllFine(R, FALSE)
<1>1. ASSUME NEW i \in Node, NEW j \in Node
      PROVE  /\ RequestsOf(rep[i][j]) \subseteq R
             /\ \A s \in Range(net[i][j]) : RequestsOf(s) \subseteq R
  <2>1. <<i, j>> \in Node \X Node /\ <<i, j>>[1] = i /\ <<i, j>>[2] = j
    OBVIOUS
  <2> QED
    BY <2>1 DEF InUse
<1>2. RepFine(R, FALSE)
  BY <1>1, UsesFine DEF AllFine, RepFine, FineAll
<1>3. PICK M : (\A s \in M : Fine(s, Request, FALSE)) /\ net \in [Node -> [Node -> Seq(M)]]
  BY DEF AllFine, NetFine
<1> DEFINE L == { s \in M : RequestsOf(s) \subseteq R }
<1>4. \A s \in L : Fine(s, R, FALSE)
  BY <1>3, UsesFine
<1>5. ASSUME NEW i \in Node, NEW j \in Node
      PROVE  net[i][j] \in Seq(L)
  <2>1. net[i][j] \in Seq(M)
    BY <1>3
  <2>2. \A m \in DOMAIN net[i][j] : net[i][j][m] \in L
    BY <1>1, <2>1 DEF Range
  <2> HIDE DEF L
  <2> QED
    BY <2>1, <2>2
<1> HIDE DEF L
<1>6. net \in [Node -> [Node -> Seq(L)]]
  BY <1>3, <1>5
<1> QED
  BY <1>2, <1>4, <1>6 DEF AllFine, NetFine

LEMMA InUseFine ==
  ASSUME NEW R, AllFine(R, FALSE)
  PROVE  InUse \subseteq R
<1>1. PICK M : (\A s \in M : Fine(s, R, FALSE)) /\ net \in [Node -> [Node -> Seq(M)]]
  BY DEF AllFine, NetFine
<1>2. ASSUME NEW i \in Node, NEW j \in Node
      PROVE  /\ RequestsOf(rep[i][j]) \subseteq R
             /\ \A s \in Range(net[i][j]) : RequestsOf(s) \subseteq R
  <2>1. Fine(rep[i][j], R, FALSE)
    BY DEF AllFine, RepFine, FineAll
  <2> QED
    BY <1>1, <2>1, InQueues, FineUses
<1> QED
  BY <1>2 DEF InUse

LEMMA InUseNext ==
  ASSUME NEW R, AllFine(R, FALSE)'
  PROVE  InUse' \subseteq R
<1>1. PICK M : (\A s \in M : Fine(s, R, FALSE)) /\ net' \in [Node -> [Node -> Seq(M)]]
  BY DEF AllFine, NetFine, Fine, Whole, LogIsFine, Follow
<1>2. ASSUME NEW i \in Node, NEW j \in Node
      PROVE  /\ RequestsOf(rep'[i][j]) \subseteq R
             /\ \A s \in Range(net'[i][j]) : RequestsOf(s) \subseteq R
  <2>1. Fine(rep'[i][j], R, FALSE)
    BY DEF AllFine, RepFine, FineAll, Fine, Whole, LogIsFine, Follow
  <2> QED
    BY <1>1, <2>1, InQueues, FineUses
<1> QED
  BY <1>2 DEF InUse, RequestsOf, QueueRequests, LogRequests, Range

(* In a steady view the loop leaves the primary of its structure alone.    *)
LEMMA SteadyView ==
  ASSUME NEW R, RepFine(R, FALSE), NEW i \in Node, NEW v \in Node,
         Own(i).prim = v, ~Own(i).view_changed,
         NEW read, read.views[i] = v, NEW again, again.views[i] = v,
         NEW s \in ViewPart(rep[i], i, read, again)
  PROVE  Fine(s, R, FALSE) /\ SameNumber(Own(i), s)
<1>1. DOMAIN rep[i] = Node /\ Fine(rep[i][i], R, FALSE)
  BY DEF RepFine, FineAll
<1>2. \/ s = rep[i][i]
      \/ s = [rep[i] EXCEPT ![i].view_changed = FALSE, ![i].prim = v][i]
  BY DEF ViewPart, Own
<1> DEFINE t == [rep[i][i] EXCEPT !.view_changed = FALSE]
<1>3. [rep[i] EXCEPT ![i].view_changed = FALSE, ![i].prim = v][i] = [t EXCEPT !.prim = v]
  BY <1>1
<1>4. Fine(t, R, FALSE) /\ Fine([t EXCEPT !.prim = v], R, FALSE)
  <2>1. Fine(t, R, FALSE)
    BY <1>1, WithFlag
  <2> HIDE DEF t
  <2> QED
    BY <2>1, WithPrim DEF View
<1>5. SameNumber(rep[i][i], [t EXCEPT !.prim = v])
  BY <1>1 DEF Fine, Whole, SameNumber, Own
<1> QED
  BY <1>1, <1>2, <1>3, <1>4, <1>5 DEF SameNumber, Own

LEMMA SteadyBody ==
  ASSUME NEW R, R \subseteq Request, AllFine(R, FALSE), Wired, Wired',
         NEW v \in Node, Steady(v), Steady(v)', NEW i \in Node, BodyStep(i)
  PROVE  \E G \in SUBSET Request :
           /\ AllFine(R \cup G, FALSE)'
           /\ Numbered(G, Own(v).seq_num, Own(v)'.seq_num)
<1>1. PICK again, no_view_change, C :
        /\ again \in {ve[i], ve'[i]}
        /\ C \subseteq ClientRequest /\ IsFiniteSet(C)
        /\ RunBody(i, ve[i], again, no_view_change, C)
  BY DEF BodyStep
<1>2. ve[i].views[i] = v /\ again.views[i] = v /\ v \in View
  BY <1>1 DEF Steady, View
<1>3. PICK s \in ViewPart(rep[i], i, ve[i], again) : BodyFrom(i, s, v, C)
  BY <1>1, <1>2, BodyParts
<1>4. RepFine(R, FALSE) /\ FineAll(rep[i], R, FALSE)
  BY DEF AllFine, RepFine
<1>5. Fine(s, R, FALSE) /\ SameNumber(Own(i), s)
  BY <1>2, <1>3, <1>4, SteadyView DEF Steady
<1>6. PICK row : /\ rep' = Placed(rep, i, row)
                 /\ Outcome(R, FALSE, i, v, s, row)
  BY <1>1, <1>2, <1>3, <1>4, <1>5, BodyFine
<1>7. PICK G \in SUBSET Request :
        /\ FineAll(row, R \cup G, FALSE)
        /\ v # i => G = {}
        /\ row[i].prim # TEE =>
             /\ row[i].prim = s.prim
             /\ v # i => row[i].seq_num = s.seq_num
             /\ Behaviour[i] = "NONE" => Numbered(G, s.seq_num, row[i].seq_num)
  BY <1>6 DEF Outcome
<1>8. Own(i)' = row[i] /\ \A j \in Node \ {i} : Own(j)' = Own(j)
  BY <1>4, <1>6 DEF Own, Placed, RepFine, FineAll
<1>9. row[i].prim = v /\ v # TEE
  BY <1>8, NodesAssumption DEF Steady, Own, Node, TEE
<1>10. Numbered(G, Own(v).seq_num, Own(v)'.seq_num)
  <2>1. CASE v = i
    BY <2>1, <1>5, <1>7, <1>8, <1>9 DEF Steady, SameNumber
  <2>2. CASE v # i
    <3>1. Own(v).seq_num \in Int
      BY <1>4 DEF RepFine, FineAll, Fine, Own
    <3> QED
      BY <2>2, <3>1, <1>7, <1>8 DEF Numbered
  <2> QED
    BY <2>1, <2>2
<1> DEFINE Q == R \cup G
<1>11. R \subseteq Q /\ FineAll(row, Q, FALSE)
  BY <1>7
<1> HIDE DEF Q
<1>12. RepFine(Q, FALSE)
  BY <1>4, <1>11, FineInMore DEF RepFine, FineAll
<1>13. RepFine(Q, FALSE)'
  BY <1>6, <1>11, <1>12, RowFine
<1>14. PICK M : (\A t \in M : Fine(t, R, FALSE)) /\ net \in [Node -> [Node -> Seq(M)]]
  BY DEF AllFine, NetFine
<1>15. \A t \in M : Fine(t, Q, FALSE)
  BY <1>11, <1>14, FineInMore
<1>16. net' = net
  BY <1>1 DEF RunBody
<1>17. NetFine(Q, FALSE)'
  BY <1>14, <1>15, <1>16 DEF NetFine, Fine, Whole, LogIsFine, Follow
<1> QED
  BY <1>10, <1>13, <1>17 DEF AllFine, Q

LEMMA StaysUnique ==
  ASSUME AllFine(Request, FALSE), Wired, [Next]_vars,
         NEW v \in Node, Steady(v), Steady(v)', NumbersUnique(v)
  PROVE  NumbersUnique(v)'
<1>1. PICK R : R = InUse
  OBVIOUS
<1>2. R \subseteq Request /\ AllFine(R, FALSE)
  BY <1>1, InUseFine, FineInUse
<1>3. \A r, o \in R : /\ r.seq_num <= Own(v).seq_num
                      /\ r.seq_num = o.seq_num => r = o
  BY <1>1 DEF NumbersUnique
<1>4. Wired'
  BY WiredStep
<1>5. Own(v).seq_num \in Int /\ Own(v)'.seq_num \in Int
  <2>1. AllFine(Request, FALSE)'
    BY StepFine
  <2> QED
    BY <2>1 DEF AllFine, RepFine, FineAll, Fine, Own
<1>6. CASE QuietStep
  <2>1. AllFine(R, FALSE)' /\ Own(v)'.seq_num = Own(v).seq_num
    BY <1>2, <1>6, QuietFine DEF SameNumber
  <2>2. InUse' \subseteq R
    BY <2>1, InUseNext
  <2> QED
    BY <1>3, <2>1, <2>2 DEF NumbersUnique
<1>7. ASSUME NEW i \in Node, BodyStep(i)
      PROVE  NumbersUnique(v)'
  <2>1. PICK G \in SUBSET Request :
          /\ AllFine(R \cup G, FALSE)'
          /\ Numbered(G, Own(v).seq_num, Own(v)'.seq_num)
    BY <1>2, <1>4, <1>7, SteadyBody
  <2>2. InUse' \subseteq R \cup G
    BY <2>1, InUseNext
  <2>3. \A r \in R \cup G : r.seq_num \in Int
    BY <1>2 DEF Request
  <2>4. \A r, o \in R \cup G : /\ r.seq_num <= Own(v)'.seq_num
                               /\ r.seq_num = o.seq_num => r = o
    BY <1>3, <1>5, <2>1, <2>3 DEF Numbered
  <2> QED
    BY <2>2, <2>4 DEF NumbersUnique
<1> QED
  BY <1>6, <1>7, StepKinds

(* In a steady view of a correct primary no number ever stands for two     *)
(* requests, anywhere, whatever the nodes prepare, commit, execute and     *)
(* consolidate, byzantine nodes among them, see NumbersStayUnique.         *)
THEOREM NumbersUniqueForever == Spec => NumbersStayUnique
<1>1. AllFine(Request, FALSE) /\ Wired /\ [Next]_vars =>
        [\A v \in Node :
           Steady(v) /\ Steady(v)' /\ NumbersUnique(v) => NumbersUnique(v)']_vars
  BY StaysUnique
<1> QED
  BY <1>1, Shape, PTL DEF Spec, NumbersStayUnique

=============================================================================
