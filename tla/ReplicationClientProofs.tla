----------------------- MODULE ReplicationClientProofs -----------------------
(***************************************************************************)
(* Proof that what no client has asked for is never executed, and gets no  *)
(* further than the queue of the byzantine node that made it up            *)
(* (MODIFY_CLIENT_REQ), for every number of nodes, clients and requests,   *)
(* any number of byzantine nodes and whatever the other two modules answer *)
(* as long as they name a view.                                            *)
(***************************************************************************)
EXTENDS ReplicationListProofs

-----------------------------------------------------------------------------
(* Structures that hold what clients have asked for, which is C.           *)

Told(C) == { r \in Request : r.client_request \in C \cup {Dummy} }
Listed(C) == { ValueOf[c] : c \in C }

(* A pair of node j's queue Q that j made up when it numbered requests: it *)
(* is of the view of j, prepared at once, and the only one with its number.*)
MadeUp(q, Q, j) ==
  /\ q.request.view = j
  /\ q.status # {"PRE_PREP"}
  /\ \A o \in Q : o.request = q.request => o = q

QueueFrom(Q, C, j) == \A q \in Q : q.request \in Told(C) \/ MadeUp(q, Q, j)

ListFrom(list, log, C) == list \in Seq(Listed(C)) /\ log \in Seq(Entries(Told(C)))

Genuine(s, C, j) ==
  /\ s.pend_reqs \subseteq C
  /\ ListFrom(s.rep_state, s.r_log, C)
  /\ QueueFrom(s.req_q, C, j)

Asked == UNION { asked[i] : i \in Node }

AllGenuine ==
  \A i, j \in Node : /\ Genuine(rep[i][j], Asked, j)
                     /\ \A n \in DOMAIN net[j][i] : Genuine(net[j][i][n], Asked, j)

HaveViews == \A i \in Node : ve[i].views[i] # TEE

(* Once all that is executed, logged or pending anywhere is what clients   *)
(* have asked for, it stays so, whatever byzantine primaries number        *)
(* (assign of MODIFY_CLIENT_REQ, "No progress should be made"), through    *)
(* acceptance, preparation and commitment by Quorum nodes, view changes    *)
(* (check_new_v_state), consolidation and flushes.  A node without a view  *)
(* would take over the queue of node N - 1 unchecked: HaveViews.           *)
NothingMadeUp == [][HaveViews /\ HaveViews' /\ AllGenuine => AllGenuine']_vars

(* What node i takes for the structures of all, typed and genuine.         *)
Proper(s, C, j, ord) == Fine(s, Request, ord) /\ Genuine(s, C, j)
Sound(S, C, ord) == /\ C \subseteq ClientRequest
                    /\ FineAll(S, Request, ord)
                    /\ \A j \in Node : Genuine(S[j], C, j)

-----------------------------------------------------------------------------
(* What clients ask is only added to.                                      *)

LEMMA MoreAsked ==
  ASSUME NEW C, NEW D, C \subseteq D, NEW s, NEW j, Genuine(s, C, j)
  PROVE  Genuine(s, D, j)
<1>1. Told(C) \subseteq Told(D) /\ Listed(C) \subseteq Listed(D)
  BY DEF Told, Listed
<1>2. Entries(Told(C)) \subseteq Entries(Told(D))
  BY <1>1 DEF Entries
<1>3. ListFrom(s.rep_state, s.r_log, D)
  BY <1>1, <1>2, SeqMonotonic DEF Genuine, ListFrom
<1>4. QueueFrom(s.req_q, D, j)
  BY <1>1 DEF Genuine, QueueFrom
<1> QED
  BY <1>3, <1>4 DEF Genuine

LEMMA SoundAfter ==
  ASSUME NEW C, NEW ord, NEW S, Sound(S, C, ord), NEW i \in Node, NEW s, Proper(s, C, i, ord)
  PROVE  Sound([S EXCEPT ![i] = s], C, ord) /\ [S EXCEPT ![i] = s][i] = s
<1> DEFINE T == [S EXCEPT ![i] = s]
<1>1. FineAll(T, Request, ord) /\ T[i] = s
  <2>1. FineAll(S, Request, ord) /\ Fine(s, Request, ord)
    BY DEF Sound, Proper
  <2> QED
    BY <2>1, UpdateFine
<1>2. \A j \in Node : T[j] = IF j = i THEN s ELSE S[j]
  BY DEF Sound, FineAll
<1> HIDE DEF T
<1>3. ASSUME NEW j \in Node PROVE Genuine(T[j], C, j)
  <2>1. CASE j = i
    BY <1>1, <2>1 DEF Proper
  <2>2. CASE j # i
    <3>1. T[j] = S[j]
      BY <1>2, <2>2
    <3> QED
      BY <3>1 DEF Sound
  <2> QED
    BY <2>1, <2>2
<1> QED
  BY <1>1, <1>3 DEF Sound, T

(* List and log are the same.                                              *)
LEMMA LikeGenuine ==
  ASSUME NEW C, NEW j, NEW s, Genuine(s, C, j), NEW t, Like(s, t),
         t.pend_reqs \subseteq C, QueueFrom(t.req_q, C, j)
  PROVE  Genuine(t, C, j)
BY DEF Like, Genuine

LEMMA FewerInQueue ==
  ASSUME NEW C, NEW j, NEW Q, QueueFrom(Q, C, j), NEW P, P \subseteq Q
  PROVE  QueueFrom(P, C, j)
BY DEF QueueFrom, MadeUp

LEMMA NothingGenuine ==
  ASSUME NEW C, NEW j, NEW s
  PROVE  Genuine(SetToTee(s), C, j)
<1>1. /\ SetToTee(s).pend_reqs = {} /\ SetToTee(s).req_q = {}
      /\ SetToTee(s).rep_state = <<>> /\ SetToTee(s).r_log = <<>>
  BY DEF SetToTee, FreshStructure
<1> QED
  BY <1>1, EmptySeq DEF Genuine, ListFrom, QueueFrom

-----------------------------------------------------------------------------
(* The bounded queues.                                                     *)

LEMMA ExtendGenuine ==
  ASSUME NEW C, NEW j, NEW s, Whole(s), Genuine(s, C, j),
         NEW X, X \subseteq C, NEW t \in ExtendPendReqs(s, X)
  PROVE  Genuine(t, C, j)
<1>1. PICK kept \in SUBSET (s.pend_reqs \cup X) : t = [s EXCEPT !.pend_reqs = kept]
  BY DEF ExtendPendReqs, kSubset
<1>2. t.pend_reqs = kept /\ t.req_q = s.req_q
  BY <1>1 DEF Whole
<1>3. Like(s, t)
  BY ExtendLike
<1> QED
  BY <1>1, <1>2, <1>3, LikeGenuine DEF Genuine

LEMMA AddGenuine ==
  ASSUME NEW C, NEW j, NEW s, Whole(s), Genuine(s, C, j),
         NEW P, QueueFrom(P, C, j), NEW t \in AddToReqQ(s, P)
  PROVE  Genuine(t, C, j)
<1> DEFINE new == { q \in P : q.request \notin QueueRequests(s) }
           all == s.req_q \cup new
<1>1. PICK kept \in SUBSET all : t = [s EXCEPT !.req_q = kept]
  BY DEF AddToReqQ, kSubset
<1>2. t.pend_reqs = s.pend_reqs /\ t.req_q = kept
  BY <1>1 DEF Whole
<1>3. QueueFrom(all, C, j)
  <2> SUFFICES ASSUME NEW q \in all, q.request \notin Told(C)
               PROVE  MadeUp(q, all, j)
    BY DEF QueueFrom
  <2>1. \A o \in s.req_q, n \in new : o.request # n.request
    BY DEF QueueRequests
  <2>2. CASE q \in s.req_q
    <3>1. MadeUp(q, s.req_q, j)
      BY <2>2 DEF Genuine, QueueFrom
    <3> QED
      BY <2>1, <2>2, <3>1 DEF MadeUp
  <2>3. CASE q \in new
    <3>1. MadeUp(q, P, j)
      BY <2>3 DEF QueueFrom
    <3> QED
      BY <2>1, <2>3, <3>1 DEF MadeUp
  <2> QED
    BY <2>2, <2>3
<1>4. QueueFrom(kept, C, j)
  BY <1>3, FewerInQueue
<1>5. Like(s, t)
  BY AddLike
<1> QED
  BY <1>2, <1>4, <1>5, LikeGenuine DEF Genuine

(* The status of pairs rises, but for those that are made up.              *)
LEMMA RaiseGenuine ==
  ASSUME NEW C, NEW j, NEW s, Whole(s), Genuine(s, C, j),
         NEW X, NEW status, NEW to, X \subseteq Told(C) \/ status = {"PRE_PREP"},
         \A q \in s.req_q : q = [request |-> q.request, status |-> q.status]
  PROVE  Genuine(Raise(s, X, status, to), C, j)
<1> DEFINE g == [q \in s.req_q |-> IF q.request \in X /\ q.status = status
                                     THEN [q EXCEPT !.status = to] ELSE q]
           Q == { g[q] : q \in s.req_q }
           t == Raise(s, X, status, to)
<1>1. t = [s EXCEPT !.req_q = Q]
  BY DEF Raise, Whole
<1>2. t.pend_reqs = s.pend_reqs /\ t.req_q = Q
  BY <1>1 DEF Whole
<1>3. \A q \in s.req_q : g[q].request = q.request
  OBVIOUS
<1>4. QueueFrom(Q, C, j)
  <2> SUFFICES ASSUME NEW q \in s.req_q, g[q].request \notin Told(C)
               PROVE  MadeUp(g[q], Q, j)
    BY DEF QueueFrom
  <2>1. MadeUp(q, s.req_q, j)
    BY <1>3 DEF Genuine, QueueFrom
  <2>2. g[q] = q
    BY <1>3, <2>1 DEF MadeUp
  <2> HIDE DEF g
  <2> QED
    BY <1>3, <2>1, <2>2 DEF MadeUp
<1>5. Like(s, t)
  BY RaiseLike
<1> HIDE DEF t, Q
<1> QED
  BY <1>2, <1>4, <1>5, LikeGenuine DEF Genuine, t

-----------------------------------------------------------------------------
(* What Quorum nodes support nobody has made up: one made up of node j is  *)
(* in no other queue, once in that one, and in no log.                     *)

LEMMA SupportedTold ==
  ASSUME N > 1, NEW C, NEW ord, NEW S, Sound(S, C, ord), NEW i \in Node, NEW status
  PROVE  SupportedReqs(S, i, status) \subseteq Told(C)
<1> SUFFICES ASSUME NEW r \in SupportedReqs(S, i, status), r \notin Told(C)
             PROVE  FALSE
  OBVIOUS
<1> DEFINE inQueue == UNION { { <<j, q>> : q \in { p \in S[j].req_q :
                                 /\ p.request = r
                                 /\ status \subseteq p.status } } : j \in Node }
           inLog == UNION { { <<j, n>> : n \in { m \in DOMAIN S[j].r_log :
                                 S[j].r_log[m].request = r } } : j \in Node }
<1>1. Quorum \in Int /\ Quorum >= 2
  BY NodesAssumption DEF Quorum
<1>2. Cardinality(inQueue) + Cardinality(inLog) >= Quorum
  BY DEF SupportedReqs, QueueBacking, LogBacking
<1>3. Cardinality(inLog) = 0
  <2>1. ASSUME NEW j \in Node, NEW n \in DOMAIN S[j].r_log
        PROVE  S[j].r_log[n].request # r
    <3>1. S[j].r_log \in Seq(Entries(Told(C)))
      BY DEF Sound, Genuine, ListFrom
    <3>2. S[j].r_log[n] \in Entries(Told(C))
      BY <3>1
    <3> QED
      BY <3>2 DEF Entries
  <2>2. inLog = {}
    BY <2>1
  <2> QED
    BY <2>2, FS_EmptySet
<1>4. \A j \in Node : \A q \in S[j].req_q :
        q.request = r => MadeUp(q, S[j].req_q, j)
  BY DEF Sound, Genuine, QueueFrom
<1>5. \A x, y \in inQueue : x = y
  <2> SUFFICES ASSUME NEW j \in Node, NEW q \in S[j].req_q, q.request = r,
                      NEW k \in Node, NEW o \in S[k].req_q, o.request = r
               PROVE  <<j, q>> = <<k, o>>
    OBVIOUS
  <2>1. j = k
    BY <1>4 DEF MadeUp
  <2> QED
    BY <1>4, <2>1 DEF MadeUp
<1> HIDE DEF inQueue, inLog
<1>6. Cardinality(inQueue) <= 1
  <2>1. CASE inQueue = {}
    BY <2>1, FS_EmptySet
  <2>2. CASE inQueue # {}
    <3>1. PICK x : inQueue = {x}
      BY <1>5, <2>2
    <3> QED
      BY <3>1, FS_Singleton
  <2> QED
    BY <2>1, <2>2
<1>7. Cardinality(inQueue) \in Int
  <2>1. CASE inQueue = {}
    BY <2>1, FS_EmptySet
  <2>2. CASE inQueue # {}
    <3>1. PICK x : inQueue = {x}
      BY <1>5, <2>2
    <3>2. Cardinality(inQueue) = 1
      BY <3>1, FS_Singleton
    <3> QED
      BY <3>2
  <2> QED
    BY <2>1, <2>2
<1> QED
  BY <1>1, <1>2, <1>3, <1>6, <1>7

LEMMA KnownAsked ==
  ASSUME NEW C, NEW ord, NEW S, Sound(S, C, ord)
  PROVE  KnownPendReqs(S) \subseteq C
BY DEF KnownPendReqs, Sound, Genuine

(* Pairs of what clients have asked for.                                   *)
LEMMA ToldPairs ==
  ASSUME NEW C, NEW j, NEW X, X \subseteq Told(C), NEW status
  PROVE  QueueFrom(PairUp(X, status), C, j)
BY DEF PairUp, QueueFrom

-----------------------------------------------------------------------------
(* Requests are numbered, accepted, prepared and committed.                *)

LEMMA PairsWhole ==
  ASSUME NEW ord, NEW s, Fine(s, Request, ord)
  PROVE  \A q \in s.req_q : q = [request |-> q.request, status |-> q.status]
BY DEF Fine, Pairs

LEMMA AssignGenuine ==
  ASSUME NEW C, NEW ord, NEW S, Sound(S, C, ord), NEW i \in Node, NEW t \in Assign(S, i, i)
  PROVE  Genuine(t, C, i)
<1> DEFINE s == S[i]
           todo == UnassignedReqs(S, i)
           turns == { n \in 1 .. Cardinality(todo) :
                        s.seq_num + (n - 1) * Step(i) < LastExec(s) + SIGMA * K }
           pair(n, c) ==
             [request |-> [client_request |-> IF Behaviour[i] = "MODIFY_CLIENT_REQ"
                                                THEN Forged ELSE c,
                           view |-> i, seq_num |-> s.seq_num + n * Step(i)],
              status |-> {"PRE_PREP", "PREP"}]
           last == s.seq_num + Cardinality(turns) * Step(i)
           u == [s EXCEPT !.seq_num = last]
<1>1. PICK f \in Injection(turns, todo) :
        t \in AddToReqQ([s EXCEPT !.seq_num = @ + Cardinality(turns) * Step(i)],
                        { pair(n, f[n]) : n \in turns })
  BY DEF Assign
<1> DEFINE P == { pair(n, f[n]) : n \in turns }
<1>2. Whole(s) /\ Genuine(s, C, i)
  BY DEF Sound, FineAll, Fine
<1>3. t \in AddToReqQ(u, P)
  BY <1>1, <1>2 DEF Whole
<1>4. QueueFrom(P, C, i)
  <2>1. {"PRE_PREP", "PREP"} # {"PRE_PREP"}
    <3>1. "PREP" \in {"PRE_PREP", "PREP"} /\ "PREP" \notin {"PRE_PREP"}
      OBVIOUS
    <3> QED
      BY <3>1
  <2>2. \A n, c : /\ pair(n, c) = [request |-> pair(n, c).request,
                                  status |-> {"PRE_PREP", "PREP"}]
                 /\ pair(n, c).request.view = i
    <3>1. \A n, c : pair(n, c).status = {"PRE_PREP", "PREP"}
      OBVIOUS
    <3>2. \A n, c : pair(n, c).request.view = i
      OBVIOUS
    <3>3. \A n, c : pair(n, c) = [request |-> pair(n, c).request,
                                 status |-> pair(n, c).status]
      OBVIOUS
    <3> HIDE DEF pair
    <3> QED
      BY <3>1, <3>2, <3>3
  <2> HIDE DEF pair
  <2>2a. \A q \in P : /\ q = [request |-> q.request, status |-> {"PRE_PREP", "PREP"}]
                      /\ q.request.view = i
    BY <2>2
  <2> HIDE DEF P
  <2>3. ASSUME NEW q \in P PROVE MadeUp(q, P, i)
    <3>1. q.status = {"PRE_PREP", "PREP"} /\ q.request.view = i
      BY <2>2a
    <3>2. \A o \in P : o.request = q.request => o = q
      BY <2>2a
    <3> QED
      BY <2>1, <3>1, <3>2 DEF MadeUp
  <2> QED
    BY <2>3 DEF QueueFrom
<1> HIDE DEF P, last
<1>5. Like(s, u) /\ Whole(u)
  BY <1>2, FieldsLike DEF Like
<1>6. u.pend_reqs = s.pend_reqs /\ u.req_q = s.req_q
  BY <1>2 DEF Whole
<1> HIDE DEF u
<1>7. Genuine(u, C, i)
  BY <1>2, <1>5, <1>6, LikeGenuine DEF Genuine
<1> QED
  BY <1>3, <1>4, <1>5, <1>7, AddGenuine

LEMMA AcceptGenuine ==
  ASSUME NEW C, NEW ord, NEW S, Sound(S, C, ord), NEW i \in Node, NEW p \in View,
         NEW t \in AcceptPreprep(S, i, p)
  PROVE  Genuine(t, C, i)
<1> DEFINE from(c) == { r \in QueueRequests(S[At(p)]) : NumberedFor(S, i, p, c, r) }
           accepted == { c \in ClientRequest : /\ AcceptReqPreprep(S, i, p, c)
                                               /\ from(c) # {} }
<1>1. PICK X \in SUBSET UNION { from(c) : c \in accepted } :
        t \in AddToReqQ(S[i], { [request |-> r, status |-> {"PRE_PREP"}] : r \in X })
  BY DEF AcceptPreprep
<1>2. accepted \subseteq C
  BY KnownAsked DEF AcceptReqPreprep
<1>3. QueueRequests(S[At(p)]) \subseteq Request
  BY NodesExist, RequestsFine DEF Sound, FineAll
<1>4. X \subseteq Told(C)
  <2> SUFFICES ASSUME NEW c \in accepted, NEW r \in from(c) PROVE r \in Told(C)
    OBVIOUS
  <2>1. r.client_request = c
    BY DEF NumberedFor
  <2> QED
    BY <1>2, <1>3, <2>1 DEF Told
<1> HIDE DEF accepted, from
<1>5. t \in AddToReqQ(S[i], PairUp(X, {"PRE_PREP"}))
  BY <1>1 DEF PairUp
<1>6. Whole(S[i]) /\ Genuine(S[i], C, i)
  BY DEF Sound, FineAll, Fine
<1> QED
  BY <1>4, <1>5, <1>6, ToldPairs, AddGenuine

LEMMA PrepareGenuine ==
  ASSUME NEW C, NEW ord, NEW S, Sound(S, C, ord), NEW i \in Node
  PROVE  Genuine(Prepare(S, i), C, i)
<1>1. Fine(S[i], Request, ord) /\ Whole(S[i]) /\ Genuine(S[i], C, i)
  BY DEF Sound, FineAll, Fine
<1> QED
  BY <1>1, PairsWhole, RaiseGenuine DEF Prepare

LEMMA CommitPreparedGenuine ==
  ASSUME N > 1, NEW C, NEW ord, NEW S, Sound(S, C, ord), NEW i \in Node,
         NEW t \in CommitPrepared(S, i)
  PROVE  Genuine(t, C, i)
<1> DEFINE X == SupportedReqs(S, i, {"PREP"})
           s == Raise(S[i], X, {"PRE_PREP", "PREP"}, Status)
           left(u) == u.pend_reqs \ { r.client_request : r \in X }
<1>1. PICK u \in AddToReqQ(s, PairUp(X, Status)) : t = [u EXCEPT !.pend_reqs = left(u)]
  BY DEF CommitPrepared, PairUp
<1>2. X \subseteq Told(C)
  BY SupportedTold
<1>3. left(u) \subseteq u.pend_reqs
  OBVIOUS
<1> HIDE DEF X, left
<1>4. Fine(S[i], Request, ord) /\ Whole(S[i]) /\ Genuine(S[i], C, i)
  BY DEF Sound, FineAll, Fine
<1>5. Whole(s) /\ Genuine(s, C, i)
  <2>1. Whole(s)
    BY <1>4, RaiseLike DEF Like
  <2>2. \A q \in S[i].req_q : q = [request |-> q.request, status |-> q.status]
    BY <1>4, PairsWhole
  <2> QED
    BY <1>2, <1>4, <2>1, <2>2, RaiseGenuine
<1> HIDE DEF s
<1>6. Whole(u) /\ Genuine(u, C, i)
  <2>1. Whole(u)
    BY <1>5, AddLike DEF Like
  <2> QED
    BY <1>2, <1>5, <2>1, ToldPairs, AddGenuine
<1>7. Like(u, t)
  BY <1>1, <1>6, FieldsLike
<1>8. t.pend_reqs = left(u) /\ t.req_q = u.req_q
  BY <1>1, <1>6 DEF Whole
<1> QED
  BY <1>3, <1>6, <1>7, <1>8, LikeGenuine DEF Genuine

-----------------------------------------------------------------------------
(* Lists and logs.                                                         *)

LEMMA Unordered ==
  ASSUME NEW R, NEW log \in Seq(Entries(R))
  PROVE  \E ord : LogIsFine(log, R, ord)
<1>1. LogIsFine(log, R, FALSE)
  BY DEF LogIsFine
<1> QED
  BY <1>1

LEMMA PartTold ==
  ASSUME NEW R, NEW log \in Seq(Entries(R)),
         NEW m \in 1 .. Len(log), NEW n \in 0 .. Len(log)
  PROVE  SubSeq(log, m, n) \in Seq(Entries(R))
<1>1. PICK ord : LogIsFine(log, R, ord)
  BY Unordered
<1> QED
  BY <1>1, PartFine DEF LogIsFine

LEMMA NewestTold ==
  ASSUME NEW R, NEW log \in Seq(Entries(R)), NEW s, s.number_of_clients \in Nat
  PROVE  Newest(s, log) \in Seq(Entries(R))
<1>1. PICK ord : LogIsFine(log, R, ord)
  BY Unordered
<1> QED
  BY <1>1, NewestFine DEF LogIsFine

(* A log of what clients asked for appends what they asked for.            *)
LEMMA ExecutedListed ==
  ASSUME NEW C, C \subseteq ClientRequest, NEW log \in Seq(Entries(Told(C)))
  PROVE  Executed(log) \in Seq(Listed(C))
<1>1. log \in Seq(LogEntry)
  <2>1. Entries(Told(C)) \subseteq LogEntry
    BY DEF Entries, Told, LogEntry
  <2> QED
    BY <2>1, SeqMonotonic
<1> DEFINE list == Executed(log)
           c == Cardinality(Real(log))
<1>2. /\ list \in Seq(Value) /\ Len(list) = c
      /\ \A k \in Real(log) :
           list[Rank(log, k)] = ValueOf[log[k].request.client_request]
  BY <1>1, ExecutedAt
<1>3. ASSUME NEW n \in 1 .. c PROVE list[n] \in Listed(C)
  <2>1. PICK k \in Real(log) : Rank(log, k) = n
    BY <1>1, RankOnto
  <2>2. /\ log[k] \in Entries(Told(C))
        /\ log[k].request.client_request # Dummy
    BY <2>1 DEF Real
  <2>3. log[k].request.client_request \in C
    BY <2>2 DEF Entries, Told
  <2> QED
    BY <1>2, <2>1, <2>3 DEF Listed
<1> HIDE DEF list, c
<1>4. list \in Seq(Listed(C))
  BY <1>2, <1>3
<1> QED
  BY <1>4 DEF list

LEMMA ExecuteGenuine ==
  ASSUME N > 1, NEW C, NEW ord, NEW S, Sound(S, C, ord), NEW i \in Node,
         NEW t \in ExecuteInOrder(S, i)
  PROVE  Genuine(t, C, i)
<1> DEFINE s == S[i]
<1>1. Fine(s, Request, ord) /\ Genuine(s, C, i) /\ C \subseteq ClientRequest
  BY DEF Sound, FineAll
<1>2. PICK o \in ExecutionOrders(S, i) : t = Commit(S, s, o)
  BY DEF ExecuteInOrder
<1> DEFINE entries == [n \in DOMAIN o |-> [request |-> o[n],
                                           x_set |-> CommittedSet(S, o[n])]]
<1>3. PICK n \in Nat : o \in [1 .. n -> Executable(S, i)]
  BY DEF ExecutionOrders
<1>4. entries \in Seq(Entries(Told(C)))
  <2>1. Executable(S, i) \subseteq Told(C)
    BY SupportedTold DEF Executable
  <2>2. \A m \in 1 .. n : o[m] \in Told(C) /\ CommittedSet(S, o[m]) \subseteq Node
    BY <1>3, <2>1 DEF CommittedSet
  <2>3. entries \in [1 .. n -> Entries(Told(C))]
    BY <1>3, <2>2 DEF Entries
  <2> HIDE DEF entries
  <2> QED
    BY <2>3
<1>5. /\ t.rep_state = s.rep_state \o Executed(entries)
      /\ t.r_log = Newest(s, s.r_log \o entries)
      /\ t.pend_reqs \subseteq s.pend_reqs
      /\ t.req_q \subseteq s.req_q
  BY <1>1, <1>2 DEF Commit, Fine, Whole
<1> HIDE DEF entries, s
<1>6. s.rep_state \in Seq(Listed(C)) /\ s.r_log \in Seq(Entries(Told(C)))
  BY <1>1 DEF Genuine, ListFrom
<1>7. t.rep_state \in Seq(Listed(C))
  <2>1. Executed(entries) \in Seq(Listed(C))
    BY <1>1, <1>4, ExecutedListed
  <2> QED
    BY <1>5, <1>6, <2>1
<1>8. t.r_log \in Seq(Entries(Told(C)))
  <2>1. s.r_log \o entries \in Seq(Entries(Told(C)))
    BY <1>4, <1>6
  <2>2. s.number_of_clients \in Nat
    BY <1>1 DEF Fine
  <2> QED
    BY <1>5, <2>1, <2>2, NewestTold
<1>9. QueueFrom(t.req_q, C, i)
  BY <1>1, <1>5, FewerInQueue DEF Genuine
<1> QED
  BY <1>1, <1>5, <1>7, <1>8, <1>9 DEF Genuine, ListFrom

-----------------------------------------------------------------------------
(* Consolidated states.                                                    *)

LEMMA ConsStateFrom ==
  ASSUME NEW C, NEW ord, NEW S, Sound(S, C, ord), NEW A, A \subseteq Node
  PROVE  ListFrom(FindConsState(S, A).rep_state, FindConsState(S, A).r_log, C)
<1> DEFINE j == CHOOSE k \in Shortest(S, A) : TRUE
           state == S[j].rep_state
           log == CorrespondingRLog(S, A, state)
           X == FindConsState(S, A)
<1>1. \A k \in Node : /\ S[k].rep_state \in Seq(Listed(C))
                      /\ S[k].r_log \in Seq(Entries(Told(C)))
  BY DEF Sound, Genuine, ListFrom
<1>2. ListFrom(<<>>, <<>>, C)
  BY EmptySeq DEF ListFrom
<1>3. log \in Seq(Entries(Told(C)))
  <2> DEFINE matches == { m \in UNION { {k} \X DOMAIN S[k].r_log : k \in A } :
                            IsSuffix(Executed(SubSeq(S[m[1]].r_log, 1, m[2])), state) }
             first == { m \in matches : \A o \in matches :
                          m[1] < o[1] \/ (m[1] = o[1] /\ m[2] <= o[2]) }
             m == CHOOSE o \in first : TRUE
  <2> HIDE DEF state
  <2>1. log = IF first = {} THEN <<>> ELSE SubSeq(S[m[1]].r_log, 1, m[2])
    BY DEF CorrespondingRLog
  <2>2. \A o \in first : o[1] \in A /\ o[2] \in DOMAIN S[o[1]].r_log
    OBVIOUS
  <2> HIDE DEF first, log
  <2>3. CASE first = {}
    BY <2>1, <2>3, EmptySeq
  <2>4. CASE first # {}
    <3>1. m[1] \in Node /\ m[2] \in DOMAIN S[m[1]].r_log
      BY <2>2, <2>4
    <3> HIDE DEF m
    <3>2. S[m[1]].r_log \in Seq(Entries(Told(C)))
      BY <1>1, <3>1
    <3>3. /\ 1 \in 1 .. Len(S[m[1]].r_log)
          /\ m[2] \in 0 .. Len(S[m[1]].r_log)
      BY <3>1, <3>2
    <3>4. SubSeq(S[m[1]].r_log, 1, m[2]) \in Seq(Entries(Told(C)))
      BY <3>2, <3>3, PartTold
    <3> QED
      BY <2>1, <2>4, <3>4
  <2> QED
    BY <2>3, <2>4
<1>4. \/ X.rep_state = <<>> /\ X.r_log = <<>>
      \/ Shortest(S, A) # {} /\ X.rep_state = state /\ X.r_log = log
  <2> HIDE DEF state, log
  <2> QED
    BY DEF FindConsState, NoState, state, log, j
<1>5. Shortest(S, A) # {} => j \in Node
  BY DEF Shortest
<1> HIDE DEF log, j
<1>6. Shortest(S, A) # {} => ListFrom(state, log, C)
  BY <1>1, <1>3, <1>5 DEF ListFrom
<1> HIDE DEF X, state
<1>7. ListFrom(X.rep_state, X.r_log, C)
  BY <1>2, <1>4, <1>6
<1> QED
  BY <1>7 DEF X

LEMMA DsStateFrom ==
  ASSUME NEW C, NEW ord, NEW S, Sound(S, C, ord)
  PROVE  ListFrom(GetDsState(S).rep_state, GetDsState(S).r_log, C)
<1> DEFINE X == FindConsState(S, ComPrefStates(S, N - 3 * F))
<1>1. ListFrom(X.rep_state, X.r_log, C)
  BY ComPrefNodes, ConsStateFrom
<1>2. ListFrom(<<>>, <<>>, C)
  BY EmptySeq DEF ListFrom
<1> HIDE DEF X
<1>3. \/ GetDsState(S).rep_state = <<>> /\ GetDsState(S).r_log = <<>>
      \/ GetDsState(S) = X
  BY DEF GetDsState, NoState, X
<1> QED
  BY <1>1, <1>2, <1>3

(* The structure s with the list and the log of X.                         *)
LEMMA TakenGenuine ==
  ASSUME NEW C, NEW j, NEW s, Whole(s), Genuine(s, C, j),
         NEW X, ListFrom(X.rep_state, X.r_log, C)
  PROVE  /\ Genuine([s EXCEPT !.rep_state = X.rep_state, !.r_log = X.r_log], C, j)
         /\ Whole([s EXCEPT !.rep_state = X.rep_state, !.r_log = X.r_log])
<1> DEFINE u == [s EXCEPT !.rep_state = X.rep_state]
           t == [u EXCEPT !.r_log = X.r_log]
<1>1. /\ Whole(u) /\ u.rep_state = X.rep_state
      /\ u.pend_reqs = s.pend_reqs /\ u.req_q = s.req_q
  BY DEF Whole
<1> HIDE DEF u
<1>2. /\ Whole(t) /\ t.rep_state = u.rep_state /\ t.r_log = X.r_log
      /\ t.pend_reqs = u.pend_reqs /\ t.req_q = u.req_q
  BY <1>1 DEF Whole
<1>3. t = [s EXCEPT !.rep_state = X.rep_state, !.r_log = X.r_log]
  BY DEF u
<1> HIDE DEF t
<1>4. Genuine(t, C, j)
  BY <1>1, <1>2 DEF Genuine
<1> QED
  BY <1>2, <1>3, <1>4

LEMMA ConsolidateGenuine ==
  ASSUME NEW C, NEW ord, NEW S, Sound(S, C, ord), NEW i \in Node
  PROVE  Genuine(Consolidate(S, i), C, i)
<1> DEFINE own == FindConsState(S, ComPrefStates(S, Quorum))
           X == IF own.ok THEN own ELSE GetDsState(S)
           s == [S[i] EXCEPT !.con_flag = ~X.ok]
           t == [s EXCEPT !.rep_state = X.rep_state, !.r_log = X.r_log]
<1>1. ListFrom(X.rep_state, X.r_log, C)
  <2>1. ListFrom(own.rep_state, own.r_log, C)
    BY ComPrefNodes, ConsStateFrom
  <2> HIDE DEF own
  <2> QED
    BY <2>1, DsStateFrom
<1>2. Consolidate(S, i) = s \/ Consolidate(S, i) = t
  BY DEF Consolidate
<1>3. Whole(S[i]) /\ Genuine(S[i], C, i)
  BY DEF Sound, FineAll, Fine
<1> HIDE DEF own, X
<1>4. /\ Like(S[i], s) /\ Whole(s)
      /\ s.pend_reqs = S[i].pend_reqs /\ s.req_q = S[i].req_q
  <2>1. Like(S[i], s)
    BY <1>3, FieldsLike
  <2>2. s.pend_reqs = S[i].pend_reqs /\ s.req_q = S[i].req_q
    BY <1>3 DEF Whole
  <2> QED
    BY <2>1, <2>2 DEF Like
<1> HIDE DEF s
<1>5. Genuine(s, C, i)
  BY <1>3, <1>4, LikeGenuine DEF Genuine
<1>6. Genuine(t, C, i)
  BY <1>1, <1>4, <1>5, TakenGenuine
<1> QED
  BY <1>2, <1>5, <1>6

-----------------------------------------------------------------------------
(* A view change.                                                          *)

(* Only pairs that are not prepared get new numbers: none is made up.      *)
LEMMA RenewGenuine ==
  ASSUME NEW C, NEW ord, NEW S, NEW i \in Node, NEW s, Proper(s, C, i, ord),
         NEW ids, NEW t \in RenewReqs(S, s, i, ids)
  PROVE  Genuine(t, C, i)
<1> DEFINE old == Renewable(S, s, i, ids)
           new(q, f) == [request |-> [q.request EXCEPT !.view = i,
                                                  !.seq_num = s.seq_num + f[q]],
                         status |-> {"PRE_PREP", "PREP"}]
           left == { c \in s.pend_reqs : \A j \in ids \ {i} : c \in S[j].pend_reqs }
<1>1. Fine(s, Request, ord) /\ Whole(s) /\ Genuine(s, C, i)
  BY DEF Proper, Fine
<1>2. old \subseteq s.req_q /\ \A q \in old : q.status = {"PRE_PREP"}
  BY DEF Renewable
<1>3. Cardinality(old) \in Nat
  <2> HIDE DEF old
  <2>1. IsFiniteSet(old)
    BY <1>1, <1>2, FS_Subset DEF Fine
  <2> QED
    BY <2>1, FS_CardinalityType
<1>4. PICK f \in Injection(old, 1 .. Cardinality(old)) :
        t = [s EXCEPT !.pend_reqs = left,
                      !.req_q = (s.req_q \ old) \cup { new(q, f) : q \in old },
                      !.seq_num = s.seq_num + Cardinality(old)]
  BY <1>1 DEF RenewReqs, Whole
<1> DEFINE Q == { new(q, f) : q \in old }
<1>5. t.pend_reqs = left /\ t.req_q = (s.req_q \ old) \cup Q
  BY <1>1, <1>4 DEF Whole
<1>6. left \subseteq s.pend_reqs
  OBVIOUS
<1> HIDE DEF old
<1>7. \A q \in Q : q.request \in Told(C)
  <2> SUFFICES ASSUME NEW q \in old PROVE new(q, f).request \in Told(C)
    OBVIOUS
  <2>1. q.request \in Told(C)
    BY <1>1, <1>2 DEF Genuine, QueueFrom, MadeUp
  <2>2. s.seq_num + f[q] \in Int
    BY <1>1, <1>3 DEF Injection, Fine
  <2> QED
    BY <2>1, <2>2 DEF Told, Request, View
<1> HIDE DEF Q, left
<1>8. QueueFrom((s.req_q \ old) \cup Q, C, i)
  <2>1. QueueFrom(s.req_q \ old, C, i)
    BY <1>1, FewerInQueue DEF Genuine
  <2> QED
    BY <1>7, <2>1 DEF QueueFrom, MadeUp
<1>9. Like(s, t)
  BY <1>1, RenewLike
<1> QED
  BY <1>1, <1>5, <1>6, <1>8, <1>9, LikeGenuine DEF Genuine

LEMMA ConsolidatedGenuine ==
  ASSUME NEW C, NEW ord, NEW S, Sound(S, C, ord), NEW i \in Node,
         NEW s, Proper(s, C, i, ord)
  PROVE  Genuine(Consolidated(S, s, i), C, i)
<1> DEFINE T == [S EXCEPT ![i] = s]
           X == FindConsState(T, ComPrefStates(T, Quorum))
           u == [s EXCEPT !.rep_state = X.rep_state, !.r_log = X.r_log]
           w == [u EXCEPT !.view_changed = FALSE]
<1>1. Sound(T, C, ord)
  BY SoundAfter
<1>2. Whole(s) /\ Genuine(s, C, i)
  BY DEF Proper, Fine
<1> HIDE DEF T
<1>3. ListFrom(X.rep_state, X.r_log, C)
  BY <1>1, ComPrefNodes, ConsStateFrom
<1>4. Consolidated(S, s, i) \in {w, SetToTee(s)}
  BY DEF Consolidated, T
<1> HIDE DEF X
<1>5. Genuine(u, C, i) /\ Whole(u)
  BY <1>2, <1>3, TakenGenuine
<1> HIDE DEF u
<1>6. Like(u, w) /\ w.pend_reqs = u.pend_reqs /\ w.req_q = u.req_q
  BY <1>5, FieldsLike DEF Whole
<1> HIDE DEF w
<1>7. Genuine(w, C, i)
  BY <1>5, <1>6, LikeGenuine DEF Genuine
<1> QED
  BY <1>4, <1>7, NothingGenuine

LEMMA ActAsPrimGenuine ==
  ASSUME NEW C, NEW ord, NEW S, Sound(S, C, ord), NEW i \in Node, NEW views,
         NEW t \in ActAsPrim(S, i, views)
  PROVE  Genuine(t, C, i)
<1> DEFINE ids == { j \in Node : S[j].view_changed /\ views[j] = i }
<1>1. Fine(S[i], Request, ord) /\ Whole(S[i]) /\ Genuine(S[i], C, i)
  BY DEF Sound, FineAll, Fine
<1>2. CASE Cardinality(ids) < N - F
  BY <1>1, <1>2 DEF ActAsPrim
<1>3. CASE ~(Cardinality(ids) < N - F)
  <2> HIDE DEF ids
  <2>1. PICK n \in NewSeqs(S[i]) :
         \E u \in AddToReqQ([S[i] EXCEPT !.seq_num = n], DummyReqs(S[i], i, n)) :
         \E v \in RenewReqs(S, u, i, ids) : t = Consolidated(S, v, i)
    BY <1>3 DEF ActAsPrim, ids
  <2>2. n \in Int
    <3>1. LastExec(S[i]) \in Int
      BY <1>1, LastExecInt
    <3>2. \A q \in S[i].req_q : q.request.seq_num \in Int
      BY <1>1 DEF Fine, Pairs, Request
    <3> QED
      BY <3>1, <3>2 DEF NewSeqs, Largest
  <2> DEFINE s == [S[i] EXCEPT !.seq_num = n]
  <2>3. Fine(s, Request, ord) /\ Like(S[i], s)
    BY <1>1, <2>2, WithNumber, FieldsLike
  <2>4. s.pend_reqs = S[i].pend_reqs /\ s.req_q = S[i].req_q
    BY <1>1 DEF Whole
  <2>5. PICK u \in AddToReqQ(s, DummyReqs(S[i], i, n)) :
          \E v \in RenewReqs(S, u, i, ids) : t = Consolidated(S, v, i)
    BY <2>1
  <2> HIDE DEF s
  <2>6. Genuine(s, C, i) /\ Whole(s)
    BY <1>1, <2>3, <2>4, LikeGenuine DEF Genuine, Like
  <2>7. Fine(u, Request, ord)
    BY <1>1, <2>2, <2>3, <2>5, DummyFine, AddFine
  <2>8. Genuine(u, C, i)
    <3>1. QueueFrom(DummyReqs(S[i], i, n), C, i)
      <4>1. DummyReqs(S[i], i, n) \subseteq Pairs(Request)
        BY <1>1, <2>2, DummyFine
      <4>2. \A q \in DummyReqs(S[i], i, n) : q.request.client_request = Dummy
        BY DEF DummyReqs
      <4> QED
        BY <4>1, <4>2 DEF QueueFrom, Told, Pairs
    <3> QED
      BY <2>5, <2>6, <3>1, AddGenuine
  <2>9. PICK v \in RenewReqs(S, u, i, ids) : t = Consolidated(S, v, i)
    BY <2>5
  <2>10. Proper(v, C, i, ord)
    <3>1. Proper(u, C, i, ord)
      BY <2>7, <2>8 DEF Proper
    <3>2. Fine(v, Request, ord)
      BY <2>7, <2>9, RenewFine
    <3>3. Genuine(v, C, i)
      BY <2>9, <3>1, RenewGenuine
    <3> QED
      BY <3>2, <3>3 DEF Proper
  <2> QED
    BY <2>9, <2>10, ConsolidatedGenuine
<1> QED
  BY <1>2, <1>3

(* What the new primary made up in its own view does not pass the checks.  *)
LEMMA CheckedTold ==
  ASSUME NEW C, NEW ord, NEW S, Sound(S, C, ord), NEW i \in Node, NEW p \in Node,
         CheckNewVState(S, i, p)
  PROVE  QueueRequests(S[p]) \subseteq Told(C)
<1> SUFFICES ASSUME NEW q \in S[p].req_q, q.request \notin Told(C)
             PROVE  FALSE
  BY DEF QueueRequests
<1> DEFINE r == q.request
<1>1. At(p) = p
  BY NodesAssumption DEF At, Node, TEE
<1>2. r \in QueueRequests(S[p]) /\ r.view = p
  BY DEF QueueRequests, Sound, Genuine, QueueFrom, MadeUp
<1>3. CheckRequest(S, i, p, r)
  BY <1>1, <1>2 DEF CheckNewVState
<1>4. r.client_request \notin C \cup {Dummy}
  <2>1. r \in Request
    BY DEF Sound, FineAll, Fine, Pairs
  <2> QED
    BY <2>1 DEF Told
<1> DEFINE others == UNION { { <<j, o>> : o \in { x \in S[j].req_q :
                       /\ x.status = {"PRE_PREP"}
                       /\ x.request.client_request = r.client_request } } : j \in Node }
<1>5. Cardinality(others) >= Quorum \/ AcceptReqPreprep(S, i, p, r.client_request)
  BY <1>3, <1>4 DEF CheckRequest
<1>6. ~AcceptReqPreprep(S, i, p, r.client_request)
  BY <1>4, KnownAsked DEF AcceptReqPreprep
<1>7. others = {}
  <2> SUFFICES ASSUME NEW j \in Node, NEW o \in S[j].req_q, o.status = {"PRE_PREP"},
                      o.request.client_request = r.client_request
               PROVE  FALSE
    OBVIOUS
  <2>1. o.request \in Told(C)
    BY DEF Sound, Genuine, QueueFrom, MadeUp
  <2> QED
    BY <1>4, <2>1 DEF Told
<1>8. Quorum \in Int /\ Quorum > 0
  BY NodesAssumption DEF Quorum
<1> HIDE DEF others
<1>9. Cardinality(others) = 0
  BY <1>7, FS_EmptySet
<1> QED
  BY <1>5, <1>6, <1>8, <1>9

LEMMA ActAsNonprimGenuine ==
  ASSUME NEW C, NEW ord, NEW S, Sound(S, C, ord), NEW i \in Node, NEW views,
         NEW p \in Node
  PROVE  Genuine(ActAsNonprim(S, i, views, p), C, i)
<1> DEFINE s == S[At(p)]
           t == SetReplicaStructure(S[i], s)
<1>1. At(p) = p
  BY NodesAssumption DEF At, Node, TEE
<1>2. Whole(s) /\ Genuine(s, C, p) /\ Genuine(S[i], C, i)
  BY <1>1 DEF Sound, FineAll, Fine
<1>3. ASSUME CheckNewVState(S, i, p)
      PROVE  Genuine(t, C, i)
  <2>1. QueueFrom(s.req_q, C, i)
    <3>1. QueueRequests(s) \subseteq Told(C)
      BY <1>1, <1>3, CheckedTold
    <3> QED
      BY <3>1 DEF QueueRequests, QueueFrom
  <2>2. /\ t.pend_reqs = s.pend_reqs /\ t.req_q = s.req_q
        /\ t.rep_state = s.rep_state /\ t.r_log = s.r_log
    BY <1>2 DEF SetReplicaStructure, Whole
  <2> HIDE DEF s, t
  <2> QED
    BY <1>2, <2>1, <2>2 DEF Genuine
<1>4. \/ ActAsNonprim(S, i, views, p) = S[i]
      \/ CheckNewVState(S, i, p) /\ ActAsNonprim(S, i, views, p) = t
  BY DEF ActAsNonprim
<1> HIDE DEF t
<1> QED
  BY <1>2, <1>3, <1>4

LEMMA ViewPartGenuine ==
  ASSUME NEW C, NEW ord, NEW S, Sound(S, C, ord), NEW i \in Node, NEW read,
         NEW again \in Answer, again.views[i] \in Node,
         NEW t \in ViewPart(S, i, read, again)
  PROVE  Genuine(t, C, i)
<1> DEFINE changed == IF S[i].view_changed THEN TRUE
                      ELSE ~IsTee(S[i]) /\ read.views[i] # S[i].prim
           p == again.views[i]
           u == [S[i] EXCEPT !.view_changed = changed]
           w == [u EXCEPT !.prim = p]
           T == [S EXCEPT ![i] = w]
<1>1. /\ Fine(S[i], Request, ord) /\ Whole(S[i]) /\ Genuine(S[i], C, i)
      /\ p \in Node /\ p \in View /\ changed \in BOOLEAN
  BY DEF Sound, FineAll, Fine, View
<1>2. T = [S EXCEPT ![i].view_changed = changed, ![i].prim = p]
  BY DEF Sound, FineAll
<1>3. \/ t = S[i]
      \/ t = T[i]
      \/ t \in ActAsPrim(T, i, again.views)
      \/ t = ActAsNonprim(T, i, again.views, p)
  BY <1>2 DEF ViewPart
<1> HIDE DEF changed, p
<1>4. Fine(w, Request, ord)
  BY <1>1, WithFlag, WithPrim
<1>5. Like(S[i], w)
  <2>1. Like(S[i], u) /\ Whole(u)
    BY <1>1, FieldsLike DEF Like
  <2> HIDE DEF u
  <2>2. Like(u, w)
    BY <2>1, FieldsLike
  <2> QED
    BY <2>1, <2>2, LikeAgain
<1>6. w.pend_reqs = S[i].pend_reqs /\ w.req_q = S[i].req_q
  BY <1>1 DEF Whole
<1> HIDE DEF w
<1>7. Proper(w, C, i, ord)
  BY <1>1, <1>4, <1>5, <1>6, LikeGenuine DEF Genuine, Proper
<1>8. Sound(T, C, ord) /\ T[i] = w
  BY <1>7, SoundAfter
<1> HIDE DEF T
<1>9. Genuine(T[i], C, i)
  BY <1>7, <1>8 DEF Proper
<1> QED
  BY <1>1, <1>3, <1>8, <1>9, ActAsPrimGenuine, ActAsNonprimGenuine

-----------------------------------------------------------------------------
(* The loop body.                                                          *)

LEMMA ProcessGenuine ==
  ASSUME N > 1, NEW C, NEW ord, NEW S, Sound(S, C, ord), NEW i \in Node,
         NEW p \in View, NEW t \in ProcessRequests(S, i, p)
  PROVE  Genuine(t, C, i)
<1> DEFINE own(s) == [S EXCEPT ![i] = s]
           numbered == Numbering(S, i, p)
<1>1. PICK u \in numbered : \E w \in CommitPrepared(own(u), i) :
             t \in ExecuteInOrder(own(w), i)
  BY RequestSteps
<1>2. FineAll(S, Request, ord) /\ \A G \in SUBSET Request : Request \cup G = Request
  BY DEF Sound
<1>3. \A s : Proper(s, C, i, ord) => Sound(own(s), C, ord) /\ own(s)[i] = s
  BY SoundAfter
<1>4. \A s : Sound(own(s), C, ord) => FineAll(own(s), Request, ord)
  BY DEF Sound
<1> HIDE DEF own
<1>5. Proper(u, C, i, ord)
  <2>1. CASE p = i /\ Behaviour[i] # "STOP_ASSIGNING_SEQNUMS"
    <3>1. u \in Assign(S, i, i)
      BY <1>1, <2>1 DEF Numbering
    <3>2. Fine(u, Request, ord)
      <4>1. i \in View
        BY DEF View
      <4>2. \E G \in SUBSET Request : Fine(u, Request \cup G, ord)
        BY <1>2, <3>1, <4>1, AssignFine
      <4> QED
        BY <1>2, <4>2
    <3>3. Genuine(u, C, i)
      BY <3>1, AssignGenuine
    <3> QED
      BY <3>2, <3>3 DEF Proper
  <2>2. CASE ~(p = i /\ Behaviour[i] # "STOP_ASSIGNING_SEQNUMS")
    <3>1. PICK s \in AcceptPreprep(S, i, p) : u = Prepare(own(s), i)
      BY <1>1, <2>2 DEF Numbering, own
    <3>2. Fine(s, Request, ord) /\ Genuine(s, C, i)
      BY <1>2, AcceptFine, AcceptGenuine
    <3>3. Sound(own(s), C, ord) /\ FineAll(own(s), Request, ord)
      BY <1>3, <1>4, <3>2 DEF Proper
    <3>4. Fine(u, Request, ord) /\ Genuine(u, C, i)
      BY <3>1, <3>3, PrepareFine, PrepareGenuine
    <3> QED
      BY <3>4 DEF Proper
  <2> QED
    BY <2>1, <2>2
<1> HIDE DEF numbered
<1>6. PICK w \in CommitPrepared(own(u), i) : t \in ExecuteInOrder(own(w), i)
  BY <1>1
<1>7. Sound(own(u), C, ord) /\ FineAll(own(u), Request, ord)
  BY <1>3, <1>4, <1>5
<1>8. Fine(w, Request, ord) /\ Genuine(w, C, i)
  BY <1>6, <1>7, CommitPreparedFine, CommitPreparedGenuine
<1>9. Sound(own(w), C, ord)
  BY <1>3, <1>8 DEF Proper
<1> QED
  BY <1>6, <1>9, ExecuteGenuine

LEMMA AskedGenuine ==
  ASSUME NEW C, NEW ord, NEW S, Sound(S, C, ord), NEW i \in Node,
         NEW X, X \subseteq C, IsFiniteSet(X), NEW T \in AskedFor(S, i, X)
  PROVE  Sound(T, C, ord)
<1>1. Fine(S[i], Request, ord) /\ Whole(S[i]) /\ Genuine(S[i], C, i) /\ C \subseteq ClientRequest
  BY DEF Sound, FineAll, Fine
<1> DEFINE own(s) == [S EXCEPT ![i] = s]
<1>2. PICK t \in ExtendPendReqs(S[i], X) :
        \E s \in ExtendPendReqs(t, KnownPendReqs(own(t))) : T = own(s)
  BY DEF AskedFor
<1>3. PICK s \in ExtendPendReqs(t, KnownPendReqs(own(t))) : T = own(s)
  BY <1>2
<1>4. \A u : Proper(u, C, i, ord) => Sound(own(u), C, ord)
  BY SoundAfter
<1> HIDE DEF own
<1>5. Fine(t, Request, ord) /\ Genuine(t, C, i)
  <2>1. X \subseteq ClientRequest
    BY <1>1
  <2>2. Fine(t, Request, ord)
    BY <1>1, <2>1, ExtendFine
  <2> QED
    BY <1>1, <2>2, ExtendGenuine
<1>6. Sound(own(t), C, ord)
  BY <1>4, <1>5 DEF Proper
<1>7. /\ KnownPendReqs(own(t)) \subseteq C
      /\ KnownPendReqs(own(t)) \subseteq ClientRequest
      /\ IsFiniteSet(KnownPendReqs(own(t)))
  <2>1. FineAll(own(t), Request, ord)
    BY <1>6 DEF Sound
  <2> QED
    BY <1>6, <2>1, KnownAsked, KnownFine
<1>8. Fine(s, Request, ord) /\ Genuine(s, C, i)
  <2>1. Whole(t)
    BY <1>5 DEF Fine
  <2>2. Fine(s, Request, ord)
    BY <1>5, <1>7, ExtendFine
  <2> QED
    BY <1>5, <1>7, <2>1, <2>2, ExtendGenuine
<1> QED
  BY <1>3, <1>4, <1>8 DEF Proper

(* A row of structures that are of one node each, as AllGenuine says.      *)
LEMMA BodyGenuine ==
  ASSUME N > 1, NEW C, NEW ord, NEW i \in Node, Sound(rep[i], C, ord),
         NEW read, NEW again \in Answer, again.views[i] \in Node,
         NEW no_view_change, NEW X, X \subseteq C, IsFiniteSet(X),
         RunBody(i, read, again, no_view_change, X)
  PROVE  \E row : /\ rep' = Placed(rep, i, row)
                  /\ \A j \in Node : Genuine(row[j], C, j)
<1>1. PICK s \in ViewPart(rep[i], i, read, again) : BodyFrom(i, s, again.views[i], X)
  BY BodyParts
<1>2. Proper(s, C, i, ord)
  <2>1. FineAll(rep[i], Request, ord)
    BY DEF Sound
  <2> QED
    BY <1>1, <2>1, ViewPartFine, ViewPartGenuine DEF Proper
<1> DEFINE S == Placed(rep[i], i, s)
<1>3. Sound(S, C, ord)
  BY <1>2, SoundAfter DEF Placed
<1> HIDE DEF S
<1>4. PICK flush \in BOOLEAN :
        \E T \in AskedFor(Considered(S, i, flush), i, X) :
        \E t : /\ t \in ProcessRequests(T, i, again.views[i]) \/ t = T[i]
               /\ rep' = Placed(rep, i, Placed(T, i, t))
  BY <1>1 DEF BodyFrom, S
<1> DEFINE U == Considered(S, i, flush)
<1>5. Sound(U, C, ord)
  <2>1. CASE flush
    <3>1. U = FlushLocal
      BY <2>1 DEF Considered
    <3>2. C \subseteq ClientRequest /\ FineAll(FlushLocal, Request, ord)
      BY FlushFine DEF Sound
    <3>3. \A j \in Node : Genuine(FlushLocal[j], C, j)
      BY NothingGenuine DEF FlushLocal
    <3> QED
      BY <3>1, <3>2, <3>3 DEF Sound
  <2>2. CASE ~flush
    <3>1. PICK x : x = Consolidate(S, i)
      OBVIOUS
    <3>2. Proper(x, C, i, ord)
      <4>1. FineAll(S, Request, ord)
        BY <1>3 DEF Sound
      <4> QED
        BY <1>3, <3>1, <4>1, ConsolidateFine, ConsolidateGenuine DEF Proper
    <3>3. U = [S EXCEPT ![i] = x]
      BY <2>2, <3>1 DEF Considered, Placed
    <3>4. Sound([S EXCEPT ![i] = x], C, ord)
      BY <1>3, <3>2, SoundAfter
    <3> QED
      BY <3>3, <3>4
  <2> QED
    BY <2>1, <2>2
<1>6. PICK T \in AskedFor(U, i, X) :
        \E t : /\ t \in ProcessRequests(T, i, again.views[i]) \/ t = T[i]
               /\ rep' = Placed(rep, i, Placed(T, i, t))
  BY <1>4
<1> HIDE DEF U
<1>7. PICK t : /\ t \in ProcessRequests(T, i, again.views[i]) \/ t = T[i]
               /\ rep' = Placed(rep, i, Placed(T, i, t))
  BY <1>6
<1>8. Sound(T, C, ord)
  BY <1>5, <1>6, AskedGenuine
<1>9. Genuine(t, C, i)
  <2>1. again.views[i] \in View
    BY DEF View
  <2> QED
    BY <1>7, <1>8, <2>1, ProcessGenuine DEF Sound
<1>10. \A j \in Node : Placed(T, i, t)[j] = IF j = i THEN t ELSE T[j]
  BY <1>8 DEF Placed, Sound, FineAll
<1>11. ASSUME NEW j \in Node PROVE Genuine(Placed(T, i, t)[j], C, j)
  <2>1. CASE j = i
    <3>1. Placed(T, i, t)[j] = t
      BY <1>10, <2>1
    <3> QED
      BY <1>9, <2>1, <3>1
  <2>2. CASE j # i
    <3>1. Placed(T, i, t)[j] = T[j]
      BY <1>10, <2>2
    <3> QED
      BY <1>8, <3>1 DEF Sound
  <2> QED
    BY <2>1, <2>2
<1> QED
  BY <1>7, <1>11

-----------------------------------------------------------------------------
(* All steps.                                                              *)

(* A step in which the body of a loop runs.  The requests that clients     *)
(* send to it meanwhile count as asked after it.                           *)
TurnOf(i) ==
  \E again, no_view_change, X :
    /\ again \in {ve[i], ve'[i]}
    /\ X \subseteq Asked' /\ IsFiniteSet(X)
    /\ RunBody(i, ve[i], again, no_view_change, X)

LEMMA TurnOrQuiet ==
  ASSUME Wired, Counts, [Next]_vars
  PROVE  QuietStep \/ \E i \in Node : TurnOf(i)
<1>1. IsFiniteSet({}) /\ \A c \in ClientRequest : IsFiniteSet({c})
  BY FS_EmptySet, FS_Singleton
<1>2. ASSUME NEW i \in Node, Run(i)
      PROVE  TurnOf(i)
  BY <1>1, <1>2 DEF Run, TurnOf
<1>3. ASSUME NEW i \in Node, RunAcrossMove(i)
      PROVE  TurnOf(i)
  <2>1. PICK a \in Answers :
          MoveTo(i, a) /\ \E again \in {ve[i], a} :
                            RunBody(i, ve[i], again, a.no_view_change, {})
    BY <1>3 DEF RunAcrossMove
  <2>2. ve'[i] = a
    BY <2>1 DEF MoveTo, Wired
  <2> QED
    BY <1>1, <2>1, <2>2 DEF TurnOf
<1>4. ASSUME NEW i \in Node, NEW c \in ClientRequest, RunDuringInject(i, c)
      PROVE  TurnOf(i)
  <2>1. c \in asked'[i]
    BY <1>4 DEF RunDuringInject, Counts
  <2>2. {c} \subseteq Asked'
    BY <2>1 DEF Asked
  <2> QED
    BY <1>1, <1>4, <2>2 DEF RunDuringInject, TurnOf
<1> QED
  BY <1>2, <1>3, <1>4 DEF Next, QuietStep

LEMMA AskedGrows ==
  ASSUME Counts, [Next]_vars
  PROVE  Asked \subseteq Asked' /\ Asked' \subseteq ClientRequest
<1>1. asked' = asked \/ \E i \in Node, c \in ClientRequest :
                          asked' = [asked EXCEPT ![i] = @ \cup {c}]
  BY DEF Next, Run, RunAcrossMove, Move, Inject, RunDuringInject, SendTo, Receive, vars
<1>2. \A i \in Node : asked[i] \subseteq asked'[i]
  BY <1>1 DEF Counts
<1>3. Counts'
  BY CountsStep
<1> QED
  BY <1>2, <1>3 DEF Counts, Asked

(* What AllGenuine says of structures R, messages M and requests C.        *)
Everywhere(R, M, C) ==
  \A i, j \in Node : /\ Genuine(R[i][j], C, j)
                     /\ \A n \in DOMAIN M[j][i] : Genuine(M[j][i][n], C, j)

LEMMA EverywhereAfter ==
  ASSUME Everywhere(rep', net', Asked')
  PROVE  AllGenuine'
BY DEF Everywhere, AllGenuine, Genuine, ListFrom, QueueFrom, MadeUp, Told, Listed,
       Entries, Request

LEMMA TurnGenuine ==
  ASSUME N > 1, NEW ord \in BOOLEAN, AllFine(Request, ord), Wired, Wired',
         NEW C, C \subseteq ClientRequest, Everywhere(rep, net, C), C = Asked',
         HaveViews, HaveViews', NEW i \in Node, TurnOf(i)
  PROVE  Everywhere(rep', net', C)
<1>1. PICK again, no_view_change, X :
        /\ again \in {ve[i], ve'[i]}
        /\ X \subseteq C /\ IsFiniteSet(X)
        /\ RunBody(i, ve[i], again, no_view_change, X)
  BY DEF TurnOf
<1>2. again \in Answer /\ again.views[i] \in Node
  <2>1. again \in Answer
    BY <1>1, AnswersAssumption DEF Wired
  <2>2. again.views[i] # TEE
    BY <1>1 DEF HaveViews
  <2> QED
    BY <2>1, <2>2 DEF Answer, View
<1>3. Sound(rep[i], C, ord)
  BY DEF AllFine, RepFine, Everywhere, Sound
<1>4. PICK row : /\ rep' = Placed(rep, i, row)
                 /\ \A j \in Node : Genuine(row[j], C, j)
  BY <1>1, <1>2, <1>3, BodyGenuine
<1>5. \A k \in Node : rep'[k] = IF k = i THEN row ELSE rep[k]
  BY <1>4 DEF Placed, AllFine, RepFine
<1>6. net' = net
  BY <1>1 DEF RunBody
<1>7. ASSUME NEW k \in Node, NEW j \in Node
      PROVE  Genuine(rep'[k][j], C, j)
  <2>1. CASE k = i
    BY <1>4, <1>5, <2>1
  <2>2. CASE k # i
    <3>1. rep'[k] = rep[k]
      BY <1>5, <2>2
    <3> QED
      BY <3>1 DEF Everywhere
  <2> QED
    BY <2>1, <2>2
<1> QED
  BY <1>6, <1>7 DEF Everywhere

LEMMA QuietGenuine ==
  ASSUME NEW ord \in BOOLEAN, AllFine(Request, ord), Wired, Counts, QuietStep,
         NEW C, Everywhere(rep, net, C), C = Asked'
  PROVE  Everywhere(rep', net', C)
<1>1. /\ DOMAIN rep = Node
      /\ \A i \in Node : DOMAIN rep[i] = Node /\ \A j \in Node : Whole(rep[i][j])
  BY DEF AllFine, RepFine, FineAll, Fine
<1>2. PICK M : net \in [Node -> [Node -> Seq(M)]]
  BY DEF AllFine, NetFine
<1>3. CASE UNCHANGED <<rep, net>>
  BY <1>3
<1>4. ASSUME NEW i \in Node, NEW c \in ClientRequest, Inject(i, c)
      PROVE  Everywhere(rep', net', C)
  <2>1. PICK s \in ExtendPendReqs(rep[i][i], {c}) : rep' = [rep EXCEPT ![i][i] = s]
    BY <1>4 DEF Inject
  <2>2. {c} \subseteq C
    <3>1. c \in asked'[i]
      BY <1>4 DEF Inject, Counts
    <3> QED
      BY <3>1 DEF Asked
  <2>3. Genuine(s, C, i)
    <3>1. Whole(rep[i][i]) /\ Genuine(rep[i][i], C, i)
      BY <1>1 DEF Everywhere
    <3> QED
      BY <2>1, <2>2, <3>1, ExtendGenuine
  <2>4. /\ net' = net
        /\ \A k, j \in Node : rep'[k][j] = IF k = i /\ j = i THEN s ELSE rep[k][j]
    BY <1>1, <1>4, <2>1 DEF Inject
  <2>5. ASSUME NEW k \in Node, NEW j \in Node
        PROVE  Genuine(rep'[k][j], C, j)
    <3>1. CASE k = i /\ j = i
      <4>1. rep'[k][j] = s
        BY <2>4, <3>1
      <4> QED
        BY <2>3, <3>1, <4>1
    <3>2. CASE ~(k = i /\ j = i)
      <4>1. rep'[k][j] = rep[k][j]
        BY <2>4, <3>2
      <4> QED
        BY <4>1 DEF Everywhere
    <3> QED
      BY <3>1, <3>2
  <2> QED
    BY <2>4, <2>5 DEF Everywhere
<1>5. ASSUME NEW i \in Node, NEW j \in Node, SendTo(i, j)
      PROVE  Everywhere(rep', net', C)
  <2>1. rep' = rep /\ net' = [net EXCEPT ![i][j] = Append(net[i][j], rep[i][i])]
    BY <1>5 DEF SendTo
  <2>2. ASSUME NEW k \in Node, NEW l \in Node, NEW n \in DOMAIN net'[l][k]
        PROVE  Genuine(net'[l][k][n], C, l)
    <3>1. CASE l = i /\ k = j
      <4>1. net'[l][k] = Append(net[l][k], rep[l][l]) /\ net[l][k] \in Seq(M)
        BY <1>2, <2>1, <3>1
      <4>2. \/ n \in DOMAIN net[l][k] /\ net'[l][k][n] = net[l][k][n]
            \/ net'[l][k][n] = rep[l][l]
        BY <2>2, <4>1
      <4> QED
        BY <4>2 DEF Everywhere
    <3>2. CASE ~(l = i /\ k = j)
      <4>1. net'[l][k] = net[l][k]
        BY <1>2, <2>1, <3>2
      <4> QED
        BY <2>2, <4>1 DEF Everywhere
    <3> QED
      BY <3>1, <3>2
  <2> QED
    BY <2>1, <2>2 DEF Everywhere
<1>6. ASSUME NEW i \in Node, NEW j \in Node, Receive(i, j)
      PROVE  Everywhere(rep', net', C)
  <2> DEFINE queue == net[j][i]
             h == Head(queue)
             s == Believed(i, j, h)
  <2>1. /\ queue # <<>> /\ queue \in Seq(M)
        /\ rep' = [rep EXCEPT ![i][j] = s]
        /\ net' = [net EXCEPT ![j][i] = Tail(queue)]
    BY <1>2, <1>6 DEF Receive
  <2>2. Genuine(h, C, j)
    <3>1. 1 \in DOMAIN queue /\ h = queue[1]
      BY <2>1
    <3> QED
      BY <3>1 DEF Everywhere
  <2>3. Whole(rep[i][j]) /\ Genuine(rep[i][j], C, j)
    BY <1>1 DEF Everywhere
  <2> DEFINE u == [rep[i][j] EXCEPT !.rep_state = h.rep_state]
  <2>4. Genuine(u, C, j)
    <3>1. /\ u.rep_state = h.rep_state /\ u.r_log = rep[i][j].r_log
          /\ u.pend_reqs = rep[i][j].pend_reqs /\ u.req_q = rep[i][j].req_q
      BY <2>3 DEF Whole
    <3> HIDE DEF u, h
    <3> QED
      BY <2>2, <2>3, <3>1 DEF Genuine, ListFrom
  <2>5. s = rep[i][j] \/ s = h \/ s = u
    BY DEF Believed
  <2> HIDE DEF u, h, s
  <2>6. Genuine(s, C, j)
    BY <2>2, <2>3, <2>4, <2>5
  <2>7. ASSUME NEW k \in Node, NEW l \in Node
        PROVE  Genuine(rep'[k][l], C, l)
    <3>1. CASE k = i /\ l = j
      <4>1. rep'[k][l] = s
        BY <1>1, <2>1, <3>1
      <4> QED
        BY <2>6, <3>1, <4>1
    <3>2. CASE ~(k = i /\ l = j)
      <4>1. rep'[k][l] = rep[k][l]
        BY <1>1, <2>1, <3>2
      <4> QED
        BY <4>1 DEF Everywhere
    <3> QED
      BY <3>1, <3>2
  <2>8. ASSUME NEW k \in Node, NEW l \in Node, NEW n \in DOMAIN net'[l][k]
        PROVE  Genuine(net'[l][k][n], C, l)
    <3>1. CASE l = j /\ k = i
      <4>1. net'[l][k] = Tail(net[l][k]) /\ net[l][k] \in Seq(M) /\ net[l][k] # <<>>
        BY <1>2, <2>1, <3>1
      <4>2. n + 1 \in DOMAIN net[l][k] /\ net'[l][k][n] = net[l][k][n + 1]
        BY <2>8, <4>1
      <4> QED
        BY <4>2 DEF Everywhere
    <3>2. CASE ~(l = j /\ k = i)
      <4>1. net'[l][k] = net[l][k]
        BY <1>2, <2>1, <3>2
      <4> QED
        BY <2>8, <4>1 DEF Everywhere
    <3> QED
      BY <3>1, <3>2
  <2> QED
    BY <2>7, <2>8 DEF Everywhere
<1> QED
  BY <1>3, <1>4, <1>5, <1>6 DEF QuietStep, Move, vars

LEMMA GenuineStep ==
  ASSUME N > 1, NEW ord \in BOOLEAN, AllFine(Request, ord), Wired, Counts,
         HaveViews, HaveViews', AllGenuine, [Next]_vars
  PROVE  AllGenuine'
<1>1. Asked \subseteq Asked' /\ Asked' \subseteq ClientRequest
  BY AskedGrows
<1>2. Wired'
  BY WiredStep
<1>3. PICK C : C = Asked'
  OBVIOUS
<1>4. Everywhere(rep, net, C)
  BY <1>1, <1>3, MoreAsked DEF AllGenuine, Everywhere
<1>5. Everywhere(rep', net', C)
  <2>1. CASE QuietStep
    BY <1>3, <1>4, <2>1, QuietGenuine
  <2>2. ASSUME NEW i \in Node, TurnOf(i)
        PROVE  Everywhere(rep', net', C)
    BY <1>1, <1>2, <1>3, <1>4, <2>2, TurnGenuine
  <2> QED
    BY <2>1, <2>2, TurnOrQuiet
<1> QED
  BY <1>3, <1>5, EverywhereAfter

(* Whatever byzantine nodes number, of whatever view change, no node ever  *)
(* executes what no client asked for, once none has, see NothingMadeUp.    *)
THEOREM NothingMadeUpForever == ASSUME N > 1 PROVE Spec => NothingMadeUp
<1>1. AllFine(Request, FALSE) /\ Wired /\ Counts /\ [Next]_vars =>
        [HaveViews /\ HaveViews' /\ AllGenuine => AllGenuine']_vars
  BY GenuineStep
<1>2. Init => Counts
  BY CountsInit
<1>3. Counts /\ [Next]_vars => Counts'
  BY CountsStep
<1> QED
  BY <1>1, <1>2, <1>3, Shape, PTL DEF Spec, NothingMadeUp

=============================================================================
