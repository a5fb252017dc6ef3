------------------------ MODULE ReplicationListProofs ------------------------
(***************************************************************************)
(* Proof that a list that ends with what the log of its node appends goes  *)
(* on doing so, for every number of nodes, clients and requests, all       *)
(* byzantine behaviours and whatever the other two modules answer.         *)
(***************************************************************************)
EXTENDS ReplicationProofs

-----------------------------------------------------------------------------
(* What leaves list and log alone, and the bound of the log.               *)

Like(s, t) ==
  /\ Whole(t)
  /\ t.rep_state = s.rep_state /\ t.r_log = s.r_log
  /\ t.number_of_clients = s.number_of_clients

LEMMA FieldsLike ==
  ASSUME NEW s, Whole(s), NEW x
  PROVE  /\ Like(s, s)
         /\ Like(s, [s EXCEPT !.pend_reqs = x])
         /\ Like(s, [s EXCEPT !.req_q = x])
         /\ Like(s, [s EXCEPT !.seq_num = x])
         /\ Like(s, [s EXCEPT !.con_flag = x])
         /\ Like(s, [s EXCEPT !.view_changed = x])
         /\ Like(s, [s EXCEPT !.prim = x])
<1>1. /\ Like(s, s)
      /\ Like(s, [s EXCEPT !.pend_reqs = x])
      /\ Like(s, [s EXCEPT !.req_q = x])
      /\ Like(s, [s EXCEPT !.seq_num = x])
  BY DEF Whole, Like
<1>2. /\ Like(s, [s EXCEPT !.con_flag = x])
      /\ Like(s, [s EXCEPT !.view_changed = x])
      /\ Like(s, [s EXCEPT !.prim = x])
  BY DEF Whole, Like
<1> QED
  BY <1>1, <1>2

LEMMA LikeAgain ==
  ASSUME NEW s, NEW t, NEW u, Like(s, t), Like(t, u)
  PROVE  Like(s, u)
BY DEF Like

LEMMA LikeFits ==
  ASSUME NEW s, NEW t, Like(s, t), FitsLog(s)
  PROVE  FitsLog(t)
BY DEF Like, FitsLog

LEMMA ExtendLike ==
  ASSUME NEW s, Whole(s), NEW C, NEW t \in ExtendPendReqs(s, C)
  PROVE  Like(s, t)
<1>1. PICK kept \in SUBSET (s.pend_reqs \cup C) : t = [s EXCEPT !.pend_reqs = kept]
  BY DEF ExtendPendReqs, kSubset
<1>2. Like(s, [s EXCEPT !.pend_reqs = kept])
  BY FieldsLike
<1> QED
  BY <1>1, <1>2

LEMMA AddLike ==
  ASSUME NEW s, Whole(s), NEW P, NEW t \in AddToReqQ(s, P)
  PROVE  Like(s, t)
<1> DEFINE all == s.req_q \cup { q \in P : q.request \notin QueueRequests(s) }
<1>1. PICK kept \in SUBSET all : t = [s EXCEPT !.req_q = kept]
  BY DEF AddToReqQ, kSubset
<1>2. Like(s, [s EXCEPT !.req_q = kept])
  BY FieldsLike
<1> QED
  BY <1>1, <1>2

LEMMA RenewLike ==
  ASSUME NEW S, NEW s, Whole(s), NEW i, NEW ids, NEW t \in RenewReqs(S, s, i, ids)
  PROVE  Like(s, t)
<1>1. \E P, Q, n : t = [s EXCEPT !.pend_reqs = P, !.req_q = Q, !.seq_num = n]
  BY DEF RenewReqs, Whole
<1>2. PICK P, Q, n : t = [s EXCEPT !.pend_reqs = P, !.req_q = Q, !.seq_num = n]
  BY <1>1
<1> DEFINE u == [s EXCEPT !.pend_reqs = P]
           v == [u EXCEPT !.req_q = Q]
<1>3. Like(s, u) /\ Whole(u)
  BY FieldsLike DEF Like
<1> HIDE DEF u
<1>4. Like(u, v) /\ Whole(v)
  BY <1>3, FieldsLike DEF Like
<1> HIDE DEF v
<1>5. Like(v, [v EXCEPT !.seq_num = n])
  BY <1>4, FieldsLike
<1>6. t = [v EXCEPT !.seq_num = n]
  BY <1>2 DEF u, v
<1> QED
  BY <1>3, <1>4, <1>5, <1>6, LikeAgain

LEMMA RaiseLike ==
  ASSUME NEW s, Whole(s), NEW X, NEW status, NEW to
  PROVE  Like(s, Raise(s, X, status, to))
<1>1. \E Q : Raise(s, X, status, to) = [s EXCEPT !.req_q = Q]
  BY DEF Raise, Whole
<1>2. PICK Q : Raise(s, X, status, to) = [s EXCEPT !.req_q = Q]
  BY <1>1
<1>3. Like(s, [s EXCEPT !.req_q = Q])
  BY FieldsLike
<1> QED
  BY <1>2, <1>3

LEMMA AcceptLike ==
  ASSUME NEW S, NEW i, Whole(S[i]), NEW p, NEW t \in AcceptPreprep(S, i, p)
  PROVE  Like(S[i], t)
<1>1. \E P : t \in AddToReqQ(S[i], P)
  BY DEF AcceptPreprep
<1> QED
  BY <1>1, AddLike

LEMMA CommitPreparedLike ==
  ASSUME NEW S, NEW i, Whole(S[i]), NEW t \in CommitPrepared(S, i)
  PROVE  Like(S[i], t)
<1> DEFINE X == SupportedReqs(S, i, {"PREP"})
           s == Raise(S[i], X, {"PRE_PREP", "PREP"}, Status)
           P == { [request |-> r, status |-> Status] : r \in X }
           left(u) == u.pend_reqs \ { r.client_request : r \in X }
<1>1. PICK u \in AddToReqQ(s, P) : t = [u EXCEPT !.pend_reqs = left(u)]
  BY DEF CommitPrepared
<1> HIDE DEF P, X, left
<1>2. Like(S[i], s) /\ Whole(s)
  BY RaiseLike DEF Like
<1> HIDE DEF s
<1>3. Like(s, u) /\ Whole(u)
  BY <1>2, AddLike DEF Like
<1>5. Like(u, t)
  BY <1>1, <1>3, FieldsLike
<1> QED
  BY <1>2, <1>3, <1>5, LikeAgain

LEMMA AssignLike ==
  ASSUME NEW S, NEW i, Whole(S[i]), NEW p, NEW t \in Assign(S, i, p)
  PROVE  Like(S[i], t)
<1>1. \E n, P : t \in AddToReqQ([S[i] EXCEPT !.seq_num = n], P)
  BY DEF Assign, Whole
<1>2. PICK n, P : t \in AddToReqQ([S[i] EXCEPT !.seq_num = n], P)
  BY <1>1
<1> DEFINE u == [S[i] EXCEPT !.seq_num = n]
<1>3. Like(S[i], u) /\ Whole(u)
  BY FieldsLike DEF Like
<1> HIDE DEF u
<1>4. Like(u, t)
  BY <1>2, <1>3, AddLike DEF u
<1> QED
  BY <1>3, <1>4, LikeAgain

-----------------------------------------------------------------------------
(* What replaces list and log.                                             *)

LEMMA LogTyped ==
  ASSUME NEW ord, NEW log, LogIsFine(log, Request, ord)
  PROVE  log \in Seq(LogEntry)
<1>1. Entries(Request) = LogEntry
  BY DEF Entries, LogEntry
<1> QED
  BY <1>1 DEF LogIsFine

LEMMA TeeFits ==
  ASSUME NEW s
  PROVE  FitsLog(SetToTee(s))
<1>1. SetToTee(s).rep_state = <<>> /\ SetToTee(s).r_log = <<>>
  BY DEF SetToTee, FreshStructure
<1>2. IsSuffix(<<>>, <<>>)
  BY EmptySeq, SuffixOfItself
<1> QED
  BY <1>1, <1>2, ExecutedNothing DEF FitsLog

(* A consolidated state comes with a log that it ends with.                *)
LEMMA ConsStateFits ==
  ASSUME NEW ord, NEW S, FineAll(S, Request, ord), NEW A, A \subseteq Node,
         FindConsState(S, A).ok
  PROVE  FitsLog(FindConsState(S, A))
<1> DEFINE state == S[CHOOSE j \in Shortest(S, A) : TRUE].rep_state
           log == CorrespondingRLog(S, A, state)
           X == FindConsState(S, A)
           matches == { m \in UNION { {j} \X DOMAIN S[j].r_log : j \in A } :
                          IsSuffix(Executed(SubSeq(S[m[1]].r_log, 1, m[2])), state) }
           first == { m \in matches : \A o \in matches :
                        m[1] < o[1] \/ (m[1] = o[1] /\ m[2] <= o[2]) }
           m == CHOOSE o \in first : TRUE
<1>1. X.rep_state = state /\ X.r_log = log /\ (log = <<>> => state = <<>>)
  <2> HIDE DEF log, state
  <2>1. X = NoState \/ (~(log = <<>> /\ state # <<>>) /\ X.rep_state = state /\ X.r_log = log)
    BY DEF FindConsState, log, state
  <2>2. X # NoState
    BY DEF NoState
  <2> QED
    BY <2>1, <2>2
<1>2. log = IF first = {} THEN <<>> ELSE SubSeq(S[m[1]].r_log, 1, m[2])
  BY DEF CorrespondingRLog
<1>3. \A o \in first : IsSuffix(Executed(SubSeq(S[o[1]].r_log, 1, o[2])), state)
  OBVIOUS
<1> HIDE DEF first, log, state, X
<1>4. CASE first = {}
  <2>1. log = <<>> /\ state = <<>>
    BY <1>1, <1>2, <1>4
  <2>2. IsSuffix(<<>>, <<>>)
    BY EmptySeq, SuffixOfItself
  <2> QED
    BY <1>1, <2>1, <2>2, ExecutedNothing DEF FitsLog, X
<1>5. CASE first # {}
  <2>1. m \in first
    BY <1>5
  <2> HIDE DEF m
  <2>2. IsSuffix(Executed(log), state)
    BY <1>2, <1>3, <1>5, <2>1
  <2> QED
    BY <1>1, <2>2 DEF FitsLog, X
<1> QED
  BY <1>4, <1>5

LEMMA DsStateFits ==
  ASSUME NEW ord, NEW S, FineAll(S, Request, ord), GetDsState(S).ok
  PROVE  FitsLog(GetDsState(S))
<1> DEFINE X == FindConsState(S, ComPrefStates(S, N - 3 * F))
<1>1. GetDsState(S) = NoState \/ (X.ok /\ GetDsState(S) = X)
  <2> HIDE DEF X
  <2> QED
    BY DEF GetDsState, X
<1>2. GetDsState(S) # NoState
  BY DEF NoState
<1>3. X.ok => FitsLog(X)
  BY ComPrefNodes, ConsStateFits
<1> HIDE DEF X
<1> QED
  BY <1>1, <1>2, <1>3

(* The structure s with the list and the log of X.                         *)
LEMMA TakenFits ==
  ASSUME NEW s, Whole(s), NEW X, FitsLog(X)
  PROVE  /\ FitsLog([s EXCEPT !.rep_state = X.rep_state, !.r_log = X.r_log])
         /\ Whole([s EXCEPT !.rep_state = X.rep_state, !.r_log = X.r_log])
<1> DEFINE u == [s EXCEPT !.rep_state = X.rep_state]
           t == [u EXCEPT !.r_log = X.r_log]
<1>1. Whole(u) /\ u.rep_state = X.rep_state
  BY DEF Whole
<1> HIDE DEF u
<1>2. Whole(t) /\ t.rep_state = X.rep_state /\ t.r_log = X.r_log
  BY <1>1 DEF Whole
<1>3. t = [s EXCEPT !.rep_state = X.rep_state, !.r_log = X.r_log]
  BY DEF u
<1> HIDE DEF t
<1>4. FitsLog(t)
  BY <1>2 DEF FitsLog
<1> QED
  BY <1>2, <1>3, <1>4

LEMMA ConsolidateFits ==
  ASSUME NEW ord, NEW S, FineAll(S, Request, ord), NEW i \in Node, FitsLog(S[i])
  PROVE  FitsLog(Consolidate(S, i))
<1> DEFINE own == FindConsState(S, ComPrefStates(S, Quorum))
           X == IF own.ok THEN own ELSE GetDsState(S)
           s == [S[i] EXCEPT !.con_flag = ~X.ok]
           t == [s EXCEPT !.rep_state = X.rep_state, !.r_log = X.r_log]
<1>1. X.ok => FitsLog(X)
  <2>1. own.ok => FitsLog(own)
    BY ComPrefNodes, ConsStateFits
  <2>2. GetDsState(S).ok => FitsLog(GetDsState(S))
    BY DsStateFits
  <2> HIDE DEF own
  <2> QED
    BY <2>1, <2>2
<1>2. Consolidate(S, i) = s \/ (X.ok /\ Consolidate(S, i) = t)
  BY DEF Consolidate
<1> HIDE DEF own, X
<1>3. Like(S[i], s) /\ Whole(s)
  BY FieldsLike DEF FineAll, Fine, Like
<1> HIDE DEF s
<1>4. FitsLog(s)
  BY <1>3, LikeFits
<1>5. X.ok => FitsLog(t)
  BY <1>1, <1>3, TakenFits
<1> QED
  BY <1>2, <1>4, <1>5

LEMMA ConsolidatedFits ==
  ASSUME NEW ord, NEW S, FineAll(S, Request, ord), NEW i \in Node,
         NEW s, Fine(s, Request, ord)
  PROVE  FitsLog(Consolidated(S, s, i))
<1> DEFINE T == [S EXCEPT ![i] = s]
           X == FindConsState(T, ComPrefStates(T, Quorum))
           u == [s EXCEPT !.rep_state = X.rep_state, !.r_log = X.r_log]
<1>1. FineAll(T, Request, ord)
  BY UpdateFine
<1> HIDE DEF T
<1>2. X.ok => FitsLog(X)
  BY <1>1, ComPrefNodes, ConsStateFits
<1>3. \/ X.ok /\ Consolidated(S, s, i) = [u EXCEPT !.view_changed = FALSE]
      \/ Consolidated(S, s, i) = SetToTee(s)
  BY DEF Consolidated, T
<1> HIDE DEF X
<1>4. CASE X.ok /\ Consolidated(S, s, i) = [u EXCEPT !.view_changed = FALSE]
  <2>1. Whole(s)
    BY DEF Fine
  <2>2. FitsLog(X)
    BY <1>2, <1>4
  <2>3. FitsLog(u) /\ Whole(u)
    BY <2>1, <2>2, TakenFits
  <2> HIDE DEF u
  <2>4. Like(u, [u EXCEPT !.view_changed = FALSE])
    BY <2>3, FieldsLike
  <2> QED
    BY <1>4, <2>3, <2>4, LikeFits
<1> QED
  BY <1>3, <1>4, TeeFits

LEMMA ActAsPrimFits ==
  ASSUME NEW ord, NEW S, FineAll(S, Request, ord), NEW i \in Node, NEW views,
         NEW t \in ActAsPrim(S, i, views), FitsLog(S[i])
  PROVE  FitsLog(t)
BY PrimGoesOn, ConsolidatedFits

(* A new primary's list is what its log appends.                           *)
LEMMA ActAsNonprimFits ==
  ASSUME NEW ord, NEW S, FineAll(S, Request, ord), NEW i \in Node, NEW views,
         NEW p \in View, FitsLog(S[i])
  PROVE  FitsLog(ActAsNonprim(S, i, views, p))
<1> DEFINE s == S[At(p)]
<1>1. Fine(s, Request, ord)
  BY NodesExist DEF FineAll
<1>2. ASSUME CheckNewVState(S, i, p)
      PROVE  FitsLog(SetReplicaStructure(S[i], s))
  <2>1. Executed(s.r_log) = s.rep_state
    BY <1>2 DEF CheckNewVState
  <2>2. s.rep_state \in Seq(Value)
    BY <1>1 DEF Fine
  <2>3. /\ SetReplicaStructure(S[i], s).rep_state = s.rep_state
        /\ SetReplicaStructure(S[i], s).r_log = s.r_log
    BY <1>1 DEF SetReplicaStructure, Fine, Whole
  <2> HIDE DEF s
  <2> QED
    BY <2>1, <2>2, <2>3, SuffixOfItself DEF FitsLog
<1> QED
  BY <1>2 DEF ActAsNonprim

LEMMA ViewPartFits ==
  ASSUME NEW ord, NEW S, FineAll(S, Request, ord), NEW i \in Node, FitsLog(S[i]),
         NEW read, NEW again \in Answer, NEW t \in ViewPart(S, i, read, again)
  PROVE  FitsLog(t)
<1> DEFINE changed == IF S[i].view_changed THEN TRUE
                      ELSE ~IsTee(S[i]) /\ read.views[i] # S[i].prim
           p == again.views[i]
           u == [S[i] EXCEPT !.view_changed = changed]
           w == [u EXCEPT !.prim = p]
           T == [S EXCEPT ![i] = w]
<1>1. /\ Fine(S[i], Request, ord) /\ p \in View
      /\ changed \in BOOLEAN
  BY DEF FineAll, Answer
<1> HIDE DEF changed, p
<1>2. Fine(u, Request, ord) /\ Like(S[i], u)
  <2>1. Whole(S[i])
    BY <1>1 DEF Fine
  <2>2. Like(S[i], u)
    BY <2>1, FieldsLike
  <2> QED
    BY <1>1, <2>2, WithFlag
<1>3. Fine(w, Request, ord) /\ Like(u, w)
  <2> HIDE DEF u
  <2>1. Whole(u)
    BY <1>2 DEF Fine
  <2>2. Like(u, w)
    BY <2>1, FieldsLike
  <2> QED
    BY <1>1, <1>2, <2>2, WithPrim
<1>4. T = [S EXCEPT ![i].view_changed = changed, ![i].prim = p]
  BY DEF FineAll
<1>5. FitsLog(w)
  BY <1>2, <1>3, LikeFits, LikeAgain
<1> HIDE DEF w, u
<1>6. FineAll(T, Request, ord) /\ T[i] = w
  BY <1>3, UpdateFine
<1>7. \/ t = S[i]
      \/ t = T[i]
      \/ t \in ActAsPrim(T, i, again.views)
      \/ t = ActAsNonprim(T, i, again.views, p)
  BY <1>4 DEF ViewPart, changed, p
<1> HIDE DEF T
<1> QED
  BY <1>1, <1>5, <1>6, <1>7, ActAsPrimFits, ActAsNonprimFits

-----------------------------------------------------------------------------
(* Requests are executed: the list grows by what the new entries append,   *)
(* and the log loses some of its first.                                    *)

LEMMA CommitFits ==
  ASSUME NEW ord, NEW s, Fine(s, Request, ord), FitsLog(s),
         NEW entries \in Seq(LogEntry)
  PROVE  IsSuffix(Executed(Newest(s, s.r_log \o entries)),
                  s.rep_state \o Executed(entries))
<1> DEFINE list == s.rep_state \o Executed(entries)
           log == s.r_log \o entries
<1>1. /\ s.r_log \in Seq(LogEntry) /\ s.rep_state \in Seq(Value)
      /\ s.number_of_clients \in Nat
  BY LogTyped DEF Fine
<1>2. Executed(entries) \in Seq(Value) /\ Executed(s.r_log) \in Seq(Value)
  BY <1>1, ExecutedAt
<1>3. IsSuffix(Executed(s.r_log) \o Executed(entries), list)
  BY <1>1, <1>2, SuffixGrows DEF FitsLog
<1>4. log \in Seq(LogEntry) /\ list \in Seq(Value)
  BY <1>1, <1>2
<1>5. Executed(log) = Executed(s.r_log) \o Executed(entries)
  BY <1>1, ExecutedConcat
<1> HIDE DEF log, list
<1>6. IsSuffix(Executed(Newest(s, log)), list)
  BY <1>1, <1>3, <1>4, <1>5, ExecutedNewest
<1> QED
  BY <1>6 DEF log, list

LEMMA ExecuteFits ==
  ASSUME NEW ord, NEW S, FineAll(S, Request, ord), NEW i \in Node, FitsLog(S[i]),
         NEW t \in ExecuteInOrder(S, i)
  PROVE  FitsLog(t)
<1> DEFINE s == S[i]
<1>1. Fine(s, Request, ord)
  BY DEF FineAll
<1>2. PICK o \in ExecutionOrders(S, i) : t = Commit(S, s, o)
  BY DEF ExecuteInOrder
<1> DEFINE entries == [n \in DOMAIN o |-> [request |-> o[n],
                                           x_set |-> CommittedSet(S, o[n])]]
<1>3. PICK n \in Nat : o \in [1 .. n -> Executable(S, i)]
  BY DEF ExecutionOrders
<1>4. entries \in Seq(LogEntry)
  <2>1. Executable(S, i) \subseteq Request
    BY SupportedFine DEF Executable
  <2>2. \A m \in 1 .. n : o[m] \in Request /\ CommittedSet(S, o[m]) \subseteq Node
    BY <1>3, <2>1 DEF CommittedSet
  <2>3. entries \in [1 .. n -> LogEntry]
    BY <1>3, <2>2 DEF LogEntry
  <2> HIDE DEF entries
  <2> QED
    BY <2>3
<1>5. /\ t.rep_state = s.rep_state \o Executed(entries)
      /\ t.r_log = Newest(s, s.r_log \o entries)
  BY <1>1, <1>2 DEF Commit, Fine, Whole
<1> HIDE DEF entries
<1>6. IsSuffix(Executed(Newest(s, s.r_log \o entries)),
               s.rep_state \o Executed(entries))
  BY <1>1, <1>4, CommitFits
<1> QED
  BY <1>5, <1>6 DEF FitsLog

LEMMA ProcessFits ==
  ASSUME NEW ord, NEW S, FineAll(S, Request, ord), NEW i \in Node, FitsLog(S[i]),
         NEW p \in View, NEW t \in ProcessRequests(S, i, p)
  PROVE  FitsLog(t)
<1> DEFINE own(s) == [S EXCEPT ![i] = s]
           numbered == Numbering(S, i, p)
<1>1. PICK u \in numbered : \E w \in CommitPrepared(own(u), i) :
             t \in ExecuteInOrder(own(w), i)
  BY RequestSteps
<1>2. Fine(S[i], Request, ord) /\ Whole(S[i])
  BY DEF FineAll, Fine
<1>3. \A s : Fine(s, Request, ord)
               => FineAll(own(s), Request, ord) /\ own(s)[i] = s
  BY UpdateFine
<1>4. \A G \in SUBSET Request : Request \cup G = Request
  OBVIOUS
<1> HIDE DEF own
<1>5. Fine(u, Request, ord) /\ Like(S[i], u)
  <2>1. CASE p = i /\ Behaviour[i] # "STOP_ASSIGNING_SEQNUMS"
    <3>1. u \in Assign(S, i, p)
      BY <1>1, <2>1 DEF Numbering
    <3>2. Fine(u, Request, ord)
      <4>1. \E G \in SUBSET Request : Fine(u, Request \cup G, ord)
        BY <3>1, AssignFine
      <4> QED
        BY <1>4, <4>1
    <3> QED
      BY <1>2, <3>1, <3>2, AssignLike
  <2>2. CASE ~(p = i /\ Behaviour[i] # "STOP_ASSIGNING_SEQNUMS")
    <3>1. PICK s \in AcceptPreprep(S, i, p) : u = Prepare(own(s), i)
      BY <1>1, <2>2 DEF Numbering, own
    <3>2. Fine(s, Request, ord) /\ Like(S[i], s)
      BY <1>2, AcceptFine, AcceptLike
    <3>3. FineAll(own(s), Request, ord) /\ own(s)[i] = s
      BY <1>3, <3>2
    <3>4. Fine(u, Request, ord)
      BY <3>1, <3>3, PrepareFine
    <3>5. Like(s, u)
      BY <3>1, <3>2, <3>3, RaiseLike DEF Prepare, Like
    <3> QED
      BY <3>2, <3>4, <3>5, LikeAgain
  <2> QED
    BY <2>1, <2>2
<1> HIDE DEF numbered
<1>6. PICK w \in CommitPrepared(own(u), i) : t \in ExecuteInOrder(own(w), i)
  BY <1>1
<1>7. FineAll(own(u), Request, ord) /\ own(u)[i] = u /\ Whole(u)
  BY <1>3, <1>5 DEF Like
<1>8. Fine(w, Request, ord) /\ Like(u, w)
  BY <1>6, <1>7, CommitPreparedFine, CommitPreparedLike
<1>9. FineAll(own(w), Request, ord) /\ own(w)[i] = w
  BY <1>3, <1>8
<1>10. FitsLog(w)
  BY <1>5, <1>8, LikeAgain, LikeFits
<1> QED
  BY <1>6, <1>9, <1>10, ExecuteFits

-----------------------------------------------------------------------------
(* The loop, and the other steps.                                          *)

LEMMA AskedLike ==
  ASSUME NEW ord, NEW S, FineAll(S, Request, ord), NEW i \in Node, NEW C,
         NEW T \in AskedFor(S, i, C)
  PROVE  Like(S[i], T[i])
<1>1. Whole(S[i])
  BY DEF FineAll, Fine
<1>2. PICK t \in ExtendPendReqs(S[i], C) :
        \E s \in ExtendPendReqs(t, KnownPendReqs([S EXCEPT ![i] = t])) :
          T = [S EXCEPT ![i] = s]
  BY DEF AskedFor
<1>3. PICK s \in ExtendPendReqs(t, KnownPendReqs([S EXCEPT ![i] = t])) :
        T = [S EXCEPT ![i] = s]
  BY <1>2
<1>4. Like(S[i], t) /\ Whole(t)
  BY <1>1, ExtendLike DEF Like
<1>5. Like(t, s)
  BY <1>4, ExtendLike
<1>6. T[i] = s
  BY <1>3 DEF FineAll
<1> QED
  BY <1>4, <1>5, <1>6, LikeAgain

LEMMA BodyFits ==
  ASSUME NEW ord \in BOOLEAN, AllFine(Request, ord), Wired, Wired',
         NEW i \in Node, BodyStep(i), FitsLog(Own(i))
  PROVE  FitsLog(Own(i)')
<1>1. PICK again, no_view_change, C :
        /\ again \in {ve[i], ve'[i]}
        /\ C \subseteq ClientRequest /\ IsFiniteSet(C)
        /\ RunBody(i, ve[i], again, no_view_change, C)
  BY DEF BodyStep
<1>2. again \in Answer /\ again.views[i] \in View
  BY <1>1, AnswersAssumption DEF Wired, Answer
<1>3. PICK s \in ViewPart(rep[i], i, ve[i], again) : BodyFrom(i, s, again.views[i], C)
  BY <1>1, BodyParts
<1>4. FineAll(rep[i], Request, ord)
  BY DEF AllFine, RepFine
<1>5. Fine(s, Request, ord) /\ FitsLog(s)
  BY <1>2, <1>3, <1>4, ViewPartFine, ViewPartFits DEF Own
<1> DEFINE S == Placed(rep[i], i, s)
<1>6. FineAll(S, Request, ord) /\ S[i] = s
  BY <1>4, <1>5, UpdateFine DEF Placed
<1> HIDE DEF S
<1>7. PICK flush \in BOOLEAN :
        \E T \in AskedFor(Considered(S, i, flush), i, C) :
        \E t : /\ t \in ProcessRequests(T, i, again.views[i]) \/ t = T[i]
               /\ rep' = Placed(rep, i, Placed(T, i, t))
  BY <1>3 DEF BodyFrom, S
<1> DEFINE U == Considered(S, i, flush)
<1>8. FineAll(U, Request, ord) /\ FitsLog(U[i])
  <2>1. CASE flush
    <3>1. U = FlushLocal
      BY <2>1 DEF Considered
    <3>2. U[i] = SetToTee(FreshStructure(6))
      BY <3>1 DEF FlushLocal
    <3> QED
      BY <3>1, <3>2, FlushFine, TeeFits
  <2>2. CASE ~flush
    <3>1. PICK x : x = Consolidate(S, i)
      OBVIOUS
    <3>2. Fine(x, Request, ord) /\ FitsLog(x)
      BY <1>5, <1>6, <3>1, ConsolidateFine, ConsolidateFits
    <3>3. U = [S EXCEPT ![i] = x]
      BY <2>2, <3>1 DEF Considered, Placed
    <3>4. FineAll([S EXCEPT ![i] = x], Request, ord) /\ [S EXCEPT ![i] = x][i] = x
      BY <1>6, <3>2, UpdateFine
    <3> QED
      BY <3>2, <3>3, <3>4
  <2> QED
    BY <2>1, <2>2
<1>9. PICK T \in AskedFor(U, i, C) :
        \E t : /\ t \in ProcessRequests(T, i, again.views[i]) \/ t = T[i]
               /\ rep' = Placed(rep, i, Placed(T, i, t))
  BY <1>7
<1> HIDE DEF U
<1>10. PICK t : /\ t \in ProcessRequests(T, i, again.views[i]) \/ t = T[i]
                /\ rep' = Placed(rep, i, Placed(T, i, t))
  BY <1>9
<1>11. FineAll(T, Request, ord) /\ FitsLog(T[i])
  <2>1. FineAll(T, Request, ord)
    BY <1>1, <1>8, <1>9, AskedFine
  <2>2. Like(U[i], T[i])
    BY <1>8, <1>9, AskedLike
  <2> QED
    BY <1>8, <2>1, <2>2, LikeFits
<1>12. FitsLog(t)
  BY <1>2, <1>10, <1>11, ProcessFits
<1>13. Own(i)' = t
  <2>1. DOMAIN rep = Node /\ DOMAIN T = Node
    BY <1>11 DEF AllFine, RepFine, FineAll
  <2> QED
    BY <1>10, <2>1 DEF Own, Placed
<1> QED
  BY <1>12, <1>13

LEMMA QuietFits ==
  ASSUME NEW ord \in BOOLEAN, AllFine(Request, ord), Wired, QuietStep, NEW k \in Node,
         FitsLog(Own(k))
  PROVE  FitsLog(Own(k)')
<1>1. DOMAIN rep = Node /\ \A i \in Node : DOMAIN rep[i] = Node /\ Whole(rep[i][i])
  BY DEF AllFine, RepFine, FineAll, Fine
<1>2. CASE UNCHANGED rep
  BY <1>2 DEF Own
<1>3. ASSUME NEW i \in Node, NEW c \in ClientRequest, Inject(i, c)
      PROVE  FitsLog(Own(k)')
  <2>1. PICK s \in ExtendPendReqs(rep[i][i], {c}) : rep' = [rep EXCEPT ![i][i] = s]
    BY <1>3 DEF Inject
  <2>2. Like(Own(i), s)
    BY <1>1, ExtendLike DEF Own
  <2>3. Own(k)' = IF k = i THEN s ELSE Own(k)
    BY <1>1, <2>1 DEF Own
  <2> QED
    BY <2>2, <2>3, LikeFits
<1>4. ASSUME NEW i \in Node, NEW j \in Node, Receive(i, j)
      PROVE  FitsLog(Own(k)')
  <2>1. i # j /\ rep' = [rep EXCEPT ![i][j] = Believed(i, j, Head(net[j][i]))]
    BY <1>4 DEF Receive, Wired
  <2>2. Own(k)' = Own(k)
    BY <1>1, <2>1 DEF Own
  <2> QED
    BY <2>2
<1> QED
  BY <1>2, <1>3, <1>4 DEF QuietStep, Move, SendTo, vars

LEMMA FitsStep ==
  ASSUME NEW ord \in BOOLEAN, AllFine(Request, ord), Wired, [Next]_vars,
         NEW k \in Node, FitsLog(Own(k))
  PROVE  FitsLog(Own(k)')
<1>1. Wired'
  BY WiredStep
<1>2. CASE QuietStep
  BY <1>2, QuietFits
<1>3. ASSUME NEW i \in Node, BodyStep(i)
      PROVE  FitsLog(Own(k)')
  <2>1. CASE i = k
    BY <1>1, <1>3, <2>1, BodyFits
  <2>2. CASE i # k
    <3>1. \E row : rep' = [rep EXCEPT ![i] = row]
      BY <1>3 DEF BodyStep, RunBody
    <3>2. Own(k)' = Own(k)
      BY <2>2, <3>1 DEF Own, AllFine, RepFine
    <3> QED
      BY <3>2
  <2> QED
    BY <2>1, <2>2
<1> QED
  BY <1>2, <1>3, StepKinds

(* However list and log of a node were come by, once the list ends with    *)
(* what the log appends it does so for ever, see ListsStayFitting.         *)
THEOREM ListsFitForever == Spec => ListsStayFitting
<1>1. AllFine(Request, FALSE) /\ Wired /\ [Next]_vars =>
        [\A i \in Node : FitsLog(Own(i)) => FitsLog(Own(i))']_vars
  <2> SUFFICES ASSUME AllFine(Request, FALSE), Wired, [Next]_vars
               PROVE  \A i \in Node : FitsLog(Own(i)) => FitsLog(Own(i)')
    BY DEF FitsLog
  <2> QED
    BY FitsStep
<1> QED
  BY <1>1, Shape, PTL DEF Spec, ListsStayFitting

=============================================================================
