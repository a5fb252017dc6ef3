---------------------- MODULE PrimaryMonitoringProofs ----------------------
(***************************************************************************)
(* Proofs about PrimaryMonitoring, for every number of nodes, every choice *)
(* of silent nodes, whatever View Establishment answers and whatever state *)
(* the Failure Detectors start in.                                         *)
(***************************************************************************)
EXTENDS PrimaryMonitoring, FiniteSetTheorems, TLAPS

-----------------------------------------------------------------------------
(* Types of what the Failure Detector computes.                            *)

LEMMA ResetType ==
  ASSUME NEW s \in FdState
  PROVE  Reset(s) \in FdState
<1> DEFINE zs == [k \in Node |-> 0]
           fs == [k \in Node |-> FALSE]
<1>1. zs \in [Node -> 0 .. BEAT_THRESHOLD] /\ fs \in [Node -> BOOLEAN]
  BY ThresholdAssumption
<1>2. 0 \in 0 .. CNT_THRESHOLD + 1
  BY ThresholdAssumption
<1>3. Reset(s) = [s EXCEPT !.beat = zs, !.cnt = 0, !.checking = FALSE,
                           !.prim_susp = fs]
  BY DEF Reset
<1> HIDE DEF zs, fs
<1> QED BY <1>1, <1>2, <1>3 DEF FdState

LEMMA NoteType ==
  ASSUME NEW s \in FdState, NEW i \in Node, NEW j \in Node, NEW view \in View
  PROVE  Note(s, i, j, view) \in FdState
<1> DEFINE beat == [k \in Node |-> IF k \in {i, j} THEN 0
                                   ELSE UpTo(BEAT_THRESHOLD, s.beat[k] + 1)]
           set == { k \in Node : beat[k] < BEAT_THRESHOLD }
           t == [s EXCEPT !.beat = beat, !.fd_set = set]
           r == IF s.prim # view THEN Reset(t) ELSE t
<1>1. \A k \in Node : s.beat[k] \in 0 .. BEAT_THRESHOLD
  BY DEF FdState
<1>2. \A k \in Node : UpTo(BEAT_THRESHOLD, s.beat[k] + 1) \in 0 .. BEAT_THRESHOLD
  BY <1>1, ThresholdAssumption DEF UpTo
<1>3. beat \in [Node -> 0 .. BEAT_THRESHOLD]
  BY <1>2, ThresholdAssumption
<1>4. set \in SUBSET Node
  OBVIOUS
<1>5. UpdateBeat(s, i, j) = t
  BY DEF UpdateBeat
<1> HIDE DEF beat, set
<1>6. t \in FdState
  BY <1>3, <1>4 DEF FdState
<1>7. r \in FdState
  BY <1>6, ResetType
<1>8. Note(s, i, j, view) = [r EXCEPT !.prim = view]
  BY <1>5 DEF Note
<1> HIDE DEF r, t
<1> QED BY <1>7, <1>8 DEF FdState

LEMMA CheckProgressType ==
  ASSUME NEW s \in FdState, NEW t \in CheckProgress(s)
  PROVE  t \in FdState
<1>1. UpTo(CNT_THRESHOLD + 1, s.cnt + 1) \in 0 .. CNT_THRESHOLD + 1
  BY ThresholdAssumption DEF FdState, UpTo
<1>2. 0 \in 0 .. CNT_THRESHOLD + 1
  BY ThresholdAssumption
<1>3. CASE \E pending \in BOOLEAN : t = [s EXCEPT !.cnt = 0, !.checking = pending]
  BY <1>2, <1>3 DEF FdState
<1>4. CASE t = [s EXCEPT !.cnt = UpTo(CNT_THRESHOLD + 1, @ + 1)]
  BY <1>1, <1>4 DEF FdState
<1> QED BY <1>3, <1>4 DEF CheckProgress

LEMMA JudgeType ==
  ASSUME NEW s \in FdState, NEW i \in Node, NEW j \in Node,
         NEW susp \in BOOLEAN, NEW viewOfJ \in View,
         NEW t \in Judge(s, i, j, susp, viewOfJ)
  PROVE  t \in FdState
<1> DEFINE heard == IF s.prim = j THEN CheckProgress(s)
               ELSE IF s.prim = viewOfJ THEN { [s EXCEPT !.prim_susp[j] = susp] }
               ELSE { s }
           reset(h) == IF h.prim = i THEN [h EXCEPT !.cnt = 0] ELSE h
<1>1. PICK h \in heard : t = Suspect(reset(h), i)
  BY DEF Judge
<1>2. [s EXCEPT !.prim_susp[j] = susp] \in FdState
  BY DEF FdState
<1>3. h \in FdState
  BY <1>2, CheckProgressType
<1>4. 0 \in 0 .. CNT_THRESHOLD + 1
  BY ThresholdAssumption
<1>5. reset(h) \in FdState
  BY <1>3, <1>4 DEF FdState
<1> DEFINE r == reset(h)
           b == r.prim_susp[i] \/ r.prim \notin r.fd_set \/ r.cnt > CNT_THRESHOLD
           ps == [r.prim_susp EXCEPT ![i] = b]
<1>6. b \in BOOLEAN
  OBVIOUS
<1>7. t = [r EXCEPT !.prim_susp = ps]
  BY <1>1, <1>5 DEF Suspect, FdState
<1> HIDE DEF b
<1>8. ps \in [Node -> BOOLEAN]
  BY <1>5, <1>6 DEF FdState
<1> HIDE DEF r, ps
<1> QED BY <1>5, <1>7, <1>8 DEF FdState, r

-----------------------------------------------------------------------------
(* Types of what Primary Monitoring computes.                              *)

LEMMA AnswerType ==
  ASSUME TypeOK, NEW i \in Node
  PROVE  /\ ve[i] \in Answer
         /\ \A k \in Node : ve[i].views[k] \in View
         /\ CurrentView(i) \in View
BY AnswersAssumption DEF TypeOK, Answer, CurrentView

LEMMA CleanType ==
  ASSUME TypeOK, NEW i \in Node
  PROVE  Clean(i) \in [Node -> Vcm]
BY AnswerType DEF Clean, DefaultVcm, Vcm, Status

LEMMA VotedType ==
  ASSUME NEW i \in Node, NEW v \in [Node -> Vcm]
  PROVE  Voted(i, Calmed(i, v)) \in [Node -> Vcm]
<1>1. \A w \in [Node -> Vcm], st \in Status :
         [w EXCEPT ![i].v_status = st] \in [Node -> Vcm]
  <2> SUFFICES ASSUME NEW w \in [Node -> Vcm], NEW st \in Status
               PROVE  [w EXCEPT ![i].v_status = st] \in [Node -> Vcm]
    OBVIOUS
  <2>1. w[i] \in Vcm
    OBVIOUS
  <2>2. [w[i] EXCEPT !.v_status = st] \in Vcm
    BY <2>1 DEF Vcm
  <2> QED BY <2>2
<1>2. Calmed(i, v) \in [Node -> Vcm]
  BY <1>1 DEF Calmed, Status
<1> QED BY <1>1, <1>2 DEF Voted, Status

LEMMA InitType == Init => TypeOK
<1> SUFFICES ASSUME Init PROVE TypeOK
  OBVIOUS
<1>1. ve \in [Node -> Answers]
  BY DEF Init
<1>2. fd \in [Node -> FdState]
  BY StartAssumption DEF Init
<1>3. DefaultVcm(TEE) \in Vcm
  BY DEF DefaultVcm, Vcm, Status, View
<1>4. vcm \in [Node -> [Node -> Vcm]]
  BY <1>3 DEF Init
<1> QED BY <1>1, <1>2, <1>4, BoundAssumption DEF Init, TypeOK

(* The head and the tail of a queue have the types of the queue.           *)
LEMMA QueueType ==
  ASSUME NEW S, NEW q \in Seq(S), q # <<>>
  PROVE  Head(q) \in S /\ Tail(q) \in Seq(S)
OBVIOUS

LEMMA AfterType ==
  ASSUME NEW S, NEW q \in Seq(S), NEW x \in S, NEW more \in BOOLEAN
  PROVE  After(q, more, x) \in Seq(S)
BY DEF After

(* Sending keeps the types of the queues.                                  *)
LEMMA SendTokensType ==
  ASSUME TypeOK, NEW i \in Node, NEW R, NEW S, NEW susp \in BOOLEAN,
         SendTokens(i, R, S, susp)
  PROVE  /\ tokens' \in [Node -> [Node -> Seq(BOOLEAN)]]
         /\ said' \in [Node -> [Node -> SUBSET BOOLEAN]]
<1> DEFINE r(j) == After(tokens[i][j], j \in R \ Silent, susp)
<1>1. \A j \in Node : r(j) \in Seq(BOOLEAN)
  <2>1. \A j \in Node : tokens[i][j] \in Seq(BOOLEAN) /\ (j \in R \ Silent) \in BOOLEAN
    BY DEF TypeOK
  <2> QED BY <2>1, AfterType
<1>2. [j \in Node |-> After(r(j), j \in S \ Silent, susp)] \in [Node -> Seq(BOOLEAN)]
  <2> HIDE DEF r
  <2>1. \A j \in Node : (j \in S \ Silent) \in BOOLEAN
    OBVIOUS
  <2>2. \A j \in Node : After(r(j), j \in S \ Silent, susp) \in Seq(BOOLEAN)
    BY <1>1, <2>1, AfterType
  <2> QED BY <2>2
<1>3. [j \in Node |-> IF j \in (R \cup S) \ Silent THEN said[i][j] \cup {susp}
                                                 ELSE said[i][j]]
         \in [Node -> SUBSET BOOLEAN]
  BY DEF TypeOK
<1> QED BY <1>2, <1>3 DEF SendTokens, TypeOK

LEMMA HandleType ==
  ASSUME TypeOK, NEW i \in Node, NEW j \in Node, NEW susp \in BOOLEAN,
         Handle(i, j, susp)
  PROVE  /\ fd' \in [Node -> FdState]
         /\ taken' \in [Node -> SUBSET Token]
<1>1. Note(fd[i], i, j, CurrentView(i)) \in FdState
  BY NoteType, AnswerType DEF TypeOK
<1>2. {[sender |-> j, prim_susp |-> susp]} \in SUBSET Token
  BY DEF Token
<1> QED BY <1>1, <1>2 DEF Handle, TypeOK

LEMMA JudgementsType ==
  ASSUME TypeOK, NEW i \in Node, NEW m \in taken[i], NEW t \in Judgements(i, m)
  PROVE  t \in FdState /\ m \in Token
<1>1. m \in Token /\ fd[i] \in FdState
  BY DEF TypeOK
<1>2. /\ m.sender \in Node /\ m.prim_susp \in BOOLEAN
      /\ ve[i].views[m.sender] \in View
  BY <1>1, AnswerType DEF Token
<1> QED BY <1>1, <1>2, JudgeType, ResetType DEF Judgements

(* A row of vcm of the right type keeps the type of vcm.                   *)
LEMMA RowType ==
  ASSUME TypeOK, NEW i \in Node, NEW row \in [Node -> Vcm]
  PROVE  [vcm EXCEPT ![i] = row] \in [Node -> [Node -> Vcm]]
BY DEF TypeOK

LEMMA DecideType ==
  ASSUME TypeOK, NEW i \in Node, Decide(i)
  PROVE  vcm' \in [Node -> [Node -> Vcm]]
<1>1. vcm[i] \in [Node -> Vcm] /\ vcm[i][i] \in Vcm
  BY DEF TypeOK
<1> DEFINE w == [vcm[i] EXCEPT ![i].need_chg_set = NeedChgSet(i)]
           row == IF vcm[i][i].prim # CurrentView(i) THEN Clean(i)
                  ELSE IF vcm[i][i].v_status = "V_CHANGE" THEN vcm[i]
                  ELSE Voted(i, Calmed(i, w))
<1>2. NeedChgSet(i) \in SUBSET Node
  BY DEF NeedChgSet
<1>3. [vcm[i][i] EXCEPT !.need_chg_set = NeedChgSet(i)] \in Vcm
  BY <1>1, <1>2 DEF Vcm
<1>4. w \in [Node -> Vcm]
  BY <1>1, <1>3
<1>5. row \in [Node -> Vcm]
  BY <1>1, <1>4, CleanType, VotedType
<1>6. vcm' = [vcm EXCEPT ![i] = row]
  BY DEF Decide
<1> HIDE DEF row
<1> QED BY <1>5, <1>6, RowType

LEMMA LookType ==
  ASSUME TypeOK, NEW i \in Node, Look(i)
  PROVE  vcm' \in [Node -> [Node -> Vcm]]
<1> DEFINE b == Suspected(fd[i], i, ve[i].views)
           p == CurrentView(i)
           c == [vcm[i][i] EXCEPT !.prim = p, !.need_change = b]
<1>1. vcm[i] \in [Node -> Vcm] /\ vcm[i][i] \in Vcm
  BY DEF TypeOK
<1>2. b \in BOOLEAN
  BY DEF Suspected
<1>3. p \in View
  BY AnswerType
<1>4. vcm' = [vcm EXCEPT ![i][i].prim = p, ![i][i].need_change = b]
  BY DEF Look
<1> HIDE DEF b, p
<1>5. c \in Vcm
  BY <1>1, <1>2, <1>3 DEF Vcm
<1>6. vcm' = [vcm EXCEPT ![i] = [vcm[i] EXCEPT ![i] = c]]
  BY <1>1, <1>4 DEF TypeOK, Vcm
<1> HIDE DEF c
<1> QED BY <1>1, <1>5, <1>6, RowType

LEMMA NextType == TypeOK /\ [Next]_vars => TypeOK'
<1> SUFFICES ASSUME TypeOK, [Next]_vars PROVE TypeOK'
  OBVIOUS
<1> USE DEF veVars, fdVars, pmVars, vars, Correct
<1>1. CASE UNCHANGED vars
  BY <1>1 DEF TypeOK
<1>2. ASSUME NEW i \in Correct, Greet(i) PROVE TypeOK'
  <2>1. fd' \in [Node -> FdState]
    <3>0. fd[i] \in FdState
      BY DEF TypeOK
    <3>1. [fd[i] EXCEPT !.first_run = FALSE] \in FdState
      BY <3>0 DEF FdState
    <3>2. fd' = [fd EXCEPT ![i] = [fd[i] EXCEPT !.first_run = FALSE]]
      BY <1>2 DEF Greet
    <3> QED BY <3>1, <3>2 DEF TypeOK
  <2>2. fd[i].prim_susp[i] \in BOOLEAN
    <3>1. fd[i] \in FdState
      BY DEF TypeOK
    <3>2. fd[i].prim_susp \in [Node -> BOOLEAN]
      BY <3>1 DEF FdState
    <3> QED BY <3>2
  <2>3. /\ tokens' \in [Node -> [Node -> Seq(BOOLEAN)]]
        /\ said' \in [Node -> [Node -> SUBSET BOOLEAN]]
    BY <1>2, <2>2, SendTokensType DEF Greet
  <2> QED BY <1>2, <2>1, <2>3 DEF Greet, TypeOK
<1>3. ASSUME NEW i \in Correct, NEW j \in Correct, Take(i, j) PROVE TypeOK'
  <2>1. tokens[j][i] \in Seq(BOOLEAN) /\ tokens[j][i] # <<>>
    BY <1>3 DEF Take, TypeOK
  <2>2. Head(tokens[j][i]) \in BOOLEAN /\ Tail(tokens[j][i]) \in Seq(BOOLEAN)
    BY <2>1, QueueType
  <2>3. fd' \in [Node -> FdState] /\ taken' \in [Node -> SUBSET Token]
    BY <1>3, <2>2, HandleType DEF Take
  <2>4. tokens' \in [Node -> [Node -> Seq(BOOLEAN)]]
    BY <1>3, <2>2 DEF Take, TypeOK
  <2> QED BY <1>3, <2>3, <2>4 DEF Take, Handle, TypeOK
<1>4. ASSUME NEW i \in Correct, NEW j \in Correct, TakeAgain(i, j) PROVE TypeOK'
  <2>1. PICK susp \in said[j][i] : Handle(i, j, susp)
    BY <1>4 DEF TakeAgain
  <2>2. susp \in BOOLEAN
    BY DEF TypeOK
  <2>3. fd' \in [Node -> FdState] /\ taken' \in [Node -> SUBSET Token]
    BY <2>1, <2>2, HandleType
  <2>4. repeats' \in 0 .. MaxRepeats
    BY <1>4, BoundAssumption DEF TakeAgain, TypeOK
  <2> QED BY <1>4, <2>1, <2>3, <2>4 DEF TakeAgain, Handle, TypeOK
<1>5. ASSUME NEW i \in Correct, Reply(i) PROVE TypeOK'
  <2>0. PICK m \in taken[i] : \E t \in Judgements(i, m) :
          /\ fd' = [fd EXCEPT ![i] = [t EXCEPT !.first_run = FALSE]]
          /\ SendTokens(i, {m.sender}, IF t.first_run THEN Node \ {i} ELSE {},
                        t.prim_susp[i])
    BY <1>5 DEF Reply
  <2>1. PICK t \in Judgements(i, m) :
          /\ fd' = [fd EXCEPT ![i] = [t EXCEPT !.first_run = FALSE]]
          /\ SendTokens(i, {m.sender}, IF t.first_run THEN Node \ {i} ELSE {},
                        t.prim_susp[i])
    BY <2>0
  <2>2. t \in FdState
    BY JudgementsType
  <2>3. [t EXCEPT !.first_run = FALSE] \in FdState /\ t.prim_susp[i] \in BOOLEAN
    BY <2>2 DEF FdState
  <2>4. fd' \in [Node -> FdState]
    BY <2>1, <2>3 DEF TypeOK
  <2>5. /\ tokens' \in [Node -> [Node -> Seq(BOOLEAN)]]
        /\ said' \in [Node -> [Node -> SUBSET BOOLEAN]]
    BY <2>1, <2>3, SendTokensType
  <2>6. taken' \in [Node -> SUBSET Token]
    BY <1>5 DEF Reply, TypeOK
  <2> QED BY <1>5, <2>4, <2>5, <2>6 DEF Reply, TypeOK
<1>6. ASSUME NEW i \in Correct, Refresh(i) PROVE TypeOK'
  <2>1. vcm' \in [Node -> [Node -> Vcm]]
    BY <1>6, CleanType, RowType DEF Refresh, TypeOK
  <2> QED BY <1>6, <2>1 DEF Refresh, TypeOK
<1>7. ASSUME NEW i \in Correct, Look(i) PROVE TypeOK'
  BY <1>7, LookType DEF Look, TypeOK
<1>8. ASSUME NEW i \in Correct, Decide(i) PROVE TypeOK'
  BY <1>8, DecideType DEF Decide, TypeOK
<1>9. ASSUME NEW i \in Correct, Demand(i) PROVE TypeOK'
  BY <1>9 DEF Demand, TypeOK
<1>10. ASSUME NEW i \in Correct, Broadcast(i) PROVE TypeOK'
  <2>1. \A j \in Node : /\ net[i][j] \in Seq(Vcm)
                        /\ Append(net[i][j], vcm[i][i]) \in Seq(Vcm)
    BY DEF TypeOK
  <2>2. [j \in Node |-> IF j \in Correct \ {i} THEN Append(net[i][j], vcm[i][i])
                                               ELSE net[i][j]] \in [Node -> Seq(Vcm)]
    BY <2>1
  <2>3. net' \in [Node -> [Node -> Seq(Vcm)]]
    BY <1>10, <2>2 DEF Broadcast, TypeOK
  <2> QED BY <1>10, <2>3 DEF Broadcast, TypeOK
<1>11. ASSUME NEW i \in Correct, NEW j \in Correct, Receive(i, j) PROVE TypeOK'
  <2>1. net[j][i] \in Seq(Vcm) /\ net[j][i] # <<>>
    BY <1>11 DEF Receive, TypeOK
  <2>2. Head(net[j][i]) \in Vcm /\ Tail(net[j][i]) \in Seq(Vcm)
    BY <2>1, QueueType
  <2>3. net' \in [Node -> [Node -> Seq(Vcm)]]
    BY <1>11, <2>2 DEF Receive, TypeOK
  <2>4. vcm' \in [Node -> [Node -> Vcm]]
    <3> DEFINE m == Head(net[j][i])
    <3>1. vcm' = [vcm EXCEPT ![i] = [vcm[i] EXCEPT ![j] = m]]
      BY <1>11 DEF Receive, TypeOK
    <3>2. m \in Vcm /\ vcm \in [Node -> [Node -> Vcm]]
      BY <2>2 DEF TypeOK
    <3> HIDE DEF m
    <3>3. [vcm[i] EXCEPT ![j] = m] \in [Node -> Vcm]
      BY <3>2
    <3> QED BY <3>1, <3>2, <3>3
  <2> QED BY <1>11, <2>3, <2>4 DEF Receive, TypeOK
<1>12. ASSUME NEW i \in Correct, Move(i) PROVE TypeOK'
  <2>1. ve' \in [Node -> Answers] /\ demanded' \in [Node -> BOOLEAN]
    BY <1>12 DEF Move, TypeOK
  <2>2. moves' \in 0 .. MaxMoves
    BY <1>12, BoundAssumption DEF Move, TypeOK
  <2> QED BY <1>12, <2>1, <2>2 DEF Move, TypeOK
<1> QED BY <1>1, <1>2, <1>3, <1>4, <1>5, <1>6, <1>7, <1>8, <1>9, <1>10,
           <1>11, <1>12 DEF Next

(* The variables keep their types for every number of nodes, whoever is    *)
(* silent and whatever View Establishment answers (types of the fields set *)
(* by run, upon_token_from_pj and receive_msg).                            *)
THEOREM TypeCorrect == Spec => []TypeOK
BY InitType, NextType, PTL DEF Spec

-----------------------------------------------------------------------------
(* The service stops before a change is demanded.                          *)

(* The nodes are finitely many, and so are those of every set of them.     *)
LEMMA NodesFinite ==
  /\ IsFiniteSet(Node)
  /\ \A S \in SUBSET Node : IsFiniteSet(S) /\ Cardinality(S) \in Nat
<1>1. N - 1 \in Int
  BY NodesAssumption
<1>2. IsFiniteSet(Node)
  BY <1>1, FS_Interval DEF Node
<1> QED BY <1>2, FS_Subset, FS_CardinalityType

(* Support by N - F nodes is support by N - 2F nodes.                      *)
LEMMA SupportWeakens ==
  ASSUME NEW v, SupChange(v, N - F)
  PROVE  SupChange(v, N - 2 * F)
<1> DEFINE G(p) == { k \in Node : v[k].prim = p }
           W(p) == { k \in G(p) : v[k].need_chg_set # {} }
           Early(p) == \E k \in W(p) : /\ \A l \in W(p) : k <= l
                                      /\ Cardinality(v[k].need_chg_set) >= N - 2 * F
<1>1. PICK p \in View : Cardinality(G(p)) >= N - F /\ Early(p)
  BY DEF SupChange
<1>2. Cardinality(G(p)) \in Nat
  BY NodesFinite
<1>3. Cardinality(G(p)) >= N - 2 * F
  BY <1>1, <1>2, NodesAssumption
<1> QED BY <1>1, <1>3 DEF SupChange

LEMMA VotedStops ==
  ASSUME NEW i \in Node, NEW v \in [Node -> Vcm], v[i].v_status = "OK"
  PROVE  Voted(i, Calmed(i, v))[i].v_status # "V_CHANGE"
<1> DEFINE w == Calmed(i, v)
<1>1. w \in [Node -> Vcm] /\ w[i].v_status = "OK"
  <2>1. v[i] \in Vcm
    OBVIOUS
  <2>2. [v[i] EXCEPT !.v_status = "OK"] \in Vcm
    BY <2>1 DEF Vcm, Status
  <2> QED BY <2>1, <2>2 DEF Calmed, Vcm
<1> HIDE DEF w
<1>2. CASE SupChange(w, N - 2 * F)
  <2>1. Voted(i, w) = [w EXCEPT ![i].v_status = "NO_SERVICE"]
    BY <1>1, <1>2 DEF Voted
  <2>2. w[i] \in Vcm
    BY <1>1
  <2>3. Voted(i, w)[i].v_status = "NO_SERVICE"
    BY <1>1, <2>1, <2>2 DEF Vcm
  <2> QED BY <2>3 DEF w
<1>3. CASE ~SupChange(w, N - 2 * F)
  <2>1. Voted(i, w) = w
    BY <1>3, SupportWeakens DEF Voted
  <2> QED BY <1>1, <2>1 DEF w
<1> QED BY <1>2, <1>3

LEMMA DecideStops ==
  ASSUME TypeOK, NEW i \in Node, Decide(i), NEW k \in Node,
         vcm[k][k].v_status = "OK"
  PROVE  vcm'[k][k].v_status # "V_CHANGE"
<1> DEFINE w == [vcm[i] EXCEPT ![i].need_chg_set = NeedChgSet(i)]
           row == IF vcm[i][i].prim # CurrentView(i) THEN Clean(i)
                  ELSE IF vcm[i][i].v_status = "V_CHANGE" THEN vcm[i]
                  ELSE Voted(i, Calmed(i, w))
<1>1. vcm[i] \in [Node -> Vcm] /\ vcm[i][i] \in Vcm /\ vcm \in [Node -> [Node -> Vcm]]
  BY DEF TypeOK
<1>2. vcm' = [vcm EXCEPT ![i] = row]
  BY DEF Decide
<1>3. ASSUME k = i PROVE row[i].v_status # "V_CHANGE"
  <2>1. Clean(i)[i].v_status = "OK"
    BY DEF Clean, DefaultVcm
  <2>2. NeedChgSet(i) \in SUBSET Node
    BY DEF NeedChgSet
  <2>3. /\ [vcm[i][i] EXCEPT !.need_chg_set = NeedChgSet(i)] \in Vcm
        /\ [vcm[i][i] EXCEPT !.need_chg_set = NeedChgSet(i)].v_status
             = vcm[i][i].v_status
    BY <1>1, <2>2 DEF Vcm
  <2>4. w \in [Node -> Vcm] /\ w[i].v_status = "OK"
    BY <1>1, <1>3, <2>3
  <2>5. Voted(i, Calmed(i, w))[i].v_status # "V_CHANGE"
    BY <2>4, VotedStops
  <2> QED BY <1>3, <2>1, <2>5
<1> HIDE DEF row
<1> QED BY <1>1, <1>2, <1>3

LEMMA NextStops ==
  ASSUME TypeOK, [Next]_vars, NEW k \in Node, vcm[k][k].v_status = "OK"
  PROVE  vcm'[k][k].v_status # "V_CHANGE"
<1> USE DEF veVars, fdVars, pmVars, vars, Correct
<1>1. CASE UNCHANGED vcm
  BY <1>1
<1>2. ASSUME NEW i \in Correct, Refresh(i) PROVE vcm'[k][k].v_status # "V_CHANGE"
  <2>1. Clean(i)[i].v_status = "OK"
    BY DEF Clean, DefaultVcm
  <2> QED BY <1>2, <2>1 DEF Refresh, TypeOK
<1>3. ASSUME NEW i \in Correct, Look(i) PROVE vcm'[k][k].v_status # "V_CHANGE"
  <2> DEFINE b == Suspected(fd[i], i, ve[i].views)
             p == CurrentView(i)
  <2>1. vcm' = [vcm EXCEPT ![i][i].prim = p, ![i][i].need_change = b]
    BY <1>3 DEF Look
  <2> HIDE DEF b, p
  <2>2. vcm'[k][k].v_status = vcm[k][k].v_status
    BY <2>1 DEF TypeOK, Vcm
  <2> QED BY <2>2
<1>4. ASSUME NEW i \in Correct, Decide(i) PROVE vcm'[k][k].v_status # "V_CHANGE"
  BY <1>4, DecideStops
<1>5. ASSUME NEW i \in Correct, NEW j \in Correct \ {i}, Receive(i, j)
      PROVE  vcm'[k][k].v_status # "V_CHANGE"
  BY <1>5 DEF Receive, TypeOK
<1> QED BY <1>1, <1>2, <1>3, <1>4, <1>5
        DEF Next, Greet, Take, TakeAgain, Handle, Reply, Demand, Broadcast, Move

(* No node goes from serving clients to demanding a view change in one     *)
(* round of run, however many nodes ask for it at once: its peers are told *)
(* in between that it stopped (the order of the two calls of sup_change).  *)
THEOREM ServiceStops == Spec => ServiceStopsFirst
<1>1. TypeOK /\ [Next]_vars
        => [\A i \in Node : vcm[i][i].v_status = "OK"
                              => vcm'[i][i].v_status # "V_CHANGE"]_vars
  BY NextStops
<1> QED BY <1>1, TypeCorrect, PTL DEF Spec, ServiceStopsFirst

-----------------------------------------------------------------------------
(* Too few suspicions have no effect.                                      *)

(* A node handles tokens of others only.                                   *)
FromOthers == \A i \in Node : \A m \in taken[i] : m.sender # i

LEMMA FromOthersStep ==
  ASSUME TypeOK, FromOthers, [Next]_vars
  PROVE  FromOthers'
<1> USE DEF veVars, fdVars, pmVars, vars, Correct
<1>1. CASE UNCHANGED taken
  BY <1>1 DEF FromOthers
<1>2. ASSUME NEW i \in Correct, NEW j \in Correct \ {i}, NEW susp,
             Handle(i, j, susp)
      PROVE  FromOthers'
  BY <1>2 DEF Handle, FromOthers, TypeOK
<1>3. ASSUME NEW i \in Correct, Reply(i) PROVE FromOthers'
  BY <1>3 DEF Reply, FromOthers, TypeOK
<1> QED BY <1>1, <1>2, <1>3
        DEF Next, Greet, Take, TakeAgain, Refresh, Look, Decide, Demand,
            Broadcast, Receive, Move

LEMMA OthersAlways == Spec => [](TypeOK /\ FromOthers)
<1>1. Init => FromOthers
  BY DEF Init, FromOthers
<1>2. TypeOK /\ FromOthers /\ [Next]_vars => FromOthers'
  BY FromOthersStep
<1> QED BY <1>1, <1>2, TypeCorrect, PTL DEF Spec

(* In the view of the last token, a token changes no suspicion.            *)
LEMMA NoteKeeps ==
  ASSUME NEW s \in FdState, NEW i \in Node, NEW j \in Node
  PROVE  /\ Note(s, i, j, s.prim).prim = s.prim
         /\ Note(s, i, j, s.prim).prim_susp = s.prim_susp
<1> DEFINE beat == [k \in Node |-> IF k \in {i, j} THEN 0
                                   ELSE UpTo(BEAT_THRESHOLD, s.beat[k] + 1)]
           set == { k \in Node : beat[k] < BEAT_THRESHOLD }
<1>1. Note(s, i, j, s.prim) = [s EXCEPT !.beat = beat, !.fd_set = set, !.prim = s.prim]
  BY DEF Note, UpdateBeat, FdState
<1> HIDE DEF beat, set
<1> QED BY <1>1 DEF FdState

(* In service, a node keeps its own suspicion, and whom it counts as       *)
(* suspecting it counted before, or is told to by the token, or is it.     *)
LEMMA JudgeKeeps ==
  ASSUME NEW s \in FdState, NEW i \in Node, NEW j \in Node, i # j,
         NEW susp \in BOOLEAN, NEW viewOfJ \in View,
         NEW t \in Judge(s, i, j, susp, viewOfJ)
  PROVE  /\ t.prim = s.prim
         /\ s.prim_susp[i] => t.prim_susp[i]
         /\ \A l \in Node : t.prim_susp[l] => \/ s.prim_susp[l]
                                              \/ l = i
                                              \/ l = j /\ susp
<1> DEFINE heard == IF s.prim = j THEN CheckProgress(s)
               ELSE IF s.prim = viewOfJ THEN { [s EXCEPT !.prim_susp[j] = susp] }
               ELSE { s }
           reset(h) == IF h.prim = i THEN [h EXCEPT !.cnt = 0] ELSE h
<1>1. PICK h \in heard : t = Suspect(reset(h), i)
  BY DEF Judge
<1>2. /\ h.prim = s.prim
      /\ h.prim_susp \in [Node -> BOOLEAN]
      /\ h.prim_susp[i] = s.prim_susp[i]
      /\ \A l \in Node : h.prim_susp[l] => s.prim_susp[l] \/ (l = j /\ susp)
      /\ h \in FdState
  <2>1. CASE h \in CheckProgress(s)
    <3>1. h.prim = s.prim /\ h.prim_susp = s.prim_susp
      BY <2>1 DEF CheckProgress, FdState
    <3>2. s.prim_susp \in [Node -> BOOLEAN]
      BY DEF FdState
    <3> QED BY <2>1, <3>1, <3>2, CheckProgressType
  <2>2. CASE h = [s EXCEPT !.prim_susp[j] = susp]
    <3>1. h = [s EXCEPT !.prim_susp = [s.prim_susp EXCEPT ![j] = susp]]
      BY <2>2 DEF FdState
    <3>2. s.prim_susp \in [Node -> BOOLEAN]
      BY DEF FdState
    <3>3. [s.prim_susp EXCEPT ![j] = susp] \in [Node -> BOOLEAN]
      BY <3>2
    <3>4. /\ h.prim = s.prim
          /\ h.prim_susp = [s.prim_susp EXCEPT ![j] = susp]
          /\ h \in FdState
      BY <3>1, <3>3 DEF FdState
    <3> QED BY <3>2, <3>3, <3>4
  <2>3. CASE h = s
    BY <2>3 DEF FdState
  <2> QED BY <2>1, <2>2, <2>3
<1> DEFINE r == reset(h)
           b == r.prim_susp[i] \/ r.prim \notin r.fd_set \/ r.cnt > CNT_THRESHOLD
           ps == [r.prim_susp EXCEPT ![i] = b]
<1>3. r.prim = h.prim /\ r.prim_susp = h.prim_susp /\ r \in FdState
  <2>1. 0 \in 0 .. CNT_THRESHOLD + 1
    BY ThresholdAssumption
  <2> QED BY <1>2, <2>1 DEF FdState
<1>4. t = [r EXCEPT !.prim_susp = ps]
  BY <1>1, <1>3 DEF Suspect, FdState
<1>5. h.prim_susp[i] => b
  BY <1>3
<1> HIDE DEF b, r
<1>6. t.prim = h.prim /\ t.prim_susp = [h.prim_susp EXCEPT ![i] = b]
  BY <1>3, <1>4 DEF FdState
<1> QED BY <1>2, <1>5, <1>6

LEMMA JudgementsKeep ==
  ASSUME TypeOK, FromOthers, NEW i \in Node, ve[i].service,
         NEW m \in taken[i], NEW t \in Judgements(i, m)
  PROVE  /\ t.prim = fd[i].prim
         /\ fd[i].prim_susp[i] => t.prim_susp[i]
         /\ \A l \in Node : t.prim_susp[l] => \/ fd[i].prim_susp[l]
                                              \/ l = i
                                              \/ l = m.sender /\ m.prim_susp
<1>1. /\ m.sender \in Node /\ m.prim_susp \in BOOLEAN
      /\ m.sender # i /\ fd[i] \in FdState
      /\ ve[i].views[m.sender] \in View
  <2>1. m \in Token
    BY DEF TypeOK
  <2>2. m.sender \in Node /\ m.prim_susp \in BOOLEAN
    BY <2>1 DEF Token
  <2> QED BY <2>2, AnswerType DEF FromOthers, TypeOK
<1>2. CASE vcm[i][i].v_status = "OK"
  <2>1. t \in Judge(fd[i], i, m.sender, m.prim_susp, ve[i].views[m.sender])
    BY <1>2 DEF Judgements
  <2> HIDE DEF Judgements
  <2> QED BY <1>1, <2>1, JudgeKeeps
<1>3. CASE vcm[i][i].v_status # "OK"
  BY <1>3 DEF Judgements
<1> QED BY <1>2, <1>3

(* What is in a queue after a message was added or taken was in it before  *)
(* or is the message.                                                      *)
LEMMA AppendElements ==
  ASSUME NEW S, NEW q \in Seq(S), NEW x \in S, NEW n \in 1 .. Len(Append(q, x))
  PROVE  Append(q, x)[n] = x \/ (n \in 1 .. Len(q) /\ Append(q, x)[n] = q[n])
OBVIOUS

LEMMA TailElements ==
  ASSUME NEW S, NEW q \in Seq(S), q # <<>>
  PROVE  /\ 1 \in 1 .. Len(q) /\ Head(q) = q[1]
         /\ \A n \in 1 .. Len(Tail(q)) : /\ n + 1 \in 1 .. Len(q)
                                        /\ Tail(q)[n] = q[n + 1]
OBVIOUS

LEMMA AfterElements ==
  ASSUME NEW S, NEW q \in Seq(S), NEW x \in S, NEW more \in BOOLEAN,
         NEW n \in 1 .. Len(After(q, more, x))
  PROVE  \/ more /\ After(q, more, x)[n] = x
         \/ n \in 1 .. Len(q) /\ After(q, more, x)[n] = q[n]
BY AppendElements DEF After

(* What node i sends is its own suspicion.                                 *)
LEMMA SentHonestly ==
  ASSUME TypeOK, NEW v, Honest(v), NEW i \in Correct, NEW R, NEW S,
         NEW susp \in BOOLEAN, SendTokens(i, R, S, susp),
         susp => i \in Suspecting', Suspecting \subseteq Suspecting',
         NEW k \in Correct, NEW l \in Correct
  PROVE  /\ TRUE \in said'[k][l] => k \in Suspecting'
         /\ \A n \in 1 .. Len(tokens'[k][l]) : tokens'[k][l][n] => k \in Suspecting'
<1> USE DEF Correct
<1>1. /\ TRUE \in said[k][l] => k \in Suspecting'
      /\ \A n \in 1 .. Len(tokens[k][l]) : tokens[k][l][n] => k \in Suspecting'
      /\ tokens[k][l] \in Seq(BOOLEAN)
  BY DEF Honest, TypeOK
<1>2. CASE k = i
  <2> DEFINE q == tokens[k][l]
             more == l \in R \ Silent
             again == l \in S \ Silent
             r == After(q, more, susp)
  <2>1. /\ tokens'[k][l] = After(r, again, susp)
        /\ said'[k][l] \in {said[k][l], said[k][l] \cup {susp}}
    BY <1>2 DEF SendTokens, TypeOK
  <2>2. TRUE \in said'[k][l] => k \in Suspecting'
    BY <1>1, <1>2, <2>1
  <2>3. q \in Seq(BOOLEAN) /\ r \in Seq(BOOLEAN) /\ more \in BOOLEAN /\ again \in BOOLEAN
    <3>1. more \in BOOLEAN /\ again \in BOOLEAN
      OBVIOUS
    <3> HIDE DEF more, again
    <3> QED BY <1>1, <3>1, AfterType
  <2>4. \A n \in 1 .. Len(q) : q[n] => k \in Suspecting'
    BY <1>1
  <2> HIDE DEF q, more, again
  <2>5. \A n \in 1 .. Len(r) : r[n] => k \in Suspecting'
    BY <1>2, <2>3, <2>4, AfterElements
  <2> HIDE DEF r
  <2>6. \A n \in 1 .. Len(After(r, again, susp)) :
          After(r, again, susp)[n] => k \in Suspecting'
    BY <1>2, <2>3, <2>5, AfterElements
  <2> QED BY <2>1, <2>2, <2>6
<1>3. CASE k # i
  <2>1. tokens'[k][l] = tokens[k][l] /\ said'[k][l] = said[k][l]
    BY <1>3 DEF SendTokens, TypeOK
  <2> QED BY <1>1, <2>1
<1> QED BY <1>2, <1>3

LEMMA HandledHonestly ==
  ASSUME TypeOK, NEW v, Honest(v), NEW i \in Correct, NEW j \in Correct,
         NEW susp \in BOOLEAN, Handle(i, j, susp), susp => j \in Suspecting
  PROVE  /\ Suspecting' = Suspecting
         /\ \A a \in Correct :
              /\ fd'[a].prim = v
              /\ \A m \in taken'[a] : m.prim_susp => m.sender \in Suspecting
              /\ \A l \in Node : fd'[a].prim_susp[l] => l \in Suspecting
<1> USE DEF Correct
<1> DEFINE s == Note(fd[i], i, j, CurrentView(i))
<1>1. fd[i] \in FdState /\ fd[i].prim = v /\ CurrentView(i) = v
  BY DEF TypeOK, Honest
<1>2. s.prim = v /\ s.prim_susp = fd[i].prim_susp
  BY <1>1, NoteKeeps
<1>3. fd' = [fd EXCEPT ![i] = s]
  BY DEF Handle
<1> HIDE DEF s
<1>4. \A a \in Node : /\ fd'[a].prim_susp = fd[a].prim_susp
                      /\ a # i => fd'[a] = fd[a]
  BY <1>2, <1>3 DEF TypeOK
<1>5. Suspecting' = Suspecting
  BY <1>4 DEF Suspecting
<1>6. \A a \in Correct : /\ fd'[a].prim = v
                         /\ \A l \in Node : fd'[a].prim_susp[l] => l \in Suspecting
  BY <1>2, <1>3, <1>4 DEF TypeOK, Honest
<1>7. \A a \in Correct : \A m \in taken'[a] : m.prim_susp => m.sender \in Suspecting
  <2>1. \A a \in Node : taken'[a] = IF a = i THEN {[sender |-> j, prim_susp |-> susp]}
                                            ELSE taken[a]
    BY DEF Handle, TypeOK
  <2>2. \A a \in Correct : \A m \in taken[a] : m.prim_susp => m.sender \in Suspecting
    BY DEF Honest
  <2>3. \A m \in {[sender |-> j, prim_susp |-> susp]} :
           m.prim_susp => m.sender \in Suspecting
    OBVIOUS
  <2> QED BY <2>1, <2>2, <2>3
<1> QED BY <1>5, <1>6, <1>7

LEMMA HonestStep ==
  ASSUME TypeOK, FromOthers, NEW v, Honest(v), Next, UNCHANGED ve
  PROVE  Honest(v)'
<1> USE DEF Correct
<1>1. \A a \in Correct : CurrentView(a)' = v /\ ve'[a].service
  BY DEF Honest, CurrentView
<1>2. ASSUME UNCHANGED fdVars PROVE Honest(v)'
  BY <1>2 DEF fdVars, Honest, CurrentView, Suspecting
<1>3. ASSUME NEW i \in Correct, Greet(i) PROVE Honest(v)'
  <2>1. fd[i] \in FdState
    BY DEF TypeOK
  <2>2. fd[i].prim_susp \in [Node -> BOOLEAN]
    BY <2>1 DEF FdState
  <2>3. \A a \in Node : /\ fd'[a].prim_susp = fd[a].prim_susp
                        /\ fd'[a].prim = fd[a].prim
    BY <1>3, <2>1 DEF Greet, TypeOK, FdState
  <2>4. Suspecting' = Suspecting
    BY <2>3 DEF Suspecting
  <2>5. fd[i].prim_susp[i] => i \in Suspecting'
    BY <2>4 DEF Suspecting
  <2>6. \A k, l \in Correct :
          /\ TRUE \in said'[k][l] => k \in Suspecting'
          /\ \A n \in 1 .. Len(tokens'[k][l]) : tokens'[k][l][n] => k \in Suspecting'
    <3>1. PICK R, S : SendTokens(i, R, S, fd[i].prim_susp[i])
      BY <1>3 DEF Greet
    <3>2. fd[i].prim_susp[i] \in BOOLEAN /\ Suspecting \subseteq Suspecting'
      BY <2>2, <2>4
    <3> QED BY <2>5, <3>1, <3>2, SentHonestly
  <2>7. taken' = taken
    BY <1>3 DEF Greet
  <2>8. \A a \in Correct : /\ fd[a].prim = v
                           /\ \A l \in Node : fd[a].prim_susp[l] => l \in Suspecting
                           /\ \A m \in taken[a] : m.prim_susp => m.sender \in Suspecting
    BY DEF Honest
  <2> QED BY <1>1, <2>3, <2>4, <2>6, <2>7, <2>8 DEF Honest
<1>4. ASSUME NEW i \in Correct, NEW j \in Correct, Take(i, j) PROVE Honest(v)'
  <2> DEFINE q == tokens[j][i]
             susp == Head(q)
  <2>1. q \in Seq(BOOLEAN) /\ q # <<>>
    BY <1>4 DEF Take, TypeOK
  <2>2. susp \in BOOLEAN
    BY <2>1, QueueType
  <2>3. \A n \in 1 .. Len(q) : q[n] => j \in Suspecting
    BY DEF Honest
  <2> HIDE DEF q
  <2>4. susp => j \in Suspecting
    BY <2>1, <2>3, TailElements
  <2>5. Handle(i, j, susp)
    BY <1>4 DEF Take, q
  <2>6. /\ Suspecting' = Suspecting
        /\ \A a \in Correct :
             /\ fd'[a].prim = v
             /\ \A m \in taken'[a] : m.prim_susp => m.sender \in Suspecting
             /\ \A l \in Node : fd'[a].prim_susp[l] => l \in Suspecting
    BY <2>2, <2>4, <2>5, HandledHonestly
  <2>7. tokens' = [tokens EXCEPT ![j][i] = Tail(q)] /\ said' = said
    BY <1>4 DEF Take, Handle, q
  <2>8. \A n \in 1 .. Len(Tail(q)) : Tail(q)[n] => j \in Suspecting
    BY <2>1, <2>3, TailElements
  <2>9. ASSUME NEW k \in Correct, NEW l \in Correct
        PROVE  \A n \in 1 .. Len(tokens'[k][l]) : tokens'[k][l][n] => k \in Suspecting
    <3>1. CASE k = j /\ l = i
      BY <2>7, <2>8, <3>1 DEF TypeOK
    <3>2. CASE ~(k = j /\ l = i)
      <4>1. tokens'[k][l] = tokens[k][l]
        BY <2>7, <3>2 DEF TypeOK
      <4> QED BY <4>1 DEF Honest
    <3> QED BY <3>1, <3>2
  <2>10. \A k, l \in Correct : TRUE \in said[k][l] => k \in Suspecting
    BY DEF Honest
  <2> QED BY <1>1, <2>6, <2>7, <2>9, <2>10 DEF Honest
<1>5. ASSUME NEW i \in Correct, NEW j \in Correct, TakeAgain(i, j) PROVE Honest(v)'
  <2>1. PICK susp \in said[j][i] : Handle(i, j, susp)
    BY <1>5 DEF TakeAgain
  <2>2. susp \in BOOLEAN
    BY DEF TypeOK
  <2>3. susp => j \in Suspecting
    <3>1. TRUE \in said[j][i] => j \in Suspecting
      BY DEF Honest
    <3> QED BY <2>2, <3>1
  <2>4. /\ Suspecting' = Suspecting
        /\ \A a \in Correct :
             /\ fd'[a].prim = v
             /\ \A m \in taken'[a] : m.prim_susp => m.sender \in Suspecting
             /\ \A l \in Node : fd'[a].prim_susp[l] => l \in Suspecting
    BY <2>1, <2>2, <2>3, HandledHonestly
  <2>5. said' = said /\ tokens' = tokens
    BY <1>5, <2>1 DEF TakeAgain, Handle
  <2>6. \A k, l \in Correct :
          /\ TRUE \in said[k][l] => k \in Suspecting
          /\ \A n \in 1 .. Len(tokens[k][l]) : tokens[k][l][n] => k \in Suspecting
    BY DEF Honest
  <2> QED BY <1>1, <2>4, <2>5, <2>6 DEF Honest
<1>6. ASSUME NEW i \in Correct, Reply(i) PROVE Honest(v)'
  <2>0. PICK m \in taken[i] : \E t \in Judgements(i, m) :
          /\ fd' = [fd EXCEPT ![i] = [t EXCEPT !.first_run = FALSE]]
          /\ SendTokens(i, {m.sender}, IF t.first_run THEN Node \ {i} ELSE {},
                        t.prim_susp[i])
    BY <1>6 DEF Reply
  <2>1. PICK t \in Judgements(i, m) :
          /\ fd' = [fd EXCEPT ![i] = [t EXCEPT !.first_run = FALSE]]
          /\ SendTokens(i, {m.sender}, IF t.first_run THEN Node \ {i} ELSE {},
                        t.prim_susp[i])
    BY <2>0
  <2>2. ve[i].service /\ fd[i].prim = v
    BY DEF Honest
  <2>3. /\ t.prim = v
        /\ fd[i].prim_susp[i] => t.prim_susp[i]
        /\ \A l \in Node : t.prim_susp[l] => \/ fd[i].prim_susp[l]
                                             \/ l = i
                                             \/ l = m.sender /\ m.prim_susp
    BY <2>2, JudgementsKeep
  <2>4. t \in FdState
    BY JudgementsType
  <2>5. t.prim_susp \in [Node -> BOOLEAN]
    BY <2>4 DEF FdState
  <2>6. \A a \in Node : /\ a # i => fd'[a] = fd[a]
                        /\ fd'[i].prim = t.prim
                        /\ fd'[i].prim_susp = t.prim_susp
    BY <2>1, <2>4 DEF TypeOK, FdState
  <2>7. Suspecting \subseteq Suspecting'
    BY <2>3, <2>6 DEF Suspecting
  <2>8. t.prim_susp[i] => i \in Suspecting'
    BY <2>6 DEF Suspecting
  <2>9. \A k, l \in Correct :
          /\ TRUE \in said'[k][l] => k \in Suspecting'
          /\ \A n \in 1 .. Len(tokens'[k][l]) : tokens'[k][l][n] => k \in Suspecting'
    BY <2>1, <2>5, <2>7, <2>8, SentHonestly
  <2>10. \A a \in Correct :
           /\ fd[a].prim = v
           /\ \A l \in Node : fd[a].prim_susp[l] => l \in Suspecting
           /\ \A n \in taken[a] : n.prim_susp => n.sender \in Suspecting
    BY DEF Honest
  <2>11. \A a \in Correct : fd'[a].prim = v
    BY <2>3, <2>6, <2>10
  <2>12. \A a \in Correct, l \in Node : fd'[a].prim_susp[l] => l \in Suspecting'
    BY <2>3, <2>6, <2>7, <2>8, <2>10
  <2>13. \A a \in Correct : taken'[a] \subseteq taken[a]
    BY <1>6 DEF Reply, TypeOK
  <2> QED BY <1>1, <2>7, <2>9, <2>10, <2>11, <2>12, <2>13 DEF Honest
<1> QED BY <1>2, <1>3, <1>4, <1>5, <1>6
        DEF Next, Refresh, Look, Decide, Demand, Broadcast, Receive, Move, fdVars

(* Too few suspecting nodes are not enough for suspected().                *)
LEMMA FewNotSuspected ==
  ASSUME TypeOK, NEW v, Honest(v), Cardinality(Suspecting) < N - 2 * F,
         NEW i \in Correct
  PROVE  ~Suspected(fd[i], i, ve[i].views)
<1> DEFINE S == { k \in Node : fd[i].prim_susp[k] /\ ve[i].views[k] = ve[i].views[i] }
<1>1. S \subseteq Suspecting /\ Suspecting \subseteq Node
  BY DEF Honest, Suspecting
<1>2. Cardinality(S) <= Cardinality(Suspecting)
  BY <1>1, NodesFinite, FS_Subset
<1>3. Cardinality(S) \in Nat /\ Cardinality(Suspecting) \in Nat
  BY <1>1, NodesFinite
<1> HIDE DEF S
<1>4. ~(Cardinality(S) >= N - 2 * F)
  BY <1>2, <1>3, NodesAssumption
<1> QED BY <1>4 DEF Suspected, S

(* Without anybody who wants a change, a round decides nothing.            *)
LEMMA DecideContent ==
  ASSUME TypeOK, Content, NEW i \in Correct, Decide(i)
  PROVE  \A k, l \in Node : k \in Correct => ~Wants(vcm'[k][l])
<1> USE DEF Correct
<1> DEFINE w == [vcm[i] EXCEPT ![i].need_chg_set = NeedChgSet(i)]
           row == IF vcm[i][i].prim # CurrentView(i) THEN Clean(i)
                  ELSE IF vcm[i][i].v_status = "V_CHANGE" THEN vcm[i]
                  ELSE Voted(i, Calmed(i, w))
<1>1. vcm[i] \in [Node -> Vcm] /\ vcm[i][i] \in Vcm /\ vcm \in [Node -> [Node -> Vcm]]
  BY DEF TypeOK
<1>2. \A k, l \in Node : k \in Correct => ~Wants(vcm[k][l])
  BY DEF Content
<1>3. NeedChgSet(i) = {}
  BY <1>2 DEF NeedChgSet, Wants
<1>4. w \in [Node -> Vcm] /\ w[i].v_status = "OK" /\ \A l \in Node : ~Wants(w[l])
  <2>1. /\ [vcm[i][i] EXCEPT !.need_chg_set = {}] \in Vcm
        /\ ~Wants([vcm[i][i] EXCEPT !.need_chg_set = {}])
        /\ [vcm[i][i] EXCEPT !.need_chg_set = {}].v_status = "OK"
    BY <1>1, <1>2 DEF Vcm, Wants
  <2> QED BY <1>1, <1>2, <1>3, <2>1
<1> HIDE DEF w
<1>5. Calmed(i, w) = w
  <2>1. w[i] \in Vcm
    BY <1>4
  <2>2. [w[i] EXCEPT !.v_status = "OK"] = w[i]
    BY <1>4, <2>1 DEF Vcm
  <2> QED BY <1>4, <2>2 DEF Calmed
<1>6. \A size : ~SupChange(w, size)
  BY <1>4 DEF SupChange, Wants
<1>7. Voted(i, Calmed(i, w)) = w
  BY <1>5, <1>6 DEF Voted
<1>8. \A l \in Node : ~Wants(Clean(i)[l])
  BY DEF Clean, DefaultVcm, Wants
<1>9. \A l \in Node : ~Wants(row[l])
  BY <1>2, <1>4, <1>7, <1>8
<1>10. vcm' = [vcm EXCEPT ![i] = row]
  BY DEF Decide, w
<1> HIDE DEF row
<1> QED BY <1>1, <1>2, <1>9, <1>10

LEMMA ContentStep ==
  ASSUME TypeOK, NEW v, Honest(v), Content, Next, UNCHANGED ve,
         Cardinality(Suspecting') < N - 2 * F
  PROVE  Content'
<1> USE DEF Correct
<1>1. /\ \A k, l \in Node : k \in Correct => ~Wants(vcm[k][l])
      /\ \A i, k \in Correct : \A n \in 1 .. Len(net[k][i]) : ~Wants(net[k][i][n])
  BY DEF Content
<1>2. ASSUME UNCHANGED <<vcm, net>> PROVE Content'
  BY <1>2 DEF Content
<1>3. ASSUME NEW i \in Correct, Refresh(i) PROVE Content'
  <2>1. \A l \in Node : ~Wants(Clean(i)[l])
    BY DEF Clean, DefaultVcm, Wants
  <2>2. net' = net /\ vcm' \in {vcm, [vcm EXCEPT ![i] = Clean(i)]}
    BY <1>3 DEF Refresh
  <2> QED BY <1>1, <2>1, <2>2 DEF Content, TypeOK
<1>4. ASSUME NEW i \in Correct, Look(i) PROVE Content'
  <2>1. Suspecting' = Suspecting
    BY <1>4 DEF Look, fdVars, Suspecting
  <2>2. ~Suspected(fd[i], i, ve[i].views)
    BY <2>1, FewNotSuspected
  <2> DEFINE p == CurrentView(i)
             b == Suspected(fd[i], i, ve[i].views)
  <2>3. vcm' = [vcm EXCEPT ![i][i].prim = p, ![i][i].need_change = b] /\ net' = net
    BY <1>4 DEF Look
  <2>4. ~b
    BY <2>2
  <2> HIDE DEF p, b
  <2> DEFINE c == [vcm[i][i] EXCEPT !.prim = p, !.need_change = b]
  <2>5. vcm[i] \in [Node -> Vcm] /\ vcm[i][i] \in Vcm
    BY DEF TypeOK
  <2>6. vcm' = [vcm EXCEPT ![i] = [vcm[i] EXCEPT ![i] = c]]
    BY <2>3, <2>5 DEF TypeOK, Vcm
  <2>7. /\ c.v_status = vcm[i][i].v_status
        /\ c.need_chg_set = vcm[i][i].need_chg_set
        /\ c.need_change = b
    BY <2>5 DEF Vcm
  <2> HIDE DEF c
  <2>8. \A k, l \in Node : vcm'[k][l] = IF k = i /\ l = i THEN c ELSE vcm[k][l]
    BY <2>6 DEF TypeOK
  <2>9. \A k, l \in Node : /\ vcm'[k][l].v_status = vcm[k][l].v_status
                           /\ vcm'[k][l].need_chg_set = vcm[k][l].need_chg_set
                           /\ vcm'[k][l].need_change \in {b, vcm[k][l].need_change}
    BY <2>7, <2>8
  <2>10. \A k, l \in Node : k \in Correct => ~Wants(vcm'[k][l])
    BY <1>1, <2>4, <2>9 DEF Wants
  <2> QED BY <1>1, <2>3, <2>10 DEF Content
<1>5. ASSUME NEW i \in Correct, Decide(i) PROVE Content'
  <2>1. \A k, l \in Node : k \in Correct => ~Wants(vcm'[k][l])
    BY <1>5, DecideContent
  <2>2. net' = net
    BY <1>5 DEF Decide
  <2> QED BY <1>1, <2>1, <2>2 DEF Content
<1>6. ASSUME NEW i \in Correct, Broadcast(i) PROVE Content'
  <2> DEFINE x == vcm[i][i]
  <2>1. ~Wants(x) /\ x \in Vcm
    BY <1>1 DEF TypeOK
  <2>2. ASSUME NEW k \in Correct, NEW l \in Correct, NEW n \in 1 .. Len(net'[k][l])
        PROVE  ~Wants(net'[k][l][n])
    <3> DEFINE q == net[k][l]
    <3>1. q \in Seq(Vcm) /\ \A o \in 1 .. Len(q) : ~Wants(q[o])
      BY <1>1 DEF TypeOK
    <3>2. net'[k][l] \in {q, Append(q, x)}
      BY <1>6 DEF Broadcast, TypeOK
    <3> HIDE DEF q, x
    <3>3. CASE net'[k][l] = q
      BY <2>2, <3>1, <3>3
    <3>4. CASE net'[k][l] = Append(q, x)
      <4>1. n \in 1 .. Len(Append(q, x))
        BY <2>2, <3>4
      <4>2. Append(q, x)[n] = x \/ (n \in 1 .. Len(q) /\ Append(q, x)[n] = q[n])
        BY <2>1, <3>1, <4>1, AppendElements
      <4> QED BY <2>1, <3>1, <3>4, <4>2
    <3> QED BY <3>2, <3>3, <3>4
  <2>3. vcm' = vcm
    BY <1>6 DEF Broadcast
  <2> QED BY <1>1, <2>2, <2>3 DEF Content
<1>7. ASSUME NEW i \in Correct, NEW j \in Correct, Receive(i, j) PROVE Content'
  <2> DEFINE q == net[j][i]
             x == Head(q)
  <2>1. q \in Seq(Vcm) /\ q # <<>> /\ \A n \in 1 .. Len(q) : ~Wants(q[n])
    BY <1>1, <1>7 DEF Receive, TypeOK
  <2>2. vcm' = [vcm EXCEPT ![i][j] = x] /\ net' = [net EXCEPT ![j][i] = Tail(q)]
    BY <1>7 DEF Receive
  <2> HIDE DEF q
  <2>3. ~Wants(x) /\ \A n \in 1 .. Len(Tail(q)) : ~Wants(Tail(q)[n])
    BY <2>1, TailElements
  <2> HIDE DEF x
  <2>4. \A k, l \in Node : k \in Correct => ~Wants(vcm'[k][l])
    BY <1>1, <2>2, <2>3 DEF TypeOK
  <2>5. \A k, l \in Correct : \A n \in 1 .. Len(net'[k][l]) : ~Wants(net'[k][l][n])
    <3> SUFFICES ASSUME NEW k \in Correct, NEW l \in Correct
                 PROVE  \A n \in 1 .. Len(net'[k][l]) : ~Wants(net'[k][l][n])
      OBVIOUS
    <3>1. net'[k][l] = IF k = j /\ l = i THEN Tail(q) ELSE net[k][l]
      BY <2>2 DEF TypeOK
    <3>2. CASE k = j /\ l = i
      BY <2>3, <3>1, <3>2
    <3>3. CASE ~(k = j /\ l = i)
      BY <1>1, <3>1, <3>3
    <3> QED BY <3>2, <3>3
  <2> QED BY <2>4, <2>5 DEF Content
<1> QED BY <1>2, <1>3, <1>4, <1>5, <1>6, <1>7
        DEF Next, Greet, Take, TakeAgain, Handle, Reply, Demand, Broadcast, Move,
            pmVars, fdVars, veVars

(* In an established view, fewer than N - 2F suspecting nodes never make a *)
(* correct node want a change or stop serving, for every N and F, whatever *)
(* tokens come again (upon_token_from_pj, suspected, sup_change).          *)
THEOREM FewInVain == Spec => FewSuspectInVain
<1>1. TypeOK /\ FromOthers /\ [Next]_vars
        => [\A v \in Node :
              (Calm(v) /\ UNCHANGED ve /\ Cardinality(Suspecting') < N - 2 * F)
                => Calm(v)']_vars
  <2> SUFFICES ASSUME TypeOK, FromOthers, Next, NEW v \in Node, Calm(v),
                      UNCHANGED ve, Cardinality(Suspecting') < N - 2 * F
               PROVE  Calm(v)'
    OBVIOUS
  <2>1. Honest(v)'
    BY HonestStep DEF Calm
  <2>2. Content'
    BY ContentStep DEF Calm
  <2> QED BY <2>1, <2>2 DEF Calm
<1> QED BY <1>1, OthersAlways, PTL DEF Spec, FewSuspectInVain

=============================================================================
