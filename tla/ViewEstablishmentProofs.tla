----------------------- MODULE ViewEstablishmentProofs -----------------------
(***************************************************************************)
(* Proofs about ViewEstablishment, for every number of nodes, every choice *)
(* of faulty nodes and every start state.                                  *)
(***************************************************************************)
EXTENDS ViewEstablishment, FiniteSetTheorems, TLAPS

-----------------------------------------------------------------------------
(* Types.                                                                  *)

(* The reset state and the pair a view change aims at have their types.    *)
LEMMA ResetType ==
  ASSUME NEW s \in NodeState
  PROVE  ResetAll(s) \in NodeState
<1> DEFINE vs == [k \in Node |-> RST_PAIR]
           fs == [k \in Node |-> FALSE]
           zs == [k \in Node |-> 0]
<1>1. ResetAll(s) = [s EXCEPT !.views = vs, !.vChange = fs, !.phs = zs,
                      !.witnesses = fs, !.witnesses_set = {},
                      !.aliased = FALSE, !.need_flush = FALSE]
  BY DEF ResetAll
<1>2. vs \in [Node -> Pair]
  BY DEF RST_PAIR, Pair, TEE, DF_VIEW
<1>3. fs \in [Node -> BOOLEAN] /\ zs \in [Node -> Phase]
  BY DEF Phase
<1> HIDE DEF vs, fs, zs
<1> QED BY <1>1, <1>2, <1>3 DEF NodeState

(* The next view is the number of a node.                                  *)
LEMMA NextViewType ==
  ASSUME NEW vp \in Pair
  PROVE  NextViewOf(vp) \in 0 .. N - 1
BY NodesAssumption DEF NextViewOf, Pair

(* The two updates of a pair that the automaton makes: a new next view,    *)
(* and the next view made the current one.                                 *)
LEMMA NewNextType ==
  ASSUME NEW s \in NodeState, NEW i \in Node, NEW v \in Int
  PROVE  /\ [s EXCEPT !.views[i].next = v, !.phs[i] = 1] \in NodeState
         /\ [s EXCEPT !.views[i].next = v, !.vChange[i] = FALSE] \in NodeState
         /\ [s EXCEPT !.views[i].current = v, !.vChange[i] = FALSE, !.phs[i] = 0]
              \in NodeState
<1> DEFINE vs == [s.views EXCEPT ![i] = [s.views[i] EXCEPT !.next = v]]
           cs == [s.views EXCEPT ![i] = [s.views[i] EXCEPT !.current = v]]
           ps == [s.phs EXCEPT ![i] = 1]
           zs == [s.phs EXCEPT ![i] = 0]
           fs == [s.vChange EXCEPT ![i] = FALSE]
<1>1. /\ s.views \in [Node -> Pair]
      /\ s.phs \in [Node -> Phase]
      /\ s.vChange \in [Node -> BOOLEAN]
  BY DEF NodeState
<1>2. /\ [s.views[i] EXCEPT !.next = v] \in Pair
      /\ [s.views[i] EXCEPT !.current = v] \in Pair
  BY <1>1 DEF Pair
<1>3. vs \in [Node -> Pair] /\ cs \in [Node -> Pair]
  BY <1>1, <1>2
<1>4. ps \in [Node -> Phase] /\ zs \in [Node -> Phase]
  BY <1>1 DEF Phase
<1>5. fs \in [Node -> BOOLEAN]
  BY <1>1
<1>6. [s EXCEPT !.views[i].next = v, !.phs[i] = 1]
        = [s EXCEPT !.views = vs, !.phs = ps]
  BY <1>1 DEF NodeState
<1>7. [s EXCEPT !.views[i].next = v, !.vChange[i] = FALSE]
        = [s EXCEPT !.views = vs, !.vChange = fs]
  BY <1>1 DEF NodeState
<1>8. [s EXCEPT !.views[i].current = v, !.vChange[i] = FALSE, !.phs[i] = 0]
        = [s EXCEPT !.views = cs, !.vChange = fs, !.phs = zs]
  BY <1>1 DEF NodeState
<1> HIDE DEF vs, cs, ps, zs, fs
<1> QED BY <1>3, <1>4, <1>5, <1>6, <1>7, <1>8 DEF NodeState

(* The head of the loop keeps the type of the state.                       *)
LEMMA ObserveType ==
  ASSUME NEW s \in NodeState, NEW i \in Node
  PROVE  Observe(s, i) \in NodeState
<1> DEFINE r == IF NeedReset(s, i) THEN ResetAll(s) ELSE s
           w == [r EXCEPT !.witnesses[i] = NoticedRecentValue(r, i)]
<1>1. r \in NodeState
  BY ResetType
<1>2. NoticedRecentValue(r, i) \in BOOLEAN
  BY DEF NoticedRecentValue
<1>3. w \in NodeState
  <2> HIDE DEF r
  <2> QED BY <1>1, <1>2 DEF NodeState
<1>4. Observe(s, i) = [w EXCEPT !.witnesses_set = @ \cup { k \in Node : w.witnesses[k] }]
  BY DEF Observe
<1> HIDE DEF w
<1> QED BY <1>3, <1>4 DEF NodeState

(* Every outcome of the automaton has the type of a state.                 *)
LEMMA AutomationType ==
  ASSUME NEW s \in NodeState, NEW i \in Node, NEW t \in Automation(s, i)
  PROVE  t \in NodeState
<1>1. CASE s.phs[i] = 0
  <2>1. t \in AutomationPhase0(s, i)
    BY <1>1 DEF Automation
  <2>2. s.views[i] \in Pair
    BY DEF NodeState
  <2>3. NextViewOf(s.views[i]) \in Int
    BY <2>2, NextViewType
  <2>4. ASSUME NEW v \in Int
        PROVE  [s EXCEPT !.views[i].next = v, !.phs[i] = 1] \in NodeState
    BY NewNextType
  <2>5. \A p \in Node : s.views[p].next \in Int
    BY DEF NodeState, Pair
  <2>6. \A p \in FirstOf(Adoptable(s, i, 0)) : p \in Node
    BY DEF FirstOf, Adoptable
  <2>7. ResetAll(s) \in NodeState
    BY ResetType
  <2>8. \/ \E p \in FirstOf(Adoptable(s, i, 0)) :
              t = [s EXCEPT !.views[i].next = s.views[p].next, !.phs[i] = 1]
        \/ t = [s EXCEPT !.views[i].next = NextViewOf(s.views[i]), !.phs[i] = 1]
        \/ t = s
        \/ t = ResetAll(s)
    BY <2>1, Zenon DEF AutomationPhase0
  <2> QED
    BY <2>3, <2>4, <2>5, <2>6, <2>7, <2>8
<1>2. CASE s.phs[i] = 1
  <2>1. t \in AutomationPhase1(s, i)
    BY <1>2 DEF Automation
  <2>2. ASSUME NEW v \in Int
        PROVE  [s EXCEPT !.views[i].next = v, !.vChange[i] = FALSE] \in NodeState
    BY NewNextType
  <2>3. [s EXCEPT !.views[i].current = s.views[i].next,
                  !.vChange[i] = FALSE, !.phs[i] = 0] \in NodeState
    <3>1. s.views[i].next \in Int
      BY DEF NodeState, Pair
    <3> QED BY <3>1, NewNextType
  <2>4. [s EXCEPT !.vChange[i] = FALSE] \in NodeState
    BY DEF NodeState
  <2>5. \A p \in Node : s.views[p].next \in Int
    BY DEF NodeState, Pair
  <2>6. \A p \in FirstOf(Adoptable(s, i, 1)) : p \in Node
    BY DEF FirstOf, Adoptable
  <2>7. ResetAll(s) \in NodeState
    BY ResetType
  <2>8. \/ \E p \in FirstOf(Adoptable(s, i, 1)) :
              t = [s EXCEPT !.views[i].next = s.views[p].next,
                            !.vChange[i] = FALSE]
        \/ t = [s EXCEPT !.views[i].current = s.views[i].next,
                         !.vChange[i] = FALSE, !.phs[i] = 0]
        \/ t = [s EXCEPT !.vChange[i] = FALSE]
        \/ t = ResetAll(s)
    BY <2>1, Zenon DEF AutomationPhase1
  <2> QED
    BY <2>2, <2>3, <2>4, <2>5, <2>6, <2>7, <2>8
<1>3. CASE s.phs[i] \notin {0, 1}
  <2>1. Automation(s, i) = {s}
    BY <1>3 DEF Automation
  <2> QED BY <2>1
<1> QED BY <1>1, <1>2, <1>3

(* And so has every outcome of one round of the loop.                      *)
LEMMA RunBodyType ==
  ASSUME NEW s \in NodeState, NEW i \in Node, NEW t \in RunBody(s, i)
  PROVE  t \in NodeState
<1>1. Observe(s, i) \in NodeState
  BY ObserveType
<1>2. PICK u : /\ u \in Automation(Observe(s, i), i) \/ u = Observe(s, i)
               /\ t = Alias(u, i)
  BY DEF RunBody
<1>3. u \in NodeState
  BY <1>1, <1>2, AutomationType
<1> DEFINE es == [u.echo EXCEPT ![i] = [u.echo[i] EXCEPT !.views = u.views[i]]]
<1>4. [u.echo[i] EXCEPT !.views = u.views[i]] \in Info
  <2>1. u.echo[i] \in Info /\ u.views[i] \in Pair
    BY <1>3 DEF NodeState
  <2> QED BY <2>1 DEF Info
<1>5. es \in [Node -> Info]
  BY <1>3, <1>4 DEF NodeState
<1>6. [u EXCEPT !.echo[i].views = u.views[i]] = [u EXCEPT !.echo = es]
  BY <1>3 DEF NodeState
<1>7. [u EXCEPT !.echo = es] \in NodeState
  <2> HIDE DEF es
  <2> QED BY <1>3, <1>5 DEF NodeState
<1>8. Alias(u, i) \in NodeState
  BY <1>3, <1>6, <1>7 DEF Alias
<1> QED BY <1>2, <1>8

(* What a node says or believes of a node is an Info.                      *)
LEMMA InfoType ==
  ASSUME NEW s \in NodeState, NEW k \in Node
  PROVE  InfoOf(s, k) \in Info
BY DEF InfoOf, Info, NodeState

(* Whatever a node claims of itself, lies included, is an Info.            *)
LEMMA OwnDataType ==
  ASSUME TypeOK, NEW i \in Node, NEW j \in Node
  PROVE  OwnData(i, j) \in Info
<1>1. InfoOf(node[i], i) \in Info
  BY InfoType DEF TypeOK
<1>2. \A vp \in Pair : Lie(vp) \in Info
  BY DEF Lie, Info, Phase
<1>3. RST_PAIR \in Pair /\ \A v \in Int : [current |-> v, next |-> v] \in Pair
  BY DEF RST_PAIR, Pair, TEE, DF_VIEW
<1>4. Behaviour[i] = "DIFFERENT_VIEWS" => OwnData(i, j) \in Info
  BY <1>2, <1>3 DEF OwnData
<1>5. Behaviour[i] = "FORCING_RESET" => OwnData(i, j) \in Info
  BY <1>2, <1>3 DEF OwnData
<1>6. Behaviour[i] \notin {"DIFFERENT_VIEWS", "FORCING_RESET"}
        => OwnData(i, j) = InfoOf(node[i], i)
  BY DEF OwnData
<1> QED BY <1>1, <1>4, <1>5, <1>6

(* A message that is absorbed, or not, leaves a state.                     *)
LEMMA AbsorbType ==
  ASSUME NEW s \in NodeState, NEW j \in Node, NEW m \in Message
  PROVE  Absorb(s, j, m) \in NodeState
BY DEF Absorb, NodeState, Message, Info

(* What a torn read of send_msg() puts together is still an Info.          *)
LEMMA TornType ==
  ASSUME NEW old \in Info, NEW new \in Info, NEW a \in TornReads(old, new)
  PROVE  a \in Info
BY DEF TornReads, Info

(* The initial state has its type.                                         *)
LEMMA InitType == Init => TypeOK
BY StartAssumption, NodesAssumption, BoundAssumption DEF Init, TypeOK, Node

(* Every step of the loops, the receivers and the other modules preserves  *)
(* the type.                                                               *)
LEMMA NextType == TypeOK /\ [Next]_vars => TypeOK'
<1> SUFFICES ASSUME TypeOK, [Next]_vars PROVE TypeOK'
  OBVIOUS
<1> USE NodesAssumption
<1>1. ASSUME NEW i \in Node, Run(i) PROVE TypeOK'
  <2>1. PICK t \in RunBody(node[i], i) : node' = [node EXCEPT ![i] = t]
    BY <1>1 DEF Run
  <2>2. t \in NodeState
    BY <2>1, RunBodyType DEF TypeOK
  <2>3. node' \in [Node -> NodeState]
    BY <2>1, <2>2 DEF TypeOK
  <2>4. pc' \in [Node -> 0 .. N]
    BY <1>1 DEF Run, TypeOK
  <2> QED BY <1>1, <2>3, <2>4 DEF Run, TypeOK
<1>2. ASSUME NEW i \in Node, EchoSelf(i) PROVE TypeOK'
  <2> DEFINE s == node[i]
             es == [s.echo EXCEPT ![i] = InfoOf(s, i)]
  <2>1. s \in NodeState
    BY DEF TypeOK
  <2>2. InfoOf(s, i) \in Info
    BY <2>1, InfoType
  <2>3. es \in [Node -> Info]
    BY <2>1, <2>2 DEF NodeState
  <2>4. [s EXCEPT !.echo = es, !.aliased = TRUE] \in NodeState
    <3> HIDE DEF s, es
    <3> QED BY <2>1, <2>3 DEF NodeState
  <2>5. node' = [node EXCEPT ![i] = [s EXCEPT !.echo = es, !.aliased = TRUE]]
    BY <1>2, <2>1 DEF EchoSelf, TypeOK, NodeState
  <2>6. node' \in [Node -> NodeState]
    <3> HIDE DEF s, es
    <3> QED BY <2>4, <2>5 DEF TypeOK
  <2>7. pc' \in [Node -> 0 .. N]
    BY <1>2 DEF EchoSelf, Advance, TypeOK, Node
  <2> QED BY <1>2, <2>6, <2>7 DEF EchoSelf, TypeOK
<1>3. ASSUME NEW i \in Node, NEW j \in Node, SendTo(i, j) PROVE TypeOK'
  <2>1. [own |-> OwnData(i, j), about |-> InfoOf(node[i], j)] \in Message
    BY OwnDataType, InfoType DEF TypeOK, Message
  <2>2. net' \in [Node -> [Node -> Seq(Message)]]
    BY <1>3, <2>1 DEF SendTo, Put, TypeOK
  <2>3. pc' \in [Node -> 0 .. N]
    <3>1. pc[i] \in 0 .. N - 1 /\ pc' = [pc EXCEPT ![i] = pc[i] + 1]
      BY <1>3 DEF SendTo, Advance, Node
    <3> QED BY <3>1 DEF TypeOK
  <2> QED BY <1>3, <2>2, <2>3 DEF SendTo, TypeOK
<1>4. ASSUME NEW i \in Node, NEW j \in Node, Receive(i, j) PROVE TypeOK'
  <2>1. Head(net[j][i]) \in Message /\ Tail(net[j][i]) \in Seq(Message)
    BY <1>4 DEF Receive, TypeOK
  <2>2. Absorb(node[i], j, Head(net[j][i])) \in NodeState
    BY <2>1, AbsorbType DEF TypeOK
  <2>3. node' \in [Node -> NodeState]
    BY <1>4, <2>2 DEF Receive, TypeOK
  <2>4. net' \in [Node -> [Node -> Seq(Message)]]
    BY <1>4, <2>1 DEF Receive, TypeOK
  <2> QED BY <1>4, <2>3, <2>4 DEF Receive, TypeOK
<1>5. ASSUME NEW i \in Node, NEW j \in Node, SendDuringReceive(i, j) PROVE TypeOK'
  <2> DEFINE m == Head(net[j][i])
  <2>1. m \in Message /\ Tail(net[j][i]) \in Seq(Message)
    BY <1>5 DEF SendDuringReceive, TypeOK
  <2>2. Absorb(node[i], j, m) \in NodeState
    BY <2>1, AbsorbType DEF TypeOK
  <2>3. node' \in [Node -> NodeState]
    BY <1>5, <2>2 DEF SendDuringReceive, TypeOK
  <2>4. PICK about \in TornReads(InfoOf(node[i], j), m.own) :
          net' = [net EXCEPT ![j][i] = Tail(@),
                    ![i][j] = IF Sends(i, j)
                                THEN Append(@, [own |-> OwnData(i, j),
                                                about |-> about])
                                ELSE @]
    BY <1>5 DEF SendDuringReceive
  <2>5. about \in Info
    <3>1. InfoOf(node[i], j) \in Info /\ m.own \in Info
      BY <2>1, InfoType DEF TypeOK, Message
    <3> QED BY <2>4, <3>1, TornType
  <2>6. [own |-> OwnData(i, j), about |-> about] \in Message
    BY <2>5, OwnDataType DEF Message
  <2>7. net' \in [Node -> [Node -> Seq(Message)]]
    <3> DEFINE q == IF Sends(i, j)
                      THEN Append(net[i][j], [own |-> OwnData(i, j),
                                              about |-> about])
                      ELSE net[i][j]
               r == Tail(net[j][i])
    <3>1. q \in Seq(Message)
      BY <2>6 DEF TypeOK
    <3>2. j # i
      BY <1>5 DEF SendDuringReceive
    <3>3. net' = [net EXCEPT ![j] = [net[j] EXCEPT ![i] = r],
                             ![i] = [net[i] EXCEPT ![j] = q]]
      BY <2>4, <3>2 DEF TypeOK
    <3> HIDE DEF q, r
    <3>4. r \in Seq(Message)
      BY <2>1 DEF r
    <3>5. [net[j] EXCEPT ![i] = r] \in [Node -> Seq(Message)]
      BY <3>4 DEF TypeOK
    <3>6. [net[i] EXCEPT ![j] = q] \in [Node -> Seq(Message)]
      BY <3>1 DEF TypeOK
    <3> QED BY <3>3, <3>5, <3>6 DEF TypeOK
  <2>8. pc' \in [Node -> 0 .. N]
    <3>1. pc[i] \in 0 .. N - 1 /\ pc' = [pc EXCEPT ![i] = pc[i] + 1]
      BY <1>5 DEF SendDuringReceive, Advance, Node
    <3> QED BY <3>1 DEF TypeOK
  <2> QED BY <1>5, <2>3, <2>7, <2>8 DEF SendDuringReceive, TypeOK
<1>6. ASSUME NEW i \in Node, ViewChange(i) PROVE TypeOK'
  <2>1. node' = [node EXCEPT ![i] =
           [node[i] EXCEPT !.vChange = [node[i].vChange EXCEPT ![i] = TRUE]]]
    BY <1>6 DEF ViewChange, TypeOK, NodeState
  <2>2. node[i] \in NodeState
    BY DEF TypeOK
  <2>3. [node[i] EXCEPT !.vChange = [node[i].vChange EXCEPT ![i] = TRUE]] \in NodeState
    BY <2>2 DEF NodeState
  <2>4. node' \in [Node -> NodeState]
    BY <2>1, <2>3 DEF TypeOK
  <2>5. demands' \in [viewChanges : 0 .. MaxViewChanges, flushes : 0 .. MaxFlushes]
    <3>1. demands.viewChanges \in 0 .. MaxViewChanges
      BY DEF TypeOK
    <3>2. demands.viewChanges + 1 \in 0 .. MaxViewChanges
      BY <1>6, <3>1, BoundAssumption DEF ViewChange
    <3> QED BY <1>6, <3>2 DEF ViewChange, TypeOK
  <2> QED BY <1>6, <2>4, <2>5 DEF ViewChange, TypeOK
<1>7. ASSUME NEW i \in Node, NeedFlush(i) PROVE TypeOK'
  <2>1. node[i] \in NodeState
    BY DEF TypeOK
  <2>2. [node[i] EXCEPT !.need_flush = TRUE] \in NodeState
    BY <2>1 DEF NodeState
  <2>3. node' \in [Node -> NodeState]
    BY <1>7, <2>2 DEF NeedFlush, TypeOK
  <2>4. demands' \in [viewChanges : 0 .. MaxViewChanges, flushes : 0 .. MaxFlushes]
    <3>1. demands.flushes \in 0 .. MaxFlushes
      BY DEF TypeOK
    <3>2. demands.flushes + 1 \in 0 .. MaxFlushes
      BY <1>7, <3>1, BoundAssumption DEF NeedFlush
    <3> QED BY <1>7, <3>2 DEF NeedFlush, TypeOK
  <2> QED BY <1>7, <2>3, <2>4 DEF NeedFlush, TypeOK
<1>8. ASSUME UNCHANGED vars PROVE TypeOK'
  BY <1>8 DEF vars, TypeOK
<1> QED BY <1>1, <1>2, <1>3, <1>4, <1>5, <1>6, <1>7, <1>8 DEF Next

(* All reachable states have their types, whatever the start states.       *)
THEOREM TypeCorrect == Spec => []TypeOK
BY InitType, NextType, PTL DEF Spec

-----------------------------------------------------------------------------
(* Legal pairs.                                                            *)

AllValid(s) == \A k \in Node : Valid(InfoOf(s, k))

(* The next view of a legal current view is another legal view, the default *)
(* one if there is no current view.                                        *)
LEMMA NextViewLegal ==
  ASSUME NEW c \in Node \cup {TEE}
  PROVE  (c + 1) % N \in Node /\ (c + 1) % N # c
<1>1. CASE c = N - 1
  <2>1. (c + 1) % N = 0
    BY <1>1, NodesAssumption
  <2> QED BY <1>1, <2>1, NodesAssumption DEF Node
<1>2. CASE c # N - 1
  <2>1. c + 1 \in 0 .. N - 1
    BY <1>2, NodesAssumption DEF Node, TEE
  <2>2. (c + 1) % N = c + 1
    BY <2>1, NodesAssumption
  <2> QED BY <2>1, <2>2 DEF Node, TEE
<1> QED BY <1>1, <1>2

(* The state after a full reset is legal.                                  *)
LEMMA ResetLegal ==
  ASSUME NEW s \in NodeState
  PROVE  AllValid(ResetAll(s))
BY NodesAssumption
   DEF AllValid, Valid, InfoOf, ResetAll, LegitPhsZero, TypeCheck, RST_PAIR,
       DF_VIEW, Node

(* No case of the automaton makes a legal state illegal.                   *)
LEMMA AutomationLegal ==
  ASSUME NEW s \in NodeState, NEW i \in Node, NEW t \in Automation(s, i),
         AllValid(s)
  PROVE  AllValid(t)
<1>1. \A k \in Node : s.views[k] \in Pair /\ s.phs[k] \in Phase
  BY DEF NodeState
<1>2. AllValid(ResetAll(s))
  BY ResetLegal
<1>3. \A k \in Node : /\ s.views[k].next \in Node
                      /\ s.views[k].current \in Node \cup {TEE}
  BY DEF AllValid, Valid, InfoOf, LegitPhsZero, LegitPhsOne, TypeCheck
<1>4. ASSUME NEW v \in Node, v # s.views[i].current
      PROVE  /\ AllValid([s EXCEPT !.views[i].next = v, !.phs[i] = 1])
             /\ s.phs[i] = 1 =>
                  AllValid([s EXCEPT !.views[i].next = v, !.vChange[i] = FALSE])
  BY <1>1, <1>3, <1>4
     DEF AllValid, Valid, InfoOf, LegitPhsOne, TypeCheck, NodeState, Pair
<1>5. \A phase : \A p \in FirstOf(Adoptable(s, i, phase)) :
         p \in Node /\ s.views[p].next # s.views[i].current
  BY DEF FirstOf, Adoptable
<1>6. CASE s.phs[i] = 0
  <2>1. t \in AutomationPhase0(s, i)
    BY <1>6 DEF Automation
  <2>2. /\ NextViewOf(s.views[i]) \in Node
        /\ NextViewOf(s.views[i]) # s.views[i].current
    BY <1>3, NextViewLegal DEF NextViewOf
  <2> QED BY <1>2, <1>3, <1>4, <1>5, <2>1, <2>2 DEF AutomationPhase0
<1>7. CASE s.phs[i] = 1
  <2>1. t \in AutomationPhase1(s, i)
    BY <1>7 DEF Automation
  <2>2. AllValid([s EXCEPT !.views[i].current = s.views[i].next,
                           !.vChange[i] = FALSE, !.phs[i] = 0])
    BY <1>1, <1>3
       DEF AllValid, Valid, InfoOf, LegitPhsZero, TypeCheck, NodeState, Pair
  <2>3. AllValid([s EXCEPT !.vChange[i] = FALSE])
    BY DEF AllValid, Valid, InfoOf, NodeState
  <2> QED BY <1>2, <1>3, <1>4, <1>5, <1>7, <2>1, <2>2, <2>3 DEF AutomationPhase1
<1>8. CASE s.phs[i] \notin {0, 1}
  <2>1. Automation(s, i) = {s}
    BY <1>8 DEF Automation
  <2> QED BY <2>1
<1> QED BY <1>6, <1>7, <1>8

(* One round of the loop keeps a legal state legal.                        *)
LEMMA RunBodyLegal ==
  ASSUME NEW s \in NodeState, NEW i \in Node, NEW t \in RunBody(s, i),
         AllValid(s)
  PROVE  AllValid(t)
<1> DEFINE o == Observe(s, i)
           r == IF NeedReset(s, i) THEN ResetAll(s) ELSE s
<1>1. o \in NodeState
  BY ObserveType
<1>2. AllValid(r)
  BY ResetLegal
<1>3. o.views = r.views /\ o.phs = r.phs
  BY DEF Observe, NodeState, ResetAll
<1>4. AllValid(o)
  BY <1>2, <1>3 DEF AllValid, Valid, InfoOf
<1>5. PICK u : /\ u \in Automation(o, i) \/ u = o
               /\ t = Alias(u, i)
  BY DEF RunBody
<1> HIDE DEF o, r
<1>6. u \in NodeState /\ AllValid(u)
  BY <1>1, <1>4, <1>5, AutomationLegal, AutomationType
<1>7. t.views = u.views /\ t.phs = u.phs
  BY <1>5, <1>6 DEF Alias, NodeState
<1> QED BY <1>6, <1>7 DEF AllValid, Valid, InfoOf

(* A message is absorbed only if what it claims is legal.                  *)
LEMMA AbsorbLegal ==
  ASSUME NEW s \in NodeState, NEW j \in Node, NEW m \in Message, AllValid(s)
  PROVE  AllValid(Absorb(s, j, m))
BY DEF Absorb, AllValid, Valid, InfoOf, NodeState, Message, Info

(* What a node holds stays legal once all of it is.                        *)
THEOREM LegitIsForever == Spec => LegitForever
<1>1. ASSUME TypeOK, [Next]_vars, NEW n \in Node, Legit(n)
      PROVE  Legit(n)'
  <2>0. node[n] \in NodeState /\ AllValid(node[n])
    BY <1>1 DEF TypeOK, Legit, AllValid
  <2> SUFFICES AllValid(node'[n])
    BY DEF Legit, AllValid
  <2>1. ASSUME NEW i \in Node, Run(i) PROVE AllValid(node'[n])
    <3>1. PICK t \in RunBody(node[i], i) : node' = [node EXCEPT ![i] = t]
      BY <2>1 DEF Run
    <3>2. CASE n = i
      <4>1. t \in RunBody(node[n], n) /\ node'[n] = t
        BY <1>1, <3>1, <3>2 DEF TypeOK
      <4> QED BY <2>0, <4>1, RunBodyLegal
    <3>3. CASE n # i
      BY <1>1, <2>0, <3>1, <3>3 DEF TypeOK
    <3> QED BY <3>2, <3>3
  <2>2. ASSUME NEW i \in Node, EchoSelf(i) PROVE AllValid(node'[n])
    <3>1. node'[n].views = node[n].views /\ node'[n].phs = node[n].phs
      BY <1>1, <2>0, <2>2 DEF EchoSelf, TypeOK, NodeState
    <3> QED BY <2>0, <3>1 DEF AllValid, Valid, InfoOf
  <2>3. ASSUME NEW i \in Node, NEW j \in Node, SendTo(i, j)
        PROVE  AllValid(node'[n])
    BY <2>0, <2>3 DEF SendTo
  <2>4. ASSUME NEW i \in Node, NEW j \in Node,
               Receive(i, j) \/ SendDuringReceive(i, j)
        PROVE  AllValid(node'[n])
    <3>1. /\ net[j][i] # <<>>
          /\ node' = [node EXCEPT ![i] = Absorb(node[i], j, Head(net[j][i]))]
      BY <2>4 DEF Receive, SendDuringReceive
    <3>2. Head(net[j][i]) \in Message
      BY <1>1, <3>1 DEF TypeOK
    <3>3. CASE n = i
      <4>1. node'[n] = Absorb(node[n], j, Head(net[j][i]))
        BY <1>1, <3>1, <3>3 DEF TypeOK
      <4> QED BY <2>0, <3>2, <4>1, AbsorbLegal
    <3>4. CASE n # i
      BY <1>1, <2>0, <3>1, <3>4 DEF TypeOK
    <3> QED BY <3>3, <3>4
  <2>5. ASSUME NEW i \in Node, ViewChange(i) \/ NeedFlush(i)
        PROVE  AllValid(node'[n])
    <3>1. PICK s : /\ node' = [node EXCEPT ![i] = s]
                   /\ s.views = node[i].views /\ s.phs = node[i].phs
      <4>1. node[i] \in NodeState
        BY <1>1 DEF TypeOK
      <4>2. CASE ViewChange(i)
        <5> DEFINE s == [node[i] EXCEPT
                          !.vChange = [node[i].vChange EXCEPT ![i] = TRUE]]
        <5>1. node' = [node EXCEPT ![i] = s]
          BY <1>1, <4>2 DEF ViewChange, TypeOK, NodeState
        <5>2. s.views = node[i].views /\ s.phs = node[i].phs
          BY <4>1 DEF NodeState
        <5> QED BY <5>1, <5>2
      <4>3. CASE NeedFlush(i)
        <5> DEFINE s == [node[i] EXCEPT !.need_flush = TRUE]
        <5>1. node' = [node EXCEPT ![i] = s]
          BY <1>1, <4>3 DEF NeedFlush, TypeOK, NodeState
        <5>2. s.views = node[i].views /\ s.phs = node[i].phs
          BY <4>1 DEF NodeState
        <5> QED BY <5>1, <5>2
      <4> QED BY <2>5, <4>2, <4>3
    <3>2. node'[n].views = node[n].views /\ node'[n].phs = node[n].phs
      BY <1>1, <3>1 DEF TypeOK
    <3> QED BY <2>0, <3>2 DEF AllValid, Valid, InfoOf
  <2>6. CASE UNCHANGED vars
    BY <2>0, <2>6 DEF vars
  <2> QED BY <1>1, <2>1, <2>2, <2>3, <2>4, <2>5, <2>6 DEF Next
<1>2. TypeOK /\ [Next]_vars => [\A i \in Node : Legit(i) => Legit(i)']_vars
  BY <1>1
<1> QED BY <1>2, TypeCorrect, PTL DEF Spec, LegitForever

-----------------------------------------------------------------------------
(* Stability of an established view.                                       *)

Faulty == Node \ Correct

(* There are N nodes, and sets of nodes have cardinalities.                *)
LEMMA Counting ==
  /\ IsFiniteSet(Node) /\ Cardinality(Node) = N
  /\ \A S \in SUBSET Node : IsFiniteSet(S) /\ Cardinality(S) \in Nat
  /\ \A S, T \in SUBSET Node :
       /\ S \subseteq T => Cardinality(S) <= Cardinality(T)
       /\ Cardinality(S \cup T) <= Cardinality(S) + Cardinality(T)
<1>1. IsFiniteSet(Node) /\ Cardinality(Node) = N
  BY NodesAssumption, FS_Interval DEF Node
<1>2. ASSUME NEW S \in SUBSET Node
      PROVE  IsFiniteSet(S) /\ Cardinality(S) \in Nat
  BY <1>1, FS_Subset, FS_CardinalityType
<1>3. ASSUME NEW S \in SUBSET Node, NEW T \in SUBSET Node
      PROVE  /\ S \subseteq T => Cardinality(S) <= Cardinality(T)
             /\ Cardinality(S \cup T) <= Cardinality(S) + Cardinality(T)
  <2>1. IsFiniteSet(S) /\ IsFiniteSet(T)
    BY <1>2
  <2>2. S \subseteq T => Cardinality(S) <= Cardinality(T)
    BY <2>1, FS_Subset
  <2>3. Cardinality(S \cup T)
          = Cardinality(S) + Cardinality(T) - Cardinality(S \cap T)
    BY <2>1, FS_Union
  <2>4. /\ Cardinality(S) \in Nat /\ Cardinality(T) \in Nat
        /\ Cardinality(S \cap T) \in Nat
    BY <1>2
  <2> QED BY <2>2, <2>3, <2>4
<1> QED BY <1>1, <1>2, <1>3

(* A node of a state in which all correct nodes are settled in view v, and *)
(* only the nodes of D and faulty ones want a view change.                 *)
SettledState(s, v, D) ==
  \A k \in Correct : /\ s.phs[k] = 0
                     /\ s.views[k] = [current |-> v, next |-> v]
                     /\ s.vChange[k] => k \in D

(* In such a state no case of the automaton but to wait applies: faulty    *)
(* nodes alone make no pair adoptable, with the nodes of D no view change, *)
(* and the correct ones are enough to remain.                              *)
LEMMA AutomationWaits ==
  ASSUME Cardinality(Faulty) <= F,
         NEW s \in NodeState, NEW i \in Correct, NEW v \in Node,
         NEW D \in SUBSET Node, SettledState(s, v, D),
         Cardinality(D) + 2 * F < N - F
  PROVE  Automation(s, i) = {s}
<1>0. i \in Node /\ Correct \subseteq Node /\ Faulty \subseteq Node
      /\ N \in Nat /\ F \in Nat
  BY NodesAssumption DEF Correct, Faulty
<1>1. s.phs[i] = 0 /\ s.views[i] = [current |-> v, next |-> v]
  BY DEF SettledState
<1>2. Cardinality(D) \in Nat /\ Cardinality(Faulty) \in Nat
  BY <1>0, Counting
<1>3. Adoptable(s, i, 0) = {}
  <2> SUFFICES ASSUME NEW p \in Adoptable(s, i, 0) PROVE FALSE
    OBVIOUS
  <2> DEFINE S == SameVSet(s, p) \cup TransitSet(s, p, 0, "FOLLOW")
  <2>1. p \in Node /\ s.views[p].next # v /\ TransitAdoptable(s, p, 0, "FOLLOW")
    BY <1>1 DEF Adoptable
  <2>2. S \subseteq Faulty
    <3>1. \A k \in SameVSet(s, p) : k \in Node /\ s.views[k].next # v
      BY <2>1 DEF SameVSet
    <3>2. \A k \in TransitSet(s, p, 0, "FOLLOW") : k \in Node /\ s.phs[k] # 0
      BY DEF TransitSet
    <3> QED BY <3>1, <3>2 DEF Faulty, SettledState
  <2>3. Cardinality(S) <= Cardinality(Faulty) /\ Cardinality(S) \in Nat
    <3> HIDE DEF S
    <3>1. S \in SUBSET Node
      BY <1>0, <2>2
    <3> QED BY <1>0, <2>2, <3>1, Counting
  <2>4. Cardinality(S) >= N - 2 * F
    BY <2>1 DEF TransitAdoptable
  <2> HIDE DEF S
  <2> QED BY <1>0, <1>2, <2>3, <2>4
<1>4. ~ Changeable(s, i)
  <2> DEFINE A == { k \in Node : s.vChange[k] }
             B == { k \in Node : s.views[k].next = NextViewOf(s.views[i]) }
  <2>1. NextViewOf(s.views[i]) # v
    BY <1>1, NextViewLegal DEF NextViewOf
  <2>2. A \subseteq D \cup Faulty /\ B \subseteq Faulty
    BY <2>1 DEF SettledState, Faulty
  <2>3. Changeable(s, i) <=> Cardinality(A) + Cardinality(B) >= N - F
    BY DEF Changeable
  <2>4. A \in SUBSET Node /\ B \in SUBSET Node /\ D \cup Faulty \in SUBSET Node
    BY <1>0
  <2> HIDE DEF A, B
  <2>5. /\ Cardinality(A) <= Cardinality(D \cup Faulty)
        /\ Cardinality(D \cup Faulty) <= Cardinality(D) + Cardinality(Faulty)
        /\ Cardinality(B) <= Cardinality(Faulty)
    BY <1>0, <2>2, <2>4, Counting
  <2>6. /\ Cardinality(A) \in Nat /\ Cardinality(B) \in Nat
        /\ Cardinality(D \cup Faulty) \in Nat
    BY <2>4, Counting
  <2> QED BY <1>0, <1>2, <2>3, <2>5, <2>6
<1>5. s.views[i] # RST_PAIR
  BY <1>1 DEF RST_PAIR, TEE, Node
<1>6. TransitAdoptable(s, i, 0, "REMAIN")
  <2> DEFINE S == SameVSet(s, i) \cup TransitSet(s, i, 0, "REMAIN")
  <2>1. Correct \subseteq S
    <3>1. \A k \in Correct : ~ StaleV(s, k)
      BY NodesAssumption DEF SettledState, StaleV, LegitPhsZero, TypeCheck
    <3> QED BY <1>0, <1>1, <3>1 DEF SettledState, SameVSet
  <2>2. S \in SUBSET Node
    BY DEF SameVSet, TransitSet
  <2>3. N <= Cardinality(Correct) + Cardinality(Faulty)
    <3>1. Correct \cup Faulty = Node
      BY <1>0 DEF Faulty
    <3> QED BY <1>0, <3>1, Counting
  <2>4. Cardinality(S) >= Cardinality(Correct)
        /\ Cardinality(S) \in Nat /\ Cardinality(Correct) \in Nat
    <3> HIDE DEF S
    <3> QED BY <1>0, <2>1, <2>2, Counting
  <2>5. TransitAdoptable(s, i, 0, "REMAIN") <=> Cardinality(S) >= N - 2 * F
    BY DEF TransitAdoptable
  <2> HIDE DEF S
  <2> QED BY <1>0, <1>2, <2>3, <2>4, <2>5
<1>7. AutomationPhase0(s, i) = {s}
  BY <1>3, <1>4, <1>5, <1>6, Zenon DEF AutomationPhase0
<1>8. Automation(s, i) = AutomationPhase0(s, i)
  BY <1>1 DEF Automation
<1> QED BY <1>7, <1>8

(* So its loop changes nothing of what it believes of views and phases.    *)
LEMMA RunBodyWaits ==
  ASSUME Cardinality(Faulty) <= F,
         NEW s \in NodeState, NEW i \in Correct, NEW v \in Node,
         NEW D \in SUBSET Node, SettledState(s, v, D), ~s.need_flush,
         Cardinality(D) + 2 * F < N - F,
         NEW t \in RunBody(s, i)
  PROVE  t.phs = s.phs /\ t.views = s.views /\ t.vChange = s.vChange
<1> DEFINE o == Observe(s, i)
<1>0. i \in Node
  BY DEF Correct
<1>1. ~ NeedReset(s, i)
  <2>1. s.phs[i] = 0 /\ s.views[i] = [current |-> v, next |-> v]
    BY DEF SettledState
  <2> QED BY <2>1 DEF NeedReset, StaleV, LegitPhsZero, TypeCheck
<1>2. o.phs = s.phs /\ o.views = s.views /\ o.vChange = s.vChange
  BY <1>1 DEF Observe, NodeState
<1>3. o \in NodeState /\ SettledState(o, v, D)
  BY <1>0, <1>2, ObserveType DEF SettledState
<1>4. Automation(o, i) = {o}
  BY <1>3, AutomationWaits
<1>5. t = Alias(o, i)
  BY <1>4 DEF RunBody
<1> HIDE DEF o
<1> QED BY <1>2, <1>3, <1>5 DEF Alias, NodeState

(* What a step has to keep for view v to stay established: no correct node *)
(* lowers its flag, and whatever it believes, or has been sent, of a       *)
(* correct node says v and no flag that is not raised.                     *)
Holds(info, k, v) == Settled(info, v) /\ (info.vChange => node'[k].vChange[k])

(* Then the view is still established after the step.                     *)
LEMMA InViewNext ==
  ASSUME NEW v \in Node, TypeOK, InView(v),
         \A k \in Correct : node[k].vChange[k] => node'[k].vChange[k],
         \A i, k \in Correct :
            \/ InfoOf(node'[i], k) = InfoOf(node[i], k)
            \/ Holds(InfoOf(node'[i], k), k, v),
         \A i, k \in Correct :
            \A n \in 1 .. Len(net'[k][i]) :
               \/ \E q \in 1 .. Len(net[k][i]) : net'[k][i][n] = net[k][i][q]
               \/ Holds(net'[k][i][n].own, k, v)
  PROVE  InView(v)'
<1>1. ASSUME NEW i \in Correct, NEW k \in Correct
      PROVE  Holds(InfoOf(node'[i], k), k, v)
  BY DEF InView, Holds, Backed
<1>2. ASSUME NEW i \in Correct, NEW k \in Correct,
             NEW n \in 1 .. Len(net'[k][i])
      PROVE  Holds(net'[k][i][n].own, k, v)
  BY DEF InView, Holds, Backed
<1> QED BY <1>1, <1>2 DEF InView, Holds, Backed, Settled, InfoOf

(* The elements of a queue after a message was put at its end.             *)
LEMMA Appended ==
  ASSUME NEW q \in Seq(Message), NEW m \in Message,
         NEW x \in 1 .. Len(Append(q, m))
  PROVE  (\E y \in 1 .. Len(q) : Append(q, m)[x] = q[y]) \/ Append(q, m)[x] = m
OBVIOUS

(* And after a message was taken from its head.                            *)
LEMMA Taken ==
  ASSUME NEW q \in Seq(Message), q # <<>>, NEW x \in 1 .. Len(Tail(q))
  PROVE  \E y \in 1 .. Len(q) : Tail(q)[x] = q[y]
<1>1. Tail(q)[x] = q[x + 1] /\ x + 1 \in 1 .. Len(q)
  OBVIOUS
<1> QED BY <1>1

(* What a correct node puts in its messages of itself.                     *)
LEMMA OwnHolds ==
  ASSUME NEW v \in Node, InView(v), NEW i \in Correct, NEW j \in Node,
         node[i].vChange[i] => node'[i].vChange[i]
  PROVE  Holds(OwnData(i, j), i, v)
<1>1. OwnData(i, j) = InfoOf(node[i], i)
  BY DEF OwnData, Correct
<1> QED BY <1>1 DEF InView, Holds, Backed

(* The message at the head of a queue leaves what is held of correct nodes *)
(* as it was, or brings what their queues hold.                            *)
LEMMA AbsorbHolds ==
  ASSUME NEW v \in Node, TypeOK, InView(v), NEW i \in Node, NEW j \in Node,
         j # i, net[j][i] # <<>>,
         node' = [node EXCEPT ![i] = Absorb(node[i], j, Head(net[j][i]))]
  PROVE  /\ \A k \in Correct : node[k].vChange[k] => node'[k].vChange[k]
         /\ \A n, k \in Correct : \/ InfoOf(node'[n], k) = InfoOf(node[n], k)
                                  \/ Holds(InfoOf(node'[n], k), k, v)
<1> DEFINE m == Head(net[j][i])
<1>0. Correct \subseteq Node
  BY DEF Correct
<1>1. m \in Message /\ m = net[j][i][1] /\ 1 \in 1 .. Len(net[j][i])
  BY DEF TypeOK
<1>2. node[i] \in NodeState
  BY DEF TypeOK
<1>3. \A n \in Node : node'[n] = IF n = i THEN Absorb(node[i], j, m) ELSE node[n]
  BY DEF TypeOK
<1> HIDE DEF m
<1>4. /\ \A k \in Node : k # j =>
           InfoOf(Absorb(node[i], j, m), k) = InfoOf(node[i], k)
      /\ \/ InfoOf(Absorb(node[i], j, m), j) = InfoOf(node[i], j)
         \/ InfoOf(Absorb(node[i], j, m), j) = m.own
  <2>1. CASE Valid(m.own)
    <3> DEFINE t == Absorb(node[i], j, m)
    <3>1. m.own \in Info
      BY <1>1 DEF Message
    <3>2. /\ t.views = [node[i].views EXCEPT ![j] = m.own.views]
          /\ t.phs = [node[i].phs EXCEPT ![j] = m.own.phase]
          /\ t.witnesses = [node[i].witnesses EXCEPT ![j] = m.own.witnesses]
          /\ t.vChange = [node[i].vChange EXCEPT ![j] = m.own.vChange]
      BY <1>2, <2>1 DEF Absorb, NodeState
    <3>3. /\ node[i].views \in [Node -> Pair]
          /\ node[i].phs \in [Node -> Phase]
          /\ node[i].witnesses \in [Node -> BOOLEAN]
          /\ node[i].vChange \in [Node -> BOOLEAN]
      BY <1>2 DEF NodeState
    <3> HIDE DEF t
    <3>4. \A k \in Node : k # j => InfoOf(t, k) = InfoOf(node[i], k)
      BY <3>2, <3>3 DEF InfoOf
    <3>5. InfoOf(t, j) = m.own
      BY <3>1, <3>2, <3>3 DEF InfoOf, Info
    <3> QED BY <3>4, <3>5 DEF t
  <2>2. CASE ~Valid(m.own)
    BY <2>2 DEF Absorb
  <2> QED BY <2>1, <2>2
<1>5. \A n, k \in Node : n # i \/ k # j =>
         InfoOf(node'[n], k) = InfoOf(node[n], k)
  BY <1>3, <1>4
<1>6. \A k \in Correct : node[k].vChange[k] => node'[k].vChange[k]
  <2>1. \A k \in Node : InfoOf(node'[k], k) = InfoOf(node[k], k)
    BY <1>5
  <2> QED BY <1>0, <2>1 DEF InfoOf
<1>7. ASSUME i \in Correct, j \in Correct
      PROVE  \/ InfoOf(node'[i], j) = InfoOf(node[i], j)
             \/ Holds(InfoOf(node'[i], j), j, v)
  <2>1. Settled(m.own, v) /\ Backed(m.own, j)
    BY <1>1, <1>7 DEF InView
  <2>2. Holds(m.own, j, v)
    BY <1>6, <1>7, <2>1 DEF Holds, Backed
  <2> QED BY <1>3, <1>4, <2>2
<1> QED BY <1>0, <1>5, <1>6, <1>7

(* An established view is left only if N - 3F correct nodes ask for it, or *)
(* Replication demands a flush, if at most F nodes are faulty.             *)
THEOREM ViewStability ==
  ASSUME Cardinality(Node \ Correct) <= F
  PROVE  Spec => ViewIsStable
<1>1. ASSUME TypeOK, [Next]_vars, NEW v \in Node, InView(v), Undisturbed
      PROVE  InView(v)'
  <2>0. /\ \A i \in Correct : i \in Node /\ node[i] \in NodeState
        /\ \A i \in Correct : /\ SettledState(node[i], v, Demanders)
                               /\ Behaviour[i] = "NONE"
        /\ Demanders \in SUBSET Node
        /\ Cardinality(Demanders) + 2 * F < N - F
        /\ Cardinality(Faulty) <= F
    <3>1. \A i \in Correct : i \in Node /\ Behaviour[i] = "NONE"
      BY DEF Correct
    <3>2. \A i \in Correct : SettledState(node[i], v, Demanders)
      BY <1>1 DEF InView, Settled, Backed, InfoOf, SettledState, Demanders
    <3> QED BY <1>1, <3>1, <3>2 DEF TypeOK, Demanders, Undisturbed, Faulty
  <2>1. ASSUME NEW i \in Node, Run(i) PROVE InView(v)'
    <3>1. PICK t \in RunBody(node[i], i) : node' = [node EXCEPT ![i] = t]
      BY <2>1 DEF Run
    <3>2. ASSUME NEW n \in Correct
          PROVE  /\ node'[n].phs = node[n].phs /\ node'[n].views = node[n].views
                 /\ node'[n].vChange = node[n].vChange
      <4>1. CASE n = i
        <5>1. node'[n] = t /\ t \in RunBody(node[n], n) /\ ~node[n].need_flush
          BY <1>1, <3>1, <4>1 DEF TypeOK, Undisturbed
        <5> QED BY <2>0, <5>1, RunBodyWaits
      <4>2. CASE n # i
        BY <1>1, <2>0, <3>1, <4>2 DEF TypeOK
      <4> QED BY <4>1, <4>2
    <3>3. net' = net
      BY <2>1 DEF Run
    <3>4. \A n, k \in Correct : Holds(InfoOf(node'[n], k), k, v)
      BY <1>1, <3>2 DEF InView, Holds, Backed, Settled, InfoOf
    <3> QED BY <1>1, <3>2, <3>3, <3>4, InViewNext
  <2>2. ASSUME NEW i \in Node, EchoSelf(i) PROVE InView(v)'
    <3>1. ASSUME NEW n \in Correct
          PROVE  /\ node'[n].phs = node[n].phs /\ node'[n].views = node[n].views
                 /\ node'[n].vChange = node[n].vChange
      BY <1>1, <2>0, <2>2 DEF EchoSelf, TypeOK, NodeState
    <3>2. net' = net
      BY <2>2 DEF EchoSelf
    <3>3. \A n, k \in Correct : Holds(InfoOf(node'[n], k), k, v)
      BY <1>1, <3>1 DEF InView, Holds, Backed, Settled, InfoOf
    <3> QED BY <1>1, <3>1, <3>2, <3>3, InViewNext
  <2>3. ASSUME NEW i \in Node, NEW j \in Node, SendTo(i, j) PROVE InView(v)'
    <3>1. node' = node
      BY <2>3 DEF SendTo
    <3>2. ASSUME NEW n \in Correct, NEW k \in Correct,
                 NEW x \in 1 .. Len(net'[k][n])
          PROVE  \/ \E q \in 1 .. Len(net[k][n]) : net'[k][n][x] = net[k][n][q]
                 \/ Holds(net'[k][n][x].own, k, v)
      <4> DEFINE m == [own |-> OwnData(i, j), about |-> InfoOf(node[i], j)]
      <4>1. net' = net \/ net' = [net EXCEPT ![i][j] = Append(net[i][j], m)]
        BY <2>3 DEF SendTo, Put
      <4>2. m \in Message
        BY <1>1, OwnDataType, InfoType DEF TypeOK, Message
      <4>3. CASE net'[k][n] = net[k][n]
        BY <3>2, <4>3
      <4>4. CASE net'[k][n] # net[k][n]
        <5>1. k = i /\ n = j /\ net'[k][n] = Append(net[k][n], m)
          <6> DEFINE q == Append(net[i][j], m)
          <6>1. net' = [net EXCEPT ![i][j] = q]
            BY <4>1, <4>4
          <6> HIDE DEF q
          <6>2. k = i /\ n = j /\ net'[k][n] = q
            BY <1>1, <2>0, <4>4, <6>1 DEF TypeOK
          <6> QED BY <6>2 DEF q
        <5>2. m.own = OwnData(k, n)
          BY <5>1
        <5> HIDE DEF m
        <5>3. Holds(m.own, k, v)
          BY <1>1, <2>0, <3>1, <5>2, OwnHolds
        <5>4. net[k][n] \in Seq(Message)
          BY <1>1, <2>0 DEF TypeOK
        <5> QED BY <3>2, <4>2, <5>1, <5>3, <5>4, Appended
      <4> QED BY <4>3, <4>4
    <3> QED BY <1>1, <3>1, <3>2, InViewNext
  <2>4. ASSUME NEW i \in Node, NEW j \in Node, Receive(i, j) PROVE InView(v)'
    <3>1. /\ \A k \in Correct : node[k].vChange[k] => node'[k].vChange[k]
          /\ \A n, k \in Correct : \/ InfoOf(node'[n], k) = InfoOf(node[n], k)
                                   \/ Holds(InfoOf(node'[n], k), k, v)
      BY <1>1, <2>4, AbsorbHolds DEF Receive
    <3>2. ASSUME NEW n \in Correct, NEW k \in Correct,
                 NEW x \in 1 .. Len(net'[k][n])
          PROVE  \E q \in 1 .. Len(net[k][n]) : net'[k][n][x] = net[k][n][q]
      <4>1. net[k][n] \in Seq(Message)
        BY <1>1, <2>0 DEF TypeOK
      <4>2. \/ net'[k][n] = net[k][n]
            \/ net[k][n] # <<>> /\ net'[k][n] = Tail(net[k][n])
        BY <1>1, <2>0, <2>4 DEF Receive, TypeOK
      <4>3. CASE net'[k][n] = net[k][n]
        BY <3>2, <4>3
      <4>4. CASE net[k][n] # <<>> /\ net'[k][n] = Tail(net[k][n])
        BY <3>2, <4>1, <4>4, Taken
      <4> QED BY <4>2, <4>3, <4>4
    <3> QED BY <1>1, <3>1, <3>2, InViewNext
  <2>5. ASSUME NEW i \in Node, NEW j \in Node, SendDuringReceive(i, j)
        PROVE  InView(v)'
    <3>1. /\ \A k \in Correct : node[k].vChange[k] => node'[k].vChange[k]
          /\ \A n, k \in Correct : \/ InfoOf(node'[n], k) = InfoOf(node[n], k)
                                   \/ Holds(InfoOf(node'[n], k), k, v)
      BY <1>1, <2>5, AbsorbHolds DEF SendDuringReceive
    <3>2. ASSUME NEW n \in Correct, NEW k \in Correct,
                 NEW x \in 1 .. Len(net'[k][n])
          PROVE  \/ \E q \in 1 .. Len(net[k][n]) : net'[k][n][x] = net[k][n][q]
                 \/ Holds(net'[k][n][x].own, k, v)
      <4>0. net[k][n] \in Seq(Message)
        BY <1>1, <2>0 DEF TypeOK
      <4>1. PICK about \in TornReads(InfoOf(node[i], j), Head(net[j][i]).own) :
              net' = [net EXCEPT ![j][i] = Tail(@),
                        ![i][j] = IF Sends(i, j)
                                    THEN Append(@, [own |-> OwnData(i, j),
                                                    about |-> about])
                                    ELSE @]
        BY <2>5 DEF SendDuringReceive
      <4> DEFINE m == [own |-> OwnData(i, j), about |-> about]
      <4>2. /\ j # i /\ net[j][i] # <<>>
            /\ m \in Message
        <5>1. j # i /\ net[j][i] # <<>>
          BY <2>5 DEF SendDuringReceive
        <5>2. Head(net[j][i]) \in Message
          BY <1>1, <5>1 DEF TypeOK
        <5>3. InfoOf(node[i], j) \in Info /\ Head(net[j][i]).own \in Info
          BY <1>1, <5>2, InfoType DEF TypeOK, Message
        <5>4. about \in Info
          BY <4>1, <5>3, TornType
        <5> QED BY <1>1, <5>1, <5>4, OwnDataType DEF Message
      <4>3. CASE k = j /\ n = i
        <5>1. net[k][n] # <<>> /\ net'[k][n] = Tail(net[k][n])
          BY <1>1, <4>1, <4>2, <4>3 DEF TypeOK
        <5> QED BY <3>2, <4>0, <5>1, Taken
      <4>4. CASE k = i /\ n = j
        <5>1. net'[k][n] = Append(net[k][n], m) \/ net'[k][n] = net[k][n]
          BY <1>1, <4>1, <4>2, <4>4 DEF TypeOK
        <5>2. m.own = OwnData(k, n)
          BY <4>4
        <5> HIDE DEF m
        <5>3. Holds(m.own, k, v)
          BY <1>1, <2>0, <3>1, <5>2, OwnHolds
        <5> QED BY <3>2, <4>0, <4>2, <5>1, <5>3, Appended
      <4>5. CASE ~(k = j /\ n = i) /\ ~(k = i /\ n = j)
        <5>1. net'[k][n] = net[k][n]
          BY <1>1, <2>0, <4>1, <4>2, <4>5 DEF TypeOK
        <5> QED BY <3>2, <5>1
      <4> QED BY <4>3, <4>4, <4>5
    <3> QED BY <1>1, <3>1, <3>2, InViewNext
  <2>6. ASSUME NEW i \in Node, ViewChange(i) PROVE InView(v)'
    <3>1. node' = [node EXCEPT ![i] =
             [node[i] EXCEPT !.vChange = [node[i].vChange EXCEPT ![i] = TRUE]]]
      BY <1>1, <2>6 DEF ViewChange, TypeOK, NodeState
    <3>2. ASSUME NEW n \in Correct, NEW k \in Correct
          PROVE  /\ node[k].vChange[k] => node'[k].vChange[k]
                 /\ \/ InfoOf(node'[n], k) = InfoOf(node[n], k)
                    \/ Holds(InfoOf(node'[n], k), k, v)
      <4> DEFINE s == [node[i] EXCEPT
                        !.vChange = [node[i].vChange EXCEPT ![i] = TRUE]]
      <4>0. \A p \in Node : node'[p] = IF p = i THEN s ELSE node[p]
        <5> HIDE DEF s
        <5>1. node' = [node EXCEPT ![i] = s]
          BY <3>1 DEF s
        <5> QED BY <1>1, <5>1 DEF TypeOK
      <4>3. /\ s.phs = node[i].phs /\ s.views = node[i].views
            /\ s.witnesses = node[i].witnesses
            /\ \A p \in Node : (p # i => s.vChange[p] = node[i].vChange[p])
                              /\ (p = i => s.vChange[p])
        <5>1. node[i] \in NodeState
          BY <1>1 DEF TypeOK
        <5>2. node[i].vChange \in [Node -> BOOLEAN]
          BY <5>1 DEF NodeState
        <5>3. s.vChange = [node[i].vChange EXCEPT ![i] = TRUE]
          BY <5>1 DEF NodeState
        <5>4. \A p \in Node : (p # i => s.vChange[p] = node[i].vChange[p])
                              /\ (p = i => s.vChange[p])
          BY <5>2, <5>3
        <5>5. /\ s.phs = node[i].phs /\ s.views = node[i].views
              /\ s.witnesses = node[i].witnesses
          BY <5>1 DEF NodeState
        <5> QED BY <5>4, <5>5
      <4> HIDE DEF s
      <4>1. /\ node'[n].phs = node[n].phs /\ node'[n].views = node[n].views
            /\ node'[n].witnesses = node[n].witnesses
            /\ n # i \/ k # i => node'[n].vChange[k] = node[n].vChange[k]
            /\ k = i => node'[k].vChange[k]
            /\ k # i => node'[k].vChange[k] = node[k].vChange[k]
        BY <2>0, <4>0, <4>3
      <4>2. Settled(InfoOf(node[n], k), v) /\ Backed(InfoOf(node[n], k), k)
        BY <1>1 DEF InView
      <4> QED BY <4>1, <4>2 DEF Holds, Settled, Backed, InfoOf
    <3>3. net' = net
      BY <2>6 DEF ViewChange
    <3> QED BY <1>1, <3>2, <3>3, InViewNext
  <2>7. ASSUME NEW i \in Node, NeedFlush(i) PROVE InView(v)'
    <3>1. \A n \in Correct : /\ node'[n].phs = node[n].phs
                             /\ node'[n].views = node[n].views
                             /\ node'[n].vChange = node[n].vChange
                             /\ node'[n].witnesses = node[n].witnesses
      <4>1. \A n \in Correct : n \in Node /\ node[n] \in NodeState
        BY <2>0
      <4>2. \A n \in Node : \/ node'[n] = node[n]
                            \/ node'[n] = [node[n] EXCEPT !.need_flush = TRUE]
        BY <1>1, <2>7 DEF NeedFlush, TypeOK
      <4>3. ASSUME NEW s \in NodeState
            PROVE  LET t == [s EXCEPT !.need_flush = TRUE]
                   IN  /\ t.phs = s.phs /\ t.views = s.views
                       /\ t.vChange = s.vChange /\ t.witnesses = s.witnesses
        BY DEF NodeState
      <4> QED BY <4>1, <4>2, <4>3
    <3>2. net' = net
      BY <2>7 DEF NeedFlush
    <3>3. \A n, k \in Correct : InfoOf(node'[n], k) = InfoOf(node[n], k)
      BY <3>1 DEF InfoOf
    <3> QED BY <1>1, <3>1, <3>2, <3>3, InViewNext
  <2>8. CASE UNCHANGED vars
    <3>1. node' = node /\ net' = net
      BY <2>8 DEF vars
    <3> QED BY <1>1, <3>1, InViewNext
  <2> QED BY <1>1, <2>1, <2>2, <2>3, <2>4, <2>5, <2>6, <2>7, <2>8 DEF Next
<1>2. TypeOK /\ [Next]_vars =>
        [\A v \in Node : InView(v) /\ Undisturbed => InView(v)']_vars
  BY <1>1
<1> QED BY <1>2, TypeCorrect, PTL DEF Spec, ViewIsStable

=============================================================================
