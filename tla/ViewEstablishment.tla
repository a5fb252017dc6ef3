-------------------------- MODULE ViewEstablishment --------------------------
(***************************************************************************)
(* The View Establishment modules of all nodes, run concurrently           *)
(* (src/modules/view_establishment/module.py), over the links that carry   *)
(* their messages.                                                         *)
(*                                                                         *)
(* Each node runs one loop: the body of run(), under view_est_lock, then   *)
(* send_msg(), which holds no lock and visits the nodes one by one, then   *)
(* throttle().  The receiver thread delivers messages under the lock; the  *)
(* Primary Monitoring thread calls view_change() and the Replication       *)
(* thread raises need_flush, both without it.                              *)
(***************************************************************************)
EXTENDS ViewPredicates, Sequences

CONSTANTS
  Behaviour,       \* BYZANTINE_BEHAVIOR of each node
  StartStates,     \* the states, of all nodes, the program may start in
  MAX_QUEUE_SIZE,  \* a loop goes on only when no queue is longer
  MaxViewChanges,  \* bound: calls of view_change() by Primary Monitoring
  MaxFlushes       \* bound: flushes demanded by Replication

Behaviours == {"NONE", "DIFFERENT_VIEWS", "FORCING_RESET",
               "UNRESPONSIVE", "UNRESPONSIVE_TO_HALF"}

ASSUME BehaviourAssumption == Behaviour \in [Node -> Behaviours]
ASSUME StartAssumption == StartStates \subseteq [Node -> NodeState]
ASSUME BoundAssumption == /\ MAX_QUEUE_SIZE \in Nat
                          /\ MaxViewChanges \in Nat
                          /\ MaxFlushes \in Nat

Correct == { i \in Node : Behaviour[i] = "NONE" }

VARIABLES
  node,     \* node[i]: the state of the modules of node i
  pc,       \* pc[i]: the node send_msg() is about to visit; N: top of the loop
  net,      \* net[i][j]: the queue of node i towards node j
  demands   \* how many view changes and flushes were demanded so far

vars == <<node, pc, net, demands>>

Message == [own : Info, about : Info]

-----------------------------------------------------------------------------
(* __init__ without an injected start state.                               *)
FreshEcho ==
  [views |-> NoPair, phase |-> 0, witnesses |-> FALSE, vChange |-> FALSE]

FreshState ==
  [phs |-> [k \in Node |-> 0], views |-> [k \in Node |-> RST_PAIR],
   vChange |-> [k \in Node |-> FALSE], witnesses |-> [k \in Node |-> FALSE],
   witnesses_set |-> {}, echo |-> [k \in Node |-> FreshEcho],
   aliased |-> FALSE, need_flush |-> FALSE]

Init ==
  /\ node \in StartStates
  /\ pc = [i \in Node |-> N]
  /\ net = [i \in Node |-> [j \in Node |-> <<>>]]
  /\ demands = [viewChanges |-> 0, flushes |-> 0]

-----------------------------------------------------------------------------
(* The body of run().                                                      *)

(* need_reset / reset_all, then the node's own entry of witnesses and the  *)
(* set of the nodes it knows to be witnessed.                              *)
Observe(s, i) ==
  LET r == IF NeedReset(s, i) THEN ResetAll(s) ELSE s
      w == [r EXCEPT !.witnesses[i] = NoticedRecentValue(r, i)]
  IN  [w EXCEPT !.witnesses_set = @ \cup { k \in Node : w.witnesses[k] }]

(* The echo of the node about itself shares the dict of its own pair.      *)
Alias(s, i) ==
  IF s.aliased THEN [s EXCEPT !.echo[i].views = s.views[i]] ELSE s

RunBody(s, i) ==
  LET o == Observe(s, i)
  IN  { Alias(t, i) : t \in IF WitnesSeen(o, i) THEN Automation(o, i) ELSE {o} }

(* throttle() let the loop go on.                                          *)
QueuesHaveRoom(i) == \A j \in Node : Len(net[i][j]) <= MAX_QUEUE_SIZE

Run(i) ==
  /\ pc[i] = N
  /\ QueuesHaveRoom(i)
  /\ \E t \in RunBody(node[i], i) : node' = [node EXCEPT ![i] = t]
  /\ pc' = [pc EXCEPT ![i] = IF Behaviour[i] = "UNRESPONSIVE" THEN N ELSE 0]
  /\ UNCHANGED <<net, demands>>

-----------------------------------------------------------------------------
(* send_msg().                                                             *)

Lie(vp) == [views |-> vp, phase |-> 0, witnesses |-> TRUE, vChange |-> FALSE]

(* What node i claims of itself when it writes to node j.                  *)
OwnData(i, j) ==
  CASE Behaviour[i] = "DIFFERENT_VIEWS" ->
         Lie(IF j % 2 = 0 THEN [current |-> 1, next |-> 1]
                          ELSE [current |-> 2, next |-> 2])
    [] Behaviour[i] = "FORCING_RESET" -> Lie(RST_PAIR)
    [] OTHER -> InfoOf(node[i], i)

(* UNRESPONSIVE nodes send nothing, others may leave out the odd nodes.    *)
Sends(i, j) ==
  ~ (Behaviour[i] = "UNRESPONSIVE_TO_HALF" /\ j % 2 # 0)

Put(i, j, about) ==
  net' = IF Sends(i, j)
           THEN [net EXCEPT ![i][j] =
                   Append(@, [own |-> OwnData(i, j), about |-> about])]
           ELSE net

Advance(i) == pc' = [pc EXCEPT ![i] = @ + 1]

(* The visit of the node to itself updates its own echo.                   *)
EchoSelf(i) ==
  /\ pc[i] = i
  /\ node' = [node EXCEPT ![i].echo[i] = InfoOf(node[i], i),
                          ![i].aliased = TRUE]
  /\ Advance(i)
  /\ UNCHANGED <<net, demands>>

SendTo(i, j) ==
  /\ pc[i] = j
  /\ j # i
  /\ Put(i, j, InfoOf(node[i], j))
  /\ Advance(i)
  /\ UNCHANGED <<node, demands>>

-----------------------------------------------------------------------------
(* receive_msg().                                                          *)

(* Mutant: the echo is the whole message.                                  *)
AbsorbMessage(s, j, m) ==
  IF Valid(m.own)
    THEN [s EXCEPT !.echo[j] = m,
                   !.phs[j] = m.own.phase,
                   !.witnesses[j] = m.own.witnesses,
                   !.views[j] = m.own.views,
                   !.vChange[j] = m.own.vChange]
    ELSE s


Absorb(s, j, m) ==
  IF Valid(m.own)
    THEN [s EXCEPT !.echo[j] = m.about,
                   !.phs[j] = m.own.phase,
                   !.witnesses[j] = m.own.witnesses,
                   !.views[j] = m.own.views,
                   !.vChange[j] = m.own.vChange]
    ELSE s

Receive(i, j) ==
  /\ j # i
  /\ net[j][i] # <<>>
  /\ node' = [node EXCEPT ![i] = Absorb(@, j, Head(net[j][i]))]
  /\ net' = [net EXCEPT ![j][i] = Tail(@)]
  /\ UNCHANGED <<pc, demands>>

(* send_msg() holds no lock: what it reads of node j may be torn by the    *)
(* message of j that the receiver thread is absorbing.  It reads views,    *)
(* vChange, phs, witnesses; the receiver writes phs, witnesses, views,     *)
(* vChange.                                                                *)
TornReads(old, new) ==
  { [old EXCEPT !.phase = new.phase],
    [old EXCEPT !.witnesses = new.witnesses],
    [new EXCEPT !.views = old.views, !.vChange = old.vChange],
    [new EXCEPT !.views = old.views],
    [new EXCEPT !.vChange = old.vChange] }

SendDuringReceive(i, j) ==
  /\ pc[i] = j
  /\ j # i
  /\ net[j][i] # <<>>
  /\ Valid(Head(net[j][i]).own)
  /\ node' = [node EXCEPT ![i] = Absorb(@, j, Head(net[j][i]))]
  /\ \E about \in TornReads(InfoOf(node[i], j), Head(net[j][i]).own) :
        net' = [net EXCEPT ![j][i] = Tail(@),
                           ![i][j] = IF Sends(i, j)
                                       THEN Append(@, [own |-> OwnData(i, j),
                                                       about |-> about])
                                       ELSE @]
  /\ Advance(i)
  /\ UNCHANGED demands

-----------------------------------------------------------------------------
(* The other modules of the node.                                          *)

(* view_change(), called by Primary Monitoring.                            *)
ViewChange(i) ==
  /\ demands.viewChanges < MaxViewChanges
  /\ ~node[i].vChange[i]
  /\ node' = [node EXCEPT ![i].vChange[i] = TRUE]
  /\ demands' = [demands EXCEPT !.viewChanges = @ + 1]
  /\ UNCHANGED <<pc, net>>

(* Replication raises need_flush.                                          *)
NeedFlush(i) ==
  /\ demands.flushes < MaxFlushes
  /\ ~node[i].need_flush
  /\ node' = [node EXCEPT ![i].need_flush = TRUE]
  /\ demands' = [demands EXCEPT !.flushes = @ + 1]
  /\ UNCHANGED <<pc, net>>

-----------------------------------------------------------------------------
Next ==
  \E i \in Node :
     \/ Run(i)
     \/ EchoSelf(i)
     \/ \E j \in Node : \/ SendTo(i, j)
                        \/ Receive(i, j)
                        \/ SendDuringReceive(i, j)
     \/ ViewChange(i)
     \/ NeedFlush(i)

Spec == Init /\ [][Next]_vars

(* The loop of every node and its receiver thread keep running.  Primary   *)
(* Monitoring and Replication need not ask for anything.                   *)
Fairness ==
  \A i \in Node :
     /\ WF_vars(Run(i))
     /\ WF_vars(EchoSelf(i))
     /\ \A j \in Node : WF_vars(SendTo(i, j)) /\ WF_vars(Receive(i, j))

FairSpec == Spec /\ Fairness

-----------------------------------------------------------------------------
(* Every variable has its type.  Phases and pairs may be those of a        *)
(* corrupted state; the links carry what get_info and the echoes hold.     *)
TypeOK ==
  /\ node \in [Node -> NodeState]
  /\ pc \in [Node -> 0 .. N]
  /\ net \in [Node -> [Node -> Seq(Message)]]
  /\ demands \in [viewChanges : 0 .. MaxViewChanges, flushes : 0 .. MaxFlushes]

(* The phases and the pairs that node i holds, of itself and of its peers, *)
(* match.                                                                  *)
Legit(i) == \A k \in Node : Valid(InfoOf(node[i], k))

(* Once all that a node holds is legal it stays legal: no case of the      *)
(* automaton, applied to whatever the peers claim, leaves a node in phase  *)
(* 1 with current = next or in phase 0 with a transit pair (the            *)
(* hand-written guards of case 0 in automation_phase_0 and _1, and the     *)
(* modulus of next_view).                                                  *)
LegitForever ==
  [][\A i \in Node : Legit(i) => Legit(i)']_vars


(* As long as nobody resets on a demand of Replication, the echoes mean    *)
(* what they are for: if node i finds its pair, phase and flag in the      *)
(* echoes of N - F nodes (noticed_recent_value, the handshake that every   *)
(* step of the automaton waits for), as many nodes hold them at that very  *)
(* moment, and it is not an echo of a value that i had, left and came back *)
(* to.                                                                     *)
NoticedIsHeld ==
  \A i \in Correct :
     NoticedRecentValue(node[i], i) /\ demands.flushes = 0 =>
       Cardinality({ k \in Node : /\ node[k].views[i] = node[i].views[i]
                                 /\ node[k].phs[i] = node[i].phs[i]
                                 /\ node[k].vChange[i] = node[i].vChange[i] })
         >= N - F

(* Every correct node is in view v, believes that of every correct node,   *)
(* and so says every message on its way between correct nodes; a vChange   *)
(* flag believed or on its way is raised at the node it is about.          *)
Settled(info, v) ==
  /\ info.phase = 0
  /\ info.views = [current |-> v, next |-> v]

Backed(info, k) == info.vChange => node[k].vChange[k]

InView(v) ==
  \A i, k \in Correct :
    /\ Settled(InfoOf(node[i], k), v)
    /\ Backed(InfoOf(node[i], k), k)
    /\ \A n \in 1 .. Len(net[k][i]) :
         /\ Settled(net[k][i][n].own, v)
         /\ Backed(net[k][i][n].own, k)

(* The correct nodes whose Primary Monitoring wants a view change.         *)
Demanders == { i \in Correct : node[i].vChange[i] }

Undisturbed == /\ \A i \in Correct : ~node[i].need_flush
               /\ Cardinality(Demanders) + 2 * F < N - F

(* An established view cannot be taken down by fewer than N - 3F correct   *)
(* nodes that ask for a view change, whatever the faulty nodes say and     *)
(* however messages and loops interleave: no correct node leaves it,       *)
(* resets, or adopts a pair it was sent, unless Replication has demanded a *)
(* flush (automation, changeable, transit_adopble).                        *)
ViewIsStable ==
  [][\A v \in Node : InView(v) /\ Undisturbed => InView(v)']_vars

(* "The whole system should converge to the reset view by resetAll [...]   *)
(* Then the system will be in stable state" (test_nodes_converge_through_  *)
(* reset_all.py): all correct nodes end up serving clients, for good.      *)
Convergence == <>[](\A i \in Correct : AllowService(node[i], i))

AllServe(v) == \A i \in Correct : /\ AllowService(node[i], i)
                                  /\ node[i].views[i].current = v

AllDemand == \A i \in Correct : node[i].vChange[i]


=============================================================================
