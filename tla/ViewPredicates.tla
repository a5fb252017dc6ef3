--------------------------- MODULE ViewPredicates ---------------------------
(***************************************************************************)
(* The predicates and the automaton of the View Establishment module       *)
(* (src/modules/view_establishment/predicates.py, and the macros of        *)
(* module.py that read the same state).  Every operator takes the state s  *)
(* of one node, the record below that stands for the Python object, and is *)
(* free of VARIABLES, so that the predicates can be used by the module     *)
(* that runs them and reasoned about on their own.                         *)
(*                                                                         *)
(*   s.phs, s.views, s.vChange, s.witnesses  what the node believes of     *)
(*                    every node, itself included                          *)
(*   s.witnesses_set  the nodes it ever knew to be witnessed               *)
(*   s.echo           what every node last said it believes of this one    *)
(*   s.aliased        echo[self]["views"] is the very dict views[self]     *)
(*   s.need_flush     the flag of the Replication module of the same node  *)
(***************************************************************************)
EXTENDS Integers, FiniteSets

CONSTANTS N,    \* number_of_nodes
          F     \* number_of_byzantine

ASSUME NodesAssumption == N \in Nat /\ N >= 2 /\ F \in Nat

Node == 0 .. N - 1

TEE == -1
DF_VIEW == 0
RST_PAIR == [current |-> TEE, next |-> DF_VIEW]
NoPair == [current |-> -2, next |-> -2]   \* the empty dict of a fresh echo

Pair == [current : Int, next : Int]

(* 2 stands for every phase a corrupted or injected state may hold that is *)
(* neither 0 nor 1.                                                        *)
Phase == {0, 1, 2}

(* What a node says, or believes, of a node: the four values that travel   *)
(* as own_data and about_data, and that echo stores.                       *)
Info == [views : Pair, phase : Phase, witnesses : BOOLEAN, vChange : BOOLEAN]

NodeState ==
  [phs : [Node -> Phase], views : [Node -> Pair],
   vChange : [Node -> BOOLEAN], witnesses : [Node -> BOOLEAN],
   witnesses_set : SUBSET Node, echo : [Node -> Info],
   aliased : BOOLEAN, need_flush : BOOLEAN]

InfoOf(s, k) ==
  [views |-> s.views[k], phase |-> s.phs[k],
   witnesses |-> s.witnesses[k], vChange |-> s.vChange[k]]

-----------------------------------------------------------------------------
(* Which pairs and phases are legal.                                       *)

TypeCheck(vp) ==
  /\ vp.next \in Node
  /\ vp.current \in Node \cup {TEE}

LegitPhsZero(vp) ==
  /\ vp.current = vp.next \/ vp = RST_PAIR
  /\ TypeCheck(vp)

LegitPhsOne(vp) ==
  /\ vp.current # vp.next
  /\ TypeCheck(vp)

Valid(own) ==
  \/ own.phase = 0 /\ LegitPhsZero(own.views)
  \/ own.phase = 1 /\ LegitPhsOne(own.views)

(* A phase that is neither 0 nor 1 is not stale, and never was valid.      *)
StaleV(s, k) ==
  \/ s.phs[k] = 0 /\ ~LegitPhsZero(s.views[k])
  \/ s.phs[k] = 1 /\ ~LegitPhsOne(s.views[k])

-----------------------------------------------------------------------------
(* Who supports what.                                                      *)

(* The nodes with the pair and the phase of node j.  In phase 1 two pairs  *)
(* with the same next are also the same if one of them has no current      *)
(* view, whatever the phase of the node that has it.                       *)
SameVSet(s, j) ==
  { k \in Node :
      \/ /\ s.phs[j] = 1
         /\ s.views[k].current = TEE \/ s.views[j].current = TEE
         /\ s.views[k].next = s.views[j].next
      \/ /\ s.phs[k] = s.phs[j]
         /\ s.views[k] = s.views[j]
         /\ ~StaleV(s, k) }

(* (TEE + 1) % N is DF_VIEW, the case the code writes out for TEE.         *)
NextViewOf(vp) == (vp.current + 1) % N

TransitionCases(s, j, vp, phase, mode) ==
  \/ mode = "REMAIN" /\ vp.next = s.views[j].current
  \/ mode = "FOLLOW" /\ phase = 0 /\ vp.next = NextViewOf(s.views[j])
  \/ mode = "FOLLOW" /\ phase = 1 /\ vp.current = s.views[j].next

TransitSet(s, j, phase, mode) ==
  { k \in Node : /\ s.phs[k] # phase
                 /\ TransitionCases(s, j, s.views[k], phase, mode)
                 /\ ~StaleV(s, k) }

TransitAdoptable(s, j, phase, mode) ==
  Cardinality(SameVSet(s, j) \cup TransitSet(s, j, phase, mode)) >= N - 2 * F


Establishable(s, i, phase) ==
  Cardinality(SameVSet(s, i)) + Cardinality(TransitSet(s, i, phase, "FOLLOW"))
     >= N - F

(* Mutant: one demand less is enough to start a view change.               *)
ChangeableByFewer(s, i) ==
  Cardinality({ k \in Node : s.vChange[k] })
   + Cardinality({ k \in Node : s.views[k].next = NextViewOf(s.views[i]) })
     >= N - F - 1


Changeable(s, i) ==
  Cardinality({ k \in Node : s.vChange[k] })
   + Cardinality({ k \in Node : s.views[k].next = NextViewOf(s.views[i]) })
     >= N - F

AllowService(s, i) ==
  /\ Cardinality(SameVSet(s, i)) >= N - 2 * F
  /\ s.phs[i] = 0
  /\ s.views[i].current = s.views[i].next

-----------------------------------------------------------------------------
(* Witnesses.                                                              *)

(* Mutant: the demand for a view change need not be echoed.                *)
EchoNoVChange(s, i, k) ==
  /\ s.views[i] = s.echo[k].views
  /\ s.phs[i] = s.echo[k].phase

EchoNoWitn(s, i, k) ==
  /\ s.views[i] = s.echo[k].views
  /\ s.phs[i] = s.echo[k].phase
  /\ s.vChange[i] = s.echo[k].vChange

NoticedRecentValue(s, i) ==
  Cardinality({ k \in Node : EchoNoWitn(s, i, k) }) >= N - F

(* The node itself is not added to the set: the code drops the result of   *)
(* the union that would.                                                   *)
WitnesSeen(s, i) ==
  /\ s.witnesses[i]
  /\ Cardinality({ k \in s.witnesses_set : s.echo[k] = s.echo[i] }) >= N - F

GetCurrentView(s, i, k) ==
  IF k = i /\ s.phs[i] = 0 /\ WitnesSeen(s, i) /\ ~AllowService(s, i)
    THEN TEE ELSE s.views[k].current

-----------------------------------------------------------------------------
(* The actions of the automaton.                                           *)

(* reset_all, init_module and rep_request_reset together.                  *)
ResetAll(s) ==
  [s EXCEPT !.views = [k \in Node |-> RST_PAIR],
            !.vChange = [k \in Node |-> FALSE],
            !.phs = [k \in Node |-> 0],
            !.witnesses = [k \in Node |-> FALSE],
            !.witnesses_set = {},
            !.aliased = FALSE,
            !.need_flush = FALSE]

NeedReset(s, i) == StaleV(s, i) \/ s.need_flush

(* The nodes whose pair may be adopted in the given phase; the loop takes  *)
(* the first.                                                              *)
Adoptable(s, i, phase) ==
  { p \in Node \ {i} :
      /\ s.views[i].current # s.views[p].next
      /\ \/ s.views[i].next # s.views[p].next
         \/ phase = 0 /\ s.views[i] = RST_PAIR
      /\ TransitAdoptable(s, p, phase, "FOLLOW") }

FirstOf(S) == { p \in S : \A q \in S : p <= q }

(* The automaton in phase 0, waiting for a view change: the set of its     *)
(* outcomes.  Case 0 adopts a pair, case 1 starts a view change, case 2    *)
(* waits, case 3 resets.                                                   *)
AutomationPhase0(s, i) ==
  IF Adoptable(s, i, 0) # {} THEN
    { [s EXCEPT !.views[i].next = s.views[p].next, !.phs[i] = 1]
        : p \in FirstOf(Adoptable(s, i, 0)) }
  ELSE IF /\ Establishable(s, i, 0)
          /\ Changeable(s, i) \/ s.views[i] = RST_PAIR THEN
    { [s EXCEPT !.views[i].next = NextViewOf(s.views[i]), !.phs[i] = 1] }
  ELSE IF TransitAdoptable(s, i, 0, "REMAIN") \/ s.views[i] = RST_PAIR THEN
    { s }
  ELSE { ResetAll(s) }

(* Mutant: case 1 establishes the view and stays in phase 1.               *)
AutomationPhase1Stays(s, i) ==
  IF Adoptable(s, i, 1) # {} THEN
    { [s EXCEPT !.views[i].next = s.views[p].next, !.vChange[i] = FALSE]
        : p \in FirstOf(Adoptable(s, i, 1)) }
  ELSE IF Establishable(s, i, 1) THEN
    { [s EXCEPT !.views[i].current = s.views[i].next, !.vChange[i] = FALSE] }
  ELSE IF TransitAdoptable(s, i, 1, "REMAIN") THEN
    { [s EXCEPT !.vChange[i] = FALSE] }
  ELSE { ResetAll(s) }

(* The automaton in phase 1, in a view change: case 0 adopts another pair, *)
(* case 1 establishes the view, case 2 waits, case 3 resets.               *)
AutomationPhase1(s, i) ==
  IF Adoptable(s, i, 1) # {} THEN
    { [s EXCEPT !.views[i].next = s.views[p].next, !.vChange[i] = FALSE]
        : p \in FirstOf(Adoptable(s, i, 1)) }
  ELSE IF Establishable(s, i, 1) THEN
    { [s EXCEPT !.views[i].current = s.views[i].next,
                !.vChange[i] = FALSE, !.phs[i] = 0] }
  ELSE IF TransitAdoptable(s, i, 1, "REMAIN") THEN
    { [s EXCEPT !.vChange[i] = FALSE] }
  ELSE { ResetAll(s) }

(* Any other phase matches no case and changes nothing.                    *)
Automation(s, i) ==
  CASE s.phs[i] = 0 -> AutomationPhase0(s, i)
    [] s.phs[i] = 1 -> AutomationPhase1(s, i)
    [] OTHER -> { s }

=============================================================================
