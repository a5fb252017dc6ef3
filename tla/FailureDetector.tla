--------------------------- MODULE FailureDetector ---------------------------
(***************************************************************************)
(* The state of one Failure Detector module and what a token does to it    *)
(* (src/modules/primary_monitoring/failure_detector.py).  Every operator   *)
(* takes the state s of the module of node i and is free of VARIABLES.     *)
(*                                                                         *)
(*   s.beat       per node: tokens of others since its last one; counted   *)
(*                up to BEAT_THRESHOLD, the only number it is compared to  *)
(*   s.fd_set     the nodes that answered lately                           *)
(*   s.cnt        checks in a row without progress of the primary; counted *)
(*                up to the first number above CNT_THRESHOLD               *)
(*   s.checking   whether cur_check_req holds a request                    *)
(*   s.prim_susp  per node: whether it says it suspects the primary        *)
(*   s.prim       the view at the last token                               *)
(*   s.first_run  whether nothing was sent yet                             *)
(***************************************************************************)
EXTENDS Integers, FiniteSets

CONSTANTS
  N,               \* number of nodes
  F,               \* number of Byzantine nodes tolerated
  BEAT_THRESHOLD,  \* from this many tokens of others on, a node is silent
  CNT_THRESHOLD    \* more checks without progress make a primary suspect

ASSUME NodesAssumption == /\ N \in Nat
                          /\ F \in Nat
                          /\ 2 * F < N
ASSUME ThresholdAssumption == /\ BEAT_THRESHOLD \in Nat \ {0}
                              /\ CNT_THRESHOLD \in Nat

Node == 0 .. N - 1
TEE == -1                     \* no view
View == Node \cup {TEE}

FdState == [beat : [Node -> 0 .. BEAT_THRESHOLD], fd_set : SUBSET Node,
            cnt : 0 .. CNT_THRESHOLD + 1, checking : BOOLEAN,
            prim_susp : [Node -> BOOLEAN], prim : View, first_run : BOOLEAN]

(* __init__ without an injected start state.                               *)
FreshDetector ==
  [beat |-> [k \in Node |-> 0], fd_set |-> {}, cnt |-> 0, checking |-> FALSE,
   prim_susp |-> [k \in Node |-> FALSE], prim |-> TEE, first_run |-> TRUE]

Reset(s) ==
  [s EXCEPT !.beat = [k \in Node |-> 0], !.cnt = 0, !.checking = FALSE,
            !.prim_susp = [k \in Node |-> FALSE]]

UpTo(limit, x) == IF x > limit THEN limit ELSE x

UpdateBeat(s, i, j) ==
  LET beat == [k \in Node |-> IF k \in {i, j} THEN 0
                              ELSE UpTo(BEAT_THRESHOLD, s.beat[k] + 1)]
  IN  [s EXCEPT !.beat = beat,
                !.fd_set = { k \in Node : beat[k] < BEAT_THRESHOLD }]

(* The first half of upon_token_from_pj: beats, and a reset if the view is *)
(* not the one of the last token.                                          *)
Note(s, i, j, view) ==
  LET t == UpdateBeat(s, i, j)
  IN  [(IF s.prim # view THEN Reset(t) ELSE t) EXCEPT !.prim = view]

(* check_progress_by_prim: progress is that one of the requests checked is *)
(* pending no more; the next check is about those pending now, if any.     *)
CheckProgress(s) ==
  { [s EXCEPT !.cnt = 0, !.checking = pending] : pending \in BOOLEAN }
   \cup IF s.checking
          THEN { [s EXCEPT !.cnt = UpTo(CNT_THRESHOLD + 1, @ + 1)] }
          ELSE {}

(* A suspicion of the node's own stays until the next reset.               *)
Suspect(s, i) ==
  [s EXCEPT !.prim_susp[i] = @ \/ s.prim \notin s.fd_set
                               \/ s.cnt > CNT_THRESHOLD]

(* The second half of upon_token_from_pj, in service: the set of its       *)
(* outcomes.  A suspicion counts if its sender is thought to be in the     *)
(* view; the node never counts against itself.                             *)
Judge(s, i, j, susp, viewOfJ) ==
  LET heard == IF s.prim = j THEN CheckProgress(s)
               ELSE IF s.prim = viewOfJ THEN { [s EXCEPT !.prim_susp[j] = susp] }
               ELSE { s }
  IN  { Suspect(IF t.prim = i THEN [t EXCEPT !.cnt = 0] ELSE t, i) : t \in heard }

(* Mutant: one suspicion less than too many for the faulty nodes is enough.*)
SuspectedByFewer(s, i, views) ==
  Cardinality({ k \in Node : s.prim_susp[k] /\ views[k] = views[i] })
    >= N - 2 * F - 1

(* Mutant: more suspicions than the threshold are asked for.               *)
SuspectedByMore(s, i, views) ==
  Cardinality({ k \in Node : s.prim_susp[k] /\ views[k] = views[i] })
    > N - 2 * F

(* suspected(), read by Primary Monitoring.                                *)
Suspected(s, i, views) ==
  Cardinality({ k \in Node : s.prim_susp[k] /\ views[k] = views[i] })
    >= N - 2 * F

=============================================================================
