------------------------- MODULE PrimaryMonitoring -------------------------
(***************************************************************************)
(* The Primary Monitoring and the Failure Detector modules of all nodes    *)
(* (src/modules/primary_monitoring/module.py and failure_detector.py).     *)
(* They decide together when the primary has to be replaced.               *)
(*                                                                         *)
(* A node has a Failure Detector thread, which takes one token after the   *)
(* other, answers its sender and holds no lock, and a Primary Monitoring   *)
(* thread, which holds prim_mon_lock during the body of its loop.  Both    *)
(* read their node's View Establishment without its lock, several times    *)
(* per round; it may move in between and is free to answer anything in     *)
(* Answers.  Tokens come over the links of OrderedLink.                    *)
(***************************************************************************)
EXTENDS FailureDetector, Sequences

CONSTANTS
  Silent,          \* nodes that receive and never send (UNRESPONSIVE)
  Answers,         \* what a View Establishment may answer
  StartDetectors,  \* the Failure Detectors the program may start with
  MAX_QUEUE_SIZE,  \* a loop goes on only when no queue is longer
  MaxMoves,        \* bound: moves of all View Establishments together
  MaxRepeats       \* bound: tokens that a link delivers once more

(* views[k] is get_current_view(k), service is allow_service().            *)
Answer == [views : [Node -> View], service : BOOLEAN]

ASSUME SilentAssumption == Silent \subseteq Node
ASSUME AnswersAssumption == Answers \subseteq Answer
ASSUME StartAssumption == StartDetectors \subseteq [Node -> FdState]
ASSUME BoundAssumption == /\ MAX_QUEUE_SIZE \in Nat
                          /\ MaxMoves \in Nat
                          /\ MaxRepeats \in Nat

Correct == Node \ Silent

VARIABLES
  ve,        \* ve[i]: what the View Establishment of node i answers
  demanded,  \* demanded[i]: its vChange flag
  moves,     \* how often a View Establishment moved
  fd,        \* fd[i]: the Failure Detector of node i
  taken,     \* taken[i]: the token it is handling, if any
  tokens,    \* tokens[i][j]: tokens on their way from node i to node j
  said,      \* said[i][j]: what the tokens from i to j ever said
  repeats,   \* how many tokens were delivered once more
  vcm,       \* vcm[i][k]: what the Primary Monitoring of i knows of k
  pc,        \* pc[i]: where its loop is
  net        \* net[i][j]: its messages on their way to node j

veVars == <<ve, demanded, moves>>
fdVars == <<fd, taken, tokens, said, repeats>>
pmVars == <<vcm, pc, net>>
vars == <<veVars, fdVars, pmVars>>

Status == {"OK", "NO_SERVICE", "V_CHANGE"}
Vcm == [v_status : Status, prim : View, need_change : BOOLEAN,
        need_chg_set : SUBSET Node]
Token == [sender : Node, prim_susp : BOOLEAN]

CurrentView(i) == ve[i].views[i]

(* Mutant: the default set holds the primary.                              *)
DefaultVcmWithPrim(prim) ==
  [v_status |-> "OK", prim |-> prim, need_change |-> FALSE,
   need_chg_set |-> {prim}]

DefaultVcm(prim) == [v_status |-> "OK", prim |-> prim, need_change |-> FALSE,
                     need_chg_set |-> {}]

Init ==
  /\ \E a \in Answers : ve = [i \in Node |-> a]
  /\ demanded = [i \in Node |-> FALSE]
  /\ moves = 0
  /\ fd \in StartDetectors
  /\ taken = [i \in Node |-> {}]
  /\ tokens = [i \in Node |-> [j \in Node |-> <<>>]]
  /\ said = [i \in Node |-> [j \in Node |-> {}]]
  /\ repeats = 0
  /\ vcm = [i \in Node |-> [k \in Node |-> DefaultVcm(TEE)]]
  /\ pc = [i \in Node |-> "refresh"]
  /\ net = [i \in Node |-> [j \in Node |-> <<>>]]

-----------------------------------------------------------------------------
(* The Failure Detector.                                                   *)

(* Node i sends a token to the nodes of R and then one to those of S;      *)
(* silent nodes ignore theirs.                                             *)
After(q, more, x) == IF more THEN Append(q, x) ELSE q

SendTokens(i, R, S, susp) ==
  /\ tokens' = [tokens EXCEPT ![i] = [j \in Node |->
                  After(After(@[j], j \in R \ Silent, susp), j \in S \ Silent, susp)]]
  /\ said' = [said EXCEPT ![i] = [j \in Node |->
                IF j \in (R \cup S) \ Silent THEN @[j] \cup {susp} ELSE @[j]]]

Greet(i) ==
  /\ fd[i].first_run
  /\ taken[i] = {}
  /\ fd' = [fd EXCEPT ![i].first_run = FALSE]
  /\ SendTokens(i, {}, Node \ {i}, fd[i].prim_susp[i])
  /\ UNCHANGED <<taken, repeats, veVars, pmVars>>

Handle(i, j, susp) ==
  /\ taken[i] = {}
  /\ fd' = [fd EXCEPT ![i] = Note(@, i, j, CurrentView(i))]
  /\ taken' = [taken EXCEPT ![i] = {[sender |-> j, prim_susp |-> susp]}]
  /\ UNCHANGED <<said, veVars, pmVars>>

Take(i, j) ==
  /\ tokens[j][i] # <<>>
  /\ Handle(i, j, Head(tokens[j][i]))
  /\ tokens' = [tokens EXCEPT ![j][i] = Tail(@)]
  /\ UNCHANGED repeats

(* A token that was delivered before comes again (UdpLink).                *)
TakeAgain(i, j) ==
  /\ repeats < MaxRepeats
  /\ \E susp \in said[j][i] : Handle(i, j, susp)
  /\ repeats' = repeats + 1
  /\ UNCHANGED tokens

(* What the token taken by node i makes of its Failure Detector.           *)
Judgements(i, m) ==
  IF ve[i].service /\ vcm[i][i].v_status = "OK"
    THEN Judge(fd[i], i, m.sender, m.prim_susp, ve[i].views[m.sender])
  ELSE IF ~ve[i].service THEN { Reset(fd[i]) }
  ELSE { fd[i] }

(* The rest of upon_token_from_pj, the answer, and then the greeting if    *)
(* the token came before it.                                               *)
Reply(i) ==
  /\ \E m \in taken[i] : \E t \in Judgements(i, m) :
       /\ fd' = [fd EXCEPT ![i] = [t EXCEPT !.first_run = FALSE]]
       /\ SendTokens(i, {m.sender}, IF t.first_run THEN Node \ {i} ELSE {},
                     t.prim_susp[i])
  /\ taken' = [taken EXCEPT ![i] = {}]
  /\ UNCHANGED <<repeats, veVars, pmVars>>

-----------------------------------------------------------------------------
(* Primary Monitoring: the body of its loop, under prim_mon_lock.          *)

Clean(i) == [k \in Node |-> DefaultVcm(ve[i].views[k])]

QueuesHaveRoom(i) == \A j \in Node : Len(net[i][j]) <= MAX_QUEUE_SIZE

(* A new view begins with a clean state.                                   *)
Refresh(i) ==
  /\ pc[i] = "refresh"
  /\ QueuesHaveRoom(i)
  /\ vcm' = IF vcm[i][i].prim # CurrentView(i)
              THEN [vcm EXCEPT ![i] = Clean(i)] ELSE vcm
  /\ pc' = [pc EXCEPT ![i] = "look"]
  /\ UNCHANGED <<net, veVars, fdVars>>

Look(i) ==
  /\ pc[i] = "look"
  /\ vcm' = [vcm EXCEPT ![i][i].prim = CurrentView(i),
                        ![i][i].need_change = Suspected(fd[i], i, ve[i].views)]
  /\ pc' = [pc EXCEPT ![i] = IF ve[i].service THEN "decide" ELSE "send"]
  /\ UNCHANGED <<net, veVars, fdVars>>

InNoService(v) ==
  Cardinality({ k \in Node : v[k].v_status \in {"NO_SERVICE", "V_CHANGE"} })

(* The nodes that want a change in the view of node i.                     *)
NeedChgSet(i) ==
  { k \in Node : vcm[i][k].need_change /\ ve[i].views[k] = CurrentView(i) }

(* size nodes have the same primary, and the set of the first of them that *)
(* has one is large enough.  The code throws the intersection with the     *)
(* sets of the others away.                                                *)
SupChange(v, size) ==
  \E p \in View :
     LET G == { k \in Node : v[k].prim = p }
         W == { k \in G : v[k].need_chg_set # {} }
     IN  /\ Cardinality(G) >= size
         /\ \E k \in W : /\ \A l \in W : k <= l
                         /\ Cardinality(v[k].need_chg_set) >= N - 2 * F

Calmed(i, v) ==
  IF InNoService(v) < N - 3 * F THEN [v EXCEPT ![i].v_status = "OK"] ELSE v

(* Mutant: the second test is not an alternative to the first.             *)
VotedTwice(i, v) ==
  IF SupChange(v, N - F) THEN [v EXCEPT ![i].v_status = "V_CHANGE"]
  ELSE IF v[i].v_status = "OK" /\ SupChange(v, N - 2 * F)
    THEN [v EXCEPT ![i].v_status = "NO_SERVICE"]
  ELSE v

Voted(i, v) ==
  IF v[i].v_status = "OK" /\ SupChange(v, N - 2 * F)
    THEN [v EXCEPT ![i].v_status = "NO_SERVICE"]
  ELSE IF SupChange(v, N - F) THEN [v EXCEPT ![i].v_status = "V_CHANGE"]
  ELSE v

(* Lines 9 to 15 of the algorithm: the decision, for the view just read,   *)
(* or none if the view is another one by now.                              *)
Decide(i) ==
  /\ pc[i] = "decide"
  /\ vcm' = [vcm EXCEPT ![i] =
       IF @[i].prim # CurrentView(i) THEN Clean(i)
       ELSE IF @[i].v_status = "V_CHANGE" THEN @
       ELSE Voted(i, Calmed(i, [@ EXCEPT ![i].need_chg_set = NeedChgSet(i)]))]
  /\ pc' = [pc EXCEPT ![i] =
       IF vcm'[i][i].v_status = "V_CHANGE" THEN "demand" ELSE "send"]
  /\ UNCHANGED <<net, veVars, fdVars>>

(* view_change() of View Establishment, whatever its view is by now.       *)
Demand(i) ==
  /\ pc[i] = "demand"
  /\ demanded' = [demanded EXCEPT ![i] = TRUE]
  /\ pc' = [pc EXCEPT ![i] = "send"]
  /\ UNCHANGED <<ve, moves, vcm, net, fdVars>>

-----------------------------------------------------------------------------
(* Messages of Primary Monitoring.                                         *)

Broadcast(i) ==
  /\ pc[i] = "send"
  /\ net' = [net EXCEPT ![i] = [j \in Node |->
               IF j \in Correct \ {i} THEN Append(@[j], vcm[i][i]) ELSE @[j]]]
  /\ pc' = [pc EXCEPT ![i] = "refresh"]
  /\ UNCHANGED <<vcm, veVars, fdVars>>

LockIsFree(i) == pc[i] \in {"refresh", "send"}

Receive(i, j) ==
  /\ LockIsFree(i)
  /\ net[j][i] # <<>>
  /\ vcm' = [vcm EXCEPT ![i][j] = Head(net[j][i])]
  /\ net' = [net EXCEPT ![j][i] = Tail(@)]
  /\ UNCHANGED <<pc, veVars, fdVars>>

-----------------------------------------------------------------------------
(* View Establishment of node i moves; on the way it may take the demand   *)
(* back.                                                                   *)
Move(i) ==
  /\ moves < MaxMoves
  /\ \E a \in Answers \ {ve[i]} : ve' = [ve EXCEPT ![i] = a]
  /\ \E kept \in {FALSE, demanded[i]} :
        demanded' = [demanded EXCEPT ![i] = kept]
  /\ moves' = moves + 1
  /\ UNCHANGED <<fdVars, pmVars>>

Next ==
  \E i \in Correct :
     \/ Greet(i)
     \/ Reply(i)
     \/ Refresh(i)
     \/ Look(i)
     \/ Decide(i)
     \/ Demand(i)
     \/ Broadcast(i)
     \/ Move(i)
     \/ \E j \in Correct \ {i} : \/ Take(i, j)
                                 \/ TakeAgain(i, j)
                                 \/ Receive(i, j)

Spec == Init /\ [][Next]_vars

(* Both threads and the receiver of every correct node keep running.       *)
Fairness ==
  \A i \in Correct :
     /\ WF_vars(Greet(i)) /\ WF_vars(Reply(i))
     /\ WF_vars(Refresh(i)) /\ WF_vars(Look(i)) /\ WF_vars(Decide(i))
     /\ WF_vars(Demand(i)) /\ WF_vars(Broadcast(i))
     /\ \A j \in Correct \ {i} : WF_vars(Take(i, j)) /\ SF_vars(Receive(i, j))

FairSpec == Spec /\ Fairness

-----------------------------------------------------------------------------
(* Every variable has its type.                                            *)
TypeOK ==
  /\ ve \in [Node -> Answers]
  /\ demanded \in [Node -> BOOLEAN]
  /\ moves \in 0 .. MaxMoves
  /\ fd \in [Node -> FdState]
  /\ taken \in [Node -> SUBSET Token]
  /\ tokens \in [Node -> [Node -> Seq(BOOLEAN)]]
  /\ said \in [Node -> [Node -> SUBSET BOOLEAN]]
  /\ repeats \in 0 .. MaxRepeats
  /\ vcm \in [Node -> [Node -> Vcm]]
  /\ pc \in [Node -> {"refresh", "look", "decide", "demand", "send"}]
  /\ net \in [Node -> [Node -> Seq(Vcm)]]

(* A node stops serving clients in one round of its loop before it demands *)
(* a view change in a later one, so that its peers hear of the first step  *)
(* (the two calls of sup_change with different sizes in run).              *)
ServiceStopsFirst ==
  [][\A i \in Node : vcm[i][i].v_status = "OK"
                       => vcm'[i][i].v_status # "V_CHANGE"]_vars

(* Node k suspects the primary itself.                                     *)
Suspecting == { k \in Node : fd[k].prim_susp[k] }

(* Every correct node serves view v and its Failure Detector knows it;     *)
(* whoever counts as suspecting the primary, at a node or in a token that  *)
(* may still arrive, does suspect it.                                      *)
Honest(v) ==
  \A i, k \in Correct :
    /\ CurrentView(i) = v /\ ve[i].service /\ fd[i].prim = v
    /\ \A m \in taken[i] : m.prim_susp => m.sender \in Suspecting
    /\ \A l \in Node : fd[i].prim_susp[l] => l \in Suspecting
    /\ TRUE \in said[k][i] => k \in Suspecting
    /\ \A n \in 1 .. Len(tokens[k][i]) : tokens[k][i][n] => k \in Suspecting

(* Nobody has left the service or wants a change, as far as anybody knows. *)
Wants(m) == m.v_status # "OK" \/ m.need_change \/ m.need_chg_set # {}

Content ==
  \A i, k \in Correct :
    /\ \A l \in Node : ~Wants(vcm[i][l])
    /\ \A n \in 1 .. Len(net[k][i]) : ~Wants(net[k][i][n])

Calm(v) == Honest(v) /\ Content

(* While fewer than N - 2F nodes suspect the primary of the established    *)
(* view, no correct node stops its service or wants a change, whatever     *)
(* tokens are repeated and however the threads interleave                  *)
(* (upon_token_from_pj, suspected, sup_change).                            *)
FewSuspectInVain ==
  [][\A v \in Node :
       (Calm(v) /\ UNCHANGED ve /\ Cardinality(Suspecting') < N - 2 * F)
          => Calm(v)']_vars

Established(v) ==
  \A i \in Correct : ve[i].service /\ \A k \in Node : ve[i].views[k] = v

(* A primary that is silent is voted out: if all stay in its view, every   *)
(* correct node demands a view change (beats, suspicions, sup_change with  *)
(* N - 2F and then with N - F nodes).                                      *)
SilentPrimaryVotedOut ==
  \A v \in Silent : (<>[]Established(v)) => []<>(\A i \in Correct : demanded[i])

Unsuspected(v) ==
  /\ Established(v)
  /\ \A i \in Correct : /\ fd[i].prim_susp = [k \in Node |-> FALSE]
                        /\ ~demanded[i]

(* "After the view is established (new primary is Node 1), the client      *)
(* request should be assigned sequence numbers and applied": in a view     *)
(* that all have established and whose primary nobody suspects, every      *)
(* correct node comes to serve clients, which takes the status OK          *)
(* (no_view_change, read by Replication).                                  *)
ServiceResumes ==
  (<>[](\E v \in Correct : Unsuspected(v)))
     => <>(\A i \in Correct : /\ vcm[i][i].v_status = "OK"
                            /\ fd[i].prim = CurrentView(i))

=============================================================================
