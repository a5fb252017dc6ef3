---------------------------- MODULE Replication ----------------------------
(***************************************************************************)
(* The Replication modules of all nodes, run concurrently                  *)
(* (src/modules/replication/module.py), over the links that carry their    *)
(* messages.                                                               *)
(*                                                                         *)
(* Each node runs one loop: the body of run(), under replication_lock,     *)
(* then send_msg(), which holds no lock and visits the nodes one by one,   *)
(* then throttle().  The receiver thread delivers messages under the lock. *)
(* The API thread injects requests, and View Establishment and Primary     *)
(* Monitoring move on, at any time.  replica_flush(), which nothing calls, *)
(* is left out with the flag it sets.                                      *)
(***************************************************************************)
EXTENDS ReplicationPredicates

CONSTANTS
  Answers,         \* what the other two modules may answer
  FirstAnswer,     \* and what they answer when the program starts
  StartStates,     \* the structures, at all nodes, the program may start in
  MAX_QUEUE_SIZE,  \* a loop goes on only when no queue is longer
  MaxMoves         \* bound: how often answers change, at all nodes together;
                   \* those of a node only once for another view

(* get_current_view(j) for each j, allow_service() and no_view_change().   *)
Answer == [views : [Node -> View], service : BOOLEAN, no_view_change : BOOLEAN]

ASSUME AnswersAssumption == Answers \subseteq Answer /\ FirstAnswer \in Answers
ASSUME StartAssumption ==
  /\ StartStates \subseteq [Node -> [Node -> Structure]]
  /\ \A S \in StartStates : \A i, j \in Node :
       IsFiniteSet(S[i][j].pend_reqs) /\ IsFiniteSet(S[i][j].req_q)
ASSUME BoundAssumption == MAX_QUEUE_SIZE \in Nat /\ MaxMoves \in Nat

Correct == { i \in Node : Behaviour[i] = "NONE" }

(* Nodes that are UNRESPONSIVE run and send nothing: nobody sees their     *)
(* steps.                                                                  *)
Alive == { i \in Node : Behaviour[i] # "UNRESPONSIVE" }

VARIABLES
  rep,         \* rep[i][j]: the structure that node i believes j to have
  need_flush,  \* need_flush[i]: node i wants View Establishment to reset
  pc,          \* pc[i]: the node send_msg() is about to visit; N: top of the loop
  net,         \* net[i][j]: the queue of node i towards node j
  ve,          \* ve[i]: what the other modules of node i answer now
  moves,       \* how often that changed
  asked        \* asked[i]: the requests that clients have sent to node i

vars == <<rep, need_flush, pc, net, ve, moves, asked>>

(* The client requests that have reached node i.                           *)
KnownTo(i) == rep[i][i].pend_reqs \cup
              ({ r.client_request : r \in RequestsOf(rep[i][i]) } \ {Dummy})

Init ==
  /\ rep \in StartStates
  /\ need_flush = [i \in Node |-> FALSE]
  /\ pc = [i \in Node |-> N]
  /\ net = [i \in Node |-> [j \in Node |-> <<>>]]
  /\ ve = [i \in Node |-> FirstAnswer]
  /\ moves = 0
  /\ asked = [i \in Node |-> KnownTo(i)]

-----------------------------------------------------------------------------
(* The body of run().                                                      *)

(* The first node from k on that send_msg() has to visit.                  *)
NextPeer(i, k) ==
  LET peers == { j \in Alive \ {i} : j >= k }
  IN  IF peers = {} THEN N ELSE CHOOSE j \in peers : \A l \in peers : j <= l

(* throttle() let the loop go on.                                          *)
QueuesHaveRoom(i) == \A j \in Node : Len(net[i][j]) <= MAX_QUEUE_SIZE

(* A turn of the loop, at the end of which send_msg() begins.              *)
LoopStarts(i) ==
  /\ i \in Alive
  /\ pc[i] = N
  /\ QueuesHaveRoom(i)
  /\ pc' = [pc EXCEPT ![i] = NextPeer(i, 0)]

(* The loop body, when View Establishment gives the answer read at first,  *)
(* and again when the view is taken over, Primary Monitoring says whether  *)
(* a view change is wanted, and the requests C come from clients after the *)
(* own state was consolidated.                                             *)
Agreed(i, read, again) ==
  { [S EXCEPT ![i] = Consolidate(S, i)] :
      S \in { [rep[i] EXCEPT ![i] = s] : s \in ViewPart(rep[i], i, read, again) } }

AskedFor(S, i, C) ==
  { [S EXCEPT ![i] = s] :
      s \in UNION { ExtendPendReqs(t, KnownPendReqs([S EXCEPT ![i] = t])) :
                      t \in ExtendPendReqs(S[i], C) } }

RunBody(i, read, again, no_view_change, C) ==
  /\ LoopStarts(i)
  /\ \E S \in Agreed(i, read, again) :
       LET flush == MustFlush(S, i)
       IN  /\ need_flush' = [need_flush EXCEPT ![i] = @ \/ flush]
           /\ \E T \in AskedFor(IF flush THEN FlushLocal ELSE S, i, C) :
                \E s \in IF /\ read.service
                           /\ ~need_flush'[i]
                           /\ no_view_change
                           /\ ~T[i].view_changed
                          THEN ProcessRequests(T, i, again.views[i])
                          ELSE { T[i] } :
                  rep' = [rep EXCEPT ![i] = [T EXCEPT ![i] = s]]
  /\ UNCHANGED net

Run(i) ==
  /\ RunBody(i, ve[i], ve[i], ve[i].no_view_change, {})
  /\ UNCHANGED <<ve, moves, asked>>

-----------------------------------------------------------------------------
(* The threads that take no lock: the API, and the other modules.          *)

(* inject_client_req().                                                    *)
Inject(i, c) ==
  /\ i \in Alive
  /\ c \notin asked[i]
  /\ asked' = [asked EXCEPT ![i] = @ \cup {c}]
  /\ \E s \in ExtendPendReqs(rep[i][i], {c}) : rep' = [rep EXCEPT ![i][i] = s]
  /\ UNCHANGED <<need_flush, pc, net, ve, moves>>

RunDuringInject(i, c) ==
  /\ c \notin asked[i]
  /\ asked' = [asked EXCEPT ![i] = @ \cup {c}]
  /\ RunBody(i, ve[i], ve[i], ve[i].no_view_change, {c})
  /\ UNCHANGED <<ve, moves>>

MoveTo(i, a) ==
  /\ moves < MaxMoves
  /\ moves' = moves + 1
  /\ a # ve[i]
  /\ a.views # ve[i].views => ve[i].views = FirstAnswer.views
  /\ ve' = [ve EXCEPT ![i] = a]

(* A reset of View Establishment takes the demand back, see                *)
(* rep_request_reset().                                                    *)
Move(i) ==
  /\ \E a \in Answers : MoveTo(i, a)
  /\ \/ UNCHANGED need_flush
     \/ need_flush' = [need_flush EXCEPT ![i] = FALSE]
  /\ UNCHANGED <<rep, pc, net, asked>>

(* The loop reads the view once before the move and once after it, or the  *)
(* view before and no_view_change() after it.                              *)
RunAcrossMove(i) ==
  /\ \E a \in Answers : /\ MoveTo(i, a)
                        /\ \E again \in {ve[i], a} :
                             RunBody(i, ve[i], again, a.no_view_change, {})
  /\ UNCHANGED asked

-----------------------------------------------------------------------------
(* send_msg() and receive_rep_msg().                                       *)

SendTo(i, j) ==
  /\ pc[i] = j
  /\ net' = [net EXCEPT ![i][j] = Append(@, rep[i][i])]
  /\ pc' = [pc EXCEPT ![i] = NextPeer(i, j + 1)]
  /\ UNCHANGED <<rep, need_flush, ve, moves, asked>>

(* While a view change is wanted only the state is believed.               *)
Believed(i, j, s) ==
  IF ~ve[i].service THEN rep[i][j]
  ELSE IF ve[i].no_view_change THEN s
  ELSE [rep[i][j] EXCEPT !.rep_state = s.rep_state]

Receive(i, j) ==
  /\ net[j][i] # <<>>
  /\ rep' = [rep EXCEPT ![i][j] = Believed(i, j, Head(net[j][i]))]
  /\ net' = [net EXCEPT ![j][i] = Tail(@)]
  /\ UNCHANGED <<need_flush, pc, ve, moves, asked>>

-----------------------------------------------------------------------------
Next ==
  \/ \E i \in Node : Run(i) \/ RunAcrossMove(i) \/ Move(i)
  \/ \E i \in Node, c \in ClientRequest : Inject(i, c) \/ RunDuringInject(i, c)
  \/ \E i, j \in Node : SendTo(i, j) \/ Receive(i, j)

Spec == Init /\ [][Next]_vars

(* The threads run: each loop, its rounds of send_msg(), each receiver.    *)
(* Nothing makes clients send or views change.                             *)
Fairness == /\ \A i \in Node : WF_pc(LoopStarts(i))
            /\ \A i, j \in Node : WF_vars(SendTo(i, j)) /\ WF_vars(Receive(i, j))

FairSpec == Spec /\ Fairness

-----------------------------------------------------------------------------
(* Properties.                                                             *)

TypeOK ==
  /\ rep \in [Node -> [Node -> Structure]]
  /\ need_flush \in [Node -> BOOLEAN]
  /\ pc \in [Node -> 0 .. N]
  /\ net \in [Node -> [Node -> Seq(Structure)]]
  /\ ve \in [Node -> Answers]
  /\ moves \in 0 .. MaxMoves
  /\ asked \in [Node -> SUBSET ClientRequest]

(* What node i itself holds.                                               *)
Own(i) == rep[i][i]

(* The replicas are one list: what two correct nodes have executed is the  *)
(* same as far as both have come, and no number stands for two requests,   *)
(* whatever their loops believed of each other when they executed it       *)
(* (committed_set, commit), and across a view change                       *)
(* (act_as_prim_when_view_changed).                                        *)
LogsAgree ==
  \A i, j \in Correct :
    /\ Agree(Own(i).rep_state, Own(j).rep_state)
    /\ \A r \in LogRequests(Own(i)), o \in LogRequests(Own(j)) :
         r.seq_num = o.seq_num => r = o


(* The nodes implement one list that only grows, of what clients asked     *)
(* for, once each: what a correct node has executed is never taken back,   *)
(* by no consolidated state and no new primary, and no node will ever have *)
(* anything else in that place (run, lines 9 to 14;                        *)
(* act_as_prim_when_view_changed; act_as_nonprim_when_view_changed).       *)
Copies == [i \in Correct |-> Own(i).rep_state]
Longest == Copies[CHOOSE i \in Correct :
                    \A j \in Correct : Len(Copies[j]) <= Len(Copies[i])]
Wanted == { ValueOf[r] : r \in UNION { asked[i] : i \in Node } }

OneList == INSTANCE ReplicatedList
             WITH Replica <- Correct, Item <- Range(ValueOf),
                  wanted <- Wanted, list <- Longest, copy <- Copies
IsOneList == OneList!Spec

(* "A request should not already exist with the same sequence number or    *)
(* same client request" (accept_req_preprep): no client request is         *)
(* executed twice, however often the client and the other nodes tell of it *)
(* (known_pend_reqs, unassigned_reqs, request_already_exists).             *)
ExecutedOnce ==
  \A i \in Correct : \A m, n \in DOMAIN Own(i).rep_state :
    Own(i).rep_state[m] = Own(i).rep_state[n] => m = n

(* A list ends with what the requests of the node's log append, once it    *)
(* does, however list and log were come by: executed one by one, cut at    *)
(* the front, consolidated from two different nodes (find_cons_state,      *)
(* get_corresponding_r_log), taken over from a new primary, or flushed.    *)
FitsLog(s) == IsSuffix(Executed(s.r_log), s.rep_state)

ListsStayFitting == [][\A i \in Node : FitsLog(Own(i)) => FitsLog(Own(i))']_vars

(* "Requests are always added with consecutive sequence number"            *)
(* (last_exec): so are they in all logs that nodes hold, of themselves, of *)
(* others and in messages, through consolidation, view changes, lost       *)
(* entries and flushes.                                                    *)
Consecutive(s) ==
  \A n \in 1 .. Len(s.r_log) - 1 :
    s.r_log[n + 1].request.seq_num = s.r_log[n].request.seq_num + 1

LogsOrdered ==
  \A i, j \in Node : /\ Consecutive(rep[i][j])
                     /\ \A m \in DOMAIN net[i][j] : Consecutive(net[i][j][m])

LogsStayOrdered == [][LogsOrdered => LogsOrdered']_vars

(* Once every number in use, in queues, logs and messages, is one that the *)
(* primary has given, and to one request, it stays so as long as the view  *)
(* does, and the nodes do not flush, even if nodes other than the primary  *)
(* are byzantine (run, lines 15 to 25).                                    *)
Steady(v) ==
  /\ Behaviour[v] = "NONE"
  /\ \A i \in Node : ve[i].views[i] = v /\ Own(i).prim = v /\ ~Own(i).view_changed

InUse == UNION { RequestsOf(rep[l[1]][l[2]]) \cup
                 UNION { RequestsOf(s) : s \in Range(net[l[1]][l[2]]) } :
                 l \in Node \X Node }

NumbersUnique(v) ==
  \A r, o \in InUse : /\ r.seq_num <= Own(v).seq_num
                      /\ r.seq_num = o.seq_num => r = o

NumbersStayUnique ==
  [][\A v \in Node :
       Steady(v) /\ Steady(v)' /\ NumbersUnique(v) => NumbersUnique(v)']_vars

(* When all clients have asked all nodes, and nothing disturbs the view,   *)
(* all requests are executed at all correct nodes, however the loops and   *)
(* the messages are interleaved and whatever was suspended before.         *)
Undisturbed == \A i \in Node : ve[i] = FirstAnswer
AllAsked == \A i \in Alive : asked[i] = ClientRequest
AllServed == \A i \in Correct :
               ClientRequest \subseteq { r.client_request : r \in LogRequests(Own(i)) }

RequestsServed == <>[](AllAsked /\ Undisturbed) => <>AllServed

=============================================================================
