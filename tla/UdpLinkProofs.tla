--------------------------- MODULE UdpLinkProofs ---------------------------
(***************************************************************************)
(* Proofs about UdpLink, for any number of messages and threads.           *)
(***************************************************************************)
EXTENDS UdpLink, TLAPS

(* One more or one less thread leaves the counts of the threads in range.  *)
LEMMA ThreadsType ==
  ASSUME NEW t \in [Counter -> 0 .. MaxThreads], NEW c \in Counter
  PROVE  /\ OneMore(t, c) \in [Counter -> 0 .. MaxThreads]
         /\ t[c] > 0 => OneLess(t, c) \in [Counter -> 0 .. MaxThreads]
BY LinkAssumption DEF OneMore, OneLess

(* Where the sender is: no message of which a datagram or a thread exists  *)
(* is beyond its counter, and it has sent a message before it sends one    *)
(* again.                                                                  *)
SenderInv ==
  /\ msg_counter <= queued
  /\ fwd \subseteq 0 .. msg_counter
  /\ \A c \in Counter : watching[c] > 0 \/ expired[c] > 0 => c <= msg_counter
  /\ pc # "start" => last_sent_msg # -1
  /\ last_sent_msg <= msg_counter

(* Where the receiver is: the messages up to x were handled, those up to y *)
(* accepted, so that y and nothing else of what was accepted may still be  *)
(* handed over; the sender is at most one ahead of y, and moves on only    *)
(* when it is not.                                                         *)
ReceiverAt(x, y) ==
  /\ delivered = 1 .. x
  /\ \/ y = x /\ (dispatching = {} \/ \E c \in 1 .. x : dispatching = {c})
     \/ y = x + 1 /\ dispatching = {y}
  /\ y <= msg_counter /\ msg_counter <= y + 1
  /\ back \subseteq 0 .. y
  /\ token <= y
  /\ token = -1 => msg_counter = 0 /\ back = {}
  /\ pc = "next" => y = msg_counter /\ token # -1

ReceiverInv == \E x, y \in Counter : ReceiverAt(x, y)

Inv == TypeOK /\ SenderInv /\ ReceiverInv

(* The link starts with nothing sent and nothing accepted.                 *)
LEMMA InvInit == Init => Inv
<1> SUFFICES ASSUME Init PROVE Inv
  OBVIOUS
<1> USE LinkAssumption DEF Init, Counter
<1>1. TypeOK
  BY DEF TypeOK
<1>2. SenderInv
  BY DEF SenderInv
<1>3. ReceiverAt(0, 0)
  BY DEF ReceiverAt
<1> QED BY <1>1, <1>2, <1>3 DEF Inv, ReceiverInv

(* Every step of the sender, its threads and the receiver keeps the types. *)
LEMMA TypeNext == Inv /\ [Next]_vars => TypeOK'
<1> SUFFICES ASSUME Inv, [Next]_vars PROVE TypeOK'
  OBVIOUS
<1> USE LinkAssumption DEF Inv, TypeOK, senderVars, timerVars, receiverVars
<1>0. msg_counter \in Counter /\ (pc # "start" => last_sent_msg \in Counter)
  BY DEF SenderInv
<1>1. ASSUME NEW c \in Counter, Send(c)
      PROVE  /\ fwd' \subseteq Counter
             /\ last_sent_msg' \in Counter
             /\ watching' \in [Counter -> 0 .. MaxThreads]
  BY <1>1, ThreadsType DEF Send, Put
<1>2. CASE AddMsgToQueue
  BY <1>2 DEF AddMsgToQueue, Counter
<1>3. CASE Start
  BY <1>0, <1>1, <1>3 DEF Start
<1>4. CASE SendNext
  <2>1. msg_counter + 1 \in Counter
    BY <1>4 DEF SendNext, Counter
  <2> QED BY <1>1, <1>4, <2>1 DEF SendNext
<1>5. CASE SendAgain
  BY <1>0, <1>1, <1>5 DEF SendAgain
<1>6. CASE Dispatch
  BY <1>6 DEF Dispatch
<1>7. ASSUME NEW c \in Counter, RecvToken(c) PROVE TypeOK'
  BY <1>7 DEF RecvToken, Take
<1>8. ASSUME NEW c \in Counter, TokenSeen(c) PROVE TypeOK'
  BY <1>8, ThreadsType DEF TokenSeen
<1>9. ASSUME NEW c \in Counter, Expire(c) PROVE TypeOK'
  BY <1>9, ThreadsType DEF Expire
<1>10. ASSUME NEW c \in Counter, Resend(c) PROVE TypeOK'
  BY <1>1, <1>10, ThreadsType DEF Resend
<1>11. ASSUME NEW c \in Counter, Receive(c) PROVE TypeOK'
  BY <1>11 DEF Receive, Take, Put
<1>12. CASE UNCHANGED vars
  BY <1>12 DEF vars
<1> QED
  BY <1>2, <1>3, <1>4, <1>5, <1>6, <1>7, <1>8, <1>9, <1>10, <1>11, <1>12 DEF Next

(* No step puts a datagram or a thread beyond the sender's counter.        *)
LEMMA SenderNext == Inv /\ [Next]_vars => SenderInv'
<1> SUFFICES ASSUME Inv, [Next]_vars PROVE SenderInv'
  OBVIOUS
<1> USE LinkAssumption DEF Inv, SenderInv, senderVars, timerVars, receiverVars
<1>0. /\ queued \in Nat /\ msg_counter \in Nat
      /\ last_sent_msg \in Counter \cup {-1}
      /\ watching \in [Counter -> 0 .. MaxThreads]
      /\ expired \in [Counter -> 0 .. MaxThreads]
  BY DEF TypeOK, Counter
<1>1. \A t \in [Counter -> 0 .. MaxThreads] : \A c, d \in Counter :
         /\ OneMore(t, c)[d] > 0 => t[d] > 0 \/ d = c
         /\ t[c] > 0 /\ OneLess(t, c)[d] > 0 => t[d] > 0
  BY DEF OneMore, OneLess
<1>2. ASSUME NEW c \in Counter, Send(c), c <= msg_counter',
             msg_counter' \in Nat, msg_counter <= msg_counter'
      PROVE  /\ fwd' \subseteq 0 .. msg_counter'
             /\ \A d \in Counter : watching'[d] > 0 => d <= msg_counter'
             /\ last_sent_msg' # -1 /\ last_sent_msg' <= msg_counter'
  <2>1. fwd' \subseteq 0 .. msg_counter'
    BY <1>0, <1>2 DEF Send, Put, Counter
  <2>2. ASSUME NEW d \in Counter, watching'[d] > 0 PROVE d <= msg_counter'
    <3>1. watching[d] > 0 \/ d = c
      BY <1>0, <1>1, <1>2, <2>2 DEF Send
    <3>2. d \in Nat
      BY DEF Counter
    <3> QED BY <1>0, <1>2, <3>1, <3>2
  <2>3. last_sent_msg' # -1 /\ last_sent_msg' <= msg_counter'
    BY <1>2 DEF Send, Counter
  <2> QED BY <2>1, <2>2, <2>3
<1>3. CASE AddMsgToQueue
  BY <1>0, <1>3 DEF AddMsgToQueue
<1>4. CASE Start
  BY <1>0, <1>2, <1>4 DEF Start, Counter, TypeOK
<1>5. CASE SendNext
  <2>1. msg_counter' = msg_counter + 1 /\ msg_counter + 1 \in Counter
    BY <1>0, <1>5 DEF SendNext, Counter, TypeOK
  <2> QED BY <1>0, <1>2, <1>5, <2>1 DEF SendNext, Counter
<1>6. CASE SendAgain
  BY <1>0, <1>2, <1>6 DEF SendAgain, Counter
<1>7. CASE Dispatch
  BY <1>7 DEF Dispatch
<1>8. ASSUME NEW c \in Counter, RecvToken(c) PROVE SenderInv'
  BY <1>8 DEF RecvToken
<1>9. ASSUME NEW c \in Counter, TokenSeen(c) PROVE SenderInv'
  BY <1>0, <1>1, <1>9 DEF TokenSeen
<1>10. ASSUME NEW c \in Counter, Expire(c) PROVE SenderInv'
  BY <1>0, <1>1, <1>10 DEF Expire
<1>11. ASSUME NEW c \in Counter, Resend(c) PROVE SenderInv'
  BY <1>0, <1>1, <1>2, <1>11 DEF Resend
<1>12. ASSUME NEW c \in Counter, Receive(c) PROVE SenderInv'
  BY <1>0, <1>12 DEF Receive, Take
<1>13. CASE UNCHANGED vars
  BY <1>13 DEF vars
<1> QED
  BY <1>3, <1>4, <1>5, <1>6, <1>7, <1>8, <1>9, <1>10, <1>11, <1>12, <1>13 DEF Next

(* No step lets the sender run ahead of what the receiver accepted.        *)
LEMMA ReceiverNext == Inv /\ [Next]_vars => ReceiverInv'
<1> SUFFICES ASSUME Inv, [Next]_vars PROVE ReceiverInv'
  OBVIOUS
<1> USE LinkAssumption DEF Inv, senderVars, timerVars, receiverVars
<1>0. PICK x, y \in Counter : ReceiverAt(x, y)
  BY DEF ReceiverInv
<1>1. /\ x \in Nat /\ y \in Nat /\ queued \in Nat /\ msg_counter \in Nat
      /\ queued <= MaxMessages /\ token \in Counter \cup {-1}
      /\ msg_counter <= queued /\ fwd \subseteq 0 .. msg_counter
      /\ \A c \in Counter : c \in Nat
  BY DEF TypeOK, SenderInv, Counter
<1> SUFFICES \E p, q \in Counter : ReceiverAt(p, q)'
  BY DEF ReceiverInv
<1>2. ASSUME UNCHANGED <<delivered, dispatching, back, token, msg_counter>>,
             pc' = "next" => pc = "next"
      PROVE  ReceiverAt(x, y)'
  BY <1>0, <1>2 DEF ReceiverAt
<1>3. CASE AddMsgToQueue \/ Start \/ SendAgain
  BY <1>2, <1>3 DEF AddMsgToQueue, Start, SendAgain
<1>4. CASE SendNext
  <2>1. ReceiverAt(x, y)'
    BY <1>0, <1>1, <1>4 DEF SendNext, ReceiverAt
  <2> QED BY <2>1
<1>5. CASE Dispatch
  <2>1. CASE y = x
    <3>1. delivered' = delivered
      BY <1>0, <1>1, <1>5, <2>1 DEF Dispatch, ReceiverAt
    <3>2. ReceiverAt(x, y)'
      BY <1>0, <1>1, <1>5, <2>1, <3>1 DEF Dispatch, ReceiverAt
    <3> QED BY <3>2
  <2>2. CASE y = x + 1
    <3>1. delivered' = 1 .. y
      BY <1>0, <1>1, <1>5, <2>2 DEF Dispatch, ReceiverAt
    <3>2. ReceiverAt(y, y)'
      BY <1>0, <1>1, <1>5, <2>2, <3>1 DEF Dispatch, ReceiverAt
    <3> QED BY <3>2
  <2> QED BY <1>0, <2>1, <2>2 DEF ReceiverAt
<1>6. ASSUME NEW c \in Counter, RecvToken(c)
      PROVE  ReceiverAt(x, y)'
  BY <1>0, <1>1, <1>6 DEF RecvToken, Take, ReceiverAt
<1>7. ASSUME NEW c \in Counter, TokenSeen(c) \/ Expire(c) \/ Resend(c)
      PROVE  ReceiverAt(x, y)'
  BY <1>2, <1>7 DEF TokenSeen, Expire, Resend
<1>8. ASSUME NEW c \in Counter, Receive(c)
      PROVE  \E p, q \in Counter : ReceiverAt(p, q)'
  <2>1. y = x /\ c <= y + 1 /\ c <= msg_counter
    BY <1>0, <1>1, <1>8 DEF Receive, ReceiverAt
  <2>2. CASE c = x + 1
    <3>1. dispatching' = {c}
      BY <1>0, <1>1, <1>8, <2>1, <2>2 DEF Receive, IsNew, ReceiverAt
    <3>2. ReceiverAt(x, c)'
      BY <1>0, <1>1, <1>8, <2>1, <2>2, <3>1 DEF Receive, Put, ReceiverAt
    <3> QED BY <3>2
  <2>3. CASE c # x + 1
    <3>1. dispatching' = {} \/ (dispatching' = {c} /\ c \in 1 .. x)
      <4>1. c # 0 => c \in 1 .. x
        BY <1>1, <2>1, <2>3
      <4>2. dispatching' = {} \/ (dispatching' = {c} /\ c # 0)
        BY <1>8 DEF Receive
      <4> QED BY <4>1, <4>2
    <3>2. ReceiverAt(x, y)'
      BY <1>0, <1>1, <1>8, <2>1, <2>3, <3>1 DEF Receive, Put, ReceiverAt
    <3> QED BY <3>2
  <2> QED BY <2>2, <2>3
<1>9. CASE UNCHANGED vars
  BY <1>2, <1>9 DEF vars
<1> QED BY <1>3, <1>4, <1>5, <1>6, <1>7, <1>8, <1>9 DEF Next

(* Inv is inductive.                                                       *)
THEOREM LinkInvariant == Spec => []Inv
<1>1. Inv /\ [Next]_vars => Inv'
  BY TypeNext, SenderNext, ReceiverNext DEF Inv
<1> QED BY <1>1, InvInit, PTL DEF Spec

(* Every variable of the link has its type, for any number of messages and  *)
(* of timer threads (src/communication/udp/sender.py).                       *)
THEOREM TypeCorrect == Spec => []TypeOK
<1>1. Inv => TypeOK
  BY DEF Inv
<1> QED BY <1>1, LinkInvariant, PTL

(* No message is skipped, for any number of messages.                      *)
THEOREM NothingIsSkipped == Spec => []NothingSkipped
<1>1. Inv => NothingSkipped
  <2> SUFFICES ASSUME Inv PROVE NothingSkipped
    OBVIOUS
  <2>1. PICK x, y \in Counter : ReceiverAt(x, y)
    BY DEF Inv, ReceiverInv
  <2>2. x \in Nat /\ y \in Nat /\ msg_counter \in Nat
    BY DEF Inv, TypeOK, Counter
  <2> QED BY <2>1, <2>2 DEF ReceiverAt, NothingSkipped
<1> QED BY <1>1, LinkInvariant, PTL

(* The link implements what OrderedLink promises.                          *)
THEOREM LinkIsOrdered == Spec => IsOrdered
<1>1. Init => Ordered!Init
  BY DEF Init, Ordered!Init
<1>2. Inv /\ [Next]_vars => [Ordered!Next]_<<msg_counter, delivered>>
  <2> SUFFICES ASSUME Inv, [Next]_vars,
                      ~ UNCHANGED <<msg_counter, delivered>>
               PROVE  Ordered!Next
    OBVIOUS
  <2>1. PICK x, y \in Counter : ReceiverAt(x, y)
    BY DEF Inv, ReceiverInv
  <2>2. x \in Nat /\ y \in Nat /\ msg_counter \in Nat
    BY DEF Inv, TypeOK, Counter
  <2>3. SendNext \/ Dispatch
    BY DEF Next, AddMsgToQueue, Start, SendAgain, RecvToken, TokenSeen, Expire,
           Resend, Receive, vars, senderVars, timerVars, receiverVars
  <2>4. CASE SendNext
    <3>1. 1 .. msg_counter - 1 \subseteq delivered
      BY <2>1, <2>2, <2>4 DEF SendNext, ReceiverAt
    <3>2. Ordered!Send
      BY <2>4, <3>1 DEF SendNext, Ordered!Send, receiverVars
    <3> QED BY <3>2 DEF Ordered!Next
  <2>5. CASE Dispatch
    <3>1. delivered # delivered' /\ msg_counter' = msg_counter
      BY <2>5 DEF Dispatch, senderVars
    <3>2. delivered' = 1 .. x + 1 /\ x + 1 \in 1 .. msg_counter
          /\ delivered = 1 .. x
      BY <2>1, <2>2, <2>5, <3>1 DEF Dispatch, ReceiverAt
    <3>3. Ordered!Deliver
      BY <2>2, <3>1, <3>2 DEF Ordered!Deliver
    <3> QED BY <3>3 DEF Ordered!Next
  <2> QED BY <2>3, <2>4, <2>5
<1> QED BY <1>1, <1>2, LinkInvariant, PTL DEF Spec, IsOrdered, Ordered!Spec

=============================================================================
