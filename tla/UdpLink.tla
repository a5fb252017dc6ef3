------------------------------ MODULE UdpLink ------------------------------
(***************************************************************************)
(* The token-passing link that carries the messages of the failure         *)
(* detectors from one node to another over UDP                             *)
(* (src/communication/udp/sender.py and receiver.py).                      *)
(*                                                                         *)
(* The sender's main loop sends the next message when the token of the     *)
(* last one is back; a thread per message that was sent watches for its    *)
(* token and sends the message again after a timeout.  The receiver        *)
(* returns the token of whatever arrives and passes the payload on if the  *)
(* token is not the last it has seen.  The network loses, duplicates,      *)
(* delays and reorders datagrams: a channel is the set of those that may   *)
(* arrive.                                                                 *)
(*                                                                         *)
(* A message is its counter, which numbers the payloads from 1 on; message *)
(* 0 opens the link and has none.                                          *)
(***************************************************************************)
EXTENDS Integers

CONSTANTS
  MaxMessages,  \* bound: messages added to the queue
  MaxThreads    \* bound: threads told apart that watch for the same token

ASSUME LinkAssumption == MaxMessages \in Nat /\ MaxThreads \in Nat \ {0}

VARIABLES
  queued,                 \* messages ever added to msg_queue
  pc,                     \* where the sender's main loop is
  msg_counter,            \* the last message taken from the queue
  last_sent_msg,          \* the last message sent, -1: none
  last_recv_msg_counter,  \* the last token that came back
  watching,               \* per message: threads that wait for its token
  expired,                \* per message: threads about to send it again
  fwd,                    \* datagrams on their way to the receiver
  back,                   \* tokens on their way to the sender
  token,                  \* msg_counters[sender], -1: none
  dispatching,            \* the message that on_message_recv is called with
  delivered               \* the messages that on_message_recv has handled

senderVars == <<queued, pc, msg_counter, last_sent_msg, last_recv_msg_counter>>
timerVars == <<watching, expired>>
receiverVars == <<token, dispatching, delivered>>
vars == <<senderVars, timerVars, fwd, back, receiverVars>>

Counter == 0 .. MaxMessages

Init ==
  /\ queued = 0
  /\ pc = "start"
  /\ msg_counter = 0
  /\ last_sent_msg = -1
  /\ last_recv_msg_counter = -1
  /\ watching = [c \in Counter |-> 0]
  /\ expired = [c \in Counter |-> 0]
  /\ fwd = {}
  /\ back = {}
  /\ token = -1
  /\ dispatching = {}
  /\ delivered = {}

-----------------------------------------------------------------------------
(* The sender.                                                             *)

AddMsgToQueue ==
  /\ queued < MaxMessages
  /\ queued' = queued + 1
  /\ UNCHANGED <<pc, msg_counter, last_sent_msg, last_recv_msg_counter>>
  /\ UNCHANGED <<timerVars, fwd, back, receiverVars>>

OneMore(threads, c) ==
  [threads EXCEPT ![c] = IF @ < MaxThreads THEN @ + 1 ELSE @]
OneLess(threads, c) == [threads EXCEPT ![c] = @ - 1]

(* A datagram gets lost or is on its way from now on.                      *)
Put(c, channel) == { channel, channel \cup {c} }

(* A datagram that arrives may have another copy on its way.               *)
Take(c, channel) == { channel, channel \ {c} }

(* send() with a timeout.                                                  *)
Send(c) ==
  /\ fwd' \in Put(c, fwd)
  /\ last_sent_msg' = c
  /\ watching' = OneMore(watching, c)

Start ==
  /\ pc = "start"
  /\ Send(msg_counter)
  /\ pc' = "recv"
  /\ UNCHANGED <<queued, msg_counter, last_recv_msg_counter>>
  /\ UNCHANGED <<expired, back, receiverVars>>

(* Mutant: the token of the message before is taken for the awaited one.   *)
RecvOlderToken(c) ==
  /\ pc = "recv"
  /\ c \in back
  /\ back' \in Take(c, back)
  /\ last_recv_msg_counter' = c
  /\ pc' = IF c >= msg_counter - 1 THEN "next" ELSE "again"
  /\ UNCHANGED <<queued, msg_counter, last_sent_msg>>
  /\ UNCHANGED <<timerVars, fwd, receiverVars>>

RecvToken(c) ==
  /\ pc = "recv"
  /\ c \in back
  /\ back' \in Take(c, back)
  /\ last_recv_msg_counter' = c
  /\ pc' = IF c >= msg_counter THEN "next" ELSE "again"
  /\ UNCHANGED <<queued, msg_counter, last_sent_msg>>
  /\ UNCHANGED <<timerVars, fwd, receiverVars>>

(* Mutant: the sender does not wait for a message in its queue.            *)
SendNextOrNone ==
  /\ pc = "next"
  /\ msg_counter' = msg_counter + 1
  /\ Send(msg_counter + 1)
  /\ pc' = "recv"
  /\ UNCHANGED <<queued, last_recv_msg_counter>>
  /\ UNCHANGED <<expired, back, receiverVars>>

SendNext ==
  /\ pc = "next"
  /\ msg_counter < queued
  /\ msg_counter' = msg_counter + 1
  /\ Send(msg_counter + 1)
  /\ pc' = "recv"
  /\ UNCHANGED <<queued, last_recv_msg_counter>>
  /\ UNCHANGED <<expired, back, receiverVars>>

(* The last message that any thread has sent, with one more thread.        *)
SendAgain ==
  /\ pc = "again"
  /\ Send(last_sent_msg)
  /\ pc' = "recv"
  /\ UNCHANGED <<queued, msg_counter, last_recv_msg_counter>>
  /\ UNCHANGED <<expired, back, receiverVars>>

-----------------------------------------------------------------------------
(* check_timeout(): between the last look at last_recv_msg_counter and the *)
(* message being sent again, the main loop goes on.                        *)

TokenSeen(c) ==
  /\ watching[c] > 0
  /\ last_recv_msg_counter >= c
  /\ watching' = OneLess(watching, c)
  /\ UNCHANGED <<senderVars, expired, fwd, back, receiverVars>>

(* Mutant: a thread whose time is over ends without sending.               *)
ExpireSilently(c) ==
  /\ watching[c] > 0
  /\ last_recv_msg_counter < c
  /\ watching' = OneLess(watching, c)
  /\ UNCHANGED <<senderVars, expired, fwd, back, receiverVars>>

Expire(c) ==
  /\ watching[c] > 0
  /\ last_recv_msg_counter < c
  /\ watching' = OneLess(watching, c)
  /\ expired' = OneMore(expired, c)
  /\ UNCHANGED <<senderVars, fwd, back, receiverVars>>

Resend(c) ==
  /\ expired[c] > 0
  /\ expired' = OneLess(expired, c)
  /\ Send(c)
  /\ UNCHANGED <<queued, pc, msg_counter, last_recv_msg_counter>>
  /\ UNCHANGED <<back, receiverVars>>

-----------------------------------------------------------------------------
(* The receiver: the token goes back before the payload is handled.        *)

(* Mutant: a token counts as new only from the one after the next on.      *)
IsNewer(c) == c > token + 1

IsNew(c) == c # token

Receive(c) ==
  /\ dispatching = {}
  /\ c \in fwd
  /\ fwd' \in Take(c, fwd)
  /\ back' \in Put(c, back)
  /\ token' = c
  /\ dispatching' = IF IsNew(c) /\ c # 0 THEN {c} ELSE {}
  /\ UNCHANGED <<senderVars, timerVars, delivered>>

Dispatch ==
  /\ dispatching # {}
  /\ delivered' = delivered \cup dispatching
  /\ dispatching' = {}
  /\ UNCHANGED <<senderVars, timerVars, fwd, back, token>>

-----------------------------------------------------------------------------
Next ==
  \/ AddMsgToQueue
  \/ Start
  \/ SendNext
  \/ SendAgain
  \/ Dispatch
  \/ \E c \in Counter : \/ RecvToken(c)
                        \/ TokenSeen(c)
                        \/ Expire(c)
                        \/ Resend(c)
                        \/ Receive(c)

Spec == Init /\ [][Next]_vars

(* All threads keep running, time passes, and a datagram that is sent      *)
(* again and again is not lost every time.                                 *)
Fairness ==
  /\ WF_vars(Start) /\ WF_vars(SendNext) /\ WF_vars(SendAgain)
  /\ WF_vars(Dispatch)
  /\ \A c \in Counter :
       /\ WF_vars(TokenSeen(c)) /\ WF_vars(Expire(c))
       /\ SF_vars(Resend(c) /\ c \in fwd')
       /\ SF_vars(Receive(c) /\ c \in back')
       /\ SF_vars(RecvToken(c))

FairSpec == Spec /\ Fairness

-----------------------------------------------------------------------------
(* Every variable has its type.                                            *)
TypeOK ==
  /\ queued \in Counter
  /\ pc \in {"start", "recv", "next", "again"}
  /\ msg_counter \in Counter
  /\ last_sent_msg \in Counter \cup {-1}
  /\ last_recv_msg_counter \in Counter \cup {-1}
  /\ watching \in [Counter -> 0 .. MaxThreads]
  /\ expired \in [Counter -> 0 .. MaxThreads]
  /\ fwd \subseteq Counter
  /\ back \subseteq Counter
  /\ token \in Counter \cup {-1}
  /\ dispatching \subseteq Counter
  /\ delivered \subseteq Counter

(* A message is sent for the first time when all before it were handled by *)
(* the application of the other node, or the last of them is just being    *)
(* handed to it: the counters that the sender compares with >= and the     *)
(* receiver with # never let a message be skipped, whatever tokens come    *)
(* back late, twice or out of order (Sender.start, Receiver.listen).       *)
NothingSkipped ==
  \A c \in 1 .. msg_counter - 1 : c \in delivered \cup dispatching

(* The link implements OrderedLink: the first deliveries are in order, one *)
(* by one, and the sender is at most two messages ahead.                   *)
Ordered == INSTANCE OrderedLink WITH sent <- msg_counter, got <- delivered
IsOrdered == Ordered!Spec

(* Every message given to the link is handled at the other side, if what   *)
(* is sent again and again arrives (check_timeout sends again until the    *)
(* token is back).                                                         *)
EventuallyDelivered ==
  \A c \in Counter \ {0} : (queued >= c) ~> (c \in delivered)

(* "if token already received, send back token to sender": a payload whose *)
(* token was received before is not handed to the application again.       *)
HandedOverOnce ==
  [][\A c \in Counter : c \in dispatching' \ dispatching => c \notin delivered]_vars

=============================================================================
