---------------------------- MODULE OrderedLink ----------------------------
(***************************************************************************)
(* What the link between two failure detectors promises, whatever the      *)
(* network does to its datagrams: no message is skipped, a message reaches *)
(* the other side for the first time after all that were sent before it,   *)
(* and the sender is at most two messages ahead.  It does not promise that *)
(* a message arrives only once.                                            *)
(***************************************************************************)
EXTENDS Naturals

VARIABLES
  sent,  \* how many messages were given to the link
  got    \* the numbers of the messages that arrived

Init == sent = 0 /\ got = {}

(* The one before the last may be still on its way to the application.     *)
Send ==
  /\ 1 .. sent - 1 \subseteq got
  /\ sent' = sent + 1
  /\ UNCHANGED got

Deliver ==
  \E m \in 1 .. sent :
     /\ got = 1 .. m - 1
     /\ got' = 1 .. m
     /\ UNCHANGED sent

Next == Send \/ Deliver

Spec == Init /\ [][Next]_<<sent, got>>

=============================================================================
