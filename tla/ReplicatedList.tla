---------------------------- MODULE ReplicatedList ----------------------------
(***************************************************************************)
(* What Replication promises to clients: one list, of which each correct   *)
(* node has a beginning (src/modules/replication/module.py; "a list        *)
(* modeled as a BFT replicated state machine", src/README.md).             *)
(***************************************************************************)
EXTENDS SequencesExt

CONSTANTS
  Replica,  \* the correct nodes
  Item      \* what clients may ask to append, each once

VARIABLES
  wanted,   \* what clients have asked for
  list,     \* the list
  copy      \* copy[i]: what node i has of it

listVars == <<wanted, list, copy>>

(* The list holds what was asked for, once.                                *)
IsServed(l, W) == ToSet(l) \subseteq W /\ IsInjective(l)

Init ==
  /\ wanted \subseteq Item
  /\ IsServed(list, wanted)
  /\ \A i \in Replica : IsPrefix(copy[i], list)

(* Clients ask for more.                                                   *)
Ask == wanted \subseteq wanted' /\ wanted' \subseteq Item

(* A node goes further along the list, and may be the first to do so: the  *)
(* list never changes but at its end.                                      *)
Extend(i) ==
  /\ IsPrefix(list, list')
  /\ IsServed(list', wanted')
  /\ IsPrefix(copy[i], copy'[i])
  /\ IsPrefix(copy'[i], list')
  /\ copy' = [copy EXCEPT ![i] = copy'[i]]

Next == Ask /\ (UNCHANGED <<list, copy>> \/ \E i \in Replica : Extend(i))

Spec == Init /\ [][Next]_listVars

=============================================================================
