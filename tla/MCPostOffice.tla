---------------------------- MODULE MCPostOffice ----------------------------
(***************************************************************************)
(* Two machines for TLC, and the lists their mailboxes are made of.        *)
(***************************************************************************)
EXTENDS PostOffice, LinkedList

MCFar == [m \in Machines |-> CHOOSE n \in Machines : n # m]

(* class List, after every four operations, is the sequence of its items.  *)
ASSUME ListsAreSequences ==
  \A l \in Made(4, {"a", "b"}, {0, 1, 2}) : Sequenced(l, {"a", "b"}, {0, 1, 2})
=============================================================================
