----------------------------- MODULE LinkedList -----------------------------
(***************************************************************************)
(* class List: ListElements linked by `next', with pointers to the first   *)
(* and to the last.  The other modules take a List for the sequence of its *)
(* items; Sequenced says what that needs.                                  *)
(*                                                                         *)
(* A list is [first, last, element]: element[a] is the ListElement at      *)
(* address a, for the addresses allocated and not deleted.                 *)
(***************************************************************************)
EXTENDS Pending, FiniteSets

Nil == 0

ListElement(item, sortKey, next) == [item |-> item, key |-> sortKey, next |-> next]

EmptyList == [first |-> Nil, last |-> Nil, element |-> <<>>]

IsEmpty(l) == l.first = Nil

(* An address `new' may return, and the elements with one more there.      *)
Fresh(l) ==
  CHOOSE a \in 1..(1 + Cardinality(DOMAIN l.element)) : a \notin DOMAIN l.element

With(l, e) ==
  [a \in DOMAIN l.element \cup {Fresh(l)} |->
     IF a = Fresh(l) THEN e ELSE l.element[a]]

Only(l, e) == [first |-> Fresh(l), last |-> Fresh(l), element |-> With(l, e)]

AtEnd(l, e) ==
  [l EXCEPT !.last = Fresh(l),
            !.element = [With(l, e) EXCEPT ![l.last].next = Fresh(l)]]

AppendItem(l, item) ==
  LET e == ListElement(item, 0, Nil)
  IN  IF IsEmpty(l) THEN Only(l, e) ELSE AtEnd(l, e)

Prepend(l, item) ==
  IF IsEmpty(l)
  THEN Only(l, ListElement(item, 0, Nil))
  ELSE [l EXCEPT !.first = Fresh(l), !.element = With(l, ListElement(item, 0, l.first))]

(* The loop of SortedInsert: the element the new one goes behind.          *)
Before(l, sortKey) ==
  LET walk[ptr \in DOMAIN l.element] ==
        LET next == l.element[ptr].next
        IN  IF next = Nil \/ sortKey < l.element[next].key THEN ptr ELSE walk[next]
  IN  walk[l.first]

InsertItem(l, item, sortKey) ==
  LET e == ListElement(item, sortKey, Nil)
      ptr == Before(l, sortKey)
      next == l.element[ptr].next
  IN  IF IsEmpty(l) THEN Only(l, e)
      ELSE IF sortKey < l.element[l.first].key
           THEN [l EXCEPT !.first = Fresh(l),
                          !.element = With(l, ListElement(item, sortKey, l.first))]
      ELSE IF next = Nil THEN AtEnd(l, e)
      ELSE [l EXCEPT !.element = [With(l, ListElement(item, sortKey, next))
                                    EXCEPT ![ptr].next = Fresh(l)]]

(* SortedRemove, the list it leaves: a list of one has its last reset too. *)
SortedRemove(l) ==
  LET rest == [a \in DOMAIN l.element \ {l.first} |-> l.element[a]]
  IN  IF IsEmpty(l) THEN l
      ELSE IF l.first = l.last THEN [first |-> Nil, last |-> Nil, element |-> rest]
      ELSE [l EXCEPT !.first = l.element[l.first].next, !.element = rest]

-----------------------------------------------------------------------------
(* The items in order, as the elements of Pending's lists.                 *)
Items(l) ==
  LET walk[a \in DOMAIN l.element \cup {Nil}] ==
        IF a = Nil THEN <<>>
        ELSE <<[when |-> l.element[a].key, type |-> l.element[a].item]>>
               \o walk[l.element[a].next]
  IN  walk[l.first]

(* The list of at most n operations.                                       *)
Made(n, things, keys) ==
  LET lists[i \in 0..n] ==
        IF i = 0 THEN {EmptyList}
        ELSE LET old == lists[i - 1]
             IN  old \cup {AppendItem(l, x) : l \in old, x \in things}
                     \cup {Prepend(l, x) : l \in old, x \in things}
                     \cup {InsertItem(l, x, k) : l \in old, x \in things, k \in keys}
                     \cup {SortedRemove(l) : l \in old}
  IN  lists[n]

(* Every operation on the list does to its items what the one on sequences *)
(* does, `last' is the end of the chain, and nothing is allocated that is  *)
(* not on the list.                                                        *)
Sequenced(l, things, keys) ==
  /\ (l.first = Nil) <=> (Items(l) = <<>>)
  /\ (l.last = Nil) <=> (Items(l) = <<>>)
  /\ Cardinality(DOMAIN l.element) = Len(Items(l))
  /\ ~IsEmpty(l) => /\ l.last \in DOMAIN l.element
                    /\ l.element[l.last].next = Nil
                    /\ Items([l EXCEPT !.first = l.last]) = <<Items(l)[Len(Items(l))]>>
                    /\ Items(SortedRemove(l)) = Tail(Items(l))
  /\ \A x \in things :
       /\ Items(AppendItem(l, x)) = Append(Items(l), [when |-> 0, type |-> x])
       /\ Items(Prepend(l, x)) = <<[when |-> 0, type |-> x]>> \o Items(l)
       /\ \A k \in keys :
            Items(InsertItem(l, x, k)) = SortedInsert(Items(l), [when |-> k, type |-> x])

=============================================================================
