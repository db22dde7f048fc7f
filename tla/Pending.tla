------------------------------ MODULE Pending ------------------------------
(***************************************************************************)
(* The list of pending interrupts of class Interrupt, a List sorted by     *)
(* time, and what Interrupt::CheckIfDue decides about its first element.   *)
(* Module Kernel lets a pending interrupt fire at any time; here the clock *)
(* is modelled.                                                            *)
(***************************************************************************)
EXTENDS Integers, Sequences

(* Mutant of SortedInsert: the key is not looked at.                       *)
AppendAlways(list, item) == Append(list, item)

(* List::SortedInsert: behind every element that is not later.             *)
SortedInsert(list, item) ==
  LET before == {i \in DOMAIN list : \A j \in 1..i : list[j].when <= item.when}
      n == CHOOSE n \in before \cup {0} : \A i \in before : i <= n
  IN  SubSeq(list, 1, n) \o <<item>> \o SubSeq(list, n + 1, Len(list))

(* Interrupt::Schedule; its ASSERT is fromNow > 0.                         *)
Schedule(list, now, fromNow, type) ==
  SortedInsert(list, [when |-> now + fromNow, type |-> type])

(* Mutant of TimerOnly: the timer alone is not told from the timer first.  *)
TimerFirst(list) == Head(list).type = "TimerInt"

(* Nothing more to do: the time-slice daemon is all that is left.          *)
TimerOnly(list) == Head(list).type = "TimerInt" /\ Tail(list) = <<>>

(* CheckIfDue(FALSE): the interrupt that fires now, if any.                *)
Due(list, now, idle) ==
  /\ list # <<>>
  /\ Head(list).when <= now
  /\ ~(idle /\ TimerOnly(list))

(* What CheckIfDue(FALSE) leaves when none fires: the first element was    *)
(* taken off and inserted again, behind those of the same time.            *)
PutBack(list) == IF list = <<>> THEN list ELSE SortedInsert(Tail(list), Head(list))

=============================================================================
