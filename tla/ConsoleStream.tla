---------------------------- MODULE ConsoleStream ----------------------------
(***************************************************************************)
(* What the synchronous console promises its clients (synchcons.h): a      *)
(* process reads a line, or a piece of one, in one step, and writes a line *)
(* in one step, as if no other process used the console.                   *)
(***************************************************************************)
EXTENDS Integers, Sequences

CONSTANTS Procs, Chars, Lines, Sizes, NewLine, CtrlA, NULL

VARIABLES
  unread,    \* what has been typed and not been read
  display,   \* what has been written
  result     \* the last call of each process that returned

Init ==
  /\ unread = <<>>
  /\ display = <<>>
  /\ result = [p \in Procs |-> NULL]

Returns(p, numBytes, line, ret) ==
  result' = [result EXCEPT ![p] = [size |-> numBytes, line |-> line, ret |-> ret]]

Type(c) == unread' = Append(unread, c) /\ UNCHANGED <<display, result>>

Write(p, line) ==
  /\ display' = display \o line
  /\ Returns(p, Len(line), line, Len(line))
  /\ UNCHANGED unread

Ends == {NewLine, CtrlA}

NoEnd(n) == \A i \in 1 .. n : unread[i] \notin Ends

(* A Read takes numBytes characters, or those up to an end of line, which  *)
(* is taken too and not returned.                                          *)
ReadPiece(p, numBytes) ==
  /\ numBytes > 0 /\ numBytes <= Len(unread)
  /\ NoEnd(numBytes)
  /\ Returns(p, numBytes, SubSeq(unread, 1, numBytes), numBytes)
  /\ unread' = SubSeq(unread, numBytes + 1, Len(unread))
  /\ UNCHANGED display

ReadLine(p, numBytes) ==
  \E n \in DOMAIN unread :
    /\ n <= numBytes
    /\ unread[n] \in Ends
    /\ NoEnd(n - 1)
    /\ Returns(p, numBytes, SubSeq(unread, 1, n - 1),
               IF unread[n] = CtrlA THEN -1 ELSE n - 1)
    /\ unread' = SubSeq(unread, n + 1, Len(unread))
    /\ UNCHANGED display

(* A Read of no bytes takes nothing and returns one of two values.         *)
ReadNothing(p) ==
  /\ \E ret \in {-1, 0} : Returns(p, 0, <<>>, ret)
  /\ UNCHANGED <<unread, display>>

Next ==
  \/ \E c \in Chars : Type(c)
  \/ \E p \in Procs, line \in Lines : Write(p, line)
  \/ \E p \in Procs, n \in Sizes : ReadPiece(p, n) \/ ReadLine(p, n)
  \/ \E p \in Procs : ReadNothing(p)

Spec == Init /\ [][Next]_<<unread, display, result>>

=============================================================================
