------------------------------- MODULE IntIO -------------------------------
(***************************************************************************)
(* The numbers that Exception_ReadInt and Exception_PrintInt convert.  A   *)
(* character is a digit 0..9, a sign, a blank or another character.        *)
(***************************************************************************)
EXTENDS Mips

Minus == 10
Plus  == 11
Blank == 12
Other == 13
Digits == 0..9

MaxInt == Size \div 2 - 1

(* The decimal digits of n, the most significant first.                    *)
Decimal(n) ==
  LET k == CHOOSE k \in 1..W : n < 10^k /\ (k = 1 \/ n >= 10^(k - 1))
  IN  [i \in 1..k |-> (n \div 10^(k - i)) % 10]

(* Room for the numeral of the smallest int, with its sign (11 in C).      *)
maxlen == 1 + Len(Decimal(MaxInt + 1))

FirstText(s) == CHOOSE i \in DOMAIN s : s[i] # Blank /\ \A k \in 1..(i - 1) : s[k] = Blank

(* How many digits the second loop of ReadInt takes after character i.     *)
DigitsTaken(s, i) ==
  Max({j \in 0..(maxlen - IF s[i] \in Digits THEN 1 ELSE 0) :
         i + j <= Len(s) /\ \A k \in 1..j : s[i + k] \in Digits})

(* The call returns when the character after the digits has been typed.    *)
CanReadInt(s) ==
  /\ \E i \in DOMAIN s : s[i] # Blank
  /\ FirstText(s) + DigitsTaken(s, FirstText(s)) < Len(s)

ReadInt(s) ==
  LET i == FirstText(s)
      j == DigitsTaken(s, i)
      num_string == (IF s[i] \in Digits THEN <<s[i]>> ELSE <<>>) \o SubSeq(s, i + 1, i + j)
      ret == FoldLeft(LAMBDA acc, d : acc * 10 + d, 0, num_string)
      kept == IF ret > MaxInt THEN 0 ELSE ret
  IN  [value |-> Word(IF s[i] = Minus THEN -kept ELSE kept),
       rest |-> SubSeq(s, i + j + 2, Len(s))]

(* Mutant of PrintInt: the digits in the order they are computed.          *)
PrintIntReversed(x) ==
  (IF SIGN_BIT(x) THEN <<Minus>> ELSE <<>>) \o Reverse(Decimal(Abs(Signed(x))))

(* The smallest int stays negative when negated, and so do its remainders. *)
PrintInt(x) ==
  LET d == Decimal(Abs(Signed(x)))
  IN  (IF SIGN_BIT(x) THEN <<Minus>> ELSE <<>>)
        \o [i \in DOMAIN d |-> IF x = MaxInt + 1 /\ d[i] # 0 THEN Other ELSE d[i]]

=============================================================================
