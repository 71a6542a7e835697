------------------------------- MODULE Money -------------------------------
(***************************************************************************)
(* platform/money: the decimal text of an amount, and its centavos.  A     *)
(* text is a sequence of characters; the characters are those the parser   *)
(* tells apart, and an int64 has a few bits.                               *)
(***************************************************************************)
EXTENDS Integers, SequencesExt

CONSTANT Word    \* 2^w; an int64 is one of -(Word \div 2) .. Word \div 2 - 1

ASSUME MoneyAssumption == Word \in Nat /\ Word >= 256 /\ Word % 2 = 0

MaxInt == Word \div 2 - 1
Digit == ("0" :> 0) @@ ("1" :> 1) @@ ("2" :> 2) @@ ("5" :> 5) @@ ("9" :> 9)
Signs == {"+", "-"}
Invalid == [ok |-> FALSE, value |-> 0]
Parses(n) == [ok |-> TRUE, value |-> n]

\* int64 arithmetic.
Wrap(n) == ((n + Word \div 2) % Word) - Word \div 2

\* strings.TrimSpace
TrimSpace(s) ==
  LET kept == {i \in DOMAIN s : s[i] # " "}
  IN IF kept = {} THEN <<>> ELSE SubSeq(s, Min(kept), Max(kept))

Numeral(s) == s # <<>> /\ \A i \in DOMAIN s : s[i] \in DOMAIN Digit
ValueOf(s) == FoldLeft(LAMBDA n, c : 10 * n + Digit[c], 0, s)

\* strconv.ParseInt(s, 10, 64), which takes a sign.
ParseInt(s) ==
  LET signed == s # <<>> /\ s[1] \in Signs
      digits == IF signed THEN Tail(s) ELSE s
      n == IF signed /\ s[1] = "-" THEN -ValueOf(digits) ELSE ValueOf(digits)
  IN IF Numeral(digits) /\ Wrap(n) = n THEN Parses(n) ELSE Invalid

\* strings.Cut(s, "."): what is before the first point and what is behind it.
Cut(s) ==
  LET points == {i \in DOMAIN s : s[i] = "."}
      p == IF points = {} THEN Len(s) + 1 ELSE Min(points)
  IN [int |-> SubSeq(s, 1, p - 1), frac |-> SubSeq(s, p + 1, Len(s)), hasFrac |-> points # {}]

\* The centavos behind the point: one digit is tenths.
ParseFrac(cut) ==
  IF ~cut.hasFrac THEN Parses(0)
  ELSE IF Len(cut.frac) = 1 THEN ParseInt(Append(cut.frac, "0"))
  ELSE IF Len(cut.frac) = 2 THEN ParseInt(cut.frac) ELSE Invalid

\* Mutant of ToCents: that the sum wrapped is seen by its sign alone.
ToCentsUnlessNegative(reais, centavos) ==
  LET cents == Wrap(Wrap(reais * 100) + centavos)
  IN IF cents < 0 THEN Invalid ELSE Parses(cents)

\* Go's division truncates; here the dividend is not negative.
ToCents(reais, centavos) ==
  LET cents == Wrap(Wrap(reais * 100) + centavos)
  IN IF cents < 0 \/ cents \div 100 # reais THEN Invalid ELSE Parses(cents)

ParseDecimal(text) ==
  LET s == TrimSpace(text)
      cut == Cut(s)
      reais == ParseInt(cut.int)
      centavos == ParseFrac(cut)
  IN IF s = <<>> \/ s[1] \in Signs \/ ~reais.ok \/ ~centavos.ok THEN Invalid
     ELSE ToCents(reais.value, centavos.value)

----------------------------------------------------------------------------
\* What a text says, apart from the parser: its digits read as one number,
\* scaled by the place of the point.
SaysAnAmount(text) ==
  LET s == TrimSpace(text)
      points == {i \in DOMAIN s : s[i] = "."}
  IN /\ Numeral(SelectSeq(s, LAMBDA c : c # "."))
     /\ points \subseteq IF Len(s) > 2 THEN {Len(s) - 2, Len(s) - 1} \ {1} ELSE {}
     /\ points = {} \/ \E i \in points : points = {i}

Said(text) ==
  LET s == TrimSpace(text)
      n == ValueOf(SelectSeq(s, LAMBDA c : c # "."))
  IN IF Len(s) > 2 /\ s[Len(s) - 2] = "." THEN n
     ELSE IF Len(s) > 1 /\ s[Len(s) - 1] = "." THEN 10 * n ELSE 100 * n

\* A sign behind the point is read as a zero.
SignsAsZeros(text) == [i \in DOMAIN text |-> IF text[i] \in Signs THEN "0" ELSE text[i]]
=============================================================================
