------------------------------ MODULE Numerals ------------------------------
(***************************************************************************)
(* Powers of two, and the numbers that digits stand for.  They are         *)
(* recursive functions, so that their laws can be proved.                  *)
(***************************************************************************)
EXTENDS Integers

TwoTo[k \in Nat] == IF k = 0 THEN 1 ELSE 2 * TwoTo[k - 1]

\* For every i up to m what the digits d[i] .. d[m - 1] stand for, and so the number.
Suffixes(base, d, m) ==
  LET from[i \in 0 .. m] == IF i = m THEN 0 ELSE d[i] + base * from[i + 1]
  IN  from
Number(base, d, m) == Suffixes(base, d, m)[0]
=============================================================================
