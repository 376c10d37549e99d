------------------------------ MODULE HexFloat ------------------------------
(***************************************************************************)
(* A sample on the CAN bus is two words of 16 bits in hexadecimal:         *)
(* data/extractor.py writes them (to_hex_string), hex/hex.c reads them     *)
(* (hex_get_float).  The first word is the whole part with its sign in the *)
(* lowest bit, the second the digits of the fraction.                      *)
(*                                                                         *)
(* Values are counted in ten-thousandths.  The rounding of a value to a    *)
(* float is left out, and so is a fraction below one ten-thousandth that   *)
(* Python writes with an exponent.                                         *)
(***************************************************************************)
EXTENDS Integers

(* A number as the extractor sees it: frac are the first four digits of    *)
(* its fraction, short says that no other digit but 0 follows.             *)
Whole    == 0 .. 32767
Fraction == 0 .. 9999

Number == [negative : BOOLEAN, whole : Whole, frac : Fraction, short : BOOLEAN]

Word == 0 .. 65535

Tenthousandths(v) ==
  (IF v.negative THEN -1 ELSE 1) * (v.whole * 10000 + v.frac)

-----------------------------------------------------------------------------
(* str() ends a fraction at its last digit that is not 0, and int() takes  *)
(* what is left for a number of its own: .5 and .05 become 5.              *)
Trimmed(frac) ==
  IF frac % 1000 = 0 THEN frac \div 1000
  ELSE IF frac % 100 = 0 THEN frac \div 100
  ELSE IF frac % 10 = 0 THEN frac \div 10
  ELSE frac

(* to_hex_string.  The whole part of -0.5 is 0, which has no sign.         *)
to_hex_string(v) ==
  <<2 * v.whole + (IF v.negative /\ v.whole > 0 THEN 1 ELSE 0),
    IF v.short THEN Trimmed(v.frac) ELSE v.frac>>

(* "%d.%04d" in a string of nine characters: what is left of a fraction of *)
(* four digits after a whole part of four, five or six characters.         *)
Printed(n, frac) ==
  IF n <= -10000 THEN frac - (frac % 100)
  ELSE IF n <= -1000 \/ n >= 10000 THEN frac - (frac % 10)
  ELSE frac

(* hex_get_float: the unsigned word that is negated reads back as a        *)
(* negative int in "%d".                                                   *)
hex_get_float(flt) ==
  LET result == flt[1] \div 2
      n == IF flt[1] % 2 = 1 THEN -result ELSE result
  IN  IF n < 0 THEN n * 10000 - Printed(n, flt[2])
               ELSE n * 10000 + Printed(n, flt[2])

(* The numbers that come out as they went in.                              *)
Exact(v) ==
  /\ v.short /\ v.frac > 0 => v.frac % 10 # 0
  /\ v.negative /\ v.frac > 0 => v.whole > 0
  /\ Printed(IF v.negative THEN -v.whole ELSE v.whole, v.frac) = v.frac
=============================================================================
