-------------------------------- MODULE Words --------------------------------
(***************************************************************************)
(* i32, modulo a smaller number than 2^32, as LLVM computes with it.  The  *)
(* constant operand of an instruction is negative: -1 stands for word 0.   *)
(***************************************************************************)
EXTENDS Integers, Sequences

CONSTANT Modulus   \* 2^32 in the code: i32 arithmetic wraps around

\* A comparison is 0 or 1.
ASSUME ModulusAssumption == Modulus \in Nat \ {0, 1}

Word == 0 .. Modulus - 1

\* The constant operand of a word, and its word.
Constant(w) == -w - 1
WordOf(v) == -v - 1

AreWords(operands) ==
  \A k \in DOMAIN operands : operands[k] < 0 => WordOf(operands[k]) \in Word

Operations == {"add", "sub", "mul"}
Predicates == {"eq", "ne", "slt", "sle", "sgt", "sge"}

Signed(w) == IF 2 * w < Modulus THEN w ELSE w - Modulus

Arith(sym, a, b) ==
  CASE sym = "add" -> (a + b) % Modulus
    [] sym = "sub" -> (a - b + Modulus) % Modulus
    [] sym = "mul" -> (a * b) % Modulus

Holds(sym, a, b) ==
  CASE sym = "eq"  -> a = b
    [] sym = "ne"  -> a # b
    [] sym = "slt" -> Signed(a) < Signed(b)
    [] sym = "sle" -> Signed(a) <= Signed(b)
    [] sym = "sgt" -> Signed(a) > Signed(b)
    [] sym = "sge" -> Signed(a) >= Signed(b)
=============================================================================
