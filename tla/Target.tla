------------------------------- MODULE Target -------------------------------
(***************************************************************************)
(* utils/target.go: the target in its compact form, an exponent byte and   *)
(* three mantissa bytes, and the change a retarget makes to it.            *)
(*                                                                         *)
(* The coefficient is a fraction num / den, where the code has a float64:  *)
(* the product below is the exact one rounded down.                        *)
(***************************************************************************)
EXTENDS Integers

CONSTANTS
  Byte,          \* number of values of a byte, 256
  TargetLen,     \* bytes of an expanded target, 32
  MaxDifficulty  \* params.MaxDifficulty, the highest target

\* The numbers of values of three and of four bytes.
ThreeBytes == Byte * Byte * Byte
FourBytes == Byte * ThreeBytes

Bits == [exp : 0 .. Byte - 1, mant : 0 .. ThreeBytes - 1]

\* "limiting coefficient" may multiply by 4, and a byte is to hold that.
ASSUME TargetAssumption ==
  /\ Byte \in Nat /\ Byte >= 4
  /\ TargetLen \in 3 .. Byte - 1
  /\ MaxDifficulty \in Bits
  /\ MaxDifficulty.exp < TargetLen

\* The values of the bytes of a target.
PowerOfByte[n \in 0 .. Byte - 1] == IF n = 0 THEN 1 ELSE Byte * PowerOfByte[n - 1]

\* res[32-exp:] is out of range.
ExpandPanics(bits) == bits.exp > TargetLen

\* The expanded target as a number.  A small exponent cuts the mantissa off.
ExpandBits(bits) ==
  IF bits.exp >= 3 THEN bits.mant * PowerOfByte[bits.exp - 3]
                   ELSE bits.mant \div PowerOfByte[3 - bits.exp]

Limited(num, den) ==
  IF num > 4 * den THEN <<4, 1>> ELSE IF 4 * num < den THEN <<1, 4>> ELSE <<num, den>>

\* The compact forms are compared as numbers.
Capped(bits) ==
  IF \/ bits.exp > MaxDifficulty.exp
     \/ bits.exp = MaxDifficulty.exp /\ bits.mant > MaxDifficulty.mant
  THEN MaxDifficulty ELSE bits

\* The mantissa with a byte more for precision, times the coefficient.
Scaled(c, mant) == (mant * Byte * c[1]) \div c[2]

\* Mutant: on overflow only one byte is dropped for the exponent added.
ApplyCoeffToTarget_OneByte(num, den, prev) ==
  LET new == Scaled(Limited(num, den), prev.mant)
  IN  Capped(
        IF new >= FourBytes
        THEN [exp |-> prev.exp, mant |-> new \div (Byte * Byte)]
        ELSE IF new % Byte = 0 \/ new >= ThreeBytes \/ prev.exp = 0
        THEN [exp |-> prev.exp, mant |-> new \div Byte]
        ELSE [exp |-> prev.exp - 1, mant |-> new])

\* Mutant: the last byte is always taken for precision, never as necessary.
ApplyCoeffToTarget_DropsLast(num, den, prev) ==
  LET new == Scaled(Limited(num, den), prev.mant)
  IN  Capped(
        IF new >= FourBytes
        THEN [exp |-> (prev.exp + 1) % Byte, mant |-> new \div (Byte * Byte)]
        ELSE [exp |-> prev.exp, mant |-> new \div Byte])

\* An overflow byte raises the exponent; the last byte is kept, and the exponent
\* lowered, if it is not zero and there is room for it.
ApplyCoeffToTarget(num, den, prev) ==
  LET new == Scaled(Limited(num, den), prev.mant)
  IN  Capped(
        IF new >= FourBytes
        THEN [exp |-> (prev.exp + 1) % Byte, mant |-> new \div (Byte * Byte)]
        ELSE IF new % Byte = 0 \/ new >= ThreeBytes \/ prev.exp = 0
        THEN [exp |-> prev.exp, mant |-> new \div Byte]
        ELSE [exp |-> prev.exp - 1, mant |-> new])

=============================================================================
