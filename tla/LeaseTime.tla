------------------------------ MODULE LeaseTime ------------------------------
(***************************************************************************)
(* The order in which the run stores compare lease instants.               *)
(*                                                                         *)
(* Both stores keep an instant as the text time.RFC3339Nano gives it       *)
(* (encodeTime, encodeDynamoTime) and both compare that text:  SQLite with *)
(* "lease_expires_at<=?", DynamoDB with "lease_expires_at <= :now".  The   *)
(* layout writes the whole seconds with a fixed width, then the fraction   *)
(* without its trailing zeros, then "Z"; a fraction of zero loses its dot. *)
(* '.' sorts before the digits and the digits sort before 'Z', so within   *)
(* one second a fraction that is a proper prefix of another sorts AFTER it *)
(* although it is the earlier instant.                                     *)
(*                                                                         *)
(* An instant is a number of ticks since the epoch of the model.           *)
(***************************************************************************)
EXTENDS Integers

CONSTANTS
  TicksPerSecond,   \* the clock's resolution (10^9 in the code)
  DigitUnits        \* the ticks one unit of each fraction digit stands for,
                    \* from a whole second (no digit written) down to a tick

ASSUME LeaseTimeAssumption ==
  /\ TicksPerSecond \in Nat \ {0}
  /\ DigitUnits \subseteq 1 .. TicksPerSecond
  /\ {1, TicksPerSecond} \subseteq DigitUnits

(* Units of digits: each is so many times every smaller one. *)
ASSUME DigitsNest == \A u, v \in DigitUnits : u <= v => v % u = 0

Instant == Nat

WholeSeconds(t) == t \div TicksPerSecond
Fraction(t) == t % TicksPerSecond

(* The digits written for fraction f begin the digits of fraction g. *)
WrittenPrefix(f, g) ==
  \E u \in DigitUnits : f % u = 0 /\ f \div u = g \div u

(* The text of a sorts before the text of b, for instants of one second. *)
FractionTextBefore(f, g) ==
  \/ f < g /\ ~WrittenPrefix(f, g)
  \/ g < f /\ WrittenPrefix(g, f)

(* encodeTime(a) <= encodeTime(b) as text. *)
TextLeq(a, b) ==
  \/ WholeSeconds(a) < WholeSeconds(b)
  \/ /\ WholeSeconds(a) = WholeSeconds(b)
     /\ a = b \/ FractionTextBefore(Fraction(a), Fraction(b))

=============================================================================
