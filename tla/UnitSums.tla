------------------------------ MODULE UnitSums ------------------------------
(***************************************************************************)
(* Sums of natural numbers over a set, counted unit by unit: f[x] gives the *)
(* units <<x, 1>> .. <<x, f[x]>>, and the sum of f is how many units there  *)
(* are.  A sum in this form is a finite number as soon as finitely many     *)
(* x contribute, and changes by what a step adds to the set of units.       *)
(***************************************************************************)
EXTENDS Integers, FiniteSets

Units(f)   == UNION {{x} \X (1 .. f[x]) : x \in DOMAIN f}
UnitSum(f) == Cardinality(Units(f))
=============================================================================
