----------------------------- MODULE NewtonSqrt -----------------------------
(* _sqrt of 08-Web3-and-Cryptographic-Blockchains/automated-market-maker.sol*)
(* one turn of Newton's method a step.                                      *)
EXTENDS Integers

CONSTANT Inputs      \* the values y is given

VARIABLES y, z, x, done

sqrtVars == <<y, z, x, done>>

(* The guesses of _sqrt stay natural numbers.                               *)
GuessesOK == y \in Inputs \intersect Nat /\ z \in Nat /\ x \in Nat /\ done \in BOOLEAN

firstGuess(n) == n \div 2 + 1

SqrtInit ==
  /\ y \in Inputs \intersect Nat   \* uint y
  /\ IF y > 3 THEN z = y /\ x = firstGuess(y) /\ done = FALSE
              ELSE z = (IF y = 0 THEN 0 ELSE 1) /\ x = 0 /\ done = TRUE

improved(n, guess) == (n \div guess + guess) \div 2

Turn ==
  /\ ~done /\ x < z
  /\ z' = x /\ x' = improved(y, x)
  /\ UNCHANGED <<y, done>>

(* mutant: the last guess is returned *)
LeaveWithGuess == ~done /\ x >= z /\ done' = TRUE /\ z' = x /\ UNCHANGED <<y, x>>
Leave == ~done /\ x >= z /\ done' = TRUE /\ UNCHANGED <<y, z, x>>

SqrtNext == Turn \/ Leave

(* The EVM executes the loop to its end. *)
SqrtSpec == SqrtInit /\ [][SqrtNext]_sqrtVars /\ WF_sqrtVars(SqrtNext)

-----------------------------------------------------------------------------
(* The result is the integer square root, rounded down, for every input.    *)
IsSqrt == done => z * z <= y /\ (z + 1) * (z + 1) > y

(* No turn overshoots below the root, which is what lets the loop stop at   *)
(* the first guess that does not get smaller.                               *)
NeverBelowRoot == ~done => (z + 1) * (z + 1) > y /\ (x + 1) * (x + 1) > y /\ x > 0

(* The loop ends.                                                           *)
SqrtEnds == <>done
=============================================================================
