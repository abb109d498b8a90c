------------------------- MODULE ConstantProductAMM -------------------------
(* The pool of 08-Web3-and-Cryptographic-Blockchains/                       *)
(* automated-market-maker.sol.  Each call of a token contract hands control *)
(* to other code, which may call the pool again before the first call ends; *)
(* the calls in progress form a stack, a transaction.  Words are counted    *)
(* modulo WordModulus; Solidity reverts where a sum or product does not     *)
(* fit, the assembly wraps around.  Tokens move as told or revert.          *)
EXTENDS Integers, Sequences

CONSTANTS
  Amounts,       \* amounts paid in
  WordModulus,   \* 2^256 in the code
  FeeScale,      \* FeeScale
  FeeKept,       \* FeeKept
  MaxReserve,    \* no more is paid in
  MaxDepth       \* calls in progress at a time, as far as the guard lets them

WordAssumption ==
  /\ WordModulus \in Nat \ {0} /\ Amounts \subseteq Nat
  /\ FeeScale \in Nat /\ FeeKept \in 1..FeeScale

VARIABLES
  reserve,       \* reserve0 and reserve1
  totalSupply,
  status,        \* _status, of the reentrancy guard
  balance,       \* what the pool holds of the two tokens
  calls,         \* the calls in progress, the innermost last
  before         \* the pool before the transaction, for a revert

vars == <<reserve, totalSupply, status, balance, calls, before>>

Word == 0..(WordModulus - 1)
Token == {0, 1}
(* A swap waits for transferFrom or, with amountOut computed, for transfer; *)
(* addLiquidity for its two calls of transferFrom.                          *)
Call ==
  [at : {"transferFrom", "transfer"}, in : Token, amountIn : Word, amountOut : Word,
   reserveIn : Word, reserveOut : Word]
  \union [at : {"liquidity"}, amount0 : Word, amount1 : Word]

Pool == [reserve |-> reserve, totalSupply |-> totalSupply, balance |-> balance]

(* Reserves and shares stay within their words: what would overflow reverts.*)
TypeOK ==
  /\ reserve \in [Token -> 0..MaxReserve] /\ balance \in [Token -> Nat]
  /\ totalSupply \in Word /\ status \in {1, 2}
  /\ calls \in Seq(Call)
  /\ before \in [reserve : [Token -> Word], totalSupply : Word, balance : [Token -> Nat]]

Init ==
  /\ reserve = [t \in Token |-> 0] /\ balance = reserve
  /\ totalSupply = 0 /\ status = 1 /\ calls = <<>>
  /\ before = Pool

-----------------------------------------------------------------------------
nonReentrant == status = 1 /\ Len(calls) < MaxDepth

Top == calls[Len(calls)]
Caller == SubSeq(calls, 1, Len(calls) - 1)
Fits(n) == n \in Word

(* An entry of the pool is called. *)
Enter(call) ==
  /\ nonReentrant /\ status' = 2
  /\ calls' = Append(calls, call)
  /\ before' = IF calls = <<>> THEN Pool ELSE before
  /\ UNCHANGED <<reserve, totalSupply, balance>>

(* swap caches the reserves and calls tokenIn.transferFrom. *)
swap(in, amountIn) ==
  /\ reserve[in] + amountIn <= MaxReserve
  /\ Enter([at |-> "transferFrom", in |-> in, amountIn |-> amountIn, amountOut |-> 0,
            reserveIn |-> reserve[in], reserveOut |-> reserve[1 - in]])

(* The constant product formula with a fee of 0.3%. *)
amountOut(c) ==
  (c.reserveOut * c.amountIn * FeeKept) \div (c.reserveIn * FeeScale + c.amountIn * FeeKept)

(* transferFrom returns; the output is computed and sent.  Any             *)
(* _minAmountOut up to the output lets the call go on.                      *)
sendOutput ==
  /\ calls # <<>> /\ Top.at = "transferFrom"
  /\ Fits(Top.amountIn * FeeKept) /\ Fits(Top.reserveOut * Top.amountIn * FeeKept)
  /\ Fits(Top.reserveIn * FeeScale + Top.amountIn * FeeKept)
  /\ Top.reserveIn * FeeScale + Top.amountIn * FeeKept > 0
  /\ balance' = [balance EXCEPT ![Top.in] = @ + Top.amountIn]
  /\ calls' = Append(Caller, [Top EXCEPT !.at = "transfer", !.amountOut = amountOut(Top)])
  /\ UNCHANGED <<reserve, totalSupply, status, before>>

reserveWith(c) == reserve[c.in] + c.amountIn

(* transfer returns; the reserves are updated and the guard released. *)
endSwap ==
  /\ calls # <<>> /\ Top.at = "transfer"
  /\ balance[1 - Top.in] >= Top.amountOut
  /\ Fits(reserve[Top.in] + Top.amountIn) /\ Fits(reserve[1 - Top.in] - Top.amountOut)
  /\ balance' = [balance EXCEPT ![1 - Top.in] = @ - Top.amountOut]
  /\ reserve' = [reserve EXCEPT ![Top.in] = reserveWith(Top), ![1 - Top.in] = @ - Top.amountOut]
  /\ status' = 1 /\ calls' = Caller
  /\ UNCHANGED <<totalSupply, before>>

addLiquidity(amount0, amount1) ==
  /\ reserve[0] + amount0 <= MaxReserve /\ reserve[1] + amount1 <= MaxReserve
  /\ Enter([at |-> "liquidity", amount0 |-> amount0, amount1 |-> amount1])

(* What _sqrt computes: see NewtonSqrt. *)
sqrt(y) == CHOOSE z \in 0..y : z * z <= y /\ (z + 1) * (z + 1) > y

(* Assembly's div, which gives 0 for a divisor of 0. *)
div(a, b) == IF b = 0 THEN 0 ELSE a \div b

(* mutant: the larger share *)
proportionalSharesMax(amount0, amount1) ==
  LET share0 == div((amount0 * totalSupply) % WordModulus, reserve[0])
      share1 == div((amount1 * totalSupply) % WordModulus, reserve[1])
  IN  IF share0 > share1 THEN share0 ELSE share1
(* The smaller of the two shares, computed in assembly. *)
proportionalShares(amount0, amount1) ==
  LET share0 == div((amount0 * totalSupply) % WordModulus, reserve[0])
      share1 == div((amount1 * totalSupply) % WordModulus, reserve[1])
  IN  IF share0 < share1 THEN share0 ELSE share1

(* Both calls of transferFrom have returned and shares are minted. *)
endLiquidity ==
  LET amount0 == Top.amount0
      amount1 == Top.amount1
      shares == IF totalSupply = 0 THEN sqrt(amount0 * amount1) ELSE proportionalShares(amount0, amount1)
  IN  /\ calls # <<>> /\ Top.at = "liquidity"
      /\ totalSupply = 0 => Fits(amount0 * amount1)
      /\ shares > 0 /\ Fits(totalSupply + shares)
      /\ Fits(reserve[0] + amount0) /\ Fits(reserve[1] + amount1)
      /\ totalSupply' = totalSupply + shares
      /\ reserve' = [reserve EXCEPT ![0] = @ + amount0, ![1] = @ + amount1]
      /\ balance' = [balance EXCEPT ![0] = @ + amount0, ![1] = @ + amount1]
      /\ status' = 1 /\ calls' = Caller
      /\ UNCHANGED before

(* A check of the pool or of a token fails: the transaction is undone. *)
revert ==
  /\ calls # <<>>
  /\ reserve' = before.reserve /\ totalSupply' = before.totalSupply /\ balance' = before.balance
  /\ status' = 1 /\ calls' = <<>>
  /\ UNCHANGED before

Next ==
  \/ \E in \in Token, amountIn \in Amounts : swap(in, amountIn)
  \/ sendOutput \/ endSwap
  \/ \E amount0, amount1 \in Amounts : addLiquidity(amount0, amount1)
  \/ endLiquidity \/ revert

Spec == Init /\ [][Next]_vars

-----------------------------------------------------------------------------
(* "(x + dx) * (y - dy) = k" and "use the smaller share to prevent          *)
(* dilution": k for the square of the supply, that is what a share is       *)
(* worth, never drops, whatever token contracts do in between.              *)
ShareValueNeverDrops ==
  [][totalSupply > 0 =>
       reserve'[0] * reserve'[1] * totalSupply * totalSupply
         >= reserve[0] * reserve[1] * totalSupply' * totalSupply']_vars
=============================================================================
