-------------------------------- MODULE Cost --------------------------------
(***************************************************************************)
(* The pricing of metered usage (src/app/services/cost_service.py,         *)
(* src/app/constants/pricing.py), in integer micro-units: every started    *)
(* block of 1000 costs the rate of its category.  Reasoning tokens join    *)
(* the output tokens before the blocks are counted.                        *)
(*                                                                         *)
(* math.ceil(n / 1000) divides floats; it is the integer quotient rounded  *)
(* up for every n below 2^53, far above what the integer columns add up to.*)
(***************************************************************************)
EXTENDS Integers

\* micro-units per block: cents per 1k times CENTS_TO_MICRO.
CachedRate == 1000
InputRate  == 3000
OutputRate == 6000
CallRate   == 20000

\* [planted bug] a started block is free.
BlocksDown(n) == n \div 1000

Blocks(n) == (n + 999) \div 1000

\* The token counts of one AI response, and of sums of them.
Breakdown == [cached: Nat, input: Nat, output: Nat, reasoning: Nat]

NoTokens == [cached |-> 0, input |-> 0, output |-> 0, reasoning |-> 0]

Tokens(b) == b.cached + b.input + b.output + b.reasoning

TokenCost(b) ==
  CachedRate * Blocks(b.cached) + InputRate * Blocks(b.input)
    + OutputRate * Blocks(b.output + b.reasoning)

ApiCallCost(n) == CallRate * Blocks(n)
=============================================================================
