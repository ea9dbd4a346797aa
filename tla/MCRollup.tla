------------------------------ MODULE MCRollup ------------------------------
(***************************************************************************)
(* Small instances of Rollup for TLC: responses on both sides of a block   *)
(* boundary, one that fills only the cached category, and an empty one.    *)
(***************************************************************************)
EXTENDS Rollup, TLC

ReaderSymmetry == Permutations(Readers)

MCResponses ==
  { [cached |-> 1500, input |-> 0, output |-> 0, reasoning |-> 0],
    [cached |-> 0, input |-> 1000, output |-> 400, reasoning |-> 600],
    [cached |-> 0, input |-> 1, output |-> 0, reasoning |-> 1],
    NoTokens }
=============================================================================
