------------------------------ MODULE MCBilling ------------------------------
(***************************************************************************)
(* Small instances of Billing for TLC.  The pro plan costs 5 cents and     *)
(* includes one unit; the free plan has a negative price and limit, which  *)
(* nothing refuses, so that its bill of no usage is negative.  MaxInt is   *)
(* 15, so that the largest bill of the pro plan still fits the amount_due  *)
(* column and that of the free plan does not.                              *)
(***************************************************************************)
EXTENDS Billing, TLC

BillerSymmetry == Permutations(Billers)

MCPrice == [p \in Plans |-> IF p = "free" THEN -12 ELSE 5]
MCUsageLimit == [p \in Plans |-> IF p = "free" THEN -1 ELSE 1]
=============================================================================
