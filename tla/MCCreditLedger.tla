---------------------------- MODULE MCCreditLedger ----------------------------
(***************************************************************************)
(* CreditLedger on a small instance.  The requests are a design (consume   *)
(* 25), the larger fallback charge (consume 50), a purchase whose webhook  *)
(* may be delivered twice (add 25 under one key), the self top-up (add     *)
(* without a key) and two the entry checks refuse.                         *)
(***************************************************************************)
EXTENDS CreditLedger, TLC

CONSTANT k1

MCRequests ==
    {[op |-> "consume", credits |-> 25, key |-> NoKey],
     [op |-> "consume", credits |-> 50, key |-> NoKey],
     [op |-> "add", credits |-> 25, key |-> k1],
     [op |-> "add", credits |-> 25, key |-> NoKey],
     [op |-> "consume", credits |-> 24, key |-> NoKey],
     [op |-> "add", credits |-> 0, key |-> NoKey]}

MCKeys == {k1}
=============================================================================
