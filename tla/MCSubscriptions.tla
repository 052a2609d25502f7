---------------------------- MODULE MCSubscriptions ----------------------------
(***************************************************************************)
(* Subscriptions with one user and one store product: a first purchase, a  *)
(* renewal and the end of the subscription, handled by two requests at a   *)
(* time, one of which may be a restore.                                    *)
(***************************************************************************)
EXTENDS Subscriptions, TLC

CONSTANTS u1, weekly, bought, renewed, ended

MCOwner == [e \in Events |-> u1]
MCKind == [e \in Events |-> IF e = ended THEN "end" ELSE "purchase"]
MCProduct == [e \in Events |-> weekly]
MCPrice == [p \in Products |-> 350]

\* Webhook requests are alike, and so are the two purchases.
MCSymmetry == Permutations(Hooks) \cup Permutations({bought, renewed})
=============================================================================
