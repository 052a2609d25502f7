--------------------------- MODULE MCDesignRequests ---------------------------
(***************************************************************************)
(* DesignRequests with one user, one design and one replacement: two       *)
(* submissions of one user lock each other out, and each job runs beside   *)
(* the other and beside the account's other payments.  With two users      *)
(* nothing new happens: requests of different users share no row.          *)
(***************************************************************************)
EXTENDS DesignRequests

CONSTANT u1

MCOwner == [r \in Requests |-> u1]
=============================================================================
