----------------------------- MODULE PaidRequests -----------------------------
(***************************************************************************)
(* What a paid image request promises its user.  Submitting it takes its   *)
(* price from the balance and opens it in one step; then it is delivered,  *)
(* with the rest of the price if a dearer model had to be used, or it      *)
(* fails, and a design that fails gives back what its submission took,     *)
(* once.  Nothing here knows of locks, queues, workers or retries; module  *)
(* DesignRequests does, and implements this one.                           *)
(***************************************************************************)
EXTENDS Integers

CONSTANTS
    Users,
    Designs, Replacements, \* ids of requests to be submitted
    Owner,                 \* [Requests -> Users]
    FirstGrant,            \* credits an account starts from
    BaseCost,              \* credits of a submission
    ModelCosts,            \* credits of an image
    Deltas,                \* what else is posted to an account
    Redelivery             \* a settled request can be worked on again

VARIABLES
    live,     \* users with an account
    balance,
    state,    \* of each request
    cost,     \* credits the user has paid for it, refunds deducted
    refunded  \* designs whose submission was refunded

Requests == Designs \cup Replacements
requestVars == <<live, balance, state, cost, refunded>>

Moves(r, from, to) ==
    /\ state[r] \in from
    /\ state' = [state EXCEPT ![r] = to]

\* An account pays credits for a request; it is never overdrawn.
Pays(r, credits) ==
    /\ Owner[r] \in live
    /\ balance[Owner[r]] >= credits
    /\ balance' = [balance EXCEPT ![Owner[r]] = @ - credits]
    /\ cost' = [cost EXCEPT ![r] = @ + credits]

Init ==
    /\ live = Users
    /\ balance = [u \in Users |-> FirstGrant]
    /\ state = [r \in Requests |-> "new"]
    /\ cost = [r \in Requests |-> 0]
    /\ refunded = {}

Submit(r) ==
    /\ Moves(r, {"new"}, "open")
    /\ Pays(r, BaseCost)
    /\ UNCHANGED <<live, refunded>>

\* Only designs know dearer models.
Deliver(r) ==
    /\ Moves(r, {"open"}, "delivered")
    /\ \E price \in (IF r \in Designs THEN ModelCosts ELSE {BaseCost}) :
          Pays(r, price - BaseCost)
    /\ UNCHANGED <<live, refunded>>

Fail(r) ==
    /\ Moves(r, {"open"}, "failed")
    /\ IF r \in Designs \ refunded
       THEN Pays(r, -BaseCost) /\ refunded' = refunded \cup {r}
       ELSE UNCHANGED <<balance, cost, refunded>>
    /\ UNCHANGED live

\* A redelivered job starts over, whatever became of its request.
Reopen(r) ==
    /\ Redelivery
    /\ Moves(r, {"delivered", "failed"}, "open")
    /\ UNCHANGED <<live, balance, cost, refunded>>

\* Purchases, top-ups, replacements that leave no request.
Post(u, delta) ==
    /\ u \in live
    /\ balance[u] + delta >= 0
    /\ balance' = [balance EXCEPT ![u] = @ + delta]
    /\ UNCHANGED <<live, state, cost, refunded>>

\* Requests go with the account, whatever they cost.
Close(u) ==
    /\ u \in live
    /\ live' = live \ {u}
    /\ balance' = [balance EXCEPT ![u] = 0]
    /\ state' = [r \in Requests |->
                    IF Owner[r] = u /\ state[r] # "new" THEN "gone"
                    ELSE state[r]]
    /\ UNCHANGED <<cost, refunded>>

Next ==
    \/ \E r \in Requests : Submit(r) \/ Deliver(r) \/ Fail(r) \/ Reopen(r)
    \/ \E u \in Users : Close(u) \/ \E delta \in Deltas : Post(u, delta)

Spec == Init /\ [][Next]_requestVars
===============================================================================
