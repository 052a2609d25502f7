----------------------------- MODULE PurchaseBook -----------------------------
(***************************************************************************)
(* What the purchases of a user amount to.  A purchase goes on record in   *)
(* one step, which posts its credits and ends the purchases before it, or  *)
(* does none of this.  The event it came with is acknowledged then, or     *)
(* when it comes again.  Nothing here knows of deliveries, transactions or *)
(* locks; module Subscriptions does, and implements this one.              *)
(***************************************************************************)

CONSTANTS
    Users,
    Purchases,
    Buyer,      \* [Purchases -> Users]
    Worth,      \* purchases worth credits
    Activating, \* purchases that start a subscription, others end one
    Delivered,  \* purchases that came with an event, to be acknowledged
    Exclusive   \* whether all that start a subscription are worth credits

VARIABLES
    live,    \* users with an account
    records,
    active,  \* records of running subscriptions
    granted, \* purchases whose credits the user has received
    acked    \* purchases whose event will not be delivered again

bookVars == <<live, records, active, granted, acked>>

Init ==
    /\ live = Users
    /\ records = {}
    /\ active = {}
    /\ granted = {}
    /\ acked = {}

\* The acknowledgement may get lost.  A purchase may miss one before it that
\* is recorded meanwhile, but not if both are worth credits, whose posting they
\* take turns for.
Record(t) ==
    LET before == {s \in active : Buyer[s] = Buyer[t]} IN
    /\ Buyer[t] \in live
    /\ t \notin records
    /\ records' = records \cup {t}
    /\ granted' = granted \cup ({t} \cap Worth)
    /\ acked' \in {acked, acked \cup ({t} \cap Delivered)}
    /\ \E missed \in SUBSET before :
          /\ Exclusive /\ t \in Worth => missed = {}
          /\ active' = (active \ before) \cup missed \cup ({t} \cap Activating)
    /\ UNCHANGED live

\* An event that is on record is acknowledged when it is delivered again.
Acknowledge(t) ==
    /\ t \in records \cap Delivered
    /\ acked' = acked \cup {t}
    /\ UNCHANGED <<live, records, active, granted>>

Close(u) ==
    /\ u \in live
    /\ live' = live \ {u}
    /\ records' = {t \in records : Buyer[t] # u}
    /\ active' = {t \in active : Buyer[t] # u}
    /\ granted' = {t \in granted : Buyer[t] # u}
    /\ UNCHANGED acked

Next ==
    \/ \E t \in Purchases : Record(t) \/ Acknowledge(t)
    \/ \E u \in Users : Close(u)

Spec == Init /\ [][Next]_bookVars
===============================================================================
