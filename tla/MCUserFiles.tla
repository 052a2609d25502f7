------------------------------ MODULE MCUserFiles ------------------------------
(***************************************************************************)
(* Two designs on the same uploaded photo beside an object replacement,    *)
(* uploads below both prefixes, and the deletion of the account.           *)
(***************************************************************************)
EXTENDS UserFiles

CONSTANTS photo, tap, example, d1, d2, r1

MCKeyOf == [u \in Uploads |-> u]
MCInput == [j \in Jobs |-> IF j = r1 THEN tap ELSE photo]
=============================================================================
