--------------------------- MODULE MCDeviceAccounts ---------------------------
(***************************************************************************)
(* Two logins of one device and two deletions of its account: enough for a *)
(* loser of the insert, for a login after a deletion, and for two          *)
(* deletions of one account.                                               *)
(***************************************************************************)
EXTENDS DeviceAccounts
=============================================================================
