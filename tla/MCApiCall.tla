----------------------------- MODULE MCApiCall ------------------------------
(***************************************************************************)
(* ApiCall for TLC: every status the client decodes, and two it does not.  *)
(***************************************************************************)
EXTENDS ApiCall

AllStatuses == {200, 201, 204, 409, 502} \cup ErrorStatuses
=============================================================================
