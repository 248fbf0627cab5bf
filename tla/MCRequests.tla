----------------------------- MODULE MCRequests -----------------------------
(* A finite instance of Requests.                                          *)
EXTENDS Requests
=============================================================================
