---------------------------- MODULE MCHttpClient ----------------------------
(* HttpClient with the values of its configurations.                       *)
EXTENDS HttpClient
=============================================================================
