------------------------------ MODULE MCNetIOMP ------------------------------
(* Three servers and one client. *)
EXTENDS NetIOMP
==============================================================================
