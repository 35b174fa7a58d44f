------------------------------ MODULE MCCapture ------------------------------
(***************************************************************************)
(* Two VFs and one PF, of which a request names one or two.                *)
(***************************************************************************)
EXTENDS Capture

MCRequests == {<<"v1">>, <<"pf", "v2">>}
===============================================================================
