------------------------------- MODULE MCAuth -------------------------------
(* Instances of Auth for TLC.                                              *)
EXTENDS Auth, TLC

CONSTANTS e1, e2, good, better, bad

(* A deployment with a usable password, with a weak one, with a reset, and *)
(* one that resets another administrator.                                  *)
Deployments ==
  {[email |-> e1, password |-> good, reset |-> FALSE],
   [email |-> e1, password |-> bad, reset |-> TRUE],
   [email |-> e1, password |-> good, reset |-> TRUE],
   [email |-> e2, password |-> good, reset |-> TRUE]}
=============================================================================
