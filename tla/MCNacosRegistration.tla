------------------------ MODULE MCNacosRegistration ------------------------
(***************************************************************************)
(* A small instance of NacosRegistration: two calls of Register next to    *)
(* any two calls.                                                          *)
(***************************************************************************)
EXTENDS NacosRegistration

CONSTANTS c1, c2, c3, c4

TwoRegisters ==
  {mix \in [Caller -> Op] : mix[c1] = "register" /\ mix[c2] = "register"}
==============================================================================
