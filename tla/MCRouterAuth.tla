---------------------------- MODULE MCRouterAuth ----------------------------
(***************************************************************************)
(* Small instances of RouterAuth: a request is faultless or has one fault  *)
(* of each kind of answer, 401 or 403.                                     *)
(***************************************************************************)
EXTENDS RouterAuth

OneFault == {{}, {"credential"}, {"context"}}
==============================================================================
