--------------------------- MODULE MCSentMessages ---------------------------
(* A small instance of SentMessages for TLC: a thread that only sends, one *)
(* that waits and sends back, and one that does the rest.                  *)
EXTENDS SentMessages

ThreeRoles ==
    << {"send", "fail", "local"},
       {"get", "send", "msgwait", "status"},
       {"send", "peek", "post", "exit", "terminate"} >>
=============================================================================
