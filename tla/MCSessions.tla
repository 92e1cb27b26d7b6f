------------------------------ MODULE MCSessions -------------------------------
(***************************************************************************)
(* Sessions on three small installations.                                  *)
(***************************************************************************)
EXTENDS Sessions

CONSTANTS s1, s2, c1, c2

MCSetups == {
    \* one session is used, refreshed and ended,
    [ops |-> {"login", "view", "kick", "refresh", "logout"}, sids |-> {s1},
     changes |-> {}, faults |-> 0],
    \* a user is changed while the session is used,
    [ops |-> {"login", "view", "change"}, sids |-> {s1}, changes |-> {c1}, faults |-> 0],
    \* a user is changed while the process or Redis fails.
    [ops |-> {"login", "change"}, sids |-> {s1}, changes |-> {c1}, faults |-> 1]}
=============================================================================
