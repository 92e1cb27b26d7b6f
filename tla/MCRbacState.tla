------------------------------ MODULE MCRbacState ------------------------------
(***************************************************************************)
(* A change of a user and another request.                                 *)
(***************************************************************************)
EXTENDS RbacState

CONSTANTS p1, p2, c1

MCProcs == {p1, p2}
MCChanges == {c1}
=============================================================================
