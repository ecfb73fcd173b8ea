----------------------------- MODULE MCIpcPath -----------------------------
(***************************************************************************)
(* IpcPath for up to three requests on one connection.                     *)
(***************************************************************************)
EXTENDS IpcPath, TLC

CONSTANT c1

MCConn == {c1}
MCConnOf == [r \in Request |-> c1]

\* Requests differ in nothing but their names.
RequestSymmetry == Permutations(Request)
=============================================================================
