----------------------------- MODULE MCApproval -----------------------------
(* Small instances of Approval.                                            *)
EXTENDS Approval, TLC

\* Users and rows may share their ids, which are then permuted together.
Symmetry == Permutations(Req) \cup Permutations(User \cup RowId)
=============================================================================
