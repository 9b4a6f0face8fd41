---------------------------- MODULE MCPagination ----------------------------
(* Pagination for TLC: every constant has an ordinary value.                *)
EXTENDS Pagination
=============================================================================
