------------------------------ MODULE MCPaging ------------------------------
(* A walk of three rows, a row to a page, that passes nextCursor on as it is. *)
EXTENDS Paging
=============================================================================
