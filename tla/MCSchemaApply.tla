--------------------------- MODULE MCSchemaApply ---------------------------
(* Two processes apply the schema, and none of them crashes. *)
EXTENDS SchemaApply
=============================================================================
