---------------------------- MODULE TypedValues -----------------------------
(***************************************************************************)
(* The Value of crates/row/src/value.rs, which a literal of an expression, *)
(* a column of a row and the result of an evaluation are: its type and its *)
(* contents.                                                               *)
(***************************************************************************)
Val(type, x) == [t |-> type, x |-> x]

Null    == Val("null", 0)
Bool(b) == Val("boolean", IF b THEN 1 ELSE 0)
=============================================================================
