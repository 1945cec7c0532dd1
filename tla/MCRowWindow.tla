------------------------------ MODULE MCRowWindow ------------------------------
(* A small instance of RowWindow for TLC. *)
EXTENDS RowWindow
=============================================================================
