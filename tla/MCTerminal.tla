----------------------------- MODULE MCTerminal -----------------------------
(***************************************************************************)
(* A screen of a few cells.  A cursor register holds less than the number  *)
(* of cells, so both are needed, as 2000 cells need two bytes.             *)
(***************************************************************************)
EXTENDS Terminal

OneGlyph == {"a"}
=============================================================================
