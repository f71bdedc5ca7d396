----------------------------- MODULE MCReaders -----------------------------
(***************************************************************************)
(* Readers on the events and filters of MCInputs.                          *)
(***************************************************************************)
EXTENDS Readers, MCInputs
=============================================================================
