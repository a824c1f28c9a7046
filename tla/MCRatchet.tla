------------------------------- MODULE MCRatchet ------------------------------
(***************************************************************************)
(* The engine with its history, on an instance of MCEngine.                *)
(***************************************************************************)
EXTENDS PexRatchet, MCEngine
===============================================================================
