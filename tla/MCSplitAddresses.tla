------------------------- MODULE MCSplitAddresses -------------------------
(***************************************************************************)
(* The planner on every set of addresses below a bound: with a limit of 3  *)
(* words, ten addresses have runs of every length from one word to three   *)
(* requests and a remainder, and every pattern of gaps between them.       *)
(***************************************************************************)
EXTENDS SplitAddresses

MCInputs == SUBSET (0..9)
===========================================================================
