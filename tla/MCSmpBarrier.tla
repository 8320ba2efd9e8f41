---------------------------- MODULE MCSmpBarrier ----------------------------
(***************************************************************************)
(* Model-checking instance of SmpBarrier.  The .cfg files give the number  *)
(* of harts and rounds; registers without a hart exist or not as they say. *)
(***************************************************************************)
EXTENDS SmpBarrier

\* One msip register per hart, the rest of the array reads as 0.
HartMsips == 0 .. NHarts - 1
=============================================================================
