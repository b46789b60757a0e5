----------------------------- MODULE MCUiServer -----------------------------
(***************************************************************************)
(* UiServer for TLC.                                                       *)
(***************************************************************************)
EXTENDS UiServer

\* The ids "A-1"/"2" and "A"/"1-2" lead to the same job file A-1-2.yaml.
SameFile == [c \in Cases |-> "job"]

=============================================================================
