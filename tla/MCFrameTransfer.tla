--------------------------- MODULE MCFrameTransfer ---------------------------
(***************************************************************************)
(* FrameTransfer for TLC.  A source of seven bytes: in chunks of one byte  *)
(* (seven leaves of the Merkle tree, so several levels and a promoted      *)
(* node); in chunks longer than a segment with a short last one; and with  *)
(* frames that do not divide the chunk and chunks that do not divide the   *)
(* segment.                                                                *)
(***************************************************************************)
EXTENDS FrameTransfer

Boundaries == {[chunk |-> 1, frame |-> 1, segment |-> 3],
               [chunk |-> 5, frame |-> 2, segment |-> 2],
               [chunk |-> 3, frame |-> 2, segment |-> 4]}
=============================================================================
