--------------------------- MODULE MCFrameReader ---------------------------
(* A short frame, a longer one and a short one again. *)
EXTENDS FrameReader

MCLength == << 1, 2, 1 >>
=============================================================================
