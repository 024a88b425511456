---------------------------- MODULE MCFrameCodec ----------------------------
(* A small instance of FrameCodec for TLC. *)
EXTENDS FrameCodec
=============================================================================
