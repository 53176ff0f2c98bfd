---------------------------- MODULE MCBufferTest ----------------------------
(***************************************************************************)
(* BufferTest with a few messages in each phase and, as in the program,    *)
(* buffers that hold fewer than a phase sends.                             *)
(***************************************************************************)
EXTENDS BufferTest

MCCount == <<4, 6>>
MCCapacity == <<3, 4>>
=============================================================================
