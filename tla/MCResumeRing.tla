---------------------------- MODULE MCResumeRing ----------------------------
(***************************************************************************)
(* Instances of ResumeRing for TLC, with the sizes of the code.            *)
(***************************************************************************)
EXTENDS ResumeRing

CONSTANTS p1, p2

\* resume_ring_sz and countof(resumed_data)
RingSz == 14
BufferSz == 4
====
