--------------------------- MODULE MCCameraStream ---------------------------
(* An instance of CameraStream for TLC: every camera has the same buffers. *)
EXTENDS CameraStream
CONSTANTS c1, c2, b1, b2, Indices

MCBuffers == [c \in Cameras |-> Indices]
=============================================================================
