----------------------------- MODULE MCGrpcStream -----------------------------
(* A small instance of GrpcStream: four writes meet two messages of the server, enough for a
   buffered write behind a buffered write and for a read after the first was told. *)
EXTENDS GrpcStream
===============================================================================
