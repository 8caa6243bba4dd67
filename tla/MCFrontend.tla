------------------------------ MODULE MCFrontend ------------------------------
(* Instances of Frontend: all four loaders that may be generated. *)
EXTENDS Frontend

AnyLoader == [sec : {"xdp_md", "tracepoint"}, printed : BOOLEAN]
=============================================================================
