---------------------------- MODULE MCHttpWrite ----------------------------
(* Instances of HttpWrite for TLC: lengths on both sides of each other. *)
EXTENDS HttpWrite

MCHeaderLengths == 1 .. 6
MCFileLengths   == 1 .. 6
=============================================================================
