------------------------------- MODULE MCDigest -------------------------------
(* A small instance of Digest for TLC. *)
EXTENDS Digest

TwoNames == {1, 2}
\* Two cut texts leave room for 196 characters, and not for 197.
Boundary == {196, 197, 5000}
=============================================================================
