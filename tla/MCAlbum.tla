------------------------------- MODULE MCAlbum -------------------------------
(* A small instance of Album for TLC: the bounds are numbers.              *)
EXTENDS Album
=============================================================================
