------------------------------ MODULE MCPostsFetch -------------------------------
(* A small instance of PostsFetch: a file that lists one of two profiles twice. *)
EXTENDS PostsFetch, TLC

CONSTANTS ann, bob, blank

Two  == {ann, bob}
File == <<ann, blank, bob, ann>>
===============================================================================
