------------------------------- MODULE MCEntryTable ------------------------------
(* A small instance of EntryTable: a file that lists one of two urns twice, with *)
(* a full batch and a rest. *)
EXTENDS EntryTable, TLC

CONSTANTS u1, u2, reader1

TwoUrns   == {u1, u2}
File      == <<u1, u1, u2>>
OneReader == {reader1}
===============================================================================
