-------------------------- MODULE MCSampleRestaurant --------------------------
(* Small instances of SampleRestaurant. *)
EXTENDS SampleRestaurant, TLC

CONSTANTS o1, o2, h1, h2
==============================================================================
