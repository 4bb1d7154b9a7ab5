---------------------------- MODULE MCCatalogue ----------------------------
(***************************************************************************)
(* Instances of Catalogue for TLC: page 0 and 1, and sizes below zero,     *)
(* zero, one and two, which the DTO lets through alike.                    *)
(***************************************************************************)
EXTENDS Catalogue

MCFirstPages == {0, 1}
MCSizes == {-1, 0, 1, 2}
=============================================================================
