--------------------------- MODULE MCVideoLibrary ---------------------------
(***************************************************************************)
(* Instances of VideoLibrary for TLC: names with one dot, with two, with   *)
(* none.                                                                   *)
(***************************************************************************)
EXTENDS VideoLibrary

MCNames == {<<"clip", "mp4">>, <<"my", "clip", "mp4">>, <<"clip">>}
=============================================================================
