--------------------------- MODULE MCRecIndexing ---------------------------
(* A small instance of RecIndexing for TLC. *)
EXTENDS RecIndexing

CONSTANTS a, b, h1, h2, none

TwoTracks == {a, b}
\* A second handler runs beside one whose channel was lost.
TwoHandlers == {h1, h2}
=============================================================================
