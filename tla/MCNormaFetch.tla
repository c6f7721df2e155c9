---------------------------- MODULE MCNormaFetch ----------------------------
(* Two callers, two versions of the text of one norm under two dates, and a *)
(* cache with room for one of them.                                         *)
EXTENDS NormaFetch

=============================================================================
