--------------------------- MODULE MCHistoryFetch ---------------------------
(* Two racing callers, two norms and a cache with room for one of them.    *)
EXTENDS HistoryFetch

=============================================================================
