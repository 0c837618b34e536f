--------------------------- MODULE MCChannelSearch ---------------------------
(* Values for the runs of ChannelSearch: 0.1 degrees are six units, two of   *)
(* the distances the code compares, and the circle has 36.                  *)
EXTENDS ChannelSearch

AroundEquator == {-7, -3, -1, 3}
AroundDateLine == {-18, 13}
=============================================================================
