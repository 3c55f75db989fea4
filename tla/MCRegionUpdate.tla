--------------------------- MODULE MCRegionUpdate ---------------------------
EXTENDS RegionUpdate

Layout(width, height, stride) == [width |-> width, height |-> height, stride |-> stride]

\* In tiles of 2 pixels: a row (with padding behind it) and a column whose last tile
\* is cut off, and two tiles of two pixels and two beside or below one another.
Desktops == {Layout(7, 1, 8), Layout(1, 5, 1), Layout(3, 2, 3), Layout(2, 3, 2)}
=============================================================================
