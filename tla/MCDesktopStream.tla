--------------------------- MODULE MCDesktopStream ---------------------------
EXTENDS PictureInvariant, TLC

\* Contents of a tile: two are enough to tell a stale tile from a current one.
Pixels == {0, 1}

\* One content is enough where the picture does not matter.
OnePixel == {0}

\* Tiles are interchangeable: no definition singles one out.
TileSymmetry == Permutations(Tile)
=============================================================================
