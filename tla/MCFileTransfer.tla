--------------------------- MODULE MCFileTransfer ---------------------------
EXTENDS FileTransfer

\* An empty file, one shorter than a chunk, whole chunks, and a last chunk that
\* is shorter; files that begin alike and files that do not.
MCContents == {<<>>, <<0>>, <<0, 1>>, <<0, 1, 1>>, <<1, 1, 0>>, <<0, 1, 1, 0>>, <<0, 1, 0, 0, 1>>}

\* Fewer contents where the source is edited between steps, of the same kinds.
EditedContents == {<<>>, <<0, 1>>, <<0, 1, 1>>, <<1, 1, 0>>, <<0, 1, 0, 0, 1>>}
=============================================================================
