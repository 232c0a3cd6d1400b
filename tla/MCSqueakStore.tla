--------------------------- MODULE MCSqueakStore ---------------------------
EXTENDS SqueakStore

CONSTANTS a1, a2

\* Two squeaks by two different authors.
MCAuthor == (1 :> a1) @@ (2 :> a2)
=============================================================================
