--------------------------- MODULE MCKeysetPaging ---------------------------
EXTENDS KeysetPaging

CONSTANTS a1, a2

\* Two squeaks of one author so that a page can split an author's squeaks,
\* and one of another author so that filters exclude something.
MCAuthor == (1 :> a1) @@ (2 :> a1) @@ (3 :> a2)

\* Two replies to squeak 1, so that a page boundary falls inside a thread.
MCReplyTo == (1 :> NoReply) @@ (2 :> 1) @@ (3 :> 1)
=============================================================================
