----------------------------- MODULE MCChunker -----------------------------
\* Documents: a level-2 heading and up to four more lines of any kind, bodies
\* of up to three lines without it, and runs of three siblings, the first two
\* with a blank line between them, so that the merged text is a line shorter
\* than its range.
EXTENDS Chunker, FiniteSets
CONSTANT Sizes
Lines == {Heading(2), Heading(3), Blank} \cup {Text(t) : t \in Sizes}
UpTo(l) == UNION {[1 .. k -> Lines] : k \in 1 .. l}
Siblings == {<<Heading(2), Heading(3), Text(a), Blank, Heading(3), Text(b), Heading(3), Text(c)>> :
                a \in Sizes, b \in Sizes, c \in Sizes}
MCBodies == UpTo(3) \cup {<<Heading(1)>> \o s : s \in UpTo(2)}
              \cup {<<Heading(2)>> \o s : s \in UpTo(4)} \cup Siblings
=============================================================================
