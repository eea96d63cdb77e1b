----------------------------- MODULE MCPipeFraming -----------------------------
\* Model-checking instance of PipeFraming.  Texts of three and four bytes are
\* too long for the backend; four is a multiple of the size of a length.
EXTENDS PipeFraming

MCTexts == {[i \in 1 .. n |-> byte] : n \in 1 .. 4, byte \in {1, 3}}
===============================================================================
