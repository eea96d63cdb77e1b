------------------------------ MODULE MCTransfer ------------------------------
\* Model-checking instances of Transfer: s1 sends two files, of one chunk and of
\* two, s2 one file of one chunk.
EXTENDS Transfer, TLC

CONSTANTS s1, s2, f1, f2, f3

MCFilesOf    == s1 :> <<f1, f2>> @@ s2 :> <<f3>>
MCChunks     == f1 :> 1 @@ f2 :> 2 @@ f3 :> 1
MCSmallFiles == s1 :> <<f1>> @@ s2 :> <<f3>>
MCSmallChunks == f1 :> 1 @@ f3 :> 0
===============================================================================
