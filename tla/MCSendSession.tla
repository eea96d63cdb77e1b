---------------------------- MODULE MCSendSession ----------------------------
\* Model-checking instance of SendSession: the senders do not share anything
\* when the receiver is unconstrained, so one is enough.  f1 has two chunks.
EXTENDS SendSession, TLC

CONSTANTS s1, f0, f1

MCFilesOf == s1 :> <<f0, f1>>
MCChunks  == f0 :> 0 @@ f1 :> 2
=============================================================================
