------------------------- MODULE MCReceiveController -------------------------
\* Model-checking instances of ReceiveController and FinalNames: f1 has two
\* chunks and is offered as "a", f2 has one and is offered as "a (3)", a number
\* that the ints of the instance do not reach.  Requests carry one index past
\* either file, the first whose offset wraps.
EXTENDS FinalNames, TLC

CONSTANTS s1, s2, f1, f2

MCChunks  == f1 :> 2 @@ f2 :> 1
MCOneFile == f1 :> 1

Numbers(ns) == [base |-> "a", numbers |-> ns]
MCNames == f1 :> Numbers(<<>>) @@ f2 :> Numbers(<<3>>)
MCName  == f1 :> Numbers(<<>>)

\* "a" and "a (1)", or every name that an int can number.
MCDirectories ==
  {{Numbers(<<>>), Numbers(<<1>>)},
   {Numbers(<<>>), Numbers(<<1>>), Numbers(<<2>>), Numbers(<<3>>)}}
=============================================================================
