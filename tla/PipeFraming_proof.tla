--------------------------- MODULE PipeFraming_proof ---------------------------
(***************************************************************************)
(* Machine-checked proofs about PipeFraming, for any texts, any number of  *)
(* messages, and wherever their bytes are cut: the handlers at either end  *)
(* get the messages that were written, whole and in order.                 *)
(***************************************************************************)
EXTENDS PipeFraming, FiniteSetTheorems, SequenceTheorems, WellFoundedInduction, TLAPS

-----------------------------------------------------------------------------
\* Induction and recursion over naturals, for a set and for a function.

LEMMA NatSet ==
  ASSUME NEW T, 0 \in T, \A n \in Nat : n \in T => n + 1 \in T
  PROVE  Nat \subseteq T
<1> DEFINE Rest == Nat \ T
<1> SUFFICES ASSUME Rest # {} PROVE FALSE
  OBVIOUS
<1>1. PICK m \in Rest : \A k \in Rest : <<k, m>> \notin OpToRel(<, Nat)
  <2>1. Rest \subseteq Nat
    OBVIOUS
  <2> HIDE DEF Rest
  <2> QED BY <2>1, NatLessThanWellFounded, WFMin
<1>2. m \in Nat /\ m # 0
  OBVIOUS
<1>3. m - 1 \in Nat /\ m - 1 < m /\ (m - 1) + 1 = m
  BY <1>2
<1>4. <<m - 1, m>> \in OpToRel(<, Nat)
  BY <1>2, <1>3 DEF OpToRel
<1>5. m - 1 \in T
  BY <1>1, <1>3, <1>4
<1> QED BY <1>3, <1>5

\* The first values of a function that starts at a value and goes on by a step.
Follows(start, step, n, g) ==
  /\ g[0] = start
  /\ \A i \in 0 .. n - 1 : g[i + 1] = step[g[i]]

LEMMA FirstValues ==
  ASSUME NEW S, NEW start \in S, NEW step \in [S -> S], NEW n \in Nat
  PROVE  \E g \in [0 .. n -> S] : Follows(start, step, n, g)
<1> DEFINE Good == {k \in Nat : \E g \in [0 .. k -> S] : Follows(start, step, k, g)}
<1>1. 0 \in Good
  <2> DEFINE g == [i \in 0 .. 0 |-> start]
  <2>1. g \in [0 .. 0 -> S] /\ Follows(start, step, 0, g)
    BY DEF Follows
  <2> HIDE DEF g
  <2> QED BY <2>1
<1>2. ASSUME NEW k \in Nat, k \in Good PROVE k + 1 \in Good
  <2>1. PICK g \in [0 .. k -> S] : Follows(start, step, k, g)
    BY <1>2
  <2> DEFINE h == [i \in 0 .. k + 1 |-> IF i = k + 1 THEN step[g[k]] ELSE g[i]]
  <2>2. g[k] \in S /\ \A i \in 0 .. k + 1 : i = k + 1 \/ i \in 0 .. k
    BY <2>1
  <2>3. h \in [0 .. k + 1 -> S]
    BY <2>1, <2>2
  <2>4. h[0] = start
    BY <2>1 DEF Follows
  <2>5. ASSUME NEW i \in 0 .. (k + 1) - 1 PROVE h[i + 1] = step[h[i]]
    <3>1. CASE i = k
      BY <3>1
    <3>2. CASE i # k
      <4>1. i \in 0 .. k - 1 /\ i \in 0 .. k + 1 /\ i + 1 \in 0 .. k + 1 /\ i + 1 # k + 1
            /\ i # k + 1
        BY <3>2
      <4>2. h[i] = g[i] /\ h[i + 1] = g[i + 1]
        BY <4>1
      <4> QED BY <2>1, <4>1, <4>2 DEF Follows
    <3> QED BY <3>1, <3>2
  <2> HIDE DEF h
  <2>6. Follows(start, step, k + 1, h)
    BY <2>4, <2>5 DEF Follows
  <2> QED BY <2>3, <2>6
<1> HIDE DEF Good
<1>3. n \in Good
  BY <1>1, <1>2, NatSet
<1> QED BY <1>3 DEF Good

LEMMA SameValues ==
  ASSUME NEW S, NEW start \in S, NEW step \in [S -> S], NEW n \in Nat,
         NEW g, NEW h, Follows(start, step, n, g), Follows(start, step, n + 1, h)
  PROVE  g[n] = h[n]
<1> DEFINE Same == {k \in Nat : k <= n => g[k] = h[k]}
<1>1. 0 \in Same
  BY DEF Follows
<1>2. ASSUME NEW k \in Nat, k \in Same PROVE k + 1 \in Same
  <2> SUFFICES ASSUME k + 1 <= n PROVE g[k + 1] = h[k + 1]
    OBVIOUS
  <2>1. g[k] = h[k] /\ k \in 0 .. n - 1 /\ k \in 0 .. (n + 1) - 1
    BY <1>2
  <2> QED BY <2>1 DEF Follows
<1> HIDE DEF Same
<1>3. n \in Same
  BY <1>1, <1>2, NatSet
<1> QED BY <1>3 DEF Same

Iteration(start, step, f) ==
  /\ f = [n \in Nat |-> f[n]]
  /\ f[0] = start
  /\ \A n \in Nat : f[n + 1] = step[f[n]]

\* There is a function that starts at a value and goes on by a step.
LEMMA Iterates ==
  ASSUME NEW S, NEW start \in S, NEW step \in [S -> S]
  PROVE  \E f : Iteration(start, step, f)
<1> DEFINE G(n) == CHOOSE g \in [0 .. n -> S] : Follows(start, step, n, g)
           f == [n \in Nat |-> G(n)[n]]
<1>1. ASSUME NEW n \in Nat PROVE G(n) \in [0 .. n -> S] /\ Follows(start, step, n, G(n))
  BY FirstValues
<1> HIDE DEF G
<1>2. \A n \in Nat : G(n)[n] \in S
  BY <1>1
<1>3. f \in [Nat -> S]
  BY <1>2
<1>4. f[0] = start
  <2>1. Follows(start, step, 0, G(0))
    BY <1>1
  <2> QED BY <2>1 DEF Follows
<1>5. ASSUME NEW n \in Nat PROVE f[n + 1] = step[f[n]]
  <2>1. Follows(start, step, n, G(n)) /\ n + 1 \in Nat
    BY <1>1
  <2>2. Follows(start, step, n + 1, G(n + 1))
    BY <1>1, <2>1
  <2>3. G(n)[n] = G(n + 1)[n]
    BY <2>1, <2>2, SameValues
  <2>4. n \in 0 .. (n + 1) - 1
    OBVIOUS
  <2>5. G(n + 1)[n + 1] = step[G(n + 1)[n]]
    BY <2>2, <2>4 DEF Follows
  <2> QED BY <2>1, <2>3, <2>5
<1>6. f = [n \in Nat |-> f[n]]
  OBVIOUS
<1> HIDE DEF f
<1> QED BY <1>4, <1>5, <1>6 DEF Iteration

-----------------------------------------------------------------------------
\* Lengths.

LEMMA LengthSurvives ==
  ASSUME NEW n \in Nat, n \div (256 * 256 * 256) \in Byte
  PROVE  Encode(n) \in Seq(Byte) /\ Len(Encode(n)) = HeaderSize /\ Decode(Encode(n)) = n
<1> DEFINE a == n \div (256 * 256 * 256)
           b == n \div (256 * 256)
           c == n \div 256
<1>1. a \in 0 .. 255
  BY DEF Byte
<1>2. b = 256 * a + (b % 256) /\ c = 256 * b + (c % 256) /\ n = 256 * c + (n % 256)
  BY SMT
<1>3. b % 256 \in 0 .. 255 /\ c % 256 \in 0 .. 255 /\ n % 256 \in 0 .. 255 /\ a % 256 = a
  BY <1>1, SMT
<1> QED BY <1>1, <1>2, <1>3 DEF Encode, Decode, Byte, HeaderSize

\* Four bytes of a text never make a length that the backend takes.
LEMMA TextIsTooLong ==
  ASSUME NEW bytes \in Seq(Byte), Len(bytes) = HeaderSize, bytes[1] # 0
  PROVE  Decode(bytes) > MaxLength
<1>1. Len(bytes) = 4 /\ bytes \in Seq(Byte)
  BY DEF HeaderSize
<1>2. \A i \in 1 .. 4 : bytes[i] \in Byte
  BY <1>1, ElementOfSeq
<1>3. PICK a \in Byte, b \in Byte, c \in Byte, d \in Byte :
        a = bytes[1] /\ b = bytes[2] /\ c = bytes[3] /\ d = bytes[4]
  BY <1>2
<1>4. a \in 1 .. 255 /\ b \in 0 .. 255 /\ c \in 0 .. 255 /\ d \in 0 .. 255
  BY <1>3 DEF Byte
<1>5. MaxLength \in Nat /\ MaxLength < 256 * 256 * 256
  BY FramingOK
<1>6. Decode(bytes) = ((a * 256 + b) * 256 + c) * 256 + d
  BY <1>3 DEF Decode
<1>7. ((a * 256 + b) * 256 + c) * 256 + d >= 256 * 256 * 256
  BY <1>4
<1> QED BY <1>4, <1>5, <1>6, <1>7

-----------------------------------------------------------------------------
\* Cutting and joining sequences.  The proofs below write s \o t as Glue(s, t): the
\* provers then see the facts of these lemmas and nothing else about it.

Glue(s, t) == s \o t

LEMMA GlueIsSeq ==
  ASSUME NEW S, NEW s \in Seq(S), NEW t \in Seq(S)
  PROVE  Glue(s, t) \in Seq(S) /\ Len(Glue(s, t)) = Len(s) + Len(t)
BY ConcatProperties DEF Glue

LEMMA GlueAppend ==
  ASSUME NEW S, NEW s \in Seq(S), NEW t \in Seq(S), NEW x \in S
  PROVE  Glue(s, Append(t, x)) = Append(Glue(s, t), x)
<1>1. s \o t \in Seq(S)
  BY ConcatProperties
<1>2. Append(t, x) = t \o <<x>> /\ Append(s \o t, x) = (s \o t) \o <<x>> /\ <<x>> \in Seq(S)
  BY <1>1, AppendIsConcat
<1>3. (s \o t) \o <<x>> = s \o (t \o <<x>>)
  BY <1>2, ConcatAssociative
<1> QED BY <1>2, <1>3 DEF Glue

LEMMA Regroup ==
  ASSUME NEW S, NEW s \in Seq(S), NEW t \in Seq(S), NEW u \in Seq(S)
  PROVE  Glue(Glue(s, t), u) = Glue(s, Glue(t, u))
BY ConcatAssociative DEF Glue

LEMMA GlueEmpty ==
  ASSUME NEW S, NEW s \in Seq(S)
  PROVE  Glue(<<>>, s) = s /\ Glue(s, <<>>) = s
BY ConcatEmptySeq DEF Glue

LEMMA GlueFirst ==
  ASSUME NEW S, NEW s \in Seq(S), NEW t \in Seq(S), Len(s) >= 1
  PROVE  Glue(s, t)[1] = s[1]
BY ConcatProperties DEF Glue

LEMMA Halves ==
  ASSUME NEW S, NEW s \in Seq(S), NEW n \in 0 .. Len(s)
  PROVE  /\ First(n, s) \in Seq(S) /\ Len(First(n, s)) = n
         /\ After(n, s) \in Seq(S) /\ Len(After(n, s)) = Len(s) - n
         /\ Glue(First(n, s), After(n, s)) = s
<1> DEFINE a == First(n, s)
           b == After(n, s)
<1>1. a \in Seq(S) /\ Len(a) = n /\ \A i \in 1 .. n : a[i] = s[i]
  BY SubSeqProperties DEF First
<1>2. b \in Seq(S) /\ Len(b) = Len(s) - n /\ \A i \in 1 .. Len(s) - n : b[i] = s[n + i]
  BY SubSeqProperties DEF After
<1> HIDE DEF a, b
<1>3. /\ a \o b \in Seq(S) /\ Len(a \o b) = Len(a) + Len(b)
      /\ \A i \in 1 .. Len(a) + Len(b) :
           (a \o b)[i] = IF i <= Len(a) THEN a[i] ELSE b[i - Len(a)]
  BY <1>1, <1>2, ConcatProperties
<1>4. Len(a) + Len(b) = Len(s) /\ \A i \in 1 .. Len(s) : (a \o b)[i] = s[i]
  <2>1. Len(s) \in Nat /\ Len(a) + Len(b) = Len(s)
    BY <1>1, <1>2
  <2>2. ASSUME NEW i \in 1 .. Len(s), i <= n PROVE (a \o b)[i] = s[i]
    BY <1>1, <1>3, <2>1, <2>2
  <2>3. ASSUME NEW i \in 1 .. Len(s), ~(i <= n) PROVE (a \o b)[i] = s[i]
    <3>1. i - n \in 1 .. Len(s) - n /\ n + (i - n) = i
      BY <2>1, <2>3
    <3> QED BY <1>1, <1>2, <1>3, <2>1, <2>3, <3>1
  <2> QED BY <2>1, <2>2, <2>3
<1>5. a \o b = s
  BY <1>3, <1>4, SeqEqual
<1> QED BY <1>1, <1>2, <1>5 DEF a, b, Glue

LEMMA CutAtJoint ==
  ASSUME NEW S, NEW s \in Seq(S), NEW t \in Seq(S)
  PROVE  First(Len(s), Glue(s, t)) = s /\ After(Len(s), Glue(s, t)) = t
<1> DEFINE n == Len(s)
           u == s \o t
<1>1. u \in Seq(S) /\ n \in 0 .. Len(u) /\ Len(u) - n = Len(t)
  BY ConcatProperties
<1>2. \A i \in 1 .. n : u[i] = s[i]
  BY ConcatProperties
<1>3. \A i \in 1 .. Len(t) : u[n + i] = t[i]
  BY ConcatProperties
<1>4. /\ First(n, u) \in Seq(S) /\ Len(First(n, u)) = n
      /\ \A i \in 1 .. n : First(n, u)[i] = u[i]
  BY <1>1, SubSeqProperties DEF First
<1>5. /\ After(n, u) \in Seq(S) /\ Len(After(n, u)) = Len(t)
      /\ \A i \in 1 .. Len(t) : After(n, u)[i] = u[n + i]
  BY <1>1, SubSeqProperties DEF After
<1> HIDE DEF u, n
<1>6. First(n, u) = s
  BY <1>2, <1>4, SeqEqual DEF n
<1>7. After(n, u) = t
  BY <1>3, <1>5, SeqEqual
<1> QED BY <1>6, <1>7 DEF u, n, Glue

\* Sequences that are joined to the same one are the same when their first parts
\* are as long as each other.
LEMMA PartsMatch ==
  ASSUME NEW S, NEW s \in Seq(S), NEW p \in Seq(S), NEW f \in Seq(S), NEW t \in Seq(S),
         Len(s) = Len(f), Glue(s, p) = Glue(f, t)
  PROVE  s = f /\ p = t
<1>1. First(Len(f), Glue(f, t)) = f /\ After(Len(f), Glue(f, t)) = t
  BY CutAtJoint
<1>2. First(Len(s), Glue(s, p)) = s /\ After(Len(s), Glue(s, p)) = p
  BY CutAtJoint
<1> QED BY <1>1, <1>2

\* What reaches as far as the frame at the front holds it.
LEMMA FrameAtFront ==
  ASSUME NEW S, NEW r \in Seq(S), NEW p \in Seq(S), NEW f \in Seq(S), NEW t \in Seq(S),
         Len(r) >= Len(f), Glue(r, p) = Glue(f, t)
  PROVE  First(Len(f), r) = f /\ Glue(After(Len(f), r), p) = t
<1>1. PICK n \in 0 .. Len(r) : n = Len(f)
  OBVIOUS
<1> DEFINE a == First(n, r)
           b == After(n, r)
<1>2. a \in Seq(S) /\ b \in Seq(S) /\ Len(a) = n /\ Glue(a, b) = r
  BY Halves
<1> HIDE DEF a, b
<1>3. Glue(a, Glue(b, p)) = Glue(f, t)
  BY <1>2, Regroup
<1>4. Glue(b, p) \in Seq(S)
  BY <1>2, GlueIsSeq
<1>5. a = f /\ Glue(b, p) = t
  BY <1>1, <1>2, <1>3, <1>4, PartsMatch
<1> QED BY <1>1, <1>5 DEF a, b

-----------------------------------------------------------------------------
\* Texts and frames.

Frame(text) == Glue(Encode(Len(text)), text)

LEMMA TextBytes ==
  ASSUME NEW text \in Texts
  PROVE  /\ text \in Seq(1 .. 255) /\ text \in Seq(Byte)
         /\ Len(text) \in Nat /\ Len(text) >= 1
         /\ Len(text) \div (256 * 256 * 256) \in Byte
<1>1. /\ text \in Seq(1 .. 255) /\ text # <<>>
      /\ Len(text) \div (256 * 256 * 256) \in Byte
  BY FramingOK
<1>2. text \in Seq(Byte)
  BY <1>1 DEF Byte
<1>3. Len(text) \in Nat /\ Len(text) # 0
  BY <1>1, EmptySeq
<1> QED BY <1>1, <1>2, <1>3

LEMMA TextLength ==
  ASSUME NEW text \in Texts
  PROVE  /\ Encode(Len(text)) \in Seq(Byte) /\ Len(Encode(Len(text))) = HeaderSize
         /\ Decode(Encode(Len(text))) = Len(text)
BY TextBytes, LengthSurvives

\* What a reader finds that looks at the frame at the front of its bytes.
LEMMA FrontOfFrame ==
  ASSUME NEW text \in Texts, NEW r \in Seq(Byte), NEW p \in Seq(Byte), NEW t \in Seq(Byte),
         Glue(r, p) = Glue(Frame(text), t), Len(r) >= HeaderSize
  PROVE  /\ Decode(First(HeaderSize, r)) = Len(text)
         /\ Glue(After(HeaderSize, r), p) = Glue(text, t)
         /\ HasFrame(r) => /\ After(HeaderSize, First(FrameSize(r), r)) = text
                           /\ Glue(After(FrameSize(r), r), p) = t
                           /\ FrameSize(r) \in 0 .. Len(r)
<1> DEFINE header == Encode(Len(text))
           frame  == Glue(header, text)
<1>1. /\ text \in Seq(Byte) /\ Len(text) \in Nat
      /\ header \in Seq(Byte) /\ Len(header) = HeaderSize /\ Decode(header) = Len(text)
  BY TextBytes, TextLength
<1> HIDE DEF header
<1>2. frame \in Seq(Byte) /\ Len(frame) = HeaderSize + Len(text)
  BY <1>1, GlueIsSeq
<1>3. Glue(r, p) = Glue(frame, t)
  BY DEF Frame, header
<1> HIDE DEF frame
<1>4. Glue(text, t) \in Seq(Byte)
  BY <1>1, GlueIsSeq
<1>5. Glue(frame, t) = Glue(header, Glue(text, t))
  BY <1>1, Regroup DEF frame
<1>6. First(HeaderSize, r) = header /\ Glue(After(HeaderSize, r), p) = Glue(text, t)
  <2>1. Glue(r, p) = Glue(header, Glue(text, t)) /\ Len(r) >= Len(header)
    BY <1>1, <1>3, <1>5
  <2> QED BY <1>1, <1>4, <2>1, FrameAtFront
<1>7. ASSUME HasFrame(r)
      PROVE  /\ After(HeaderSize, First(FrameSize(r), r)) = text
             /\ Glue(After(FrameSize(r), r), p) = t
             /\ FrameSize(r) \in 0 .. Len(r)
  <2>1. FrameSize(r) = Len(frame) /\ Len(r) >= Len(frame)
    BY <1>1, <1>2, <1>6, <1>7 DEF HasFrame, FrameSize
  <2>2. First(Len(frame), r) = frame /\ Glue(After(Len(frame), r), p) = t
    BY <1>2, <1>3, <2>1, FrameAtFront
  <2>3. After(HeaderSize, frame) = text
    <3>1. After(Len(header), Glue(header, text)) = text
      BY <1>1, CutAtJoint
    <3> QED BY <1>1, <3>1 DEF frame
  <2>4. Len(frame) \in 0 .. Len(r)
    BY <1>2, <2>1
  <2> QED BY <2>1, <2>2, <2>3, <2>4
<1> QED BY <1>1, <1>6, <1>7

-----------------------------------------------------------------------------
\* Counting the messages that a reader has to find.

CountTo(R, n) == Cardinality({j \in R : j <= n})

LEMMA CountStep ==
  ASSUME NEW R \in SUBSET (Nat \ {0}), NEW k \in Nat
  PROVE  /\ IsFiniteSet({j \in R : j <= k})
         /\ CountTo(R, 0) = 0
         /\ CountTo(R, k) \in Nat
         /\ k + 1 \in R => CountTo(R, k + 1) = CountTo(R, k) + 1
         /\ k + 1 \notin R => CountTo(R, k + 1) = CountTo(R, k)
<1> DEFINE A == {j \in R : j <= k}
           B == {j \in R : j <= k + 1}
<1>0. \A j \in R : j \in Nat /\ j >= 1
  OBVIOUS
<1>1. IsFiniteSet(A)
  <2>1. A \subseteq 1 .. k
    <3>1. ASSUME NEW j \in R, j <= k PROVE j \in 1 .. k
      BY <1>0, <3>1
    <3> QED BY <3>1
  <2>2. IsFiniteSet(1 .. k)
    BY FS_Interval
  <2> HIDE DEF A
  <2> QED BY <2>1, <2>2, FS_Subset
<1>2. CountTo(R, 0) = 0
  <2>1. {j \in R : j <= 0} = {}
    <3>1. ASSUME NEW j \in R, j <= 0 PROVE FALSE
      BY <1>0, <3>1
    <3> QED BY <3>1
  <2> QED BY <2>1, FS_EmptySet DEF CountTo
<1>3. Cardinality(A) \in Nat
  <2> HIDE DEF A
  <2> QED BY <1>1, FS_CardinalityType
<1>4. ASSUME k + 1 \in R PROVE Cardinality(B) = Cardinality(A) + 1
  <2>1. B = A \cup {k + 1} /\ k + 1 \notin A
    <3>1. \A j \in R : j <= k + 1 <=> j <= k \/ j = k + 1
      BY <1>0
    <3>2. ~(k + 1 <= k)
      OBVIOUS
    <3>3. B \subseteq A \cup {k + 1}
      BY <3>1
    <3>4. A \subseteq B /\ k + 1 \in B
      BY <1>4, <3>1
    <3> QED BY <3>2, <3>3, <3>4
  <2> HIDE DEF A, B
  <2> QED BY <1>1, <2>1, FS_AddElement
<1>5. ASSUME k + 1 \notin R PROVE B = A
  <2>1. \A j \in R : j <= k + 1 <=> j <= k
    BY <1>0, <1>5
  <2> QED BY <2>1
<1> QED BY <1>1, <1>2, <1>3, <1>4, <1>5 DEF CountTo

LEMMA CountOrder ==
  ASSUME NEW R \in SUBSET (Nat \ {0}), NEW i \in Nat, NEW k \in Nat
  PROVE  /\ i <= k => CountTo(R, i) <= CountTo(R, k)
         /\ i \in R /\ i > k => CountTo(R, i) > CountTo(R, k)
<1>1. ASSUME NEW m \in Nat, NEW n \in Nat, m <= n
      PROVE  CountTo(R, m) <= CountTo(R, n)
  <2> DEFINE A == {j \in R : j <= m}
             B == {j \in R : j <= n}
  <2>1. A \subseteq B
    <3>1. \A j \in R : j \in Nat
      OBVIOUS
    <3>2. ASSUME NEW j \in R, j <= m PROVE j <= n
      BY <1>1, <3>1, <3>2
    <3> QED BY <3>2
  <2>2. IsFiniteSet(B)
    BY CountStep
  <2> HIDE DEF A, B
  <2>3. Cardinality(A) <= Cardinality(B)
    BY <2>1, <2>2, FS_Subset
  <2> QED BY <2>3 DEF CountTo, A, B
<1>2. ASSUME i \in R, i > k PROVE CountTo(R, i) > CountTo(R, k)
  <2>1. PICK m \in Nat : m + 1 = i /\ k <= m
    <3>1. i - 1 \in Nat /\ (i - 1) + 1 = i /\ k <= i - 1
      BY <1>2
    <3> QED BY <3>1
  <2>2. /\ CountTo(R, m) \in Nat /\ CountTo(R, k) \in Nat
        /\ CountTo(R, m + 1) = CountTo(R, m) + 1
    BY <1>2, <2>1, CountStep
  <2>3. CountTo(R, k) <= CountTo(R, m)
    BY <1>1, <2>1
  <2> QED BY <2>1, <2>2, <2>3
<1> QED BY <1>1, <1>2

\* The texts are those of a reader that has passed the first k messages of all.
Passed(R, all, texts, k) ==
  /\ Len(texts) = CountTo(R, k)
  /\ \A i \in R : i <= k => texts[CountTo(R, i)] = all[i]

LEMMA PassedOne ==
  ASSUME NEW R \in SUBSET (Nat \ {0}), NEW S, NEW texts \in Seq(S), NEW all,
         NEW k \in Nat, Passed(R, all, texts, k)
  PROVE  /\ k + 1 \notin R => Passed(R, all, texts, k + 1)
         /\ k + 1 \in R /\ all[k + 1] \in S => Passed(R, all, Append(texts, all[k + 1]), k + 1)
<1>1. /\ Len(texts) = CountTo(R, k) /\ CountTo(R, k) \in Nat
      /\ \A i \in R : i <= k => texts[CountTo(R, i)] = all[i]
      /\ \A i \in R : i <= k + 1 => i <= k \/ i = k + 1
  BY CountStep DEF Passed
<1>2. ASSUME k + 1 \notin R PROVE Passed(R, all, texts, k + 1)
  <2>1. CountTo(R, k + 1) = CountTo(R, k)
    BY <1>2, CountStep
  <2> QED BY <1>1, <1>2, <2>1 DEF Passed
<1>3. ASSUME k + 1 \in R, all[k + 1] \in S
      PROVE  Passed(R, all, Append(texts, all[k + 1]), k + 1)
  <2> DEFINE more == Append(texts, all[k + 1])
  <2>1. CountTo(R, k + 1) = CountTo(R, k) + 1
    BY <1>3, CountStep
  <2>2. /\ Len(more) = Len(texts) + 1 /\ more[Len(texts) + 1] = all[k + 1]
        /\ \A j \in 1 .. Len(texts) : more[j] = texts[j]
    BY <1>3, AppendProperties
  <2> HIDE DEF more
  <2>3. ASSUME NEW i \in R, i <= k PROVE more[CountTo(R, i)] = all[i]
    <3>1. i \in Nat /\ CountTo(R, i) \in Nat /\ CountTo(R, 0) = 0
      BY CountStep
    <3>2. CountTo(R, i) <= CountTo(R, k) /\ CountTo(R, i) > CountTo(R, 0)
      BY <2>3, <3>1, CountOrder
    <3>3. CountTo(R, i) \in 1 .. Len(texts)
      BY <1>1, <3>1, <3>2
    <3> QED BY <1>1, <2>2, <2>3, <3>3
  <2>4. more[CountTo(R, k + 1)] = all[k + 1]
    BY <1>1, <2>1, <2>2
  <2>5. Len(more) = CountTo(R, k + 1)
    BY <1>1, <2>1, <2>2
  <2>6. Passed(R, all, more, k + 1)
    BY <1>1, <2>3, <2>4, <2>5 DEF Passed
  <2> QED BY <2>6 DEF more
<1> QED BY <1>2, <1>3

-----------------------------------------------------------------------------
\* The loop over the buffer.

LEMMA DecodeIsNat ==
  ASSUME NEW bytes \in Seq(Byte), Len(bytes) = HeaderSize
  PROVE  Decode(bytes) \in Nat
<1>1. Len(bytes) = 4
  BY DEF HeaderSize
<1>2. \A i \in 1 .. 4 : bytes[i] \in Byte
  BY <1>1, ElementOfSeq
<1>3. PICK a \in Byte, b \in Byte, c \in Byte, d \in Byte :
        a = bytes[1] /\ b = bytes[2] /\ c = bytes[3] /\ d = bytes[4]
  BY <1>2
<1>4. a \in Nat /\ b \in Nat /\ c \in Nat /\ d \in Nat
  BY DEF Byte
<1>5. ((a * 256 + b) * 256 + c) * 256 + d \in Nat
  BY <1>4
<1> QED BY <1>3, <1>5 DEF Decode

LEMMA TurnIsLoop ==
  ASSUME NEW loop \in Loop
  PROVE  Turn[loop] \in Loop
<1> DEFINE rest == loop.rest
<1>1. rest \in Seq(Byte) /\ loop.texts \in Seq(Seq(Byte))
  BY DEF Loop
<1>2. CASE ~HasFrame(rest)
  BY <1>2 DEF Turn
<1>3. CASE HasFrame(rest)
  <2> DEFINE size  == FrameSize(rest)
             frame == First(size, rest)
             text  == After(HeaderSize, frame)
             left  == After(size, rest)
  <2> HIDE DEF rest
  <2>1. Len(rest) \in Nat /\ Len(rest) >= HeaderSize /\ HeaderSize \in Nat
    BY <1>1, <1>3 DEF HasFrame, HeaderSize
  <2>2. First(HeaderSize, rest) \in Seq(Byte) /\ Len(First(HeaderSize, rest)) = HeaderSize
    BY <1>1, <2>1, Halves
  <2>3. size \in Nat /\ size >= HeaderSize /\ size <= Len(rest)
    BY <1>3, <2>1, <2>2, DecodeIsNat DEF HasFrame, FrameSize
  <2> HIDE DEF size
  <2>4. frame \in Seq(Byte) /\ Len(frame) = size /\ left \in Seq(Byte)
    BY <1>1, <2>1, <2>3, Halves
  <2> HIDE DEF frame, left
  <2>5. text \in Seq(Byte)
    BY <2>1, <2>3, <2>4, Halves
  <2> HIDE DEF text
  <2>6. Append(loop.texts, text) \in Seq(Seq(Byte))
    BY <1>1, <2>5, AppendProperties
  <2>7. [texts |-> Append(loop.texts, text), rest |-> left] \in Loop
    BY <2>4, <2>6 DEF Loop
  <2> QED BY <1>3, <2>7 DEF Turn, rest, text, frame, left, size
<1> QED BY <1>2, <1>3

LEMMA TurnsFollow ==
  ASSUME NEW bytes \in Seq(Byte)
  PROVE  /\ Turns(bytes)[0] = [texts |-> <<>>, rest |-> bytes]
         /\ \A n \in Nat : Turns(bytes)[n] \in Loop /\ Turns(bytes)[n + 1] = Turn[Turns(bytes)[n]]
<1> DEFINE start == [texts |-> <<>>, rest |-> bytes]
           Def(g) == g = [n \in Nat |-> IF n = 0 THEN start ELSE Turn[g[n - 1]]]
           turn == CHOOSE g : Def(g)
<1>1. start \in Loop
  <2>1. <<>> \in Seq(Seq(Byte))
    OBVIOUS
  <2> QED BY <2>1 DEF Loop
<1>2. Turn \in [Loop -> Loop]
  <2> DEFINE turned == [loop \in Loop |-> Turn[loop]]
  <2>1. Turn = turned
    BY DEF Turn
  <2>2. turned \in [Loop -> Loop]
    BY TurnIsLoop
  <2> QED BY <2>1, <2>2
<1> HIDE DEF start
<1>3. PICK f : Iteration(start, Turn, f)
  BY <1>1, <1>2, Iterates
<1>4. Def(f)
  <2>0. /\ f = [n \in Nat |-> f[n]]
        /\ f[0] = start
        /\ \A n \in Nat : f[n + 1] = Turn[f[n]]
    BY <1>3 DEF Iteration
  <2>1. ASSUME NEW n \in Nat PROVE f[n] = IF n = 0 THEN start ELSE Turn[f[n - 1]]
    <3>1. CASE n = 0
      BY <2>0, <3>1
    <3>2. CASE n # 0
      <4>1. n - 1 \in Nat /\ (n - 1) + 1 = n
        BY <3>2
      <4> QED BY <2>0, <3>2, <4>1
    <3> QED BY <3>1, <3>2
  <2> QED BY <2>0, <2>1
<1>5. Def(turn)
  <2> HIDE DEF Def
  <2> QED BY <1>4
<1>6. Turns(bytes) = turn
  BY DEF Turns, start
<1> HIDE DEF turn
<1>7. turn[0] = start /\ \A n \in Nat : turn[n + 1] = Turn[turn[n]]
  <2>1. turn[0] = start
    BY <1>5
  <2>2. ASSUME NEW n \in Nat PROVE turn[n + 1] = Turn[turn[n]]
    <3>1. n + 1 \in Nat /\ n + 1 # 0 /\ (n + 1) - 1 = n
      OBVIOUS
    <3> QED BY <1>5, <3>1
  <2> QED BY <2>1, <2>2
<1>8. \A n \in Nat : turn[n] \in Loop
  <2> DEFINE T == {n \in Nat : turn[n] \in Loop}
  <2>1. 0 \in T
    BY <1>1, <1>7
  <2>2. ASSUME NEW n \in Nat, n \in T PROVE n + 1 \in T
    <3>1. Turn[turn[n]] \in Loop
      BY <2>2, TurnIsLoop
    <3>2. turn[n + 1] = Turn[turn[n]] /\ n + 1 \in Nat
      BY <1>7
    <3> QED BY <3>1, <3>2
  <2> HIDE DEF T
  <2>3. Nat \subseteq T
    BY <2>1, <2>2, NatSet
  <2> QED BY <2>3 DEF T
<1> QED BY <1>6, <1>7, <1>8 DEF start

\* A turn that handles a frame leaves fewer bytes, so that there are turns enough.
LEMMA NoFrameIsLeft ==
  ASSUME NEW bytes \in Seq(Byte)
  PROVE  ~HasFrame(Frames(bytes).rest)
<1> DEFINE turn == Turns(bytes)
           n    == Len(bytes)
           T    == {m \in Nat : ~HasFrame(turn[m].rest) \/ Len(turn[m].rest) + m <= n}
<1>0. n \in Nat
  OBVIOUS
<1>1. /\ turn[0] = [texts |-> <<>>, rest |-> bytes]
      /\ \A m \in Nat : turn[m] \in Loop /\ turn[m + 1] = Turn[turn[m]]
  BY TurnsFollow
<1> HIDE DEF turn, n
<1>2. 0 \in T
  <2>1. Len(turn[0].rest) + 0 <= n
    BY <1>0, <1>1 DEF n
  <2> QED BY <2>1
<1>3. ASSUME NEW m \in Nat, m \in T PROVE m + 1 \in T
  <2> DEFINE loop == turn[m]
             rest == loop.rest
             size == FrameSize(rest)
  <2>1. loop \in Loop /\ turn[m + 1] = Turn[loop] /\ rest \in Seq(Byte)
    BY <1>1 DEF Loop
  <2>2. CASE ~HasFrame(rest)
    <3>1. turn[m + 1] = loop
      BY <2>1, <2>2 DEF Turn
    <3>2. ~HasFrame(turn[m + 1].rest)
      BY <2>2, <3>1
    <3> QED BY <3>2
  <2>3. CASE HasFrame(rest)
    <3>1. Len(rest) + m <= n
      BY <1>3, <2>3
    <3>2. turn[m + 1].rest = After(size, rest)
      BY <2>1, <2>3 DEF Turn
    <3> HIDE DEF rest
    <3>3. Len(rest) \in Nat /\ HeaderSize \in 0 .. Len(rest) /\ HeaderSize = 4
      BY <2>1, <2>3 DEF HasFrame, HeaderSize
    <3>4. Decode(First(HeaderSize, rest)) \in Nat
      BY <2>1, <3>3, Halves, DecodeIsNat
    <3>5. size \in 4 .. Len(rest)
      BY <2>3, <3>3, <3>4 DEF HasFrame, FrameSize
    <3> HIDE DEF size
    <3>6. Len(After(size, rest)) = Len(rest) - size
      <4>1. size \in 0 .. Len(rest)
        BY <3>5
      <4> QED BY <2>1, <4>1, Halves
    <3>7. Len(turn[m + 1].rest) + (m + 1) <= n
      BY <1>0, <3>1, <3>2, <3>3, <3>5, <3>6
    <3>8. m + 1 \in Nat
      OBVIOUS
    <3> QED BY <3>7, <3>8
  <2> QED BY <2>2, <2>3
<1> HIDE DEF T
<1>4. n \in T
  BY <1>0, <1>2, <1>3, NatSet
<1>5. ASSUME HasFrame(turn[n].rest) PROVE FALSE
  <2>1. Len(turn[n].rest) + n <= n
    BY <1>4, <1>5 DEF T
  <2>2. Len(turn[n].rest) >= 4 /\ Len(turn[n].rest) \in Nat
    <3>1. turn[n].rest \in Seq(Byte)
      BY <1>0, <1>1 DEF Loop
    <3> QED BY <1>5, <3>1 DEF HasFrame, HeaderSize
  <2> QED BY <1>0, <2>1, <2>2
<1> QED BY <1>5 DEF turn, n, Frames

-----------------------------------------------------------------------------
\* What is written and not read.

Due(text) == IF text = <<>> THEN <<>> ELSE Encode(Len(text))

\* tails[i] are the bytes after the first i messages of all, of which the last
\* ones are those of a message that is not complete.
Layout(tails, all, last) ==
  /\ tails \in [0 .. Len(all) -> Seq(Byte)]
  /\ tails[Len(all)] = last
  /\ \A i \in 0 .. Len(all) - 1 : tails[i] = Glue(Frame(all[i + 1]), tails[i + 1])

LEMMA FrameBytes ==
  ASSUME NEW text \in Texts
  PROVE  Frame(text) \in Seq(Byte) /\ Len(Frame(text)) >= HeaderSize
<1>1. /\ Encode(Len(text)) \in Seq(Byte) /\ Len(Encode(Len(text))) = HeaderSize
      /\ text \in Seq(Byte) /\ Len(text) \in Nat /\ HeaderSize \in Nat
  BY TextBytes, TextLength DEF HeaderSize
<1> QED BY <1>1, GlueIsSeq DEF Frame

\* Bytes are written after all that are there.
LEMMA LayoutGrows ==
  ASSUME NEW all \in Seq(Texts), NEW tails, NEW last \in Seq(Byte), NEW more \in Seq(Byte),
         Layout(tails, all, last)
  PROVE  \E longer : /\ Layout(longer, all, Glue(last, more))
                     /\ \A i \in 0 .. Len(all) : longer[i] = Glue(tails[i], more)
<1> DEFINE longer == [i \in 0 .. Len(all) |-> Glue(tails[i], more)]
<1>1. /\ tails \in [0 .. Len(all) -> Seq(Byte)] /\ tails[Len(all)] = last
      /\ \A i \in 0 .. Len(all) - 1 : tails[i] = Glue(Frame(all[i + 1]), tails[i + 1])
      /\ Len(all) \in Nat
  BY DEF Layout
<1>2. \A i \in 0 .. Len(all) : tails[i] \in Seq(Byte)
  BY <1>1
<1>3. \A i \in 0 .. Len(all) : longer[i] \in Seq(Byte)
  BY <1>2, GlueIsSeq
<1>4. ASSUME NEW i \in 0 .. Len(all) - 1
      PROVE  longer[i] = Glue(Frame(all[i + 1]), longer[i + 1])
  <2>1. i \in 0 .. Len(all) /\ i + 1 \in 0 .. Len(all) /\ i + 1 \in 1 .. Len(all)
    BY <1>1
  <2>2. Frame(all[i + 1]) \in Seq(Byte)
    <3>1. all[i + 1] \in Texts
      BY <2>1, ElementOfSeq
    <3> QED BY <3>1, FrameBytes
  <2>3. Glue(Glue(Frame(all[i + 1]), tails[i + 1]), more)
          = Glue(Frame(all[i + 1]), Glue(tails[i + 1], more))
    BY <1>2, <2>1, <2>2, Regroup
  <2> QED BY <1>1, <2>1, <2>3
<1>5. longer \in [0 .. Len(all) -> Seq(Byte)]
  BY <1>3
<1>6. \A i \in 0 .. Len(all) : longer[i] = Glue(tails[i], more)
  OBVIOUS
<1>7. longer[Len(all)] = Glue(last, more)
  BY <1>1, <1>6
<1> HIDE DEF longer
<1> QED BY <1>4, <1>5, <1>6, <1>7 DEF Layout

\* The bytes of the message at the end become those of a complete one.
LEMMA LayoutCloses ==
  ASSUME NEW all \in Seq(Texts), NEW text \in Texts, NEW tails, Layout(tails, all, Frame(text))
  PROVE  \E longer : /\ Layout(longer, Append(all, text), <<>>)
                     /\ \A i \in 0 .. Len(all) : longer[i] = tails[i]
<1> DEFINE n == Len(all)
           more == Append(all, text)
           longer == [i \in 0 .. n + 1 |-> IF i = n + 1 THEN <<>> ELSE tails[i]]
<1>1. /\ tails \in [0 .. n -> Seq(Byte)] /\ tails[n] = Frame(text)
      /\ \A i \in 0 .. n - 1 : tails[i] = Glue(Frame(all[i + 1]), tails[i + 1])
      /\ n \in Nat
  BY DEF Layout
<1>2. Len(more) = n + 1 /\ more[n + 1] = text /\ \A i \in 1 .. n : more[i] = all[i]
  BY AppendProperties
<1> HIDE DEF n, more
<1>3. \A i \in 0 .. n : longer[i] = tails[i]
  BY <1>1
<1>4. longer[n + 1] = <<>>
  BY <1>1
<1>5. longer \in [0 .. n + 1 -> Seq(Byte)]
  <2>1. \A i \in 0 .. n + 1 : i = n + 1 \/ i \in 0 .. n
    BY <1>1
  <2>2. <<>> \in Seq(Byte)
    OBVIOUS
  <2> QED BY <1>1, <2>1, <2>2
<1> HIDE DEF longer
<1>6. ASSUME NEW i \in 0 .. n PROVE longer[i] = Glue(Frame(more[i + 1]), longer[i + 1])
  <2>1. CASE i = n
    <3>1. Glue(Frame(text), <<>>) = Frame(text)
      BY FrameBytes, GlueEmpty
    <3> QED BY <1>1, <1>2, <1>3, <1>4, <2>1, <3>1
  <2>2. CASE i # n
    <3>1. i \in 0 .. n - 1 /\ i + 1 \in 0 .. n /\ i + 1 \in 1 .. n
      BY <1>1, <2>2
    <3> QED BY <1>1, <1>2, <1>3, <3>1
  <2> QED BY <2>1, <2>2
<1>7. Layout(longer, more, <<>>)
  <2>1. (n + 1) - 1 = n
    BY <1>1
  <2> QED BY <1>2, <1>4, <1>5, <1>6, <2>1 DEF Layout
<1> QED BY <1>3, <1>7 DEF n, more

-----------------------------------------------------------------------------
\* The messages to find.

LEMMA ReadableIs ==
  ASSUME written \in Seq(Texts)
  PROVE  /\ Readable \in SUBSET (Nat \ {0})
         /\ Readable \subseteq 1 .. Len(written)
         /\ \A i \in Nat : UpTo(i) = CountTo(Readable, i)
<1>1. DOMAIN written = 1 .. Len(written) /\ Len(written) \in Nat
  OBVIOUS
<1>2. Readable \subseteq 1 .. Len(written)
  BY <1>1 DEF Readable
<1>3. \A i \in 1 .. Len(written) : i \in Nat \ {0}
  BY <1>1
<1> QED BY <1>2, <1>3 DEF UpTo, CountTo

LEMMA IsReadable ==
  ASSUME written \in Seq(Texts), NEW i \in 1 .. Len(written)
  PROVE  i \in Readable <=> Fits(written[i]) /\ \A j \in 1 .. i - 1 : ~Misaligns(written[j])
BY DEF Readable

Misaligned(i) == Misaligns(written[i])

\* A message that is written at the end takes nothing from those before it.
LEMMA WritingKeeps ==
  ASSUME NEW text \in Texts, written \in Seq(Texts), written' = Append(written, text),
         reader' = reader
  PROVE  /\ written' \in Seq(Texts) /\ Len(written') = Len(written) + 1
         /\ \A i \in 1 .. Len(written) : /\ written'[i] = written[i]
                                         /\ Misaligned(i)' <=> Misaligned(i)
                                         /\ i \in Readable' <=> i \in Readable
<1>1. /\ written' \in Seq(Texts) /\ Len(written') = Len(written) + 1
      /\ \A i \in 1 .. Len(written) : written'[i] = written[i]
  BY AppendProperties
<1>2. /\ DOMAIN written = 1 .. Len(written) /\ DOMAIN written' = 1 .. Len(written')
      /\ Len(written) \in Nat
  BY <1>1
<1>3. ASSUME NEW i \in 1 .. Len(written)
      PROVE  /\ Misaligned(i)' <=> Misaligned(i)
             /\ Fits(written[i])' <=> Fits(written[i])
  BY <1>1 DEF Misaligned, Misaligns, Fits
<1>4. ASSUME NEW i \in 1 .. Len(written)
      PROVE  i \in Readable' <=> i \in Readable
  <2>1. /\ i \in DOMAIN written /\ i \in DOMAIN written'
        /\ \A j \in 1 .. i - 1 : j \in 1 .. Len(written)
    BY <1>1, <1>2
  <2>2. i \in Readable <=> Fits(written[i]) /\ \A j \in 1 .. i - 1 : ~Misaligned(j)
    BY <2>1 DEF Readable, Misaligned
  <2>3. i \in Readable' <=> Fits(written[i])' /\ \A j \in 1 .. i - 1 : ~Misaligned(j)'
    BY <2>1 DEF Readable, Misaligned
  <2> QED BY <1>3, <2>1, <2>2, <2>3
<1> QED BY <1>1, <1>3, <1>4

\* Two readers with the same messages to find up to n have passed the same ones.
LEMMA PassedSame ==
  ASSUME NEW R \in SUBSET (Nat \ {0}), NEW Q \in SUBSET (Nat \ {0}), NEW all, NEW more,
         NEW n \in Nat, \A i \in 1 .. n : more[i] = all[i] /\ (i \in Q <=> i \in R)
  PROVE  \A k \in 0 .. n : \A texts : Passed(R, all, texts, k) => Passed(Q, more, texts, k)
<1>1. (\A j \in R : j \in Nat /\ j >= 1) /\ (\A j \in Q : j \in Nat /\ j >= 1)
  OBVIOUS
<1>2. ASSUME NEW i \in 0 .. n PROVE CountTo(Q, i) = CountTo(R, i)
  <2>1. \A j \in R : j <= i => j \in Q
    BY <1>1
  <2>2. \A j \in Q : j <= i => j \in R
    BY <1>1
  <2>3. {j \in Q : j <= i} = {j \in R : j <= i}
    BY <2>1, <2>2
  <2> QED BY <2>3 DEF CountTo
<1>3. ASSUME NEW k \in 0 .. n, NEW texts, Passed(R, all, texts, k) PROVE Passed(Q, more, texts, k)
  <2>1. /\ Len(texts) = CountTo(R, k)
        /\ \A i \in R : i <= k => texts[CountTo(R, i)] = all[i]
    BY <1>3 DEF Passed
  <2>2. ASSUME NEW i \in Q, i <= k PROVE texts[CountTo(Q, i)] = more[i]
    <3>1. i \in 1 .. n /\ i \in 0 .. n
      BY <1>1, <2>2
    <3> QED BY <1>2, <2>1, <2>2, <3>1
  <2> QED BY <1>2, <2>1, <2>2 DEF Passed
<1> QED BY <1>3

-----------------------------------------------------------------------------
\* The inductive invariant.

PTypes ==
  /\ reader \in {"frontend", "backend"}
  /\ written \in Seq(Texts)
  /\ text_due \in Texts \cup {<<>>}
  /\ pipe \in Seq(Byte)
  /\ buffer \in Seq(Byte)
  /\ expected \in Nat \cup {NoLength}
  /\ received \in Seq(Seq(Byte))
  /\ reader = "frontend" => expected = NoLength
  /\ reader = "backend" => text_due = <<>> /\ buffer = <<>>

\* The frontend has handled k messages: the bytes after them are in the buffer
\* and the pipe.
FrontendAt(tails, k) ==
  /\ reader = "frontend"
  /\ Passed(Readable, written, received, k)
  /\ Glue(buffer, pipe) = tails[k]

\* The backend is past k messages, but for the end of the text of one it refused.
LengthAt(tails, k) ==
  /\ reader = "backend"
  /\ expected = NoLength
  /\ Passed(Readable, written, received, k)
  /\ \A i \in 1 .. k : ~Misaligned(i)
  /\ \E r \in Seq(1 .. 255) : Len(r) % HeaderSize = 0 /\ pipe = Glue(r, tails[k])

\* The backend has the length of the message after the first k.
TextAt(tails, k) ==
  /\ reader = "backend"
  /\ k + 1 \in Readable
  /\ expected = Len(written[k + 1])
  /\ Passed(Readable, written, received, k)
  /\ pipe = Glue(written[k + 1], tails[k + 1])

InStep ==
  \E tails : /\ Layout(tails, written, Due(text_due))
             /\ \E k \in 0 .. Len(written) : \/ FrontendAt(tails, k)
                                             \/ LengthAt(tails, k)
                                             \/ TextAt(tails, k)

\* The backend is misaligned, with all the messages it had to find.
Astray ==
  /\ reader = "backend"
  /\ \E m \in 1 .. Len(written) :
       /\ Misaligned(m)
       /\ \A i \in Readable : i <= m => /\ CountTo(Readable, i) \in 1 .. Len(received)
                                        /\ received[CountTo(Readable, i)] = written[i]

\* The loop leaves no frame in the buffer.
NoFrameWaits == ~HasFrame(buffer)

FramesInv == PTypes /\ NoFrameWaits /\ (InStep \/ Astray)

\* A reader in step that has emptied its pipe is past all messages.
LEMMA EmptyPipe ==
  ASSUME PTypes, NoFrameWaits, InStep, pipe = <<>>
  PROVE  Passed(Readable, written, received, Len(written))
<1>1. /\ written \in Seq(Texts) /\ Len(written) \in Nat /\ buffer \in Seq(Byte)
      /\ <<>> \in Seq(Byte) /\ Len(<<>>) = 0
  BY DEF PTypes
<1>2. PICK tails : /\ Layout(tails, written, Due(text_due))
                   /\ \E k \in 0 .. Len(written) : \/ FrontendAt(tails, k)
                                                   \/ LengthAt(tails, k)
                                                   \/ TextAt(tails, k)
  BY DEF InStep
<1>3. PICK k \in 0 .. Len(written) : \/ FrontendAt(tails, k)
                                     \/ LengthAt(tails, k)
                                     \/ TextAt(tails, k)
  BY <1>2
<1>4. Passed(Readable, written, received, k)
  BY <1>3 DEF FrontendAt, LengthAt, TextAt
<1>5. ASSUME k < Len(written) PROVE FALSE
  <2> DEFINE text == written[k + 1]
             t    == tails[k + 1]
  <2>1. text \in Texts /\ t \in Seq(Byte) /\ tails[k] = Glue(Frame(text), t)
    <3>1. k \in 0 .. Len(written) - 1 /\ k + 1 \in 0 .. Len(written) /\ k + 1 \in 1 .. Len(written)
      BY <1>1, <1>5
    <3>2. text \in Texts
      BY <1>1, <3>1, ElementOfSeq
    <3> QED BY <1>2, <3>1, <3>2 DEF Layout
  <2>2. /\ text \in Seq(Byte) /\ Len(text) \in Nat /\ Len(text) >= 1
        /\ Frame(text) \in Seq(Byte) /\ Len(Frame(text)) = HeaderSize + Len(text)
        /\ HeaderSize = 4
    <3>1. /\ text \in Seq(Byte) /\ Len(text) \in Nat /\ Len(text) >= 1
          /\ Encode(Len(text)) \in Seq(Byte) /\ Len(Encode(Len(text))) = HeaderSize
      BY <2>1, TextBytes, TextLength
    <3> HIDE DEF text
    <3> QED BY <3>1, GlueIsSeq DEF Frame, HeaderSize
  <2> HIDE DEF text, t
  <2>3. /\ Glue(Frame(text), t) \in Seq(Byte) /\ Len(t) \in Nat
        /\ Len(Glue(Frame(text), t)) = HeaderSize + Len(text) + Len(t)
    <3>1. t \in Seq(Byte) /\ Len(t) \in Nat
      BY <2>1
    <3> QED BY <2>2, <3>1, GlueIsSeq
  <2>4. CASE FrontendAt(tails, k)
    <3>1. buffer = Glue(Frame(text), t)
      BY <1>1, <2>1, <2>4, GlueEmpty DEF FrontendAt
    <3>2. Glue(buffer, <<>>) = Glue(Frame(text), t) /\ Len(buffer) >= HeaderSize
      BY <1>1, <2>2, <2>3, <3>1, GlueEmpty
    <3> DEFINE none == <<>>
    <3>3. Glue(buffer, none) = Glue(Frame(text), t) /\ none \in Seq(Byte)
      BY <1>1, <3>2
    <3> HIDE DEF none
    <3>4. Decode(First(HeaderSize, buffer)) = Len(text)
      BY <1>1, <2>1, <3>2, <3>3, FrontOfFrame
    <3>5. HasFrame(buffer)
      BY <2>2, <2>3, <3>1, <3>2, <3>4 DEF HasFrame
    <3> QED BY <3>5 DEF NoFrameWaits
  <2>5. CASE LengthAt(tails, k)
    <3>1. PICK r \in Seq(1 .. 255) : pipe = Glue(r, tails[k])
      BY <2>5 DEF LengthAt
    <3>2. r \in Seq(Byte)
      BY DEF Byte
    <3>3. Len(r) \in Nat
      BY <3>2
    <3>4. Len(Glue(r, tails[k])) = Len(r) + Len(tails[k])
      <4>1. PICK u \in Seq(Byte) : u = tails[k]
        BY <2>1, <2>3
      <4>2. Len(Glue(r, u)) = Len(r) + Len(u)
        BY <3>2, GlueIsSeq
      <4> QED BY <4>1, <4>2
    <3>5. Len(Glue(r, tails[k])) = 0
      BY <1>1, <3>1
    <3>6. Len(tails[k]) = HeaderSize + Len(text) + Len(t)
      BY <2>1, <2>3
    <3> QED BY <2>2, <2>3, <3>3, <3>4, <3>5, <3>6
  <2>6. CASE TextAt(tails, k)
    <3>1. Len(Glue(text, t)) = 0
      BY <1>1, <2>6 DEF TextAt, text, t
    <3>2. Len(Glue(text, t)) = Len(text) + Len(t)
      BY <2>1, <2>2, GlueIsSeq
    <3> QED BY <2>2, <2>3, <3>1, <3>2
  <2> QED BY <1>3, <2>4, <2>5, <2>6
<1> QED BY <1>1, <1>4, <1>5

LEMMA FramesInvImplies == FramesInv => ReadAsWritten
<1> SUFFICES ASSUME FramesInv PROVE ReadAsWritten
  OBVIOUS
<1> DEFINE R == Readable
<1>1. /\ written \in Seq(Texts) /\ Len(written) \in Nat
      /\ DOMAIN written = 1 .. Len(written)
      /\ \A i \in R : i \in Nat /\ i \in 1 .. Len(written) /\ UpTo(i) = CountTo(R, i)
      /\ R \in SUBSET (Nat \ {0})
  BY ReadableIs DEF FramesInv, PTypes
<1> HIDE DEF R
<1>2. CASE InStep
  <2>1. PICK k \in 0 .. Len(written) : Passed(R, written, received, k)
    BY <1>2 DEF InStep, FrontendAt, LengthAt, TextAt, R
  <2>2. /\ Len(received) = CountTo(R, k) /\ CountTo(R, k) \in Nat
        /\ \A i \in R : i <= k => received[CountTo(R, i)] = written[i]
    BY <1>1, <2>1, CountStep DEF Passed
  <2>3. ASSUME NEW i \in R, UpTo(i) <= Len(received) PROVE received[UpTo(i)] = written[i]
    <3>1. i <= k
      <4>0. i \in Nat /\ k \in Nat
        BY <1>1
      <4>1. CountTo(R, i) \in Nat /\ (i > k => CountTo(R, i) > CountTo(R, k))
        BY <1>1, <4>0, CountOrder, CountStep
      <4> QED BY <1>1, <2>2, <2>3, <4>0, <4>1
    <3> QED BY <1>1, <2>2, <3>1
  <2>4. Len(received) <= Cardinality(R)
    <3>1. CountTo(R, k) <= CountTo(R, Len(written))
      BY <1>1, CountOrder
    <3>2. {j \in R : j <= Len(written)} = R
      <4>1. ASSUME NEW j \in R PROVE j <= Len(written)
        BY <1>1
      <4> QED BY <4>1
    <3> QED BY <2>2, <3>1, <3>2 DEF CountTo
  <2>5. ASSUME pipe = <<>> PROVE Len(received) >= Cardinality(R)
    <3>1. Len(received) = CountTo(R, Len(written))
      BY <1>2, <2>5, EmptyPipe DEF FramesInv, Passed, R
    <3>2. ASSUME NEW j \in R PROVE j <= Len(written)
      BY <1>1
    <3>3. {j \in R : j <= Len(written)} = R
      BY <3>2
    <3>4. CountTo(R, Len(written)) \in Nat /\ CountTo(R, Len(written)) = Cardinality(R)
      BY <1>1, <3>3, CountStep DEF CountTo
    <3> QED BY <3>1, <3>4
  <2> QED BY <2>3, <2>4, <2>5 DEF ReadAsWritten, R
<1>3. CASE Astray
  <2>1. PICK m \in 1 .. Len(written) :
          /\ Misaligned(m)
          /\ \A i \in R : i <= m => /\ CountTo(R, i) \in 1 .. Len(received)
                                     /\ received[CountTo(R, i)] = written[i]
    BY <1>3 DEF Astray, R
  <2>2. ASSUME NEW i \in R PROVE i <= m
    <3> SUFFICES ASSUME i > m PROVE FALSE
      BY <1>1
    <3>1. m \in 1 .. i - 1
      BY <1>1
    <3> QED BY <1>1, <2>1, <3>1, IsReadable DEF Misaligned, R
  <2>3. \E i \in DOMAIN written : Misaligns(written[i])
    BY <1>1, <2>1 DEF Misaligned
  <2>4. Len(received) >= Cardinality(R)
    <3>1. \A k \in Nat : CountTo(R, k) <= Len(received)
      <4> DEFINE T == {k \in Nat : CountTo(R, k) <= Len(received)}
      <4>1. Len(received) \in Nat
        BY DEF FramesInv, PTypes
      <4>2. 0 \in T
        <5>1. CountTo(R, 0) = 0
          BY <1>1, CountStep
        <5> QED BY <4>1, <5>1
      <4>3. ASSUME NEW k \in Nat, k \in T PROVE k + 1 \in T
        <5>1. CASE k + 1 \in R
          <6>1. CountTo(R, k + 1) \in 1 .. Len(received)
            BY <2>1, <2>2, <5>1
          <6> QED BY <4>1, <6>1
        <5>2. CASE k + 1 \notin R
          <6>1. CountTo(R, k + 1) = CountTo(R, k)
            BY <1>1, <5>2, CountStep
          <6> QED BY <4>3, <6>1
        <5> QED BY <5>1, <5>2
      <4> HIDE DEF T
      <4>4. Nat \subseteq T
        BY <4>2, <4>3, NatSet
      <4> QED BY <4>4 DEF T
    <3>2. ASSUME NEW j \in R PROVE j <= Len(written)
      BY <1>1
    <3>3. {j \in R : j <= Len(written)} = R
      BY <3>2
    <3>4. CountTo(R, Len(written)) = Cardinality(R)
      BY <3>3 DEF CountTo
    <3>5. CountTo(R, Len(written)) \in Nat /\ CountTo(R, Len(written)) <= Len(received)
      BY <1>1, <3>1, CountStep
    <3>6. Len(received) \in Nat
      BY DEF FramesInv, PTypes
    <3> QED BY <3>4, <3>5, <3>6
  <2> QED BY <1>1, <2>1, <2>2, <2>3, <2>4 DEF ReadAsWritten, R
<1> QED BY <1>2, <1>3 DEF FramesInv

LEMMA FramesInvInit == PInit => FramesInv
<1> SUFFICES ASSUME PInit PROVE FramesInv
  OBVIOUS
<1> DEFINE tails == [i \in 0 .. 0 |-> <<>>]
<1>0. <<>> \in Seq(Texts) /\ <<>> \in Seq(Byte) /\ <<>> \in Seq(Seq(Byte)) /\ <<>> \in Seq(1 .. 255)
  OBVIOUS
<1>1. PTypes
  BY <1>0 DEF PInit, PTypes
<1>2. written = <<>> /\ Len(written) = 0 /\ Len(received) = 0 /\ pipe = <<>> /\ buffer = <<>>
      /\ text_due = <<>> /\ expected = NoLength
  BY DEF PInit
<1>3. Layout(tails, written, Due(text_due)) /\ tails[0] = <<>>
  <2>1. tails \in [0 .. 0 -> Seq(Byte)] /\ tails[0] = <<>>
    BY <1>0
  <2> HIDE DEF tails
  <2>2. \A i \in 0 .. 0 - 1 : FALSE
    OBVIOUS
  <2> QED BY <1>2, <2>1, <2>2 DEF Layout, Due
<1> HIDE DEF tails
<1>4. Passed(Readable, written, received, 0)
  <2>1. /\ Readable \in SUBSET (Nat \ {0}) /\ \A i \in Readable : i \in 1 .. 0
        /\ CountTo(Readable, 0) = 0
    BY <1>0, <1>2, ReadableIs, CountStep
  <2>2. \A i \in 1 .. 0 : FALSE
    OBVIOUS
  <2> QED BY <1>2, <2>1, <2>2 DEF Passed
<1>5. Glue(<<>>, <<>>) = <<>>
  BY <1>0, GlueEmpty
<1>6. NoFrameWaits
  BY DEF PInit, NoFrameWaits, HasFrame, HeaderSize
<1>7. CASE reader = "frontend"
  <2>1. FrontendAt(tails, 0)
    BY <1>2, <1>3, <1>4, <1>5, <1>7 DEF FrontendAt
  <2> QED BY <1>1, <1>2, <1>3, <1>6, <2>1 DEF FramesInv, InStep
<1>8. CASE reader = "backend"
  <2>1. Len(<<>>) % HeaderSize = 0
    BY DEF HeaderSize
  <2>2. \E r \in Seq(1 .. 255) : Len(r) % HeaderSize = 0 /\ pipe = Glue(r, tails[0])
    BY <1>0, <1>2, <1>3, <1>5, <2>1
  <2>3. \A i \in 1 .. 0 : FALSE
    OBVIOUS
  <2>4. LengthAt(tails, 0)
    BY <1>2, <1>4, <1>8, <2>2, <2>3 DEF LengthAt
  <2> QED BY <1>1, <1>2, <1>3, <1>6, <2>4 DEF FramesInv, InStep
<1> QED BY <1>7, <1>8 DEF PInit

-----------------------------------------------------------------------------
\* Writers.

\* What is written already stays, with what a reader has to find of it.
Kept ==
  /\ Len(written) <= Len(written')
  /\ \A i \in 1 .. Len(written) : /\ written'[i] = written[i]
                                  /\ Misaligned(i)' <=> Misaligned(i)
                                  /\ i \in Readable' <=> i \in Readable

LEMMA ReadingKeeps ==
  ASSUME UNCHANGED <<reader, written>>
  PROVE  Kept /\ Readable' = Readable /\ \A i : Misaligned(i)' <=> Misaligned(i)
<1>1. \A text : (Fits(text)' <=> Fits(text)) /\ (Misaligns(text)' <=> Misaligns(text))
  BY DEF Fits, Misaligns
<1>2. Readable' = Readable /\ \A i : Misaligned(i)' <=> Misaligned(i)
  BY <1>1 DEF Readable, Misaligned
<1>3. Len(written) <= Len(written')
  OBVIOUS
<1> QED BY <1>2, <1>3 DEF Kept

LEMMA PassedKept ==
  ASSUME PTypes, PTypes', Kept, received' = received, NEW k \in 0 .. Len(written),
         Passed(Readable, written, received, k)
  PROVE  Passed(Readable, written, received, k)'
<1> DEFINE R == Readable
           Q == Readable'
           n == Len(written)
<1>1. R \in SUBSET (Nat \ {0}) /\ Q \in SUBSET (Nat \ {0}) /\ n \in Nat
  <2>1. R \in SUBSET (Nat \ {0})
    BY ReadableIs DEF PTypes
  <2>2. Q \in SUBSET (Nat \ {0})
    <3>1. written' \in Seq(Texts)
      BY DEF PTypes
    <3>2. DOMAIN written' = 1 .. Len(written') /\ Len(written') \in Nat
      BY <3>1
    <3>3. \A i \in Readable' : i \in 1 .. Len(written')
      BY <3>2 DEF Readable
    <3> QED BY <3>2, <3>3
  <2> QED BY <2>1, <2>2 DEF PTypes
<1>2. \A i \in 1 .. n : written'[i] = written[i] /\ (i \in Q <=> i \in R)
  BY DEF Kept
<1> HIDE DEF R, Q, n
<1>3. \A j \in 0 .. n : \A texts : Passed(R, written, texts, j) => Passed(Q, written', texts, j)
  BY <1>1, <1>2, PassedSame
<1> QED BY <1>3 DEF Passed, R, Q, n

LEMMA AstrayStays ==
  ASSUME PTypes, PTypes', Kept, Astray, reader' = reader, Len(received) <= Len(received'),
         \A i \in 1 .. Len(received) : received'[i] = received[i]
  PROVE  Astray'
<1>1. PICK m \in 1 .. Len(written) :
        /\ Misaligned(m)
        /\ \A i \in Readable : i <= m => /\ CountTo(Readable, i) \in 1 .. Len(received)
                                         /\ received[CountTo(Readable, i)] = written[i]
  BY DEF Astray
<1>2. /\ Len(written) \in Nat /\ Len(written') \in Nat
      /\ Len(received) \in Nat /\ Len(received') \in Nat
      /\ Len(written) <= Len(written')
  BY DEF PTypes, Kept
<1>3. m \in 1 .. Len(written') /\ Misaligned(m)'
  BY <1>1, <1>2 DEF Kept
<1>4. \A i \in Readable' : i \in Nat /\ i >= 1
  <2>1. DOMAIN written' = 1 .. Len(written')
    BY DEF PTypes
  <2> QED BY <1>2, <2>1 DEF Readable
<1>5. \A i \in Readable : i \in Nat /\ i >= 1
  <2>1. DOMAIN written = 1 .. Len(written)
    BY DEF PTypes
  <2> QED BY <1>2, <2>1 DEF Readable
<1>6. ASSUME NEW i \in Readable', i <= m
      PROVE  /\ CountTo(Readable', i) \in 1 .. Len(received')
             /\ received'[CountTo(Readable', i)] = written'[i]
  <2>1. i \in 1 .. Len(written)
    BY <1>2, <1>4, <1>6
  <2>2. i \in Readable /\ written'[i] = written[i]
    BY <2>1 DEF Kept
  <2>3. CountTo(Readable', i) = CountTo(Readable, i)
    <3>1. ASSUME NEW j \in Readable, j <= i PROVE j \in Readable'
      <4>1. j \in 1 .. Len(written)
        BY <1>2, <1>5, <2>1, <3>1
      <4> QED BY <4>1 DEF Kept
    <3>2. ASSUME NEW j \in Readable', j <= i PROVE j \in Readable
      <4>1. j \in 1 .. Len(written)
        BY <1>2, <1>4, <2>1, <3>2
      <4> QED BY <4>1 DEF Kept
    <3>3. {j \in Readable' : j <= i} = {j \in Readable : j <= i}
      BY <3>1, <3>2
    <3> QED BY <3>3 DEF CountTo
  <2>4. /\ CountTo(Readable, i) \in 1 .. Len(received)
        /\ received[CountTo(Readable, i)] = written[i]
    BY <1>1, <1>6, <2>2
  <2>5. CountTo(Readable, i) \in 1 .. Len(received')
    BY <1>2, <2>4
  <2> QED BY <2>2, <2>3, <2>4, <2>5
<1>7. (reader = "backend")'
  BY DEF Astray
<1> QED BY <1>3, <1>6, <1>7 DEF Astray, CountTo

\* The place of the reader in what is written moves with the bytes that follow.
LEMMA PlaceKept ==
  ASSUME PTypes, PTypes', Kept, UNCHANGED <<reader, buffer, expected, received>>,
         NEW more \in Seq(Byte), pipe' = Glue(pipe, more),
         NEW tails \in [0 .. Len(written) -> Seq(Byte)], NEW longer,
         \A i \in 0 .. Len(written) : longer[i] = Glue(tails[i], more),
         NEW k \in 0 .. Len(written)
  PROVE  /\ FrontendAt(tails, k) => FrontendAt(longer, k)'
         /\ LengthAt(tails, k) => LengthAt(longer, k)'
         /\ TextAt(tails, k) => TextAt(longer, k)'
<1>1. /\ pipe \in Seq(Byte) /\ buffer \in Seq(Byte) /\ Len(written) \in Nat
      /\ written \in Seq(Texts)
      /\ \A i \in 0 .. Len(written) : tails[i] \in Seq(Byte)
  <2>1. pipe \in Seq(Byte) /\ buffer \in Seq(Byte) /\ written \in Seq(Texts)
    BY DEF PTypes
  <2> QED BY <2>1
<1>2. Passed(Readable, written, received, k) => Passed(Readable, written, received, k)'
  BY PassedKept
<1>3. ASSUME FrontendAt(tails, k) PROVE FrontendAt(longer, k)'
  <2>1. Glue(buffer, Glue(pipe, more)) = Glue(Glue(buffer, pipe), more)
    BY <1>1, Regroup
  <2>2. Glue(buffer, pipe)' = longer[k]
    <3>1. Glue(buffer, pipe)' = Glue(buffer, Glue(pipe, more))
      BY DEF Glue
    <3>2. Glue(buffer, pipe) = tails[k]
      BY <1>3 DEF FrontendAt
    <3> QED BY <2>1, <3>1, <3>2
  <2> QED BY <1>2, <1>3, <2>2 DEF FrontendAt
<1>4. ASSUME LengthAt(tails, k) PROVE LengthAt(longer, k)'
  <2>1. PICK r \in Seq(1 .. 255) : Len(r) % HeaderSize = 0 /\ pipe = Glue(r, tails[k])
    BY <1>4 DEF LengthAt
  <2>2. r \in Seq(Byte)
    BY DEF Byte
  <2>3. Glue(pipe, more) = Glue(r, Glue(tails[k], more))
    BY <1>1, <2>1, <2>2, Regroup
  <2>4. pipe' = Glue(r, longer[k])
    BY <2>3
  <2>5. \A i \in 1 .. k : ~Misaligned(i)'
    <3>1. \A i \in 1 .. k : i \in 1 .. Len(written)
      BY <1>1
    <3> QED BY <1>4, <3>1 DEF LengthAt, Kept
  <2> QED BY <1>2, <1>4, <2>1, <2>4, <2>5 DEF LengthAt, Glue
<1>5. ASSUME TextAt(tails, k) PROVE TextAt(longer, k)'
  <2>1. k + 1 \in 1 .. Len(written) /\ k + 1 \in 0 .. Len(written)
    <3>1. k + 1 \in Readable
      BY <1>5 DEF TextAt
    <3> QED BY <1>1, <3>1, ReadableIs
  <2>2. written[k + 1] \in Texts
    BY <1>1, <2>1, ElementOfSeq
  <2>3. written[k + 1] \in Seq(Byte)
    BY <2>2, TextBytes
  <2>4. Glue(pipe, more) = Glue(written[k + 1], Glue(tails[k + 1], more))
    <3>1. pipe = Glue(written[k + 1], tails[k + 1])
      BY <1>5 DEF TextAt
    <3> QED BY <1>1, <2>1, <2>3, <3>1, Regroup
  <2>5. written'[k + 1] = written[k + 1] /\ k + 1 \in Readable'
    BY <1>5, <2>1 DEF Kept, TextAt
  <2>6. pipe' = Glue(written'[k + 1], longer[k + 1])
    BY <2>1, <2>4, <2>5
  <2> QED BY <1>2, <1>5, <2>5, <2>6 DEF TextAt, Glue
<1> QED BY <1>3, <1>4, <1>5

LEMMA BufferKept == FramesInv /\ buffer' = buffer => NoFrameWaits'
BY DEF FramesInv, NoFrameWaits, HasFrame, First

\* Bytes are written that leave the messages so far, and the new end is that of
\* a message which is not complete, or of none.
LEMMA WriteKeeps ==
  ASSUME FramesInv, PTypes', Kept, UNCHANGED <<reader, buffer, expected, received>>,
         NEW more \in Seq(Byte), pipe' = Glue(pipe, more),
         ASSUME NEW tails, Layout(tails, written, Glue(Due(text_due), more))
         PROVE  \E longer : /\ Layout(longer, written, Due(text_due))'
                            /\ \A i \in 0 .. Len(written) : longer[i] = tails[i]
  PROVE  FramesInv'
<1>0. NoFrameWaits'
  BY BufferKept
<1>1. PTypes /\ written \in Seq(Texts) /\ Len(written) \in Nat /\ Len(written') \in Nat
      /\ Len(written) <= Len(written')
  BY DEF FramesInv, PTypes, Kept
<1>2. CASE Astray
  <2>1. Len(received) <= Len(received')
    BY <1>1 DEF PTypes
  <2>2. Astray'
    BY <1>1, <1>2, <2>1, AstrayStays
  <2> QED BY <1>0, <2>2 DEF FramesInv
<1>3. CASE InStep
  <2>1. PICK tails : /\ Layout(tails, written, Due(text_due))
                     /\ \E k \in 0 .. Len(written) : \/ FrontendAt(tails, k)
                                                     \/ LengthAt(tails, k)
                                                     \/ TextAt(tails, k)
    BY <1>3 DEF InStep
  <2>2. PICK k \in 0 .. Len(written) : \/ FrontendAt(tails, k)
                                       \/ LengthAt(tails, k)
                                       \/ TextAt(tails, k)
    BY <2>1
  <2>3. tails \in [0 .. Len(written) -> Seq(Byte)] /\ Due(text_due) \in Seq(Byte)
    BY <1>1, <2>1 DEF Layout
  <2>4. PICK middle : /\ Layout(middle, written, Glue(Due(text_due), more))
                      /\ \A i \in 0 .. Len(written) : middle[i] = Glue(tails[i], more)
    BY <1>1, <2>1, <2>3, LayoutGrows
  <2>5. PICK longer : /\ Layout(longer, written, Due(text_due))'
                      /\ \A i \in 0 .. Len(written) : longer[i] = middle[i]
    BY <2>4
  <2>6. \A i \in 0 .. Len(written) : longer[i] = Glue(tails[i], more)
    BY <2>4, <2>5
  <2>7. FrontendAt(longer, k)' \/ LengthAt(longer, k)' \/ TextAt(longer, k)'
    BY <1>1, <2>2, <2>3, <2>6, PlaceKept
  <2>8. k \in 0 .. Len(written')
    BY <1>1
  <2>9. InStep'
    BY <2>5, <2>7, <2>8 DEF InStep
  <2> QED BY <1>0, <2>9 DEF FramesInv
<1> QED BY <1>2, <1>3 DEF FramesInv

LEMMA sendToBackendStep ==
  ASSUME FramesInv, NEW text \in Texts, sendToBackend(text)
  PROVE  FramesInv'
<1>1. /\ reader = "backend" /\ text_due = <<>> /\ PTypes /\ written \in Seq(Texts)
      /\ pipe \in Seq(Byte) /\ buffer = <<>> /\ written' = Append(written, text)
      /\ UNCHANGED <<reader, text_due, buffer, expected, received>>
  BY DEF FramesInv, PTypes, sendToBackend
<1>2. Frame(text) \in Seq(Byte) /\ Encode(Len(text)) \in Seq(Byte) /\ text \in Seq(Byte)
  BY FrameBytes, TextLength, TextBytes
<1>3. pipe' = Glue(pipe, Frame(text))
  <2>1. pipe' = Glue(Glue(pipe, Encode(Len(text))), text)
    BY DEF sendToBackend, Glue
  <2>2. Glue(Glue(pipe, Encode(Len(text))), text) = Glue(pipe, Glue(Encode(Len(text)), text))
    BY <1>1, <1>2, Regroup
  <2> QED BY <2>1, <2>2 DEF Frame
<1>4. /\ written' \in Seq(Texts)
      /\ Kept
  <2>1. Len(written) \in Nat /\ Len(written) <= Len(written) + 1
    BY <1>1
  <2> QED BY <1>1, <2>1, WritingKeeps DEF Kept
<1>5. PTypes'
  <2>1. pipe' \in Seq(Byte)
    BY <1>1, <1>2, <1>3, GlueIsSeq
  <2> QED BY <1>1, <1>4, <2>1 DEF PTypes
<1>6. ASSUME NEW tails, Layout(tails, written, Glue(Due(text_due), Frame(text)))
      PROVE  \E longer : /\ Layout(longer, written, Due(text_due))'
                         /\ \A i \in 0 .. Len(written) : longer[i] = tails[i]
  <2>1. Glue(<<>>, Frame(text)) = Frame(text)
    BY <1>2, GlueEmpty
  <2>2. Layout(tails, written, Frame(text))
    BY <1>1, <1>6, <2>1 DEF Due
  <2>3. PICK longer : /\ Layout(longer, Append(written, text), <<>>)
                      /\ \A i \in 0 .. Len(written) : longer[i] = tails[i]
    BY <1>1, <2>2, LayoutCloses
  <2>4. Layout(longer, written, Due(text_due))'
    BY <1>1, <2>3 DEF Due, Layout
  <2> QED BY <2>3, <2>4
<1> QED BY <1>1, <1>2, <1>3, <1>4, <1>5, <1>6, WriteKeeps

LEMMA WriteLengthStep ==
  ASSUME FramesInv, NEW text \in Texts, WriteLength(text)
  PROVE  FramesInv'
<1>1. /\ reader = "frontend" /\ text_due = <<>> /\ PTypes /\ written \in Seq(Texts)
      /\ pipe \in Seq(Byte) /\ text_due' = text /\ text # <<>>
      /\ pipe' = Glue(pipe, Encode(Len(text)))
      /\ UNCHANGED <<reader, written, buffer, expected, received>>
  <2>1. text # <<>>
    BY FramingOK
  <2> QED BY <2>1 DEF FramesInv, PTypes, WriteLength, Glue
<1>2. Encode(Len(text)) \in Seq(Byte)
  BY TextLength
<1>3. Kept
  BY <1>1, ReadingKeeps
<1>4. PTypes'
  <2>1. pipe' \in Seq(Byte)
    BY <1>1, <1>2, GlueIsSeq
  <2> QED BY <1>1, <2>1 DEF PTypes
<1>5. ASSUME NEW tails, Layout(tails, written, Glue(Due(text_due), Encode(Len(text))))
      PROVE  \E longer : /\ Layout(longer, written, Due(text_due))'
                         /\ \A i \in 0 .. Len(written) : longer[i] = tails[i]
  <2>1. Glue(<<>>, Encode(Len(text))) = Encode(Len(text))
    BY <1>2, GlueEmpty
  <2>2. Layout(tails, written, Due(text_due))'
    BY <1>1, <1>5, <2>1 DEF Due, Layout
  <2> QED BY <2>2
<1> QED BY <1>1, <1>2, <1>3, <1>4, <1>5, WriteKeeps

LEMMA WriteTextStep ==
  ASSUME FramesInv, WriteText
  PROVE  FramesInv'
<1> DEFINE text == text_due
<1>1. /\ reader = "frontend" /\ text \in Texts /\ text_due # <<>> /\ PTypes
      /\ written \in Seq(Texts) /\ pipe \in Seq(Byte)
      /\ written' = Append(written, text) /\ text_due' = <<>>
      /\ pipe' = Glue(pipe, text)
      /\ UNCHANGED <<reader, buffer, expected, received>>
  BY DEF FramesInv, PTypes, WriteText, Glue
<1> HIDE DEF text
<1>2. text \in Seq(Byte) /\ Encode(Len(text)) \in Seq(Byte)
  BY <1>1, TextLength, TextBytes
<1>3. /\ written' \in Seq(Texts)
      /\ Kept
  <2>1. Len(written) \in Nat /\ Len(written) <= Len(written) + 1
    BY <1>1
  <2> QED BY <1>1, <2>1, WritingKeeps DEF Kept
<1>4. PTypes'
  <2>1. pipe' \in Seq(Byte)
    BY <1>1, <1>2, GlueIsSeq
  <2> QED BY <1>1, <1>3, <2>1 DEF PTypes
<1>5. ASSUME NEW tails, Layout(tails, written, Glue(Due(text_due), text))
      PROVE  \E longer : /\ Layout(longer, written, Due(text_due))'
                         /\ \A i \in 0 .. Len(written) : longer[i] = tails[i]
  <2>1. Layout(tails, written, Frame(text))
    BY <1>1, <1>5 DEF Due, Frame, text
  <2>2. PICK longer : /\ Layout(longer, Append(written, text), <<>>)
                      /\ \A i \in 0 .. Len(written) : longer[i] = tails[i]
    BY <1>1, <2>1, LayoutCloses
  <2>3. Layout(longer, written, Due(text_due))'
    BY <1>1, <2>2 DEF Due, Layout
  <2> QED BY <2>2, <2>3
<1> QED BY <1>1, <1>2, <1>3, <1>4, <1>5, WriteKeeps DEF text

-----------------------------------------------------------------------------
\* The frontend reads.

\* The loop is past k messages, with p of the pipe still to come.
LoopAt(tails, p, loop, k) ==
  /\ Passed(Readable, written, Glue(received, loop.texts), k)
  /\ Glue(loop.rest, p) = tails[k]

LEMMA FrontendReadsAll ==
  ASSUME PTypes, reader = "frontend"
  PROVE  Readable = 1 .. Len(written)
<1>1. DOMAIN written = 1 .. Len(written)
  BY DEF PTypes
<1> QED BY <1>1 DEF Readable, Fits, Misaligns

LEMMA TurnStep ==
  ASSUME PTypes, reader = "frontend", NEW tails, Layout(tails, written, Due(text_due)),
         NEW p \in Seq(Byte), NEW loop \in Loop,
         \E k \in 0 .. Len(written) : LoopAt(tails, p, loop, k)
  PROVE  \E k \in 0 .. Len(written) : LoopAt(tails, p, Turn[loop], k)
<1> DEFINE rest == loop.rest
<1>1. /\ rest \in Seq(Byte) /\ loop.texts \in Seq(Seq(Byte))
      /\ received \in Seq(Seq(Byte)) /\ written \in Seq(Texts) /\ Len(written) \in Nat
      /\ HeaderSize \in Nat
  BY DEF Loop, PTypes, HeaderSize
<1>2. PICK k \in 0 .. Len(written) : LoopAt(tails, p, loop, k)
  OBVIOUS
<1>3. Glue(rest, p) = tails[k] /\ Passed(Readable, written, Glue(received, loop.texts), k)
  BY <1>2 DEF LoopAt
<1>4. CASE ~HasFrame(rest)
  BY <1>2, <1>4 DEF Turn
<1>5. CASE HasFrame(rest) /\ k < Len(written)
  <2> DEFINE text == written[k + 1]
             t    == tails[k + 1]
             turned == Turn[loop]
  <2>1. k \in 0 .. Len(written) - 1 /\ k + 1 \in 1 .. Len(written) /\ k + 1 \in 0 .. Len(written)
    BY <1>1, <1>5
  <2>2. text \in Texts /\ text \in Seq(Byte)
    <3>1. text \in Texts
      BY <1>1, <2>1, ElementOfSeq
    <3> QED BY <3>1, TextBytes
  <2>3. t \in Seq(Byte) /\ tails[k] = Glue(Frame(text), t)
    BY <2>1 DEF Layout
  <2> HIDE DEF t, rest
  <2>4. Glue(rest, p) = Glue(Frame(text), t) /\ Len(rest) >= HeaderSize
    BY <1>3, <1>5, <2>3 DEF HasFrame
  <2>5. /\ After(HeaderSize, First(FrameSize(rest), rest)) = text
        /\ Glue(After(FrameSize(rest), rest), p) = t
    <3> HIDE DEF text
    <3> QED BY <1>1, <1>5, <2>2, <2>3, <2>4, FrontOfFrame
  <2>6. /\ turned.texts = Append(loop.texts, text)
        /\ turned.rest = After(FrameSize(rest), rest)
    BY <1>5, <2>5 DEF Turn, rest
  <2> HIDE DEF turned
  <2>7. Glue(received, turned.texts) = Append(Glue(received, loop.texts), text)
    <3> DEFINE past == loop.texts
               S    == Seq(Byte)
    <3>1. received \in Seq(S) /\ past \in Seq(S) /\ text \in S
      BY <1>1, <2>2
    <3> HIDE DEF text, past, S
    <3>2. Glue(received, Append(past, text)) = Append(Glue(received, past), text)
      BY <3>1, GlueAppend
    <3> QED BY <2>6, <3>2 DEF past
  <2>8. Passed(Readable, written, Glue(received, turned.texts), k + 1)
    <3>1. k + 1 \in Readable
      BY <2>1, FrontendReadsAll
    <3>2. Readable \in SUBSET (Nat \ {0}) /\ Glue(received, loop.texts) \in Seq(Seq(Byte))
      BY <1>1, ReadableIs, GlueIsSeq
    <3>3. k \in Nat
      BY <1>1
    <3>4. Passed(Readable, written, Append(Glue(received, loop.texts), text), k + 1)
      BY <1>3, <2>2, <3>1, <3>2, <3>3, PassedOne
    <3> QED BY <2>7, <3>4
  <2>9. LoopAt(tails, p, turned, k + 1)
    BY <2>5, <2>6, <2>8 DEF LoopAt, t
  <2> QED BY <2>1, <2>9 DEF turned
<1>6. CASE HasFrame(rest) /\ k = Len(written)
  <2> DEFINE header == Encode(Len(text_due))
  <2>1. Glue(rest, p) = Due(text_due)
    BY <1>3, <1>6 DEF Layout
  <2>2. Len(rest) >= HeaderSize /\ Len(rest) >= HeaderSize + Decode(First(HeaderSize, rest))
    BY <1>6 DEF HasFrame
  <2>0. Len(rest) >= 4
    BY <2>2 DEF HeaderSize
  <2> HIDE DEF rest
  <2>3. Len(Glue(rest, p)) = Len(rest) + Len(p) /\ Len(rest) \in Nat /\ Len(p) \in Nat
    <3>1. rest \in Seq(Byte) /\ p \in Seq(Byte)
      BY <1>1
    <3>2. Len(rest) \in Nat /\ Len(p) \in Nat
      BY <3>1
    <3> QED BY <3>1, <3>2, GlueIsSeq
  <2>4. CASE text_due = <<>>
    <3>1. Len(Due(text_due)) = 0
      BY <2>4 DEF Due
    <3>2. Len(Glue(rest, p)) = 0
      BY <2>1, <3>1
    <3>3. FALSE
      <4> HIDE DEF header
      <4> DEFINE l == Len(rest)
                 m == Len(p)
      <4>1. l \in Nat /\ m \in Nat /\ l >= 4 /\ l + m = 0
        BY <2>0, <2>3, <3>2
      <4> HIDE DEF l, m
      <4> QED BY <4>1
    <3> QED BY <3>3
  <2>5. CASE text_due # <<>>
    <3>1. text_due \in Texts
      BY <2>5 DEF PTypes
    <3>2. /\ header \in Seq(Byte) /\ Len(header) = HeaderSize
          /\ Decode(header) = Len(text_due) /\ Len(text_due) >= 1 /\ Len(text_due) \in Nat
      BY <3>1, TextLength, TextBytes
    <3>3. Glue(rest, p) = header
      BY <2>1, <2>5 DEF Due
    <3> HIDE DEF header
    <3>4. Glue(header, <<>>) = header /\ <<>> \in Seq(Byte)
      BY <3>2, GlueEmpty
    <3>5. First(HeaderSize, rest) = header
      <4>1. Glue(rest, p) = Glue(header, <<>>) /\ Len(rest) >= Len(header)
        BY <2>2, <3>2, <3>3, <3>4
      <4>2. First(Len(header), rest) = header
        BY <1>1, <3>2, <3>4, <4>1, FrameAtFront
      <4> QED BY <3>2, <4>2
    <3> QED BY <1>1, <2>2, <2>3, <3>2, <3>3, <3>5
  <2> QED BY <2>4, <2>5
<1> QED BY <1>1, <1>4, <1>5, <1>6

LEMMA processReceivedDataStep ==
  ASSUME FramesInv, NEW n \in 1 .. Len(pipe), processReceivedData(n)
  PROVE  FramesInv'
<1> DEFINE bytes  == Glue(buffer, First(n, pipe))
           frames == Frames(bytes)
           p      == After(n, pipe)
<1>1. /\ reader = "frontend" /\ PTypes /\ pipe \in Seq(Byte) /\ buffer \in Seq(Byte)
      /\ received \in Seq(Seq(Byte))
      /\ received' = Glue(received, frames.texts) /\ buffer' = frames.rest /\ pipe' = p
      /\ UNCHANGED <<reader, written, text_due, expected>>
  BY DEF FramesInv, PTypes, processReceivedData, Glue
<1>2. /\ First(n, pipe) \in Seq(Byte) /\ p \in Seq(Byte) /\ Glue(First(n, pipe), p) = pipe
  <2>1. n \in 0 .. Len(pipe)
    BY <1>1
  <2> QED BY <1>1, <2>1, Halves
<1>3. bytes \in Seq(Byte)
  BY <1>1, <1>2, GlueIsSeq
<1>4. Glue(bytes, p) = Glue(buffer, pipe)
  BY <1>1, <1>2, Regroup
<1> HIDE DEF bytes, frames, p
<1>5. /\ Turns(bytes)[0] = [texts |-> <<>>, rest |-> bytes]
      /\ \A m \in Nat : /\ Turns(bytes)[m] \in Loop
                        /\ Turns(bytes)[m + 1] = Turn[Turns(bytes)[m]]
  BY <1>3, TurnsFollow
<1>6. PICK tails : /\ Layout(tails, written, Due(text_due))
                   /\ \E k \in 0 .. Len(written) : FrontendAt(tails, k)
  BY <1>1 DEF FramesInv, InStep, Astray, LengthAt, TextAt
<1>7. \A m \in Nat : \E k \in 0 .. Len(written) : LoopAt(tails, p, Turns(bytes)[m], k)
  <2> DEFINE T == {m \in Nat : \E k \in 0 .. Len(written) : LoopAt(tails, p, Turns(bytes)[m], k)}
  <2>1. 0 \in T
    <3>1. PICK k \in 0 .. Len(written) : FrontendAt(tails, k)
      BY <1>6
    <3>2. Glue(received, <<>>) = received
      BY <1>1, GlueEmpty
    <3>3. LoopAt(tails, p, Turns(bytes)[0], k)
      BY <1>4, <1>5, <3>1, <3>2 DEF FrontendAt, LoopAt
    <3> QED BY <3>3
  <2>2. ASSUME NEW m \in Nat, m \in T PROVE m + 1 \in T
    <3> DEFINE loop == Turns(bytes)[m]
    <3>1. loop \in Loop /\ Turns(bytes)[m + 1] = Turn[loop]
      BY <1>5
    <3>2. \E k \in 0 .. Len(written) : LoopAt(tails, p, loop, k)
      BY <2>2
    <3> HIDE DEF loop
    <3>3. \E k \in 0 .. Len(written) : LoopAt(tails, p, Turn[loop], k)
      BY <1>1, <1>2, <1>6, <3>1, <3>2, TurnStep
    <3> QED BY <3>1, <3>3
  <2> HIDE DEF T
  <2>3. Nat \subseteq T
    BY <2>1, <2>2, NatSet
  <2> QED BY <2>3 DEF T
<1>8. frames \in Loop /\ \E k \in 0 .. Len(written) : LoopAt(tails, p, frames, k)
  <2>1. Len(bytes) \in Nat
    BY <1>3
  <2> QED BY <1>5, <1>7, <2>1 DEF frames, Frames
<1>9. PTypes'
  <2>1. frames.texts \in Seq(Seq(Byte)) /\ frames.rest \in Seq(Byte)
    BY <1>8 DEF Loop
  <2>2. received' \in Seq(Seq(Byte))
    BY <1>1, <2>1, GlueIsSeq
  <2> QED BY <1>1, <1>2, <2>1, <2>2 DEF PTypes
<1>10. PICK k \in 0 .. Len(written) : LoopAt(tails, p, frames, k)
  BY <1>8
<1>11. FrontendAt(tails, k)'
  <2>1. Readable' = Readable
    BY <1>1, ReadingKeeps
  <2> QED BY <1>1, <1>10, <2>1 DEF FrontendAt, LoopAt, Glue, Passed, CountTo
<1>12. InStep'
  BY <1>1, <1>6, <1>11 DEF InStep, Layout, Due
<1>13. NoFrameWaits'
  <2>1. ~HasFrame(frames.rest)
    BY <1>3, NoFrameIsLeft DEF frames
  <2> QED BY <1>1, <2>1 DEF NoFrameWaits, HasFrame, First
<1> QED BY <1>9, <1>12, <1>13 DEF FramesInv

-----------------------------------------------------------------------------
\* The backend reads.

\* A length of a text that is refused is read: the next bytes of the text are
\* taken for a length which is refused as well.
LEMMA RefusedTextStep ==
  ASSUME PTypes, PTypes', ReadLength, NEW tails, NEW k \in 0 .. Len(written),
         tails[k] \in Seq(Byte), LengthAt(tails, k),
         NEW r \in Seq(1 .. 255), Len(r) % HeaderSize = 0, r # <<>>,
         pipe = Glue(r, tails[k])
  PROVE  LengthAt(tails, k)'
<1>1. /\ pipe \in Seq(Byte) /\ Len(pipe) >= HeaderSize /\ pipe' = After(HeaderSize, pipe)
      /\ expected' = IF Decode(First(HeaderSize, pipe)) > MaxLength
                     THEN NoLength ELSE Decode(First(HeaderSize, pipe))
      /\ UNCHANGED <<reader, written, received>>
  BY DEF PTypes, ReadLength
<1>2. r \in Seq(Byte)
  BY DEF Byte
<1>3. Len(r) \in Nat /\ Len(r) >= 4 /\ HeaderSize = 4 /\ Len(r) # 0
  <2>1. Len(r) \in Nat /\ Len(r) # 0
    BY EmptySeq
  <2>2. Len(r) % 4 = 0
    BY DEF HeaderSize
  <2> QED BY <2>1, <2>2 DEF HeaderSize
<1>4. HeaderSize \in 0 .. Len(r) /\ HeaderSize \in 0 .. Len(pipe)
  BY <1>1, <1>3
<1> DEFINE a == First(HeaderSize, r)
           b == After(HeaderSize, r)
<1>5. /\ a \in Seq(1 .. 255) /\ Len(a) = HeaderSize /\ b \in Seq(1 .. 255)
      /\ Len(b) = Len(r) - HeaderSize /\ Glue(a, b) = r
  BY <1>4, Halves
<1>6. a \in Seq(Byte) /\ b \in Seq(Byte)
  BY <1>5 DEF Byte
<1> HIDE DEF a, b
<1>7. a[1] # 0
  <2>1. Len(a) = 4
    BY <1>3, <1>5
  <2>2. 1 \in 1 .. Len(a)
    BY <2>1
  <2> DEFINE Z == 1 .. 255
  <2>3. a \in Seq(Z)
    BY <1>5
  <2> HIDE DEF Z
  <2>4. a[1] \in Z
    BY <2>2, <2>3, ElementOfSeq
  <2>5. PICK z \in Z : z = a[1]
    BY <2>4
  <2>6. z # 0
    BY DEF Z
  <2> QED BY <2>5, <2>6
<1>8. First(HeaderSize, pipe) = a /\ After(HeaderSize, pipe) = Glue(b, tails[k])
  <2>1. pipe = Glue(a, Glue(b, tails[k]))
    BY <1>5, <1>6, Regroup
  <2>2. Glue(b, tails[k]) \in Seq(Byte)
    BY <1>6, GlueIsSeq
  <2>3. /\ First(Len(a), Glue(a, Glue(b, tails[k]))) = a
        /\ After(Len(a), Glue(a, Glue(b, tails[k]))) = Glue(b, tails[k])
    BY <1>6, <2>2, CutAtJoint
  <2> QED BY <1>5, <2>1, <2>3
<1>9. expected' = NoLength
  <2>1. Decode(a) > MaxLength
    BY <1>5, <1>6, <1>7, TextIsTooLong
  <2> QED BY <1>1, <1>8, <2>1
<1>10. Len(b) % HeaderSize = 0
  <2>1. Len(b) \in Nat /\ Len(b) = Len(r) - 4 /\ Len(r) % 4 = 0
    BY <1>3, <1>5
  <2>2. Len(b) % 4 = 0
    BY <1>3, <2>1
  <2> QED BY <1>3, <2>2
<1>11. \E s \in Seq(1 .. 255) : Len(s) % HeaderSize = 0 /\ pipe' = Glue(s, tails[k])
  BY <1>1, <1>5, <1>8, <1>10
<1>12. Readable' = Readable /\ \A i : Misaligned(i)' <=> Misaligned(i)
  BY <1>1, ReadingKeeps
<1> QED BY <1>1, <1>9, <1>11, <1>12 DEF LengthAt, Glue, Passed, CountTo

\* The length of the next message is read.
LEMMA NextLengthStep ==
  ASSUME PTypes, PTypes', ReadLength, NEW tails, NEW k \in 0 .. Len(written),
         Layout(tails, written, Due(text_due)), LengthAt(tails, k), pipe = tails[k]
  PROVE  \/ \E j \in 0 .. Len(written) : LengthAt(tails, j)' \/ TextAt(tails, j)'
         \/ Astray'
<1> DEFINE n    == Len(written)
           text == written[k + 1]
           t    == tails[k + 1]
           R    == Readable
<1>1. /\ pipe \in Seq(Byte) /\ Len(pipe) >= HeaderSize /\ pipe' = After(HeaderSize, pipe)
      /\ expected' = IF Decode(First(HeaderSize, pipe)) > MaxLength
                     THEN NoLength ELSE Decode(First(HeaderSize, pipe))
      /\ UNCHANGED <<reader, written, received, text_due>>
      /\ reader = "backend" /\ text_due = <<>> /\ written \in Seq(Texts)
      /\ received \in Seq(Seq(Byte)) /\ n \in Nat
  BY DEF PTypes, ReadLength
<1>2. /\ Passed(R, written, received, k)
      /\ \A i \in 1 .. k : ~Misaligned(i)
      /\ R \in SUBSET (Nat \ {0}) /\ R \subseteq 1 .. n
  BY <1>1, ReadableIs DEF LengthAt
<1>3. R' = R /\ \A i : Misaligned(i)' <=> Misaligned(i)
  BY <1>1, ReadingKeeps
<1>4. k \in 0 .. n - 1 /\ k + 1 \in 1 .. n /\ k + 1 \in 0 .. n
  <2>1. ASSUME k = n PROVE FALSE
    <3>1. tails[n] = <<>>
      BY <1>1 DEF Layout, Due
    <3>2. Len(tails[n]) = 0
      BY <3>1
    <3>3. Len(pipe) = 0
      BY <2>1, <3>2
    <3> QED BY <1>1, <3>3 DEF HeaderSize
  <2> QED BY <1>1, <2>1
<1>5. text \in Texts /\ text \in Seq(1 .. 255) /\ text \in Seq(Byte) /\ Len(text) \in Nat
  <2>1. text \in Texts
    BY <1>1, <1>4, ElementOfSeq
  <2> QED BY <2>1, TextBytes
<1>6. t \in Seq(Byte) /\ pipe = Glue(Frame(text), t)
  BY <1>4 DEF Layout
<1>7. Decode(First(HeaderSize, pipe)) = Len(text) /\ pipe' = Glue(text, t)
  <2> HIDE DEF text, t
  <2> DEFINE none == <<>>
  <2>1. Glue(pipe, none) = pipe /\ none \in Seq(Byte)
    BY <1>1, GlueEmpty
  <2>2. After(HeaderSize, pipe) \in Seq(Byte)
    <3>1. HeaderSize \in 0 .. Len(pipe)
      BY <1>1 DEF HeaderSize
    <3> QED BY <1>1, <3>1, Halves
  <2>3. Glue(After(HeaderSize, pipe), none) = After(HeaderSize, pipe)
    BY <2>2, GlueEmpty
  <2> HIDE DEF none
  <2>4. Glue(pipe, none) = Glue(Frame(text), t)
    BY <1>6, <2>1
  <2>5. /\ Decode(First(HeaderSize, pipe)) = Len(text)
        /\ Glue(After(HeaderSize, pipe), none) = Glue(text, t)
    BY <1>1, <1>5, <1>6, <2>1, <2>4, FrontOfFrame
  <2> QED BY <1>1, <2>5, <2>3
<1>8. k + 1 \in R <=> Len(text) <= MaxLength
  <2>1. \A j \in 1 .. (k + 1) - 1 : ~Misaligns(written[j])
    BY <1>1, <1>2 DEF Misaligned
  <2>2. k + 1 \in R <=> Fits(text)
    BY <1>1, <1>4, <2>1, IsReadable
  <2> QED BY <1>1, <2>2 DEF Fits
<1>9. MaxLength \in Nat
  BY FramingOK
<1>10. k \in Nat
  BY <1>1
<1>11. CASE Len(text) <= MaxLength
  <2>1. expected' = Len(text)
    BY <1>1, <1>5, <1>7, <1>9, <1>11
  <2>2. TextAt(tails, k)'
    BY <1>1, <1>2, <1>3, <1>7, <1>8, <1>11, <2>1 DEF TextAt, Glue, Passed, CountTo
  <2> QED BY <1>1, <2>2
<1>12. CASE ~(Len(text) <= MaxLength) /\ Len(text) % HeaderSize = 0
  <2>1. expected' = NoLength
    BY <1>1, <1>5, <1>7, <1>9, <1>12
  <2>2. Passed(R, written, received, k + 1)
    BY <1>1, <1>2, <1>8, <1>10, <1>12, PassedOne
  <2>3. \A i \in 1 .. k + 1 : ~Misaligned(i)
    <3>1. ~Misaligned(k + 1)
      BY <1>12 DEF Misaligned, Misaligns
    <3>2. \A i \in 1 .. k + 1 : i \in 1 .. k \/ i = k + 1
      BY <1>10
    <3> QED BY <1>2, <3>1, <3>2
  <2>4. \E r \in Seq(1 .. 255) : Len(r) % HeaderSize = 0 /\ pipe' = Glue(r, tails[k + 1])
    BY <1>5, <1>7, <1>12
  <2>5. LengthAt(tails, k + 1)'
    BY <1>1, <1>3, <2>1, <2>2, <2>3, <2>4 DEF LengthAt, Glue, Passed, CountTo
  <2> QED BY <1>1, <1>4, <2>5
<1>13. CASE ~(Len(text) <= MaxLength) /\ Len(text) % HeaderSize # 0
  <2>1. Misaligned(k + 1)
    BY <1>1, <1>13 DEF Misaligned, Misaligns, Fits
  <2>2. ASSUME NEW i \in R, i <= k + 1
        PROVE  /\ CountTo(R, i) \in 1 .. Len(received)
               /\ received[CountTo(R, i)] = written[i]
    <3> HIDE DEF R, text
    <3>1. i \in Nat /\ i <= k
      BY <1>2, <1>8, <1>10, <1>13, <2>2
    <3>2. /\ CountTo(R, i) \in Nat /\ CountTo(R, k) \in Nat /\ CountTo(R, 0) = 0
          /\ CountTo(R, i) <= CountTo(R, k) /\ CountTo(R, i) > CountTo(R, 0)
      <4>1. i > 0 /\ 0 \in Nat
        BY <1>2, <3>1
      <4> QED BY <1>2, <1>10, <3>1, <4>1, CountStep, CountOrder
    <3> QED BY <1>2, <3>1, <3>2 DEF Passed
  <2>3. Astray
    BY <1>1, <1>4, <2>1, <2>2 DEF Astray
  <2>4. Astray'
    BY <1>1, <1>3, <2>3 DEF Astray, CountTo
  <2> QED BY <2>4
<1> QED BY <1>11, <1>12, <1>13

LEMMA ReadLengthTypes ==
  ASSUME PTypes, ReadLength
  PROVE  PTypes'
<1>1. pipe \in Seq(Byte) /\ Len(pipe) >= HeaderSize /\ HeaderSize \in 0 .. Len(pipe)
  BY DEF PTypes, ReadLength, HeaderSize
<1>2. /\ After(HeaderSize, pipe) \in Seq(Byte) /\ First(HeaderSize, pipe) \in Seq(Byte)
      /\ Len(First(HeaderSize, pipe)) = HeaderSize
  BY <1>1, Halves
<1>3. Decode(First(HeaderSize, pipe)) \in Nat
  BY <1>2, DecodeIsNat
<1>4. pipe' \in Seq(Byte) /\ expected' \in Nat \cup {NoLength}
  BY <1>2, <1>3 DEF ReadLength
<1> QED BY <1>4 DEF PTypes, ReadLength

LEMMA ReadLengthStep ==
  ASSUME FramesInv, ReadLength
  PROVE  FramesInv'
<1>1. PTypes /\ PTypes' /\ NoFrameWaits'
  BY ReadLengthTypes, BufferKept DEF FramesInv, ReadLength
<1>2. CASE Astray
  <2>1. /\ UNCHANGED <<reader, written, received>> /\ Len(received) <= Len(received')
    BY <1>1 DEF ReadLength, PTypes
  <2>2. Astray'
    BY <1>1, <1>2, <2>1, ReadingKeeps, AstrayStays
  <2> QED BY <1>1, <2>2 DEF FramesInv
<1>3. CASE InStep
  <2>1. reader = "backend" /\ expected = NoLength /\ UNCHANGED <<written, text_due>>
    BY DEF ReadLength
  <2>2. PICK tails : /\ Layout(tails, written, Due(text_due))
                     /\ \E k \in 0 .. Len(written) : LengthAt(tails, k)
    <3>1. ASSUME NEW tails, NEW k \in 0 .. Len(written), TextAt(tails, k) PROVE FALSE
      <4>1. k + 1 \in 1 .. Len(written) /\ written \in Seq(Texts)
        BY <1>1, <3>1, ReadableIs DEF TextAt, PTypes
      <4>2. Len(written[k + 1]) \in Nat
        <5>1. written[k + 1] \in Texts
          BY <4>1, ElementOfSeq
        <5> QED BY <5>1, TextBytes
      <4> QED BY <2>1, <3>1, <4>2 DEF TextAt, NoLength
    <3> QED BY <1>3, <2>1, <3>1 DEF InStep, FrontendAt
  <2>3. PICK k \in 0 .. Len(written) : LengthAt(tails, k)
    BY <2>2
  <2>4. PICK r \in Seq(1 .. 255) : Len(r) % HeaderSize = 0 /\ pipe = Glue(r, tails[k])
    BY <2>3 DEF LengthAt
  <2>5. tails[k] \in Seq(Byte)
    BY <2>2 DEF Layout
  <2>6. Layout(tails, written, Due(text_due))'
    BY <2>1, <2>2 DEF Layout, Due
  <2>7. CASE r # <<>>
    <3>1. LengthAt(tails, k)'
      BY <1>1, <2>3, <2>4, <2>5, <2>7, RefusedTextStep
    <3>2. InStep'
      BY <2>1, <2>6, <3>1 DEF InStep
    <3> QED BY <1>1, <3>2 DEF FramesInv
  <2>8. CASE r = <<>>
    <3>1. pipe = tails[k]
      BY <2>4, <2>5, <2>8, GlueEmpty
    <3>2. \/ \E j \in 0 .. Len(written) : LengthAt(tails, j)' \/ TextAt(tails, j)'
          \/ Astray'
      BY <1>1, <2>2, <2>3, <3>1, NextLengthStep
    <3>3. InStep' \/ Astray'
      BY <2>1, <2>6, <3>2 DEF InStep
    <3> QED BY <1>1, <3>3 DEF FramesInv
  <2> QED BY <2>7, <2>8
<1> QED BY <1>2, <1>3 DEF FramesInv

LEMMA ReadTextStep ==
  ASSUME FramesInv, ReadText
  PROVE  FramesInv'
<1>1. /\ PTypes /\ pipe \in Seq(Byte) /\ received \in Seq(Seq(Byte)) /\ written \in Seq(Texts)
      /\ expected \in 0 .. Len(pipe) /\ reader = "backend" /\ expected # NoLength
      /\ received' = Append(received, First(expected, pipe))
      /\ pipe' = After(expected, pipe) /\ expected' = NoLength
      /\ UNCHANGED <<reader, written, text_due, buffer>>
  <2>1. expected \in Nat
    BY DEF FramesInv, PTypes, ReadText
  <2> QED BY <2>1 DEF FramesInv, PTypes, ReadText
<1>2. First(expected, pipe) \in Seq(Byte) /\ After(expected, pipe) \in Seq(Byte)
  BY <1>1, Halves
<1>3. /\ received' \in Seq(Seq(Byte)) /\ Len(received') = Len(received) + 1
      /\ \A i \in 1 .. Len(received) : received'[i] = received[i]
  BY <1>1, <1>2, AppendProperties
<1>4. PTypes' /\ NoFrameWaits'
  BY <1>1, <1>2, <1>3, BufferKept DEF PTypes
<1>5. Kept /\ Readable' = Readable /\ \A i : Misaligned(i)' <=> Misaligned(i)
  BY <1>1, ReadingKeeps
<1>6. CASE Astray
  <2>1. Len(received) <= Len(received')
    <3>1. Len(received) \in Nat
      BY <1>1
    <3> QED BY <1>3, <3>1
  <2>2. Astray'
    BY <1>1, <1>3, <1>4, <1>5, <1>6, <2>1, AstrayStays
  <2> QED BY <1>4, <2>2 DEF FramesInv
<1>7. CASE InStep
  <2>1. PICK tails : /\ Layout(tails, written, Due(text_due))
                     /\ \E k \in 0 .. Len(written) : TextAt(tails, k)
    BY <1>1, <1>7 DEF InStep, FrontendAt, LengthAt
  <2>2. PICK k \in 0 .. Len(written) : TextAt(tails, k)
    BY <2>1
  <2> DEFINE text == written[k + 1]
             t    == tails[k + 1]
  <2>3. /\ k + 1 \in Readable /\ expected = Len(text) /\ pipe = Glue(text, t)
        /\ Passed(Readable, written, received, k)
    BY <2>2 DEF TextAt
  <2>4. /\ Readable \in SUBSET (Nat \ {0}) /\ k \in Nat
        /\ k + 1 \in 1 .. Len(written) /\ k + 1 \in 0 .. Len(written)
    <3>1. Len(written) \in Nat /\ k \in Nat
      BY <1>1
    <3> QED BY <1>1, <2>3, <3>1, ReadableIs
  <2>5. text \in Texts /\ text \in Seq(Byte) /\ t \in Seq(Byte)
    <3>1. text \in Texts
      BY <1>1, <2>4, ElementOfSeq
    <3>2. t \in Seq(Byte)
      BY <2>1, <2>4 DEF Layout
    <3> QED BY <3>1, <3>2, TextBytes
  <2>6. First(expected, pipe) = text /\ pipe' = t
    <3> HIDE DEF text, t
    <3>1. First(Len(text), Glue(text, t)) = text /\ After(Len(text), Glue(text, t)) = t
      BY <2>5, CutAtJoint
    <3> QED BY <1>1, <2>3, <3>1
  <2>7. Passed(Readable, written, received', k + 1)
    <3>1. Passed(Readable, written, Append(received, text), k + 1)
      BY <1>1, <2>3, <2>4, <2>5, PassedOne
    <3> QED BY <1>1, <2>6, <3>1
  <2>8. \A i \in 1 .. k + 1 : ~Misaligned(i)
    <3>1. Fits(text) /\ \A j \in 1 .. (k + 1) - 1 : ~Misaligns(written[j])
      BY <1>1, <2>3, <2>4, IsReadable
    <3>2. ~Misaligned(k + 1)
      BY <3>1 DEF Misaligned, Misaligns
    <3>3. \A i \in 1 .. k + 1 : i \in 1 .. (k + 1) - 1 \/ i = k + 1
      BY <2>4
    <3> QED BY <3>1, <3>2, <3>3 DEF Misaligned
  <2>9. \E r \in Seq(1 .. 255) : Len(r) % HeaderSize = 0 /\ pipe' = Glue(r, tails[k + 1])
    <3>1. <<>> \in Seq(1 .. 255) /\ Len(<<>>) = 0 /\ 0 % HeaderSize = 0
      BY DEF HeaderSize
    <3>2. pipe' = Glue(<<>>, t)
      BY <2>5, <2>6, GlueEmpty
    <3> QED BY <3>1, <3>2
  <2>10. LengthAt(tails, k + 1)'
    BY <1>1, <1>5, <2>7, <2>8, <2>9 DEF LengthAt, Glue, Passed, CountTo
  <2>11. InStep'
    BY <1>1, <2>1, <2>4, <2>10 DEF InStep, Layout, Due
  <2> QED BY <1>4, <2>11 DEF FramesInv
<1> QED BY <1>6, <1>7 DEF FramesInv

-----------------------------------------------------------------------------
LEMMA FramesInvNext == FramesInv /\ [PNext]_pvars => FramesInv'
<1> SUFFICES ASSUME FramesInv, [PNext]_pvars PROVE FramesInv'
  OBVIOUS
<1>1. CASE \E text \in Texts : sendToBackend(text)
  BY <1>1, sendToBackendStep
<1>2. CASE \E text \in Texts : WriteLength(text)
  BY <1>2, WriteLengthStep
<1>3. CASE WriteText
  BY <1>3, WriteTextStep
<1>4. CASE \E n \in 1 .. Len(pipe) : processReceivedData(n)
  BY <1>4, processReceivedDataStep
<1>5. CASE ReadLength
  BY <1>5, ReadLengthStep
<1>6. CASE ReadText
  BY <1>6, ReadTextStep
<1>7. CASE UNCHANGED pvars
  <2>1. UNCHANGED <<reader, written, text_due, pipe, buffer, expected, received>>
    BY <1>7 DEF pvars
  <2>2. Readable' = Readable /\ \A i : Misaligned(i)' <=> Misaligned(i)
    BY <2>1, ReadingKeeps
  <2>3. PTypes' /\ NoFrameWaits'
    BY <2>1, BufferKept DEF FramesInv, PTypes
  <2>4. ASSUME InStep PROVE InStep'
    BY <2>1, <2>2, <2>4
       DEF InStep, FrontendAt, LengthAt, TextAt, Layout, Due, Passed, CountTo, Glue
  <2>5. ASSUME Astray PROVE Astray'
    BY <2>1, <2>2, <2>5 DEF Astray, CountTo
  <2> QED BY <2>3, <2>4, <2>5 DEF FramesInv
<1> QED BY <1>1, <1>2, <1>3, <1>4, <1>5, <1>6, <1>7 DEF PNext, Write, Read

\* However the bytes of any number of messages are written and cut, the readers
\* hand over those that were written, whole and in order; past a text that is too
\* long, too, when its length is a multiple of four.
THEOREM MessagesReadAsWritten == PSpec => []ReadAsWritten
<1>1. PSpec => []FramesInv
  BY FramesInvInit, FramesInvNext, PTL DEF PSpec
<1> QED BY <1>1, FramesInvImplies, PTL
===============================================================================
