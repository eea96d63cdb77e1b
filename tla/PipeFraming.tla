------------------------------ MODULE PipeFraming ------------------------------
(***************************************************************************)
(* The bytes on a pipe between the backend and the frontend.  A message is *)
(* sent as its length, in four bytes, the most significant first, and its  *)
(* text.                                                                   *)
(*                                                                         *)
(* There is a pipe in each direction.  The frontend writes a frame at once *)
(* (sendToBackend in gui/src/main.js) and the backend reads exactly as     *)
(* many bytes as it expects (read_message_loop in src/src/ipc/             *)
(* ipc_service.cc), refusing texts that are too long.  The backend writes  *)
(* length and text apart (send_message) and the frontend gets whatever is  *)
(* there, cut anywhere (processReceivedDataInternal in main.js).           *)
(***************************************************************************)
EXTENDS Integers, Sequences, FiniteSets

CONSTANTS
  MaxLength,   \* the longest text the backend takes: 10 MB
  Texts,       \* JSON has no zero byte
  MaxMessages  \* bound on the messages written

Byte == 0 .. 255

HeaderSize == 4

\* A length that starts with a byte of a text is too long for the backend: 10 MB
\* is less than 2^24.  The length of a text fits in four bytes.
ASSUME FramingOK ==
  /\ MaxLength \in Nat /\ MaxLength < 256 * 256 * 256
  /\ MaxMessages \in Nat
  /\ \A text \in Texts : /\ text \in Seq(1 .. 255) \ {<<>>}
                         /\ Len(text) \div (256 * 256 * 256) \in Byte

VARIABLES
  reader,    \* who reads this pipe: "frontend" or "backend"
  written,   \* the messages written completely
  text_due,  \* the text whose length is written and that is not, or <<>>
  pipe,      \* bytes written and not read
  buffer,    \* receivedDataBuffer of the frontend
  expected,  \* length of the text the backend reads, or NoLength
  received   \* the texts handed to the handlers

pvars == <<reader, written, text_due, pipe, buffer, expected, received>>

NoLength == -1

PInit ==
  /\ reader \in {"frontend", "backend"}
  /\ written = <<>>
  /\ text_due = <<>>
  /\ pipe = <<>>
  /\ buffer = <<>>
  /\ expected = NoLength
  /\ received = <<>>

-----------------------------------------------------------------------------
\* A length as bytes and back, the most significant byte first.
Encode(length) ==
  <<(length \div (256 * 256 * 256)) % 256, (length \div (256 * 256)) % 256, (length \div 256) % 256,
    length % 256>>

Decode(bytes) == ((bytes[1] * 256 + bytes[2]) * 256 + bytes[3]) * 256 + bytes[4]

First(n, bytes) == SubSeq(bytes, 1, n)
After(n, bytes) == SubSeq(bytes, n + 1, Len(bytes))

\* Writers.

sendToBackend(text) ==
  /\ reader = "backend"
  /\ Len(written) < MaxMessages
  /\ pipe' = pipe \o Encode(Len(text)) \o text
  /\ written' = Append(written, text)
  /\ UNCHANGED <<reader, text_due, buffer, expected, received>>

WriteLength(text) ==
  /\ reader = "frontend"
  /\ text_due = <<>>
  /\ Len(written) < MaxMessages
  /\ pipe' = pipe \o Encode(Len(text))
  /\ text_due' = text
  /\ UNCHANGED <<reader, written, buffer, expected, received>>

WriteText ==
  /\ text_due # <<>>
  /\ pipe' = pipe \o text_due
  /\ written' = Append(written, text_due)
  /\ text_due' = <<>>
  /\ UNCHANGED <<reader, buffer, expected, received>>

-----------------------------------------------------------------------------
\* The frontend.

\* A complete frame is at the front of the buffer.
HasFrame(bytes) ==
  /\ Len(bytes) >= HeaderSize
  /\ Len(bytes) >= HeaderSize + Decode(First(HeaderSize, bytes))

\* Bytes of the frame at the front, the length included.
FrameSize(bytes) == HeaderSize + Decode(First(HeaderSize, bytes))

\* Mutant: one frame of a chunk is processed (if for while).
Frames_One(bytes) ==
  IF ~HasFrame(bytes) THEN [texts |-> <<>>, rest |-> bytes]
  ELSE [texts |-> <<After(HeaderSize, First(FrameSize(bytes), bytes))>>,
        rest  |-> After(FrameSize(bytes), bytes)]

\* What the loop over the buffer has handled and has still to look at.
Loop == [texts : Seq(Seq(Byte)), rest : Seq(Byte)]

\* A turn handles the frame at the front, and leaves the loop when there is none.
Turn[loop \in Loop] ==
  LET rest == loop.rest
  IN IF HasFrame(rest)
     THEN [texts |-> Append(loop.texts, After(HeaderSize, First(FrameSize(rest), rest))),
           rest  |-> After(FrameSize(rest), rest)]
     ELSE loop

Turns(bytes) ==
  LET turn[n \in Nat] ==
        IF n = 0 THEN [texts |-> <<>>, rest |-> bytes] ELSE Turn[turn[n - 1]]
  IN turn

\* The loop: the texts of the complete frames, in order, and what is left.  A
\* frame has four bytes at least, so that one turn per byte is enough.
Frames(bytes) == Turns(bytes)[Len(bytes)]

\* A data event of the socket, with the next n bytes.
processReceivedData(n) ==
  /\ reader = "frontend"
  /\ n <= Len(pipe)
  /\ LET frames == Frames(buffer \o First(n, pipe))
     IN /\ received' = received \o frames.texts
        /\ buffer' = frames.rest
  /\ pipe' = After(n, pipe)
  /\ UNCHANGED <<reader, written, text_due, expected>>

-----------------------------------------------------------------------------
\* The backend.  async_read completes once it has all the bytes it is for.

\* Mutant: a text of just the longest length is refused.
ReadLength_AtLimit ==
  /\ reader = "backend"
  /\ expected = NoLength
  /\ Len(pipe) >= HeaderSize
  /\ pipe' = After(HeaderSize, pipe)
  /\ LET length == Decode(First(HeaderSize, pipe))
     IN expected' = IF length >= MaxLength THEN NoLength ELSE length
  /\ UNCHANGED <<reader, written, text_due, buffer, received>>

\* The text that follows a length that is refused stays in the pipe and is read
\* as lengths.
ReadLength ==
  /\ reader = "backend"
  /\ expected = NoLength
  /\ Len(pipe) >= HeaderSize
  /\ pipe' = After(HeaderSize, pipe)
  /\ LET length == Decode(First(HeaderSize, pipe))
     IN expected' = IF length > MaxLength THEN NoLength ELSE length
  /\ UNCHANGED <<reader, written, text_due, buffer, received>>

ReadText ==
  /\ expected # NoLength
  /\ Len(pipe) >= expected
  /\ received' = Append(received, First(expected, pipe))
  /\ pipe' = After(expected, pipe)
  /\ expected' = NoLength
  /\ UNCHANGED <<reader, written, text_due, buffer>>

-----------------------------------------------------------------------------
Write == (\E text \in Texts : sendToBackend(text) \/ WriteLength(text)) \/ WriteText
Read  == (\E n \in 1 .. Len(pipe) : processReceivedData(n)) \/ ReadLength \/ ReadText

PNext == Write \/ Read

PSpec == PInit /\ [][PNext]_pvars

\* What is in the pipe is read: a socket with data raises events, and the
\* executor resumes a read that can complete.  Nobody has to write.
PFairSpec == PSpec /\ WF_pvars(Read)

-----------------------------------------------------------------------------
\* Properties.

Fits(text) == reader = "frontend" \/ Len(text) <= MaxLength

\* A refused text that does not read as whole lengths.
Misaligns(text) == ~Fits(text) /\ Len(text) % HeaderSize # 0

\* The messages the reader has to find: those that fit, up to the first that
\* misaligns it, and their number up to one of them.
Readable ==
  {i \in DOMAIN written : Fits(written[i]) /\ \A j \in 1 .. i - 1 : ~Misaligns(written[j])}

UpTo(i) == Cardinality({j \in Readable : j <= i})

\* However the bytes are cut, the handlers get the messages that were written,
\* whole and in order, and all of them once the pipe is empty; after a message of
\* more than 10 MB that is refused, too, as long as its length is a multiple of
\* four (continue in read_message_loop skips the length and not the text).  Past
\* a refused message of another length nothing is promised.
ReadAsWritten ==
  /\ \A i \in Readable : UpTo(i) <= Len(received) => received[UpTo(i)] = written[i]
  /\ \/ Len(received) <= Cardinality(Readable)
     \/ \E i \in DOMAIN written : Misaligns(written[i])
  /\ pipe = <<>> => Len(received) >= Cardinality(Readable)

\* No message waits in the buffer for the next one to push it out: each is
\* handled although nothing may be written after it (the loop of
\* processReceivedDataInternal).
MessagesArrive ==
  \A n \in 1 .. MaxMessages : Cardinality(Readable) >= n ~> Len(received) >= n
===============================================================================
