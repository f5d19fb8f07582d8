-------------------------- MODULE FrameStreamProofs -------------------------
(* Theorems about the frames of the process protocol, for any set of       *)
(* messages, any encoding that can be decoded, and any chunks.             *)
EXTENDS FrameStream, SequenceTheorems, TLAPS

\* Four bytes hold every length there is.
LEMMA HeaderInverse ==
    ASSUME NEW n \in Nat, n <= LargestLength
    PROVE  /\ Header(n) \in Seq(Byte)
           /\ Len(Header(n)) = 4
           /\ Length(Header(n)) = n
<1> DEFINE q1 == n \div 256
           q2 == q1 \div 256
           q3 == q2 \div 256
<1>1. n \in Nat /\ n <= 127 * 256 * 256 * 256
  BY DEF LargestLength
<1>2. q1 \in Nat /\ n = 256 * q1 + (n % 256) /\ n % 256 \in Byte /\ q1 <= 127 * 256 * 256
  BY <1>1, SMT DEF Byte
<1> HIDE DEF q1
<1>3. q2 \in Nat /\ q1 = 256 * q2 + (q1 % 256) /\ q1 % 256 \in Byte /\ q2 <= 127 * 256
  BY <1>2, SMT DEF Byte
<1> HIDE DEF q2
<1>4. q3 \in Nat /\ q2 = 256 * q3 + (q2 % 256) /\ q2 % 256 \in Byte /\ q3 <= 127
  BY <1>3, SMT DEF Byte
<1> HIDE DEF q3
<1>5. q3 % 256 = q3 /\ q3 \in Byte
  BY <1>4, SMT DEF Byte
<1>6. Header(n) = <<q3, q2 % 256, q1 % 256, n % 256>>
  BY <1>5 DEF Header, q1, q2, q3
<1>7. QED
  BY <1>2, <1>3, <1>4, <1>5, <1>6, SMT DEF Length, Byte

LEMMA HeaderAndBody ==
    ASSUME NEW h \in Seq(Byte), Len(h) = 4, NEW w \in Seq(Byte)
    PROVE  /\ h \o w \in Seq(Byte)
           /\ Len(h \o w) = 4 + Len(w)
           /\ \A i \in 1..4 + Len(w) : (h \o w)[i] = IF i <= 4 THEN h[i] ELSE w[i - 4]
<1>1. /\ h \o w \in Seq(Byte)
      /\ Len(h \o w) = Len(h) + Len(w)
      /\ \A i \in 1..Len(h) + Len(w) : (h \o w)[i] = IF i <= Len(h) THEN h[i] ELSE w[i - Len(h)]
  BY ConcatProperties, Zenon
<1>2. QED
  BY <1>1

\* A frame is its header and its body.
LEMMA FrameProperties ==
    ASSUME NEW m \in Messages, Fits(Len(ToWire[m]))
    PROVE  /\ ToWire[m] \in Seq(Byte)
           /\ Len(ToWire[m]) \in Nat \ {0}
           /\ Frame(m) \in Seq(Byte)
           /\ Len(Frame(m)) = 4 + Len(ToWire[m])
           /\ \A i \in 1..4 : Frame(m)[i] = Header(Len(ToWire[m]))[i]
           /\ \A i \in 1..Len(ToWire[m]) : Frame(m)[4 + i] = ToWire[m][i]
           /\ Length(Frame(m)) = Len(ToWire[m])
<1> DEFINE n == Len(ToWire[m])
<1>1. ToWire[m] \in Seq(Byte) /\ n \in Nat \ {0}
  BY WireAssumption, EmptySeq
<1>2. n <= LargestLength
  BY <1>1, WireAssumption DEF Fits, LargestLength
<1>3. Header(n) \in Seq(Byte) /\ Len(Header(n)) = 4 /\ Length(Header(n)) = n
  BY <1>1, <1>2, HeaderInverse
<1>4. /\ Frame(m) \in Seq(Byte)
      /\ Len(Frame(m)) = 4 + n
      /\ \A i \in 1..4 + n : Frame(m)[i] = IF i <= 4 THEN Header(n)[i] ELSE ToWire[m][i - 4]
  BY <1>1, <1>3, HeaderAndBody DEF Frame
<1>5. /\ \A i \in 1..4 : Frame(m)[i] = Header(n)[i]
      /\ \A i \in 1..n : Frame(m)[4 + i] = ToWire[m][i]
  BY <1>1, <1>4
<1>6. Length(Frame(m)) = n
  BY <1>3, <1>5 DEF Length
<1>7. QED
  BY <1>1, <1>4, <1>5, <1>6, Zenon

-----------------------------------------------------------------------------
(* Type correctness *)

LEMMA TypeInit == Init => TypeOK
<1> SUFFICES ASSUME Init PROVE TypeOK
  OBVIOUS
<1>1. /\ <<>> \in Seq(Byte) /\ Len(<<>>) = 0
      /\ <<>> \in Seq(Messages)
      /\ <<>> \in Seq([msg : Messages \cup {Garbage}, from : Nat])
  BY EmptySeq
<1>2. taken \in 0..Len(stream)
  BY <1>1 DEF Init
<1>3. QED
  BY <1>1, <1>2 DEF Init, TypeOK

LEMMA TypeNext == TypeOK /\ [Next]_vars => TypeOK'
<1> SUFFICES ASSUME TypeOK, [Next]_vars PROVE TypeOK'
  OBVIOUS
<1> USE DEF TypeOK
<1>1. ASSUME NEW m \in Messages, Begin(m) PROVE TypeOK'
  <2>1. Frame(m) \in Seq(Byte)
    BY <1>1, FrameProperties DEF Begin
  <2>2. [msg |-> m, from |-> Len(stream)] \in [msg : Messages \cup {Garbage}, from : Nat]
    BY LenProperties
  <2>3. QED
    BY <1>1, <2>1, <2>2, AppendProperties DEF Begin, MayBegin, readerVars
<1>2. ASSUME NEW m \in Messages, Refuse(m) PROVE TypeOK'
  BY <1>2 DEF Refuse, MayBegin, readerVars
<1>3. ASSUME NEW bytes \in Junk, BeginJunk(bytes) PROVE TypeOK'
  <2>1. bytes \in Seq(Byte)
    BY WireAssumption
  <2>2. [msg |-> Garbage, from |-> Len(stream)] \in [msg : Messages \cup {Garbage}, from : Nat]
    BY LenProperties
  <2>3. QED
    BY <1>3, <2>1, <2>2, AppendProperties DEF BeginJunk, MayBegin, readerVars
<1>4. ASSUME NEW n \in 1..Len(writing), WriteSome(n) PROVE TypeOK'
  <2>1. Len(writing) \in Nat /\ \A i \in 1..Len(writing) : writing[i] \in Byte
    BY LenProperties, ElementOfSeq
  <2>2. SubSeq(writing, 1, n) \in Seq(Byte)
    BY <2>1, SubSeqProperties
  <2>3. SubSeq(writing, n + 1, Len(writing)) \in Seq(Byte)
    BY <2>1, SubSeqProperties
  <2>4. /\ stream \o SubSeq(writing, 1, n) \in Seq(Byte)
        /\ Len(stream \o SubSeq(writing, 1, n)) = Len(stream) + Len(SubSeq(writing, 1, n))
    BY <2>2, ConcatProperties
  <2>5. Len(stream) \in Nat /\ Len(SubSeq(writing, 1, n)) \in Nat
    BY <2>2, LenProperties
  <2>6. QED
    BY <1>4, <2>3, <2>4, <2>5 DEF WriteSome, readerVars
<1>5. ASSUME Close PROVE TypeOK'
  BY <1>5 DEF Close, readerVars
<1>6. ASSUME NEW n \in 1..Wanted, ReadSome(n) PROVE TypeOK'
  <2>1. Len(stream) \in Nat /\ taken \in Nat /\ n \in Int
    BY LenProperties
  <2>2. n \in Nat \ {0} /\ taken + n <= Len(stream)
    BY <1>6, <2>1 DEF ReadSome
  <2>3. \A i \in taken + 1..taken + n : stream[i] \in Byte
    BY <2>1, <2>2, ElementOfSeq
  <2>4. SubSeq(stream, taken + 1, taken + n) \in Seq(Byte)
    BY <2>1, <2>2, <2>3, SubSeqProperties
  <2>5. got' \in Seq(Byte)
    BY <1>6, <2>4, ConcatProperties DEF ReadSome
  <2>6. taken' \in 0..Len(stream)'
    BY <1>6, <2>1, <2>2 DEF ReadSome, writerVars
  <2>7. QED
    BY <1>6, <2>5, <2>6 DEF ReadSome, writerVars
<1>7. ASSUME ReadEnd PROVE TypeOK'
  BY <1>7 DEF ReadEnd, VerdictAtEnd, writerVars
<1>8. ASSUME RejectLength PROVE TypeOK'
  BY <1>8 DEF RejectLength, writerVars
<1>9. ASSUME Return PROVE TypeOK'
  <2>1. FromWire[Body] \in Messages
    BY <1>9, WireAssumption DEF Return
  <2>2. QED
    BY <1>9, <2>1, AppendProperties, EmptySeq DEF Return, ResetBuffer, writerVars
<1>10. ASSUME RejectBody PROVE TypeOK'
  BY <1>10 DEF RejectBody, writerVars
<1>11. ASSUME ReadFails PROVE TypeOK'
  BY <1>11 DEF ReadFails, writerVars
<1>12. CASE UNCHANGED vars
  BY <1>12 DEF vars, writerVars, readerVars
<1>13. QED
  BY <1>1, <1>2, <1>3, <1>4, <1>5, <1>6, <1>7, <1>8, <1>9, <1>10, <1>11, <1>12
  DEF Next, Write, Progress

(* Every variable keeps its type, whatever the ends do. *)
THEOREM FramesTyped == Spec => []TypeOK
  BY TypeInit, TypeNext, PTL DEF Spec

-----------------------------------------------------------------------------
(* What the log says of the stream *)

\* Entry j of the log starts at a place of the stream.
Placed(j) == log[j].from <= Len(stream)

\* Entry j, a message, lies there as far as the stream goes; the next one follows it,
\* and of the last one the rest is still to be written.
Framed(j) ==
    /\ Fits(Len(ToWire[log[j].msg]))
    /\ \A i \in 1..Len(Frame(log[j].msg)) :
            log[j].from + i <= Len(stream) => stream[log[j].from + i] = Frame(log[j].msg)[i]
    /\ j < Len(log) => log[j + 1].from = log[j].from + Len(Frame(log[j].msg))
    /\ j = Len(log) =>
            /\ log[j].from + Len(Frame(log[j].msg)) = Len(stream) + Len(writing)
            /\ \A i \in 1..Len(writing) :
                   writing[i] = Frame(log[j].msg)[Len(Frame(log[j].msg)) - Len(writing) + i]

LogInv ==
    /\ log = <<>> => stream = <<>> /\ writing = <<>>
    /\ log # <<>> => log[1].from = 0
    /\ \A j \in 1..Len(log) : Placed(j) /\ (log[j].msg # Garbage => Framed(j))

-----------------------------------------------------------------------------
(* Where the reader is *)

\* The buffer holds the last bytes taken.
GotInv ==
    /\ Len(got) <= taken
    /\ \A i \in 1..Len(got) : got[i] = stream[taken - Len(got) + i]

\* The buffer began at the first frame of the log that was not received.
InFrame(k) ==
    /\ log[k].from + Len(got) = taken
    /\ Len(got) <= Len(Frame(log[k].msg))

AtEnd == taken = Len(stream) /\ got = <<>> /\ writing = <<>>

ReadInv ==
    InStep =>
        /\ Len(received) <= Len(log)
        /\ \A k \in 1..Len(received) : received[k] = log[k].msg
        /\ Len(received) = Len(log) => AtEnd
        /\ Len(received) < Len(log) => InFrame(Len(received) + 1)

IInv == TypeOK /\ LogInv /\ GotInv /\ ReadInv

LEMMA LogEntry ==
    ASSUME TypeOK, NEW j \in 1..Len(log)
    PROVE  /\ log[j].from \in Nat
           /\ log[j].msg # Garbage => log[j].msg \in Messages
<1>1. log[j] \in [msg : Messages \cup {Garbage}, from : Nat]
  BY ElementOfSeq DEF TypeOK
<1>2. QED
  BY <1>1

LEMMA Lengths ==
    ASSUME TypeOK
    PROVE  /\ Len(stream) \in Nat
           /\ Len(writing) \in Nat
           /\ Len(log) \in Nat
           /\ Len(got) \in Nat
           /\ Len(received) \in Nat
           /\ taken \in Nat
           /\ taken <= Len(stream)
           /\ log = <<>> <=> Len(log) = 0
           /\ writing = <<>> <=> Len(writing) = 0
           /\ got = <<>> <=> Len(got) = 0
<1> USE DEF TypeOK
<1>1. Len(stream) \in Nat /\ Len(received) \in Nat
  BY LenProperties
<1>2. Len(writing) \in Nat /\ (writing = <<>> <=> Len(writing) = 0)
  BY LenProperties, EmptySeq
<1>3. Len(log) \in Nat /\ (log = <<>> <=> Len(log) = 0)
  BY LenProperties, EmptySeq
<1>4. Len(got) \in Nat /\ (got = <<>> <=> Len(got) = 0)
  BY LenProperties, EmptySeq
<1>5. QED
  BY <1>1, <1>2, <1>3, <1>4

\* What beginning a frame, of a message or of garbage, does to the log.
LEMMA LogGrows ==
    ASSUME TypeOK, LogInv, writing = <<>>,
           NEW e \in [msg : Messages \cup {Garbage}, from : Nat],
           e.from = Len(stream), log' = Append(log, e), stream' = stream
    PROVE  /\ Len(log') = Len(log) + 1
           /\ log'[Len(log) + 1] = e
           /\ \A j \in 1..Len(log) : log'[j] = log[j] /\ Placed(j)' /\ (log[j].msg # Garbage => Framed(j)')
           /\ log'[1].from = 0
<1>1. /\ Len(log') = Len(log) + 1
      /\ log'[Len(log) + 1] = e
      /\ \A j \in 1..Len(log) : log'[j] = log[j]
  BY AppendProperties DEF TypeOK
<1>2. ASSUME NEW j \in 1..Len(log)
      PROVE  Placed(j)' /\ (log[j].msg # Garbage => Framed(j)')
  <2>1. Placed(j)'
    BY <1>1 DEF LogInv, Placed
  <2>2. ASSUME log[j].msg # Garbage PROVE Framed(j)'
    <3>1. log'[j] = log[j] /\ Framed(j) /\ j # Len(log') /\ j \in Nat /\ j + 1 \in 1..Len(log')
      BY <1>1, <2>2, Lengths DEF LogInv
    <3>2. log'[j + 1].from = log[j].from + Len(Frame(log[j].msg))
      <4>1. CASE j < Len(log)
        BY <1>1, <3>1, <4>1, Lengths DEF Framed
      <4>2. CASE j = Len(log)
        <5>1. /\ Len(writing) = 0 /\ Len(stream) \in Nat
              /\ log[j].from \in Nat /\ log[j].msg \in Messages
          BY Lengths, LogEntry, <2>2
        <5>2. Len(Frame(log[j].msg)) \in Nat
          BY <3>1, <5>1, FrameProperties DEF Framed
        <5>3. QED
          BY <1>1, <3>1, <4>2, <5>1, <5>2 DEF Framed
      <4>3. QED
        BY <4>1, <4>2, Lengths
    <3>3. QED
      BY <3>1, <3>2 DEF Framed
  <2>3. QED
    BY <2>1, <2>2
<1>3. log'[1].from = 0
  <2>1. CASE log = <<>>
    BY <1>1, <2>1, EmptySeq, Lengths DEF LogInv, TypeOK
  <2>2. CASE log # <<>>
    BY <1>1, <2>2, Lengths DEF LogInv
  <2>3. QED
    BY <2>1, <2>2
<1>4. QED
  BY <1>1, <1>2, <1>3

LEMMA SameDistance ==
    ASSUME NEW a \in Nat, NEW f \in Nat, NEW s \in Nat, NEW w \in Nat, NEW i \in Nat, NEW k \in Nat,
           a + f = s + w, a + i = s + k
    PROVE  (f - w) + k = i
  OBVIOUS

LEMMA LogWritten ==
    ASSUME TypeOK, LogInv, NEW n \in 1..Len(writing), WriteSome(n)
    PROVE  LogInv'
<1>1. /\ Len(stream) \in Nat /\ Len(writing) \in Nat /\ Len(log) \in Nat /\ n \in Nat
      /\ Len(log) > 0 /\ log # <<>>
      /\ log' = log
  BY Lengths DEF LogInv, WriteSome
<1>2. /\ SubSeq(writing, 1, n) \in Seq(Byte)
      /\ Len(SubSeq(writing, 1, n)) = n
      /\ \A i \in 1..n : SubSeq(writing, 1, n)[i] = writing[i]
      /\ SubSeq(writing, n + 1, Len(writing)) \in Seq(Byte)
      /\ Len(SubSeq(writing, n + 1, Len(writing))) = Len(writing) - n
      /\ \A i \in 1..Len(writing) - n : SubSeq(writing, n + 1, Len(writing))[i] = writing[n + i]
  <2>1. \A i \in 1..Len(writing) : writing[i] \in Byte
    BY ElementOfSeq DEF TypeOK
  <2>2. /\ SubSeq(writing, 1, n) \in Seq(Byte)
        /\ Len(SubSeq(writing, 1, n)) = n
        /\ \A i \in 1..n : SubSeq(writing, 1, n)[i] = writing[i]
    BY <1>1, <2>1, SubSeqProperties
  <2>3. /\ SubSeq(writing, n + 1, Len(writing)) \in Seq(Byte)
        /\ Len(SubSeq(writing, n + 1, Len(writing))) = Len(writing) - n
        /\ \A i \in 1..Len(writing) - n : SubSeq(writing, n + 1, Len(writing))[i] = writing[n + i]
    <3>1. \A i \in n + 1..Len(writing) : writing[i] \in Byte
      BY <1>1, <2>1
    <3>2. QED
      BY <1>1, <3>1, SubSeqProperties
  <2>4. QED
    BY <2>2, <2>3
<1>3. /\ Len(stream') = Len(stream) + n
      /\ \A i \in 1..Len(stream) : stream'[i] = stream[i]
      /\ \A i \in 1..n : stream'[Len(stream) + i] = writing[i]
      /\ Len(writing') = Len(writing) - n
      /\ \A i \in 1..Len(writing') : writing'[i] = writing[n + i]
  <2>1. /\ Len(stream') = Len(stream) + n
        /\ \A i \in 1..Len(stream) + n : stream'[i] =
              IF i <= Len(stream) THEN stream[i] ELSE SubSeq(writing, 1, n)[i - Len(stream)]
    BY <1>2, ConcatProperties DEF WriteSome, TypeOK
  <2>2. ASSUME NEW i \in 1..n PROVE stream'[Len(stream) + i] = writing[i]
    <3>1. /\ Len(stream) + i \in 1..Len(stream) + n
          /\ ~ (Len(stream) + i <= Len(stream))
          /\ (Len(stream) + i) - Len(stream) = i
      BY <1>1
    <3>2. stream'[Len(stream) + i] = SubSeq(writing, 1, n)[i]
      BY <2>1, <3>1
    <3>3. QED
      BY <1>2, <3>2
  <2>3. QED
    BY <1>1, <1>2, <2>1, <2>2 DEF WriteSome
<1>4. ASSUME NEW j \in 1..Len(log) PROVE Placed(j)'
  BY <1>1, <1>3, LogEntry DEF LogInv, Placed
<1>5. ASSUME NEW j \in 1..Len(log), log[j].msg # Garbage PROVE Framed(j)'
  <2> DEFINE f == Frame(log[j].msg)
             at == log[j].from
  <2>1. Framed(j) /\ Placed(j) /\ at \in Nat /\ log[j].msg \in Messages
    BY <1>5, LogEntry DEF LogInv
  <2>2. Len(f) \in Nat
    BY <2>1, FrameProperties DEF Framed
  <2>3. ASSUME NEW i \in 1..Len(f), at + i <= Len(stream') PROVE stream'[at + i] = f[i]
    <3>1. CASE at + i <= Len(stream)
      <4>1. stream[at + i] = f[i]
        BY <2>1, <3>1 DEF Framed
      <4>2. at + i \in 1..Len(stream)
        BY <1>1, <2>1, <2>2, <3>1
      <4>3. QED
        BY <1>3, <4>1, <4>2
    <3>2. CASE at + i > Len(stream)
      <4>1. j = Len(log)
        <5>1. SUFFICES ASSUME j < Len(log) PROVE FALSE
          BY <1>1
        <5>2. log[j + 1].from = at + Len(f) /\ j + 1 \in 1..Len(log)
          BY <1>1, <2>1, <5>1 DEF Framed
        <5>3. log[j + 1].from <= Len(stream)
          BY <5>2 DEF LogInv, Placed
        <5>4. QED
          BY <1>1, <2>1, <2>2, <3>2, <5>2, <5>3
      <4>2. /\ at + Len(f) = Len(stream) + Len(writing)
            /\ \A k \in 1..Len(writing) : writing[k] = f[Len(f) - Len(writing) + k]
        BY <2>1, <4>1 DEF Framed
      <4>3. PICK k \in 1..n : at + i = Len(stream) + k
        <5>1. (at + i) - Len(stream) \in 1..n /\ at + i = Len(stream) + ((at + i) - Len(stream))
          BY <1>1, <1>3, <2>1, <2>2, <2>3, <3>2
        <5>2. QED
          BY <5>1
      <4>4. stream'[at + i] = f[(Len(f) - Len(writing)) + k]
        <5>1. stream'[Len(stream) + k] = writing[k] /\ k \in 1..Len(writing)
          BY <1>1, <1>3
        <5>2. QED
          BY <4>2, <4>3, <5>1
      <4>5. (Len(f) - Len(writing)) + k = i
        <5>1. i \in Nat /\ k \in Nat
          BY <1>1, <2>2
        <5>2. at + Len(f) = Len(stream) + Len(writing) /\ at + i = Len(stream) + k
          BY <4>2, <4>3
        <5>3. at \in Nat /\ Len(f) \in Nat /\ Len(stream) \in Nat /\ Len(writing) \in Nat
          BY <1>1, <2>1, <2>2
        <5> HIDE DEF f, at
        <5>4. QED
          BY <5>1, <5>2, <5>3, SameDistance
      <4>6. QED
        BY <4>4, <4>5
    <3>3. QED
      BY <1>1, <2>1, <2>2, <3>1, <3>2
  <2>4. ASSUME j = Len(log)
        PROVE  /\ at + Len(f) = Len(stream') + Len(writing')
               /\ \A i \in 1..Len(writing') : writing'[i] = f[Len(f) - Len(writing') + i]
    <3>1. /\ at + Len(f) = Len(stream) + Len(writing)
          /\ \A k \in 1..Len(writing) : writing[k] = f[Len(f) - Len(writing) + k]
      BY <2>1, <2>4 DEF Framed
    <3>2. at + Len(f) = Len(stream') + Len(writing')
      BY <1>1, <1>3, <2>1, <2>2, <3>1
    <3>3. ASSUME NEW i \in 1..Len(writing')
          PROVE  writing'[i] = f[Len(f) - Len(writing') + i]
      <4>1. writing'[i] = writing[n + i] /\ n + i \in 1..Len(writing) /\ i \in Nat
        BY <1>1, <1>3
      <4>2. Len(f) - Len(writing) + (n + i) = Len(f) - Len(writing') + i
        BY <1>1, <1>3, <2>2, <4>1
      <4>3. QED
        BY <3>1, <4>1, <4>2
    <3>4. QED
      BY <3>2, <3>3
  <2>5. QED
    BY <1>1, <2>1, <2>3, <2>4 DEF Framed
<1>6. QED
  BY <1>1, <1>4, <1>5 DEF LogInv

LEMMA LogNext == TypeOK /\ LogInv /\ [Next]_vars => LogInv'
<1> SUFFICES ASSUME TypeOK, LogInv, [Next]_vars PROVE LogInv'
  OBVIOUS
<1>1. ASSUME NEW m \in Messages, Begin(m) PROVE LogInv'
  <2> DEFINE e == [msg |-> m, from |-> Len(stream)]
  <2>1. /\ writing = <<>> /\ Fits(Len(ToWire[m])) /\ writing' = Frame(m)
        /\ log' = Append(log, e) /\ stream' = stream
    BY <1>1 DEF Begin, MayBegin
  <2>2. e \in [msg : Messages \cup {Garbage}, from : Nat] /\ e.from = Len(stream) /\ e.msg = m
    BY Lengths
  <2> HIDE DEF e
  <2>3. /\ Len(log') = Len(log) + 1
        /\ log'[Len(log) + 1] = e
        /\ \A j \in 1..Len(log) : log'[j] = log[j] /\ Placed(j)' /\ (log[j].msg # Garbage => Framed(j)')
        /\ log'[1].from = 0
    BY <2>1, <2>2, LogGrows
  <2>4. /\ Len(log) \in Nat /\ Len(stream) \in Nat
        /\ Len(Frame(m)) \in Nat
    BY <2>1, Lengths, FrameProperties
  <2>0. PICK p \in Nat : p = Len(log) + 1
    BY <2>4
  <2>5. Placed(p)' /\ Framed(p)'
    <3>1. Placed(p)'
      BY <2>0, <2>1, <2>2, <2>3, <2>4 DEF Placed
    <3>2. \A i \in 1..Len(Frame(m)) : ~ (e.from + i <= Len(stream'))
      BY <2>1, <2>2, <2>4
    <3>3. e.from + Len(Frame(m)) = Len(stream') + Len(writing')
      BY <2>1, <2>2, <2>4
    <3>4. \A i \in 1..Len(writing') : writing'[i] = Frame(m)[Len(Frame(m)) - Len(writing') + i]
      BY <2>1, <2>4
    <3>5. QED
      BY <2>0, <2>1, <2>2, <2>3, <2>4, <3>1, <3>2, <3>3, <3>4 DEF Framed
  <2>6. ASSUME NEW j \in 1..Len(log')
        PROVE  Placed(j)' /\ (log'[j].msg # Garbage => Framed(j)')
    <3>1. j \in 1..Len(log) \/ j = p
      BY <2>0, <2>3, <2>4
    <3>2. QED
      BY <2>0, <2>3, <2>5, <3>1
  <2>7. log' # <<>>
    BY <2>3, <2>4, EmptySeq
  <2>8. QED
    BY <2>3, <2>6, <2>7 DEF LogInv
<1>2. ASSUME NEW m \in Messages, Refuse(m) PROVE LogInv'
  BY <1>2 DEF Refuse, LogInv, Placed, Framed
<1>3. ASSUME NEW bytes \in Junk, BeginJunk(bytes) PROVE LogInv'
  <2> DEFINE e == [msg |-> Garbage, from |-> Len(stream)]
  <2>1. writing = <<>> /\ log' = Append(log, e) /\ stream' = stream
    BY <1>3 DEF BeginJunk, MayBegin
  <2>2. e \in [msg : Messages \cup {Garbage}, from : Nat] /\ e.from = Len(stream) /\ e.msg = Garbage
    BY Lengths
  <2> HIDE DEF e
  <2>3. /\ Len(log') = Len(log) + 1
        /\ log'[Len(log) + 1] = e
        /\ \A j \in 1..Len(log) : log'[j] = log[j] /\ Placed(j)' /\ (log[j].msg # Garbage => Framed(j)')
        /\ log'[1].from = 0
    BY <2>1, <2>2, LogGrows
  <2>4. Len(log) \in Nat /\ Len(stream) \in Nat
    BY Lengths
  <2>0. PICK p \in Nat : p = Len(log) + 1
    BY <2>4
  <2>5. Placed(p)'
    BY <2>0, <2>1, <2>2, <2>3, <2>4 DEF Placed
  <2>6. ASSUME NEW j \in 1..Len(log')
        PROVE  Placed(j)' /\ (log'[j].msg # Garbage => Framed(j)')
    <3>1. j \in 1..Len(log) \/ j = p
      BY <2>0, <2>3, <2>4
    <3>2. QED
      BY <2>0, <2>2, <2>3, <2>5, <3>1
  <2>7. log' # <<>>
    BY <2>3, <2>4, EmptySeq
  <2>8. QED
    BY <2>3, <2>6, <2>7 DEF LogInv
<1>4. ASSUME NEW n \in 1..Len(writing), WriteSome(n) PROVE LogInv'
  BY <1>4, LogWritten
<1>5. ASSUME UNCHANGED <<stream, writing, log>> PROVE LogInv'
  BY <1>5 DEF LogInv, Placed, Framed
<1>6. Close \/ Progress \/ ReadFails \/ UNCHANGED vars => UNCHANGED <<stream, writing, log>>
  BY DEF Close, Progress, ReadSome, ReadEnd, RejectLength, Return, RejectBody, ReadFails, vars, writerVars
<1>7. QED
  BY <1>1, <1>2, <1>3, <1>4, <1>5, <1>6 DEF Next, Write

-----------------------------------------------------------------------------
(* The reader *)

LEMMA OnlyGrow ==
    ASSUME TypeOK, [Next]_vars
    PROVE  /\ Len(log) <= Len(log')
           /\ \A j \in 1..Len(log) : log'[j] = log[j]
           /\ Len(received) <= Len(received')
           /\ Len(log) \in Nat /\ Len(log') \in Nat
           /\ Len(received) \in Nat /\ Len(received') \in Nat
<1>1. /\ Len(log) \in Nat /\ Len(log') \in Nat
      /\ Len(received) \in Nat /\ Len(received') \in Nat
  BY Lengths, TypeNext, LenProperties DEF TypeOK
<1>2. UNCHANGED log \/ \E e \in [msg : Messages \cup {Garbage}, from : Nat] : log' = Append(log, e)
  <2>1. ASSUME NEW m \in Messages, Begin(m)
        PROVE  \E e \in [msg : Messages \cup {Garbage}, from : Nat] : log' = Append(log, e)
    BY <2>1, Lengths DEF Begin
  <2>2. ASSUME NEW bytes \in Junk, BeginJunk(bytes)
        PROVE  \E e \in [msg : Messages \cup {Garbage}, from : Nat] : log' = Append(log, e)
    BY <2>2, Lengths DEF BeginJunk
  <2>3. QED
    BY <2>1, <2>2 DEF Next, Write, Refuse, WriteSome, Close, Progress, ReadSome, ReadEnd, RejectLength,
                      Return, RejectBody, ReadFails, vars, writerVars
<1>3. Len(log) <= Len(log') /\ \A j \in 1..Len(log) : log'[j] = log[j]
  <2>1. CASE UNCHANGED log
    BY <1>1, <2>1
  <2>2. CASE \E e \in [msg : Messages \cup {Garbage}, from : Nat] : log' = Append(log, e)
    BY <1>1, <2>2, AppendProperties DEF TypeOK
  <2>3. QED
    BY <1>2, <2>1, <2>2
<1>4. UNCHANGED received \/ Return
  BY DEF Next, Write, Begin, BeginJunk, Refuse, WriteSome, Close, Progress, ReadSome, ReadEnd,
         RejectLength, RejectBody, ReadFails, vars, readerVars
<1>5. Len(received) <= Len(received')
  <2>1. CASE Return
    <3>1. FromWire[Body] \in Messages
      BY <2>1, WireAssumption DEF Return
    <3>2. QED
      BY <1>1, <2>1, <3>1, AppendProperties DEF Return, TypeOK
  <2>2. QED
    BY <1>1, <1>4, <2>1
<1>6. QED
  BY <1>1, <1>3, <1>5

\* Once garbage is next, it stays so.
LEMMA StayInStep == ASSUME TypeOK, [Next]_vars, InStep' PROVE InStep
<1>1. ASSUME NEW j \in 1..Len(log), j <= Len(received) + 1 PROVE log[j].msg # Garbage
  <2>1. j \in 1..Len(log') /\ j <= Len(received') + 1 /\ log'[j] = log[j]
    BY <1>1, OnlyGrow
  <2>2. QED
    BY <2>1 DEF InStep
<1>2. QED
  BY <1>1 DEF InStep

LEMMA GotInit == Init => LogInv /\ GotInv /\ ReadInv
<1> SUFFICES ASSUME Init PROVE LogInv /\ GotInv /\ ReadInv
  OBVIOUS
<1>1. /\ stream = <<>> /\ writing = <<>> /\ log = <<>> /\ got = <<>> /\ received = <<>> /\ taken = 0
  BY DEF Init
<1>2. Len(<<>>) = 0
  BY EmptySeq
<1>3. QED
  BY <1>1, <1>2 DEF LogInv, GotInv, ReadInv, AtEnd

LEMMA Taken ==
    ASSUME NEW s \in Seq(Byte), NEW t \in Seq(Byte), NEW n \in Nat, Len(t) = n
    PROVE  /\ Len(s \o t) = Len(s) + n
           /\ \A i \in 1..Len(s) + n : (s \o t)[i] = IF i <= Len(s) THEN s[i] ELSE t[i - Len(s)]
<1>1. /\ Len(s \o t) = Len(s) + Len(t)
      /\ \A i \in 1..Len(s) + Len(t) : (s \o t)[i] = IF i <= Len(s) THEN s[i] ELSE t[i - Len(s)]
  BY ConcatProperties, Zenon
<1>2. QED
  BY <1>1

LEMMA GotNext == TypeOK /\ GotInv /\ [Next]_vars => GotInv'
<1> SUFFICES ASSUME TypeOK, GotInv, [Next]_vars PROVE GotInv'
  OBVIOUS
<1>0. /\ Len(got) \in Nat /\ taken \in Nat /\ Len(stream) \in Nat /\ taken <= Len(stream)
      /\ Len(got) <= taken
      /\ \A i \in 1..Len(got) : got[i] = stream[taken - Len(got) + i]
  BY Lengths DEF GotInv
<1>1. ASSUME NEW n \in 1..Len(writing), WriteSome(n) PROVE GotInv'
  <2>1. /\ SubSeq(writing, 1, n) \in Seq(Byte)
    <3>1. \A i \in 1..n : writing[i] \in Byte
      BY ElementOfSeq, Lengths DEF TypeOK
    <3>2. QED
      BY <3>1, Lengths, SubSeqProperties
  <2>2. \A i \in 1..Len(stream) : stream'[i] = stream[i]
    <3>1. \A i \in 1..Len(stream) + Len(SubSeq(writing, 1, n)) :
             stream'[i] = IF i <= Len(stream) THEN stream[i] ELSE SubSeq(writing, 1, n)[i - Len(stream)]
      BY <1>1, <2>1, ConcatProperties DEF WriteSome, TypeOK
    <3>2. QED
      BY <1>0, <2>1, <3>1, LenProperties
  <2>3. got' = got /\ taken' = taken
    BY <1>1 DEF WriteSome, readerVars
  <2>4. \A i \in 1..Len(got) : got[i] = stream'[taken - Len(got) + i]
    <3>1. \A i \in 1..Len(got) : taken - Len(got) + i \in 1..Len(stream)
      BY <1>0
    <3>2. QED
      BY <1>0, <2>2, <3>1
  <2>5. QED
    BY <1>0, <2>3, <2>4 DEF GotInv
<1>2. ASSUME NEW n \in 1..Wanted, ReadSome(n) PROVE GotInv'
  <2>1. /\ n \in Nat /\ n > 0 /\ taken + n <= Len(stream)
        /\ taken' = taken + n /\ stream' = stream
        /\ got' = got \o SubSeq(stream, taken + 1, taken + n)
    BY <1>0, <1>2 DEF ReadSome, writerVars
  <2>2. /\ SubSeq(stream, taken + 1, taken + n) \in Seq(Byte)
        /\ Len(SubSeq(stream, taken + 1, taken + n)) = n
        /\ \A i \in 1..n : SubSeq(stream, taken + 1, taken + n)[i] = stream[taken + i]
    <3>1. \A i \in taken + 1..taken + n : stream[i] \in Byte
      BY <1>0, <2>1, ElementOfSeq DEF TypeOK
    <3>2. QED
      BY <1>0, <2>1, <3>1, SubSeqProperties
  <2>3. /\ Len(got') = Len(got) + n
        /\ \A i \in 1..Len(got) + n : got'[i] =
              IF i <= Len(got) THEN got[i] ELSE SubSeq(stream, taken + 1, taken + n)[i - Len(got)]
    <3>1. got \in Seq(Byte)
      BY DEF TypeOK
    <3>2. QED
      BY <2>1, <2>2, <3>1, Taken
  <2>4. ASSUME NEW i \in 1..Len(got') PROVE got'[i] = stream'[taken' - Len(got') + i]
    <3>1. i \in Nat /\ taken' - Len(got') + i = taken - Len(got) + i
      BY <1>0, <2>1, <2>3
    <3>2. CASE i <= Len(got)
      <4>1. i \in 1..Len(got) /\ got'[i] = got[i]
        BY <1>0, <2>1, <2>3, <3>1, <3>2
      <4>2. QED
        BY <1>0, <2>1, <3>1, <4>1
    <3>3. CASE i > Len(got)
      <4>1. got'[i] = SubSeq(stream, taken + 1, taken + n)[i - Len(got)]
        BY <1>0, <2>1, <2>3, <3>1, <3>3
      <4>2. i - Len(got) \in 1..n /\ taken + (i - Len(got)) = taken - Len(got) + i
        BY <1>0, <2>1, <2>3, <3>1, <3>3
      <4>3. QED
        BY <2>1, <2>2, <3>1, <4>1, <4>2
    <3>4. QED
      BY <1>0, <3>1, <3>2, <3>3
  <2>5. QED
    BY <1>0, <2>1, <2>3, <2>4 DEF GotInv
<1>3. ASSUME Return PROVE GotInv'
  <2>1. got' = <<>> /\ taken' = taken /\ Len(<<>>) = 0
    BY <1>3, EmptySeq DEF Return, ResetBuffer
  <2>2. QED
    BY <1>0, <2>1 DEF GotInv
<1>4. ASSUME UNCHANGED <<stream, taken, got>> PROVE GotInv'
  BY <1>4 DEF GotInv
<1>5. QED
  BY <1>1, <1>2, <1>3, <1>4
  DEF Next, Write, Begin, BeginJunk, Refuse, Close, Progress, ReadEnd, RejectLength, RejectBody,
      ReadFails, vars, writerVars, readerVars

\* In step, the buffer is the beginning of the frame that follows what was received.
LEMMA GotFrame ==
    ASSUME IInv, InStep, NEW k \in Nat, k = Len(received) + 1, k <= Len(log)
    PROVE  /\ log[k].msg \in Messages
           /\ Framed(k)
           /\ InFrame(k)
           /\ \A i \in 1..Len(got) : got[i] = Frame(log[k].msg)[i]
           /\ InBody => Length(got) = Len(ToWire[log[k].msg])
<1>1. k \in 1..Len(log) /\ Len(received) < Len(log) /\ k <= Len(received) + 1
  BY Lengths DEF IInv
<1>2. log[k].msg # Garbage
  BY <1>1 DEF InStep
<1>3. /\ log[k].msg \in Messages /\ log[k].from \in Nat
      /\ Framed(k)
  BY <1>1, <1>2, LogEntry DEF IInv, LogInv
<1>4. InFrame(k)
  BY <1>1 DEF IInv, ReadInv
<1>5. /\ Len(got) \in Nat /\ taken \in Nat /\ taken <= Len(stream) /\ Len(stream) \in Nat
      /\ \A i \in 1..Len(got) : got[i] = stream[taken - Len(got) + i]
  BY Lengths DEF IInv, GotInv
<1> DEFINE f == Frame(log[k].msg)
<1>6. Len(f) \in Nat /\ Len(f) = 4 + Len(ToWire[log[k].msg]) /\ Length(f) = Len(ToWire[log[k].msg])
  BY <1>3, FrameProperties, LenProperties DEF Framed
<1>7. ASSUME NEW i \in 1..Len(got) PROVE got[i] = f[i]
  <2>1. /\ i \in 1..Len(f)
        /\ log[k].from + i <= Len(stream)
        /\ taken - Len(got) + i = log[k].from + i
    BY <1>3, <1>4, <1>5, <1>6 DEF InFrame
  <2>2. stream[log[k].from + i] = f[i]
    BY <1>3, <2>1 DEF Framed
  <2>3. QED
    BY <1>5, <2>1, <2>2
<1>8. InBody => Length(got) = Length(f)
  <2>1. SUFFICES ASSUME InBody PROVE Length(got) = Length(f)
    OBVIOUS
  <2>2. 1 \in 1..Len(got) /\ 2 \in 1..Len(got) /\ 3 \in 1..Len(got) /\ 4 \in 1..Len(got)
    BY <1>5, <2>1 DEF InBody, HeaderBytes
  <2>3. got[1] = f[1] /\ got[2] = f[2] /\ got[3] = f[3] /\ got[4] = f[4]
    BY <1>7, <2>2
  <2>4. QED
    BY <2>3 DEF Length
<1>9. QED
  BY <1>3, <1>4, <1>6, <1>7, <1>8

\* Nobody wrote garbage so far: a reader that is in step has nothing invalid before it.
LEMMA BodyIsMessage ==
    ASSUME IInv, InStep, BodyComplete
    PROVE  /\ Len(received) + 1 \in 1..Len(log)
           /\ Body = ToWire[log[Len(received) + 1].msg]
           /\ Len(got) = Len(Frame(log[Len(received) + 1].msg))
           /\ log[Len(received) + 1].msg \in Messages
<1>1. /\ Len(got) \in Nat /\ Len(got) > 0 /\ Len(received) \in Nat /\ Len(log) \in Nat
      /\ got # <<>> /\ Len(got) = 4 + Length(got)
  BY Lengths, EmptySeq DEF IInv, BodyComplete, InBody, HeaderBytes
<1>2. Len(received) + 1 \in 1..Len(log)
  BY <1>1 DEF IInv, ReadInv, AtEnd
<1>3. PICK k \in Nat : k = Len(received) + 1
  BY <1>1
<1>4. /\ log[k].msg \in Messages
      /\ Framed(k)
      /\ \A i \in 1..Len(got) : got[i] = Frame(log[k].msg)[i]
      /\ Length(got) = Len(ToWire[log[k].msg])
  BY <1>1, <1>2, <1>3, GotFrame DEF BodyComplete
<1> DEFINE w == ToWire[log[k].msg]
<1>5. /\ w \in Seq(Byte) /\ Len(w) \in Nat
      /\ Len(Frame(log[k].msg)) = 4 + Len(w)
      /\ \A i \in 1..Len(w) : Frame(log[k].msg)[4 + i] = w[i]
  BY <1>4, FrameProperties, LenProperties DEF Framed
<1>6. /\ Body \in Seq(Byte)
      /\ Len(Body) = Len(w)
      /\ \A i \in 1..Len(w) : Body[i] = got[4 + i]
  <2>1. \A i \in 5..Len(got) : got[i] \in Byte
    BY <1>1, ElementOfSeq DEF IInv, TypeOK
  <2>2. Len(got) = 4 + Len(w) /\ HeaderBytes + 1 = 5
    BY <1>1, <1>4 DEF HeaderBytes
  <2>3. /\ SubSeq(got, 5, Len(got)) \in Seq(Byte)
        /\ Len(SubSeq(got, 5, Len(got))) = Len(w)
        /\ \A i \in 1..Len(w) : SubSeq(got, 5, Len(got))[i] = got[4 + i]
    BY <1>1, <1>5, <2>1, <2>2, SubSeqProperties
  <2>4. QED
    BY <2>2, <2>3 DEF Body
<1>7. \A i \in 1..Len(w) : Body[i] = w[i]
  <2>1. ASSUME NEW i \in 1..Len(w) PROVE Body[i] = w[i]
    <3>1. 4 + i \in 1..Len(got)
      BY <1>1, <1>4, <1>5
    <3>2. QED
      BY <1>4, <1>5, <1>6, <3>1
  <2>2. QED
    BY <2>1
<1>8. Body = w
  BY <1>5, <1>6, <1>7, SeqEqual
<1>9. QED
  BY <1>1, <1>2, <1>3, <1>4, <1>5, <1>8

\* A frame begun: the reader that had everything stands before it.
LEMMA ReadBegin ==
    ASSUME IInv, writing = <<>>,
           NEW e \in [msg : Messages \cup {Garbage}, from : Nat], e.from = Len(stream),
           e.msg # Garbage => Fits(Len(ToWire[e.msg])),
           log' = Append(log, e), UNCHANGED <<stream, readerVars>>
    PROVE  ReadInv'
<1> SUFFICES ASSUME InStep' 
             PROVE  /\ Len(received) <= Len(log')
                    /\ \A k \in 1..Len(received) : received[k] = log'[k].msg
                    /\ Len(received) # Len(log')
                    /\ Len(received) < Len(log') => InFrame(Len(received) + 1)'
  BY DEF ReadInv, readerVars
<1>1. /\ Len(log) \in Nat /\ Len(received) \in Nat /\ Len(stream) \in Nat
  BY Lengths DEF IInv
<1>2. /\ Len(log') = Len(log) + 1
      /\ log'[Len(log) + 1] = e
      /\ \A j \in 1..Len(log) : log'[j] = log[j]
  BY AppendProperties DEF IInv, TypeOK
<1>3. InStep
  <2>1. ASSUME NEW j \in 1..Len(log), j <= Len(received) + 1 PROVE log[j].msg # Garbage
    BY <1>1, <1>2, <2>1 DEF InStep, readerVars
  <2>2. QED
    BY <2>1 DEF InStep
<1>4. /\ Len(received) <= Len(log)
      /\ \A k \in 1..Len(received) : received[k] = log[k].msg
      /\ Len(received) = Len(log) => AtEnd
      /\ Len(received) < Len(log) => InFrame(Len(received) + 1)
  BY <1>3 DEF IInv, ReadInv
<1>5. PICK p \in Nat : p = Len(received) + 1
  BY <1>1
<1>6. InFrame(p)'
  <2>1. CASE Len(received) < Len(log)
    <3>1. InFrame(p) /\ log'[p] = log[p]
      BY <1>1, <1>2, <1>4, <1>5, <2>1
    <3>2. QED
      BY <3>1 DEF InFrame, readerVars
  <2>2. CASE Len(received) = Len(log)
    <3>1. taken = Len(stream) /\ Len(got) = 0 /\ log'[p] = e
      BY <1>2, <1>4, <1>5, <2>2, EmptySeq DEF AtEnd
    <3>2. e.msg # Garbage
      BY <1>1, <1>2, <1>5, <2>2, <3>1 DEF InStep, readerVars
    <3>3. Len(Frame(e.msg)) \in Nat
      BY <3>2, FrameProperties, LenProperties
    <3>4. QED
      BY <1>1, <3>1, <3>3 DEF InFrame, readerVars
  <2>3. QED
    BY <1>1, <1>4, <2>1, <2>2
<1>7. QED
  BY <1>1, <1>2, <1>4, <1>5, <1>6 DEF readerVars

\* Bytes taken never reach beyond the frame.
LEMMA ReadTakes ==
    ASSUME IInv, NEW n \in 1..Wanted, ReadSome(n)
    PROVE  ReadInv'
<1> SUFFICES ASSUME InStep
             PROVE  /\ Len(received) <= Len(log)
                    /\ \A k \in 1..Len(received) : received[k] = log[k].msg
                    /\ Len(received) # Len(log)
                    /\ Len(received) < Len(log) => InFrame(Len(received) + 1)'
  BY DEF ReadInv, InStep, ReadSome, writerVars
<1>1. /\ Len(log) \in Nat /\ Len(received) \in Nat /\ Len(stream) \in Nat /\ Len(got) \in Nat
      /\ taken \in Nat
      /\ got = <<>> <=> Len(got) = 0
  BY Lengths DEF IInv
<1>2. /\ Len(received) <= Len(log)
      /\ \A k \in 1..Len(received) : received[k] = log[k].msg
      /\ Len(received) = Len(log) => AtEnd
  BY DEF IInv, ReadInv
<1>3. n \in Int /\ n >= 1 /\ n <= Wanted /\ n <= Len(stream) - taken
  BY DEF ReadSome
<1>4. Len(received) < Len(log)
  BY <1>1, <1>2, <1>3 DEF AtEnd
<1>5. PICK k \in Nat : k = Len(received) + 1
  BY <1>1
<1>6. /\ log[k].msg \in Messages /\ Framed(k) /\ InFrame(k)
      /\ InBody => Length(got) = Len(ToWire[log[k].msg])
  BY <1>1, <1>4, <1>5, GotFrame
<1> DEFINE f == Len(Frame(log[k].msg))
           w == Len(ToWire[log[k].msg])
<1>7. w \in Nat /\ f = 4 + w
  BY <1>6, FrameProperties DEF Framed
<1>8. Len(got) + n <= f
  <2> HIDE DEF f, w
  <2>1. CASE got = <<>>
    BY <1>1, <1>3, <1>7, <2>1 DEF Wanted
  <2>2. CASE got # <<>> /\ ~ InBody
    BY <1>1, <1>3, <1>7, <2>2 DEF Wanted, HeaderBytes
  <2>3. CASE got # <<>> /\ InBody
    <3>1. Length(got) = w
      BY <1>6, <2>3 DEF w
    <3>2. QED
      BY <1>1, <1>3, <1>7, <2>3, <3>1 DEF Wanted, HeaderBytes
  <2>4. QED
    BY <2>1, <2>2, <2>3
<1>9. Len(got') = Len(got) + n /\ taken' = taken + n /\ log' = log
  <2>1. \A i \in taken + 1..taken + n : stream[i] \in Byte
    BY <1>1, <1>3, ElementOfSeq DEF IInv, TypeOK
  <2>2. /\ SubSeq(stream, taken + 1, taken + n) \in Seq(Byte)
        /\ Len(SubSeq(stream, taken + 1, taken + n)) = n
    BY <1>1, <1>3, <2>1, SubSeqProperties
  <2>3. got \in Seq(Byte) /\ n \in Nat
    BY <1>3 DEF IInv, TypeOK
  <2>4. QED
    BY <2>2, <2>3, Taken DEF ReadSome, writerVars
<1>10. InFrame(k)'
  <2>1. log[k].from \in Nat
    BY <1>1, <1>4, <1>5, LogEntry DEF IInv
  <2>2. QED
    BY <1>1, <1>3, <1>6, <1>8, <1>9, <2>1 DEF InFrame
<1>11. QED
  BY <1>1, <1>2, <1>4, <1>5, <1>10 DEF ReadSome

\* A message returned is the next of the log, and the reader stands behind its frame.
LEMMA ReadReturns ==
    ASSUME IInv, Return
    PROVE  ReadInv'
<1> SUFFICES ASSUME InStep'
             PROVE  /\ Len(received') <= Len(log)
                    /\ \A k \in 1..Len(received') : received'[k] = log[k].msg
                    /\ Len(received') = Len(log) => AtEnd'
                    /\ Len(received') < Len(log) => InFrame(Len(received) + 1)'
  BY DEF ReadInv, Return, writerVars
<1>1. /\ Len(log) \in Nat /\ Len(received) \in Nat /\ Len(stream) \in Nat /\ Len(got) \in Nat
      /\ Len(writing) \in Nat /\ (writing = <<>> <=> Len(writing) = 0)
      /\ taken \in Nat /\ taken <= Len(stream)
  BY Lengths DEF IInv
<1>2. InStep
  BY StayInStep DEF IInv, Next, Progress
<1>3. PICK k \in Nat : k = Len(received) + 1
  BY <1>1
<1>4. /\ k \in 1..Len(log)
      /\ log[k].msg \in Messages
      /\ Body = ToWire[log[k].msg]
      /\ Len(got) = Len(Frame(log[k].msg))
  BY <1>2, <1>3, BodyIsMessage DEF Return
<1>5. Framed(k) /\ InFrame(k) /\ log[k].from \in Nat
  BY <1>2, <1>3, <1>4, GotFrame, LogEntry DEF IInv
<1>6. FromWire[Body] = log[k].msg
  BY <1>4, WireAssumption
<1>7. /\ Len(received') = k
      /\ received'[k] = log[k].msg
      /\ \A j \in 1..Len(received) : received'[j] = received[j]
      /\ got' = <<>> /\ Len(got') = 0 /\ taken' = taken /\ log' = log /\ stream' = stream /\ writing' = writing
  BY <1>3, <1>4, <1>6, AppendProperties, EmptySeq DEF Return, ResetBuffer, writerVars, IInv, TypeOK
<1>8. \A j \in 1..Len(received') : received'[j] = log[j].msg
  <2>1. \A j \in 1..Len(received) : received[j] = log[j].msg
    BY <1>2 DEF IInv, ReadInv
  <2>2. ASSUME NEW j \in 1..Len(received') PROVE received'[j] = log[j].msg
    <3>1. j = k \/ j \in 1..Len(received)
      BY <1>1, <1>3, <1>7
    <3>2. QED
      BY <1>7, <2>1, <3>1
  <2>3. QED
    BY <2>2
<1>9. taken = log[k].from + Len(got)
  BY <1>5 DEF InFrame
<1>10. ASSUME k = Len(log) PROVE AtEnd'
  <2>1. log[k].from + Len(got) = Len(stream) + Len(writing)
    BY <1>4, <1>5, <1>10 DEF Framed
  <2>2. taken = Len(stream) /\ writing = <<>>
    BY <1>1, <1>9, <2>1
  <2>3. QED
    BY <1>7, <2>2 DEF AtEnd
<1>11. ASSUME k < Len(log) PROVE InFrame(Len(received) + 1)'
  <2>1. PICK p \in Nat : p = k + 1
    OBVIOUS
  <2>2. log[p].from = taken
    BY <1>4, <1>5, <1>9, <1>11, <2>1 DEF Framed
  <2>3. p \in 1..Len(log) /\ p = Len(received') + 1
    BY <1>1, <1>7, <1>11, <2>1
  <2>4. log[p].msg # Garbage
    BY <1>7, <2>1, <2>3 DEF InStep
  <2>5. Len(Frame(log[p].msg)) \in Nat
    BY <2>3, <2>4, LogEntry, FrameProperties, LenProperties DEF IInv, LogInv, Framed
  <2>6. InFrame(p)'
    BY <1>1, <1>7, <2>2, <2>5 DEF InFrame
  <2>7. QED
    BY <2>3, <2>6
<1>12. QED
  BY <1>1, <1>4, <1>7, <1>8, <1>10, <1>11

LEMMA ReadNext == IInv /\ [Next]_vars => ReadInv'
<1> SUFFICES ASSUME IInv, [Next]_vars PROVE ReadInv'
  OBVIOUS
<1>1. ASSUME NEW m \in Messages, Begin(m) PROVE ReadInv'
  <2> DEFINE e == [msg |-> m, from |-> Len(stream)]
  <2>1. /\ writing = <<>> /\ Fits(Len(ToWire[m]))
        /\ log' = Append(log, e) /\ UNCHANGED <<stream, readerVars>>
    BY <1>1 DEF Begin, MayBegin
  <2>2. e \in [msg : Messages \cup {Garbage}, from : Nat] /\ e.from = Len(stream) /\ e.msg = m
    BY Lengths DEF IInv
  <2> HIDE DEF e
  <2>3. QED
    BY <2>1, <2>2, ReadBegin
<1>2. ASSUME NEW bytes \in Junk, BeginJunk(bytes) PROVE ReadInv'
  <2> DEFINE e == [msg |-> Garbage, from |-> Len(stream)]
  <2>1. writing = <<>> /\ log' = Append(log, e) /\ UNCHANGED <<stream, readerVars>>
    BY <1>2 DEF BeginJunk, MayBegin
  <2>2. e \in [msg : Messages \cup {Garbage}, from : Nat] /\ e.from = Len(stream) /\ e.msg = Garbage
    BY Lengths DEF IInv
  <2> HIDE DEF e
  <2>3. QED
    BY <2>1, <2>2, ReadBegin
<1>3. ASSUME NEW n \in 1..Len(writing), WriteSome(n) PROVE ReadInv'
  <2>1. writing # <<>> /\ UNCHANGED <<log, received, got, taken>>
    BY <1>3, EmptySeq, Lengths DEF WriteSome, readerVars, IInv
  <2>2. InStep' => InStep
    BY <2>1 DEF InStep
  <2>3. QED
    BY <2>1, <2>2, Lengths DEF IInv, ReadInv, AtEnd, InFrame
<1>4. ASSUME NEW n \in 1..Wanted, ReadSome(n) PROVE ReadInv'
  BY <1>4, ReadTakes
<1>5. ASSUME Return PROVE ReadInv'
  BY <1>5, ReadReturns
<1>6. ASSUME UNCHANGED <<stream, writing, log, taken, got, received>> PROVE ReadInv'
  BY <1>6 DEF IInv, ReadInv, InStep, AtEnd, InFrame
<1>7. QED
  BY <1>1, <1>2, <1>3, <1>4, <1>5, <1>6
  DEF Next, Write, Refuse, Close, Progress, ReadEnd, RejectLength, RejectBody,
      ReadFails, vars, writerVars, readerVars

LEMMA Inductive == Spec => []IInv
<1>1. Init => IInv
  BY TypeInit, GotInit DEF IInv
<1>2. IInv /\ [Next]_vars => IInv'
  BY TypeNext, LogNext, GotNext, ReadNext DEF IInv
<1>3. QED
  BY <1>1, <1>2, PTL DEF Spec

(* What the reader returns is what the writer wrote, in order, for any     *)
(* messages, any encoding with an inverse and any cutting into chunks.     *)
THEOREM FramesDelivered == Spec => []Delivered
<1>1. IInv => Delivered
  BY DEF IInv, ReadInv, Delivered
<1>2. QED
  BY <1>1, Inductive, PTL

-----------------------------------------------------------------------------
(* The verdict *)

\* Where the bytes end, the buffer tells how the writer ended.
LEMMA AtTheEnd ==
    ASSUME IInv, InStep, Wanted > 0, taken = Len(stream)
    PROVE  /\ Len(received) = Whole
           /\ MidFrame <=> got # <<>>
<1>1. /\ Len(log) \in Nat /\ Len(received) \in Nat /\ Len(stream) \in Nat /\ Len(got) \in Nat
      /\ Len(writing) \in Nat
      /\ got = <<>> <=> Len(got) = 0
      /\ writing = <<>> <=> Len(writing) = 0
  BY Lengths DEF IInv
<1>2. /\ Len(received) <= Len(log)
      /\ Len(received) = Len(log) => AtEnd
  BY DEF IInv, ReadInv
<1>3. CASE Len(received) = Len(log)
  BY <1>1, <1>2, <1>3 DEF AtEnd, Whole, MidFrame
<1>4. CASE Len(received) < Len(log)
  <2>1. PICK k \in Nat : k = Len(received) + 1
    BY <1>1
  <2>2. /\ log[k].msg \in Messages /\ Framed(k) /\ InFrame(k)
        /\ InBody => Length(got) = Len(ToWire[log[k].msg])
    BY <1>1, <1>4, <2>1, GotFrame
  <2>3. k \in 1..Len(log) /\ log[k].from \in Nat /\ log[k].msg # Garbage
    BY <1>1, <1>4, <2>1, <2>2, LogEntry, WireAssumption DEF IInv
  <2> DEFINE f == Len(Frame(log[k].msg))
             w == Len(ToWire[log[k].msg])
             at == log[k].from
  <2>4. w \in Nat /\ f = 4 + w
    BY <2>2, FrameProperties DEF Framed
  <2>5. at + Len(got) = Len(stream) /\ (k < Len(log) => log[k + 1].from = at + f)
        /\ (k = Len(log) => at + f = Len(stream) + Len(writing))
    BY <2>2 DEF InFrame, Framed
  <2>6. k < Len(log) => log[k + 1].from <= Len(stream)
    BY <1>1, <2>1 DEF IInv, LogInv, Placed
  <2>7. InBody => Length(got) = w
    BY <2>2
  <2>8. Len(got) < f
    <3> HIDE DEF f, w, at
    <3>1. CASE InBody
      <4>1. Length(got) = w /\ got # <<>>
        BY <1>1, <2>7, <3>1 DEF InBody, HeaderBytes
      <4>2. Wanted = IF Fits(w) THEN 4 + w - Len(got) ELSE 0
        BY <3>1, <4>1 DEF Wanted, HeaderBytes
      <4>3. QED
        BY <1>1, <2>4, <4>2
    <3>2. CASE ~ InBody
      BY <1>1, <2>4, <3>2 DEF InBody, HeaderBytes
    <3>3. QED
      BY <3>1, <3>2
  <2>9. k = Len(log) /\ Len(writing) > 0
    <3>1. at \in Nat
      BY <2>3
    <3> HIDE DEF f, w, at
    <3>2. QED
      BY <1>1, <2>3, <2>4, <2>5, <2>6, <2>8, <3>1
  <2>10. Whole = k - 1
    BY <1>1, <2>3, <2>9 DEF Whole
  <2>11. MidFrame <=> at < Len(stream)
    BY <1>1, <2>9 DEF MidFrame
  <2>12. QED
    BY <1>1, <2>1, <2>3, <2>5, <2>10, <2>11
<1>5. QED
  BY <1>1, <1>2, <1>3, <1>4

\* The length and the body of a frame of write_frame are accepted.
LEMMA NeverInvalid ==
    ASSUME IInv, InStep
    PROVE  ~ RejectLength /\ ~ RejectBody
<1>1. ~ RejectBody
  <2>1. SUFFICES ASSUME BodyComplete PROVE Body \in DOMAIN FromWire
    BY DEF RejectBody
  <2>2. QED
    BY <2>1, BodyIsMessage, WireAssumption
<1>2. ~ RejectLength
  <2>1. SUFFICES ASSUME InBody PROVE Fits(Length(got))
    BY DEF RejectLength
  <2>2. /\ Len(log) \in Nat /\ Len(received) \in Nat /\ Len(got) \in Nat
        /\ got # <<>>
    BY <2>1, Lengths DEF IInv, InBody, HeaderBytes
  <2>3. Len(received) < Len(log)
    BY <2>2 DEF IInv, ReadInv, AtEnd
  <2>4. PICK k \in Nat : k = Len(received) + 1
    BY <2>2
  <2>5. Framed(k) /\ Length(got) = Len(ToWire[log[k].msg])
    BY <2>1, <2>2, <2>3, <2>4, GotFrame
  <2>6. QED
    BY <2>5 DEF Framed
<1>3. QED
  BY <1>1, <1>2

LEMMA VerdictInit == Init => VerdictIsRight
  BY DEF Init, VerdictIsRight

LEMMA VerdictNext == IInv /\ VerdictIsRight /\ [Next]_vars => VerdictIsRight'
<1> SUFFICES ASSUME IInv, VerdictIsRight, [Next]_vars, InStep'
             PROVE  /\ reader' = "ended" => closed' /\ Len(received') = Whole' /\ ~ MidFrame'
                    /\ reader' = "truncated" => closed' /\ Len(received') = Whole' /\ MidFrame'
                    /\ reader' # "invalid"
  BY DEF VerdictIsRight
<1>1. InStep
  BY StayInStep DEF IInv
<1>2. /\ reader = "ended" => closed /\ Len(received) = Whole /\ ~ MidFrame
      /\ reader = "truncated" => closed /\ Len(received) = Whole /\ MidFrame
      /\ reader # "invalid"
  BY <1>1 DEF VerdictIsRight
<1>3. ASSUME reader' = reader PROVE UNCHANGED vars \/ reader' = "reading" \/ (reader' = "failed")
             \/ ~ closed
  BY <1>3 DEF Next, Write, Begin, BeginJunk, Refuse, MayBegin, WriteSome, Close, Progress, ReadSome,
              ReadEnd, RejectLength, Return, RejectBody, ReadFails, IInv, TypeOK
<1>4. ASSUME reader' = reader
      PROVE  /\ reader' = "ended" => closed' /\ Len(received') = Whole' /\ ~ MidFrame'
             /\ reader' = "truncated" => closed' /\ Len(received') = Whole' /\ MidFrame'
             /\ reader' # "invalid"
  <2>1. CASE UNCHANGED vars
    BY <1>2, <2>1 DEF vars, writerVars, readerVars, Whole, MidFrame
  <2>2. QED
    BY <1>2, <1>3, <1>4, <2>1
<1>5. ASSUME ReadEnd
      PROVE  /\ reader' = "ended" => closed' /\ Len(received') = Whole' /\ ~ MidFrame'
             /\ reader' = "truncated" => closed' /\ Len(received') = Whole' /\ MidFrame'
             /\ reader' # "invalid"
  <2>1. Len(received) = Whole /\ (MidFrame <=> got # <<>>)
    BY <1>1, <1>5, AtTheEnd DEF ReadEnd
  <2>2. /\ closed' = closed /\ closed
        /\ received' = received /\ Whole' = Whole /\ MidFrame' = MidFrame
    BY <1>5 DEF ReadEnd, writerVars, Whole, MidFrame
  <2>3. reader' = IF got = <<>> THEN "ended" ELSE "truncated"
    BY <1>5 DEF ReadEnd, VerdictAtEnd
  <2>4. QED
    BY <2>1, <2>2, <2>3
<1>6. ASSUME ReadFails PROVE reader' = "failed"
  BY <1>6 DEF ReadFails
<1>7. reader' = reader \/ ReadEnd \/ ReadFails
  BY <1>1, NeverInvalid
  DEF Next, Write, Begin, BeginJunk, Refuse, WriteSome, Close, Progress, ReadSome, Return,
      vars, readerVars
<1>8. QED
  BY <1>4, <1>5, <1>6, <1>7

(* What the reader is told of the end is true, wherever the writer died    *)
(* and whatever a frame holds; a frame of write_frame is never invalid.    *)
THEOREM VerdictsRight == Spec => []VerdictIsRight
  BY VerdictInit, VerdictNext, Inductive, PTL DEF Spec

-----------------------------------------------------------------------------
(* The refinement *)

LEMMA IsAppend ==
    ASSUME NEW S, NEW s \in Seq(S), NEW e \in S, NEW t \in Seq(S),
           Len(t) = Len(s) + 1,
           \A j \in 1..Len(s) : t[j] = s[j],
           t[Len(s) + 1] = e
    PROVE  t = Append(s, e)
<1>1. /\ Append(s, e) \in Seq(S)
      /\ Len(Append(s, e)) = Len(s) + 1
      /\ \A j \in 1..Len(s) : Append(s, e)[j] = s[j]
      /\ Append(s, e)[Len(s) + 1] = e
      /\ Len(s) \in Nat
  BY AppendProperties, LenProperties
<1>2. \A j \in 1..Len(t) : t[j] = Append(s, e)[j]
  BY <1>1
<1>3. QED
  BY <1>1, <1>2, SeqEqual

LEMMA SentProperties ==
    ASSUME TypeOK, LogInv
    PROVE  /\ Whole \in Nat /\ Whole <= Len(log)
           /\ Sent \in Seq(Messages \cup {Garbage})
           /\ Len(Sent) = Whole
           /\ \A j \in 1..Whole : Sent[j] = log[j].msg
<1>1. Whole \in Nat /\ Whole <= Len(log)
  BY Lengths DEF LogInv, Whole
<1>2. \A j \in 1..Whole : log[j].msg \in Messages \cup {Garbage}
  BY <1>1, LogEntry, Lengths
<1>3. Sent \in [1..Whole -> Messages \cup {Garbage}]
  BY <1>2 DEF Sent
<1>4. Sent \in Seq(Messages \cup {Garbage})
  BY <1>1, <1>3, SeqDef
<1>5. Len(Sent) = Whole
  BY <1>1, <1>3, <1>4, LenProperties
<1>6. QED
  BY <1>1, <1>3, <1>4, <1>5 DEF Sent

\* The same of the state after a step.
SentFacts ==
    /\ Whole \in Nat /\ Whole <= Len(log)
    /\ Sent \in Seq(Messages \cup {Garbage})
    /\ Len(Sent) = Whole
    /\ \A j \in 1..Whole : Sent[j] = log[j].msg

LEMMA SentNext == TypeOK' /\ LogInv' => SentFacts'
<1>1. TypeOK /\ LogInv => SentFacts
  BY SentProperties DEF SentFacts
<1>2. QED
  BY <1>1, PTL

\* The frame being written is not garbage, so both ends agree on who is in step.
LEMMA SameStep == ASSUME TypeOK, LogInv PROVE Channel!InStep <=> InStep
<1>1. /\ Len(log) \in Nat /\ Whole \in Nat /\ Whole <= Len(log)
      /\ Len(Sent) = Whole
      /\ \A j \in 1..Whole : Sent[j] = log[j].msg
  BY SentProperties, Lengths
<1>2. \A j \in 1..Len(log) : j > Whole => log[j].msg # Garbage
  BY <1>1 DEF Whole
<1>3. ASSUME InStep PROVE Channel!InStep
  BY <1>1, <1>3 DEF InStep, Channel!InStep
<1>4. ASSUME Channel!InStep PROVE InStep
  <2>1. ASSUME NEW j \in 1..Len(log), j <= Len(received) + 1 PROVE log[j].msg # Garbage
    <3>1. CASE j > Whole
      BY <1>2, <3>1
    <3>2. CASE j <= Whole
      BY <1>1, <1>4, <2>1, <3>2 DEF Channel!InStep
    <3>3. QED
      BY <1>1, <3>1, <3>2
  <2>2. QED
    BY <2>1 DEF InStep
<1>5. QED
  BY <1>3, <1>4

\* A step that leaves the log and the reader alone sends nothing, or the message it ends.
LEMMA WriteMaps == ASSUME IInv, NEW n \in 1..Len(writing), WriteSome(n)
                   PROVE  (\E m \in Messages \cup {Garbage} : Channel!Send(m)) \/ UNCHANGED Channel!vars
<1>1. /\ Len(log) \in Nat /\ Len(log) > 0 /\ writing # <<>> /\ ~ closed /\ ~ closed' /\ log' = log
  BY Lengths DEF IInv, LogInv, WriteSome
<1>2. /\ Whole \in Nat /\ Len(Sent) = Whole /\ Sent \in Seq(Messages \cup {Garbage})
      /\ \A j \in 1..Whole : Sent[j] = log[j].msg
  BY SentProperties DEF IInv
<1>3. /\ Whole' \in Nat /\ Len(Sent') = Whole' /\ Sent' \in Seq(Messages \cup {Garbage})
      /\ \A j \in 1..Whole' : Sent'[j] = log[j].msg
  <2>1. TypeOK' /\ LogInv'
    BY TypeNext, LogNext DEF IInv, Next, Write
  <2>2. /\ Whole' \in Nat /\ Len(Sent') = Whole' /\ Sent' \in Seq(Messages \cup {Garbage})
        /\ \A j \in 1..Whole' : Sent'[j] = log'[j].msg
    BY <2>1, SentNext DEF SentFacts
  <2>3. QED
    BY <1>1, <2>2
<1>4. received' = received /\ reader' = reader
  BY DEF WriteSome, readerVars
<1>5. CASE Whole' = Whole
  <2>1. Sent' = Sent
    BY <1>1, <1>5 DEF Sent
  <2>2. QED
    BY <1>1, <1>4, <2>1 DEF Channel!vars
<1>6. CASE Whole' # Whole
  <2>1. Whole' = Whole + 1 /\ Whole' = Len(log)
    BY <1>1, <1>6 DEF Whole
  <2>2. PICK m \in Messages \cup {Garbage} : m = log[Len(log)].msg
    BY <1>1, LogEntry DEF IInv
  <2>3. Sent' = Append(Sent, m)
    <3>1. \A j \in 1..Len(Sent) : Sent'[j] = Sent[j]
      BY <1>2, <1>3, <2>1
    <3>2. Sent'[Len(Sent) + 1] = m
      BY <1>1, <1>2, <1>3, <2>1, <2>2
    <3>3. QED
      BY <1>2, <1>3, <2>1, <3>1, <3>2, IsAppend
  <2>4. QED
    BY <1>1, <1>4, <2>3 DEF Channel!Send
<1>7. QED
  BY <1>5, <1>6

LEMMA ReturnMaps == ASSUME IInv, Return PROVE Channel!Receive \/ Channel!ReceiveGarbage
<1>1. /\ reader = "reading" /\ UNCHANGED <<writerVars, reader>>
      /\ received' = Append(received, FromWire[Body])
      /\ FromWire[Body] \in Messages
  BY WireAssumption DEF Return
<1>2. UNCHANGED <<Sent, closed, MidFrame>>
  BY <1>1 DEF writerVars, Sent, Whole, MidFrame
<1>3. CASE ~ InStep
  <2>1. ~ Channel!InStep
    BY <1>3, SameStep DEF IInv
  <2>2. QED
    BY <1>1, <1>2, <2>1 DEF Channel!ReceiveGarbage
<1>4. CASE InStep
  <2>1. Channel!InStep
    BY <1>4, SameStep DEF IInv
  <2>2. /\ Len(log) \in Nat /\ Len(received) \in Nat /\ Len(stream) \in Nat /\ Len(got) \in Nat
        /\ Len(writing) \in Nat /\ (writing = <<>> <=> Len(writing) = 0)
        /\ taken \in Nat /\ taken <= Len(stream)
    BY Lengths DEF IInv
  <2>3. PICK k \in Nat : k = Len(received) + 1
    BY <2>2
  <2>4. /\ k \in 1..Len(log)
        /\ log[k].msg \in Messages
        /\ Body = ToWire[log[k].msg]
        /\ Len(got) = Len(Frame(log[k].msg))
    BY <1>4, <2>3, BodyIsMessage DEF Return
  <2>5. Framed(k) /\ InFrame(k)
    BY <1>4, <2>3, <2>4, GotFrame
  <2>6. FromWire[Body] = log[k].msg
    BY <2>4, WireAssumption
  <2>7. k = Len(log) => writing = <<>>
    <3>1. k = Len(log) => taken = Len(stream) + Len(writing)
      BY <2>4, <2>5 DEF Framed, InFrame
    <3>2. QED
      BY <2>2, <3>1
  <2>8. k <= Whole
    BY <2>2, <2>4, <2>7 DEF Whole
  <2>9. Len(Sent) = Whole /\ Whole \in Nat /\ Sent[k] = log[k].msg
    BY <2>4, <2>8, SentProperties DEF IInv
  <2>10. Len(received) < Len(Sent) /\ received' = Append(received, Sent[Len(received) + 1])
    BY <1>1, <2>2, <2>3, <2>6, <2>8, <2>9
  <2>11. QED
    BY <1>1, <1>2, <2>1, <2>10 DEF Channel!Receive
<1>5. QED
  BY <1>3, <1>4

LEMMA EndMaps == ASSUME IInv, ReadEnd PROVE Channel!End \/ Channel!ReceiveGarbage
<1>1. /\ reader = "reading" /\ closed /\ Wanted > 0 /\ taken = Len(stream)
      /\ reader' = (IF got = <<>> THEN "ended" ELSE "truncated")
      /\ UNCHANGED <<writerVars, received>>
  BY DEF ReadEnd, VerdictAtEnd
<1>2. UNCHANGED <<Sent, closed, MidFrame>>
  BY <1>1 DEF writerVars, Sent, Whole, MidFrame
<1>3. CASE ~ InStep
  <2>1. ~ Channel!InStep
    BY <1>3, SameStep DEF IInv
  <2>2. QED
    BY <1>1, <1>2, <2>1 DEF Channel!ReceiveGarbage
<1>4. CASE InStep
  <2>1. Channel!InStep
    BY <1>4, SameStep DEF IInv
  <2>2. Len(received) = Whole /\ (MidFrame <=> got # <<>>)
    BY <1>1, <1>4, AtTheEnd
  <2>3. Len(Sent) = Whole
    BY SentProperties DEF IInv
  <2>4. QED
    BY <1>1, <1>2, <2>1, <2>2, <2>3 DEF Channel!End
<1>5. QED
  BY <1>3, <1>4

LEMMA BeginMaps ==
    ASSUME IInv, writing = <<>>, ~ closed, ~ closed',
           NEW e \in [msg : Messages \cup {Garbage}, from : Nat], e.from = Len(stream),
           e.msg # Garbage => writing' # <<>>,
           TypeOK', LogInv',
           log' = Append(log, e), UNCHANGED <<stream, readerVars>>
    PROVE  Channel!Send(e.msg) \/ UNCHANGED Channel!vars
<1>1. /\ Len(log) \in Nat
      /\ Len(log') = Len(log) + 1
      /\ log'[Len(log) + 1] = e
      /\ \A j \in 1..Len(log) : log'[j] = log[j]
  BY Lengths, AppendProperties DEF IInv, TypeOK
<1>2. Whole = Len(log)
  BY DEF Whole
<1>3. /\ Len(Sent) = Whole /\ Sent \in Seq(Messages \cup {Garbage})
      /\ \A j \in 1..Whole : Sent[j] = log[j].msg
  BY SentProperties DEF IInv
<1>4. /\ Len(Sent') = Whole' /\ Sent' \in Seq(Messages \cup {Garbage})
      /\ \A j \in 1..Whole' : Sent'[j] = log'[j].msg
  BY SentNext DEF SentFacts
<1>5. CASE e.msg = Garbage
  <2>1. Whole' = Len(log) + 1
    BY <1>1, <1>5 DEF Whole
  <2>2. Sent' = Append(Sent, e.msg)
    <3>1. \A j \in 1..Len(Sent) : Sent'[j] = Sent[j]
      BY <1>1, <1>2, <1>3, <1>4, <2>1
    <3>2. Sent'[Len(Sent) + 1] = e.msg /\ e.msg \in Messages \cup {Garbage}
      BY <1>1, <1>2, <1>3, <1>4, <2>1
    <3>3. Len(Sent') = Len(Sent) + 1
      BY <1>2, <1>3, <1>4, <2>1
    <3>4. QED
      BY <1>3, <1>4, <3>1, <3>2, <3>3, IsAppend
  <2>3. QED
    BY <2>2 DEF Channel!Send, readerVars
<1>6. CASE e.msg # Garbage
  <2>1. Whole' = Len(log)
    BY <1>1, <1>6 DEF Whole
  <2>2. Sent' = Sent
    BY <1>1, <1>2, <1>3, <1>4, <2>1, SeqEqual
  <2>3. QED
    BY <2>2 DEF Channel!vars, readerVars
<1>7. QED
  BY <1>5, <1>6

LEMMA ChannelStep == IInv /\ [Next]_vars => [Channel!Next]_(Channel!vars)
<1> SUFFICES ASSUME IInv, [Next]_vars PROVE Channel!Next \/ UNCHANGED Channel!vars
  OBVIOUS
<1>0. TypeOK' /\ LogInv'
  BY TypeNext, LogNext DEF IInv
<1>1. ASSUME NEW m \in Messages, Begin(m) PROVE Channel!Next \/ UNCHANGED Channel!vars
  <2> DEFINE e == [msg |-> m, from |-> Len(stream)]
  <2>1. /\ writing = <<>> /\ ~ closed /\ ~ closed' /\ writing' = Frame(m) /\ Fits(Len(ToWire[m]))
        /\ log' = Append(log, e) /\ UNCHANGED <<stream, readerVars>>
    BY <1>1 DEF Begin, MayBegin
  <2>2. e \in [msg : Messages \cup {Garbage}, from : Nat] /\ e.from = Len(stream) /\ e.msg = m
    BY Lengths DEF IInv
  <2> HIDE DEF e
  <2>3. Len(writing') \in Nat \ {0} /\ Len(<<>>) = 0
    BY <2>1, FrameProperties, EmptySeq
  <2>4. Channel!Send(e.msg) \/ UNCHANGED Channel!vars
    BY <1>0, <2>1, <2>2, <2>3, BeginMaps
  <2>5. QED
    BY <2>2, <2>4 DEF Channel!Next
<1>2. ASSUME NEW bytes \in Junk, BeginJunk(bytes) PROVE Channel!Next \/ UNCHANGED Channel!vars
  <2> DEFINE e == [msg |-> Garbage, from |-> Len(stream)]
  <2>1. /\ writing = <<>> /\ ~ closed /\ ~ closed'
        /\ log' = Append(log, e) /\ UNCHANGED <<stream, readerVars>>
    BY <1>2 DEF BeginJunk, MayBegin
  <2>2. e \in [msg : Messages \cup {Garbage}, from : Nat] /\ e.from = Len(stream) /\ e.msg = Garbage
    BY Lengths DEF IInv
  <2> HIDE DEF e
  <2>3. Channel!Send(e.msg) \/ UNCHANGED Channel!vars
    BY <1>0, <2>1, <2>2, BeginMaps
  <2>4. QED
    BY <2>2, <2>3 DEF Channel!Next
<1>3. ASSUME NEW n \in 1..Len(writing), WriteSome(n) PROVE Channel!Next \/ UNCHANGED Channel!vars
  BY <1>3, WriteMaps DEF Channel!Next
<1>4. ASSUME Close PROVE Channel!Close
  <2>1. ~ closed /\ closed' /\ UNCHANGED <<Sent, received, reader>>
    BY <1>4 DEF Close, readerVars, Sent, Whole
  <2>2. QED
    BY <2>1 DEF Channel!Close
<1>5. ASSUME ReadEnd PROVE Channel!Next
  BY <1>5, EndMaps DEF Channel!Next
<1>6. ASSUME Return PROVE Channel!Next
  BY <1>6, ReturnMaps DEF Channel!Next
<1>7. ASSUME RejectLength \/ RejectBody PROVE Channel!ReceiveGarbage
  <2>1. ~ Channel!InStep
    BY <1>7, NeverInvalid, SameStep DEF IInv
  <2>2. /\ reader = "reading" /\ reader' = "invalid" /\ UNCHANGED <<Sent, closed, MidFrame, received>>
    BY <1>7 DEF RejectLength, RejectBody, writerVars, Sent, Whole, MidFrame
  <2>3. QED
    BY <2>1, <2>2 DEF Channel!ReceiveGarbage
<1>8. ASSUME ReadFails PROVE Channel!Fail
  <2>1. /\ reader = "reading" /\ reader' = "failed" /\ UNCHANGED <<Sent, closed, MidFrame, received>>
    BY <1>8 DEF ReadFails, writerVars, Sent, Whole, MidFrame
  <2>2. QED
    BY <2>1 DEF Channel!Fail
<1>9. ASSUME UNCHANGED <<stream, closed, writing, log, reader, received>> PROVE UNCHANGED Channel!vars
  BY <1>9 DEF Channel!vars, Sent, Whole, MidFrame
<1>10. QED
  BY <1>1, <1>2, <1>3, <1>4, <1>5, <1>6, <1>7, <1>8, <1>9
  DEF Next, Write, Refuse, Progress, ReadSome, vars, writerVars, readerVars,
      Channel!Next

LEMMA ChannelInit == Init => Channel!Init
<1> SUFFICES ASSUME Init PROVE Channel!Init
  OBVIOUS
<1>1. /\ log = <<>> /\ writing = <<>> /\ ~ closed /\ received = <<>> /\ reader = "reading"
      /\ TypeOK /\ LogInv
  BY TypeInit, GotInit DEF Init
<1>2. Whole = 0
  BY <1>1, Lengths DEF Whole
<1>3. Sent = <<>>
  <2>1. Sent \in Seq(Messages \cup {Garbage}) /\ Len(Sent) = 0
    BY <1>1, <1>2, SentProperties
  <2>2. QED
    BY <2>1, EmptySeq
<1>4. QED
  BY <1>1, <1>3 DEF Channel!Init

(* read_frame and write_frame implement a channel of messages: every step  *)
(* of the byte streams is a step of the channel or no step of it.          *)
THEOREM FramesAreAChannel == Spec => ImplementsMessageChannel
<1>1. Spec => Channel!Init /\ [][Channel!Next]_(Channel!vars)
  BY ChannelInit, ChannelStep, Inductive, PTL DEF Spec
<1>2. QED
  BY <1>1 DEF ImplementsMessageChannel, Channel!Spec
=============================================================================
