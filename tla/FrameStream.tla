----------------------------- MODULE FrameStream ----------------------------
(***************************************************************************)
(* read_frame and write_frame (protocol lib.rs) at the two ends of a pipe. *)
(* Each message travels as four bytes of length and a body.  The system    *)
(* moves any number of bytes at a time, and the writer may die anywhere in *)
(* a frame.  The bodies are those of Message::to_wire and from_wire, which *)
(* are constants here: ProcessMessages is where they are examined.         *)
(***************************************************************************)
EXTENDS Naturals, Sequences

CONSTANTS
    Messages,       \* messages Message::new accepts
    ToWire,         \* Message::to_wire: the body of each
    FromWire,       \* Message::from_wire: the bodies it accepts, and their messages
    MaxFrameBytes,  \* MAX_FRAME_BYTES
    Junk,           \* bytes of a writer that does not use write_frame
    Garbage,        \* stands for them in the log
    MaxAttempts     \* bound: frames the writer begins or is refused

Byte == 0..255

\* Lengths fit four bytes, here without the sign bit.
LargestLength == 127 * 256 * 256 * 256

ASSUME WireAssumption ==
    /\ Garbage \notin Messages
    /\ MaxFrameBytes \in Nat \ {0} /\ MaxFrameBytes <= LargestLength
    /\ ToWire \in [Messages -> Seq(Byte) \ {<<>>}]
    /\ FromWire \in [DOMAIN FromWire -> Messages]
    /\ \A m \in Messages : ToWire[m] \in DOMAIN FromWire /\ FromWire[ToWire[m]] = m
    /\ Junk \subseteq Seq(Byte) \ {<<>>}

ASSUME BoundAssumption == MaxAttempts \in Nat

\* u32::to_be_bytes and from_be_bytes.
HeaderBytes == 4
Header(n) ==
    LET q1 == n \div 256
        q2 == q1 \div 256
        q3 == q2 \div 256
    IN  <<q3 % 256, q2 % 256, q1 % 256, n % 256>>

Length(h) == ((h[1] * 256 + h[2]) * 256 + h[3]) * 256 + h[4]

Frame(m) == Header(Len(ToWire[m])) \o ToWire[m]

\* Both ends refuse a frame of any other length.
Fits(n) == n \in 1..MaxFrameBytes

VARIABLES
    stream,    \* every byte written to the pipe
    closed,    \* the writer closed its end, or died
    writing,   \* the bytes write_frame has not written yet
    attempts,  \* frames begun or refused
    log,       \* for each frame begun: the message, and where in the stream it starts
    taken,     \* how many bytes of the stream were read
    got,       \* those of them that belong to the frame being read
    reader,    \* "reading", or how read_frame ended for good
    received   \* the messages read_frame returned

writerVars == <<stream, closed, writing, attempts, log>>
readerVars == <<taken, got, reader, received>>
vars == <<writerVars, readerVars>>

TypeOK ==
    /\ stream \in Seq(Byte)
    /\ closed \in BOOLEAN
    /\ writing \in Seq(Byte)
    /\ attempts \in Nat
    /\ log \in Seq([msg : Messages \cup {Garbage}, from : Nat])
    /\ taken \in 0..Len(stream)
    /\ got \in Seq(Byte)
    /\ reader \in {"reading", "ended", "truncated", "invalid", "failed"}
    /\ received \in Seq(Messages)

Init ==
    /\ stream = <<>>
    /\ closed = FALSE
    /\ writing = <<>>
    /\ attempts = 0
    /\ log = <<>>
    /\ taken = 0
    /\ got = <<>>
    /\ reader = "reading"
    /\ received = <<>>

-----------------------------------------------------------------------------
(* write_frame *)

MayBegin ==
    /\ ~ closed
    /\ writing = <<>>
    /\ attempts < MaxAttempts
    /\ attempts' = attempts + 1

Begin(m) ==
    /\ MayBegin
    /\ Fits(Len(ToWire[m]))
    /\ writing' = Frame(m)
    /\ log' = Append(log, [msg |-> m, from |-> Len(stream)])
    /\ UNCHANGED <<stream, closed, readerVars>>

\* Slip: the header is written before the length is checked.
RefuseAfterHeader(m) ==
    /\ MayBegin
    /\ ~ Fits(Len(ToWire[m]))
    /\ stream' = stream \o Header(Len(ToWire[m]))
    /\ UNCHANGED <<closed, writing, log, readerVars>>

\* The body is too large: an error, before the first byte is written.
Refuse(m) ==
    /\ MayBegin
    /\ ~ Fits(Len(ToWire[m]))
    /\ UNCHANGED <<stream, closed, writing, log, readerVars>>

BeginJunk(bytes) ==
    /\ MayBegin
    /\ writing' = bytes
    /\ log' = Append(log, [msg |-> Garbage, from |-> Len(stream)])
    /\ UNCHANGED <<stream, closed, readerVars>>

\* One write of the two write_all calls: some of what is left is accepted.
WriteSome(n) ==
    /\ ~ closed
    /\ n \in 1..Len(writing)
    /\ stream' = stream \o SubSeq(writing, 1, n)
    /\ writing' = SubSeq(writing, n + 1, Len(writing))
    /\ UNCHANGED <<closed, attempts, log, readerVars>>

\* The writer closes the pipe between two frames, or dies within one.
Close ==
    /\ ~ closed
    /\ closed' = TRUE
    /\ UNCHANGED <<stream, writing, attempts, log, readerVars>>

-----------------------------------------------------------------------------
(* read_frame *)

InBody == Len(got) >= HeaderBytes

\* The bytes read_frame asks for: the first of a header, the other three, the body.
Wanted ==
    IF got = <<>> THEN 1
    ELSE IF ~ InBody THEN HeaderBytes - Len(got)
    ELSE IF Fits(Length(got)) THEN HeaderBytes + Length(got) - Len(got) ELSE 0

\* Slip: a short read is taken for a complete one.
ReadAssumesAll(n) ==
    /\ reader = "reading"
    /\ n \in 1..Wanted
    /\ n <= Len(stream) - taken
    /\ taken' = taken + Wanted
    /\ got' = got \o SubSeq(stream, taken + 1, taken + n)
    /\ UNCHANGED <<writerVars, reader, received>>

\* One read: some of what is wanted and there.  An interrupted read changes nothing.
ReadSome(n) ==
    /\ reader = "reading"
    /\ n \in 1..Wanted
    /\ n <= Len(stream) - taken
    /\ taken' = taken + n
    /\ got' = got \o SubSeq(stream, taken + 1, taken + n)
    /\ UNCHANGED <<writerVars, reader, received>>

\* Slip: the end of the input is clean anywhere in a header.
VerdictAtEndOfHeader == IF InBody THEN "truncated" ELSE "ended"

VerdictAtEnd == IF got = <<>> THEN "ended" ELSE "truncated"

\* Slip: the end of the input is looked for between two frames only.
ReadEndBetweenFrames ==
    /\ reader = "reading"
    /\ got = <<>>
    /\ closed
    /\ taken = Len(stream)
    /\ reader' = VerdictAtEnd
    /\ UNCHANGED <<writerVars, taken, got, received>>

ReadEnd ==
    /\ reader = "reading"
    /\ Wanted > 0
    /\ closed
    /\ taken = Len(stream)
    /\ reader' = VerdictAtEnd
    /\ UNCHANGED <<writerVars, taken, got, received>>

RejectLength ==
    /\ reader = "reading"
    /\ InBody
    /\ ~ Fits(Length(got))
    /\ reader' = "invalid"
    /\ UNCHANGED <<writerVars, taken, got, received>>

Body == SubSeq(got, HeaderBytes + 1, Len(got))

BodyComplete == InBody /\ Fits(Length(got)) /\ Len(got) = HeaderBytes + Length(got)

\* Slip: the buffer is kept for the next frame.
KeepBuffer == got' = got

ResetBuffer == got' = <<>>

Return ==
    /\ reader = "reading"
    /\ BodyComplete
    /\ Body \in DOMAIN FromWire
    /\ received' = Append(received, FromWire[Body])
    /\ ResetBuffer
    /\ UNCHANGED <<writerVars, taken, reader>>

RejectBody ==
    /\ reader = "reading"
    /\ BodyComplete
    /\ Body \notin DOMAIN FromWire
    /\ reader' = "invalid"
    /\ UNCHANGED <<writerVars, taken, got, received>>

ReadFails ==
    /\ reader = "reading"
    /\ reader' = "failed"
    /\ UNCHANGED <<writerVars, taken, got, received>>

-----------------------------------------------------------------------------
Write ==
    \/ \E m \in Messages : Begin(m) \/ Refuse(m)
    \/ \E bytes \in Junk : BeginJunk(bytes)
    \/ \E n \in 1..Len(writing) : WriteSome(n)
    \/ Close

Progress ==
    \/ \E n \in 1..Wanted : ReadSome(n)
    \/ ReadEnd \/ RejectLength \/ Return \/ RejectBody

Next == Write \/ Progress \/ ReadFails

Spec == Init /\ [][Next]_vars

\* The reader keeps asking; nothing is asked of the writer.
FairSpec == Spec /\ WF_vars(Progress)

-----------------------------------------------------------------------------
\* Up to the frame being read, the writer used write_frame.
InStep == \A j \in 1..Len(log) : j <= Len(received) + 1 => log[j].msg # Garbage

(* Whatever sizes the reads and writes have, and whatever was refused      *)
(* between them: read_frame returns the messages write_frame accepted, in  *)
(* their order, as long as nobody else writes to the pipe.                 *)
Delivered ==
    InStep => /\ Len(received) <= Len(log)
              /\ \A k \in 1..Len(received) : received[k] = log[k].msg

\* The writer stands in a frame: some of its bytes are in the stream, some are not.
MidFrame == writing # <<>> /\ log[Len(log)].from < Len(stream)

\* How many frames went into the stream whole; garbage counts from its beginning.
Whole == IF writing # <<>> /\ log[Len(log)].msg # Garbage THEN Len(log) - 1 ELSE Len(log)

(* read_frame's verdict is right ("returning None only for clean EOF       *)
(* before a header"): clean exactly when every byte there is belongs to a  *)
(* frame that was received, truncated when the writer died in the frame    *)
(* after those, and never invalid for what write_frame wrote.              *)
VerdictIsRight ==
    InStep =>
        /\ reader = "ended" => closed /\ Len(received) = Whole /\ ~ MidFrame
        /\ reader = "truncated" => closed /\ Len(received) = Whole /\ MidFrame
        /\ reader # "invalid"

(* A reader whose writer is gone is told so: it does not wait for bytes    *)
(* that will never come.                                                   *)
ReaderEnds == closed ~> reader # "reading"

-----------------------------------------------------------------------------
\* A message counts as sent with its last byte.
Sent == [j \in 1..Whole |-> log[j].msg]

Channel == INSTANCE MessageChannel WITH
    Message <- Messages, Garbage <- Garbage,
    sent <- Sent,
    closed <- IF ~ closed THEN "no" ELSE IF MidFrame THEN "cut" ELSE "whole",
    received <- received,
    outcome <- IF reader = "reading" THEN "open" ELSE reader

(* Two ends that use read_frame and write_frame have a channel of          *)
(* messages, the one the model of the Host takes for granted.              *)
ImplementsMessageChannel == Channel!Spec
=============================================================================
