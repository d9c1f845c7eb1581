---------------------------- MODULE ControlFrames ---------------------------
(***************************************************************************)
(* The messages on one direction of the control stream                     *)
(* (pkg/protocol/codec.go).  Encode writes a frame with two calls of       *)
(* Write, first the length, then the data; Decode reads it with two calls  *)
(* of io.ReadFull.  The goroutines that send on the stream take no lock.   *)
(* A receiver gives up the stream when Decode fails, except that a client  *)
(* which is registering its proxies logs the error and decodes on.         *)
(*                                                                         *)
(* Messages are numbered in the order in which their lengths are written;  *)
(* byte j of the frame of message m is <<m, j>>, and its data follow after *)
(* LengthSize bytes.                                                       *)
(***************************************************************************)
EXTENDS Integers, Sequences, FiniteSetsExt

CONSTANTS
  Writers,      \* goroutines that send
  MaxMessages,  \* bound: messages sent
  Sizes,        \* sizes of encoded messages
  LengthSize,   \* bytes of the length field, 4
  MaxMsgSize,   \* the decoder's limit, 1 MB
  Registrations \* bound: proxies the receiver registers, 0 for a server

ASSUME FramesAssumption ==
  /\ MaxMessages \in Nat /\ Sizes \subseteq Nat \ {0}
  /\ LengthSize \in Nat \ {0} /\ MaxMsgSize \in Nat /\ Registrations \in Nat

VARIABLES
  size,       \* the sizes of the messages sent
  pending,    \* the message whose data a writer has still to write, or 0
  mixed,      \* history: two writers were between their two Writes at once
  wire,       \* bytes written and not read
  closed,     \* the stream is closed
  phase,      \* what Decode reads: "length", "data", or it has "failed"
  acc,        \* what ReadFull has read so far
  length,     \* the length that was read
  retries,    \* Decode was called again so often after it had failed
  delivered   \* the messages decoded; 0 for one that nobody sent

writeVars == <<size, pending, mixed>>
readVars == <<phase, acc, length, retries, delivered>>
vars == <<writeVars, wire, closed, readVars>>

Byte == (Nat \ {0}) \X (Nat \ {0})

TypeOK ==
  /\ size \in Seq(Sizes) /\ Len(size) <= MaxMessages
  /\ pending \in [Writers -> 0..Len(size)] /\ mixed \in BOOLEAN
  /\ wire \in Seq(Byte)
  /\ closed \in BOOLEAN
  /\ phase \in {"length", "data", "failed"}
  /\ acc \in Seq(Byte)
  /\ length \in 0..MaxMsgSize
  /\ retries \in 0..Registrations
  /\ delivered \in Seq(0..MaxMessages)

Init ==
  /\ size = <<>> /\ pending = [w \in Writers |-> 0] /\ mixed = FALSE
  /\ wire = <<>> /\ closed = FALSE
  /\ phase = "length" /\ acc = <<>> /\ length = 0
  /\ retries = 0 /\ delivered = <<>>

Header(m) == [j \in 1..LengthSize |-> <<m, j>>]
Data(m) == [j \in 1..size[m] |-> <<m, LengthSize + j>>]

\* Encode: e.w.Write(lenBuf).  Nothing limits the size here.
WriteLength(w, s) ==
  /\ pending[w] = 0 /\ ~closed /\ Len(size) < MaxMessages
  /\ size' = Append(size, s)
  /\ pending' = [pending EXCEPT ![w] = Len(size) + 1]
  /\ mixed' = (mixed \/ \E v \in Writers : pending[v] # 0)
  /\ wire' = wire \o Header(Len(size) + 1)
  /\ UNCHANGED <<closed, readVars>>

\* Deliberate bug: the length is sent without the data.
WriteDataForgotten(w) ==
  /\ pending[w] # 0
  /\ pending' = [pending EXCEPT ![w] = 0]
  /\ UNCHANGED <<size, mixed, wire, closed, readVars>>

\* Encode: e.w.Write(data), an error on the closed stream.
WriteData(w) ==
  /\ pending[w] # 0
  /\ wire' = IF closed THEN wire ELSE wire \o Data(pending[w])
  /\ pending' = [pending EXCEPT ![w] = 0]
  /\ UNCHANGED <<size, mixed, closed, readVars>>

\* The number of bytes the current ReadFull is to return.
Wanted == IF phase = "length" THEN LengthSize ELSE length

\* One Read inside ReadFull returns any number of bytes.
ReadFull ==
  /\ phase # "failed" /\ Len(acc) < Wanted
  /\ \E n \in 1..Min({Len(wire), Wanted - Len(acc)}) :
       /\ acc' = acc \o SubSeq(wire, 1, n)
       /\ wire' = SubSeq(wire, n + 1, Len(wire))
  /\ UNCHANGED <<writeVars, closed, phase, length, retries, delivered>>

\* Read fails: Decode returns the error.
ReadFails ==
  /\ phase # "failed" /\ closed /\ wire = <<>> /\ Len(acc) < Wanted
  /\ phase' = "failed"
  /\ UNCHANGED <<writeVars, wire, closed, acc, length, retries, delivered>>

\* The lengths the bytes b may encode: any, unless they are one header.
LengthsOf(b) ==
  LET ms == {m \in 1..Len(size) : b = Header(m)} IN
  IF ms = {} THEN 0..(MaxMsgSize + 1) ELSE {size[m] : m \in ms}

\* Deliberate bug: the limit is exclusive.
DecodeLengthStrict ==
  /\ phase = "length" /\ Len(acc) = LengthSize
  /\ \E n \in LengthsOf(acc) :
       \/ n >= MaxMsgSize /\ phase' = "failed" /\ UNCHANGED <<acc, length>>
       \/ n < MaxMsgSize /\ phase' = "data" /\ acc' = <<>> /\ length' = n
  /\ UNCHANGED <<writeVars, wire, closed, retries, delivered>>

\* Decode has the length and checks it against MaxMsgSize.
DecodeLength ==
  /\ phase = "length" /\ Len(acc) = LengthSize
  /\ \E n \in LengthsOf(acc) :
       \/ n > MaxMsgSize /\ phase' = "failed" /\ UNCHANGED <<acc, length>>
       \/ n <= MaxMsgSize /\ phase' = "data" /\ acc' = <<>> /\ length' = n
  /\ UNCHANGED <<writeVars, wire, closed, retries, delivered>>

\* The messages the bytes b may decode to: 0 when they are not the data of
\* one message, which msgpack may also reject.
MessagesOf(b) ==
  LET ms == {m \in 1..Len(size) : b = Data(m)} IN
  IF ms = {} THEN {0} ELSE ms

\* Deliberate bug: one Read is taken for the whole of the data.
DecodeDataShort ==
  /\ phase = "data" /\ acc # <<>>
  /\ \E m \in MessagesOf(acc) :
       /\ delivered' = Append(delivered, m)
       /\ phase' = "length" /\ acc' = <<>> /\ length' = 0
  /\ UNCHANGED <<writeVars, wire, closed, retries>>

\* Decode has the data and unmarshals them.
DecodeData ==
  /\ phase = "data" /\ Len(acc) = length
  /\ \E m \in MessagesOf(acc) :
       \/ /\ delivered' = Append(delivered, m)
          /\ phase' = "length" /\ acc' = <<>> /\ length' = 0
       \/ /\ m = 0
          /\ phase' = "failed"
          /\ UNCHANGED <<delivered, acc, length>>
  /\ UNCHANGED <<writeVars, wire, closed, retries>>

\* registerProxy returns the error of RecvMessage, which connect only logs:
\* the next registerProxy calls Decode again, wherever the stream is.  What
\* the failed ReadFull had read is lost.
DecodeAgain ==
  /\ phase = "failed" /\ retries < Registrations
  /\ retries' = retries + 1
  /\ phase' = "length" /\ acc' = <<>> /\ length' = 0
  /\ UNCHANGED <<writeVars, wire, closed, delivered>>

\* Either side closes the stream; what was written can still be read.
CloseStream ==
  /\ ~closed
  /\ closed' = TRUE
  /\ UNCHANGED <<writeVars, wire, readVars>>

-----------------------------------------------------------------------------

Decode == ReadFull \/ ReadFails \/ DecodeLength \/ DecodeData

Next ==
  \/ \E w \in Writers : WriteData(w) \/ \E s \in Sizes : WriteLength(w, s)
  \/ Decode \/ DecodeAgain
  \/ CloseStream

Spec == Init /\ [][Next]_vars

\* A goroutine that has begun a frame goes on, and the reader reads.
FairSpec ==
  Spec /\ WF_vars(Decode) /\ \A w \in Writers : WF_vars(WriteData(w))

(***************************************************************************)
(* Properties                                                              *)
(***************************************************************************)

\* Decode is where the writers' frames are: no two goroutines have been in
\* Encode at once, and it has not gone on after an error.
InStep == ~mixed /\ retries = 0

\* The messages are decoded in the order in which they were sent, each once
\* and none that nobody sent, however Read splits the bytes.
DeliveredInOrder ==
  InStep => \A i \in 1..Len(delivered) : delivered[i] = i

\* One goroutine at most is between its Writes, with the last message.
OnePending ==
  mixed \/ \A v, w \in Writers :
              /\ pending[v] # 0 => pending[v] = Len(size)
              /\ pending[v] # 0 /\ pending[w] # 0 => v = w

FrameSize(m) == LengthSize + size[m]

\* c is the byte d places after byte b, as far as this frame and the start
\* of the next one go.
Follows(b, d, c) ==
  /\ b[2] + d <= FrameSize(b[1]) => c = <<b[1], b[2] + d>>
  /\ b[2] + d = FrameSize(b[1]) + 1 => c = <<b[1] + 1, 1>>

\* The byte that Decode reads first, and the one that is written next.
FirstRead ==
  <<Len(delivered) + 1, IF phase = "length" THEN 1 ELSE LengthSize + 1>>
NextWritten ==
  IF \E w \in Writers : pending[w] # 0 THEN <<Len(size), LengthSize + 1>>
  ELSE <<Len(size) + 1, 1>>

\* The bytes u that were written and are still to be decoded are those of
\* whole frames, from the place where Decode is to the place of the writers.
\* (A close may cut off the end.)
Unbroken(u) ==
  /\ \A i \in 1..Len(u) :
       /\ u[i][1] \in 1..Len(size) /\ u[i][2] \in 1..FrameSize(u[i][1])
       /\ \A k \in i..Len(u) : Follows(u[i], k - i, u[k])
       /\ ~closed => Follows(u[i], Len(u) + 1 - i, NextWritten)
  /\ u # <<>> => u[1] = FirstRead
  /\ u = <<>> /\ ~closed => NextWritten = FirstRead

StreamUnbroken ==
  InStep /\ phase # "failed" =>
    /\ Unbroken(acc \o wire)
    /\ phase = "data" => /\ Len(delivered) < Len(size)
                         /\ length = size[Len(delivered) + 1]

\* The invariant of the stream.
FramesInv == TypeOK /\ DeliveredInOrder /\ OnePending /\ StreamUnbroken

\* Decode fails, and is called again, only on a closed stream, after a
\* message over the limit, or after two goroutines have mixed their frames.
FailsForCause ==
  phase = "failed" \/ retries # 0 =>
    mixed \/ closed \/ \E m \in 1..Len(size) : size[m] > MaxMsgSize

\* Every message sent is decoded, unless Decode fails or frames were mixed.
AllDelivered ==
  \A n \in 1..MaxMessages :
    (Len(size) >= n) ~> (Len(delivered) >= n \/ phase = "failed" \/ ~InStep)
=============================================================================
