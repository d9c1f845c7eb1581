---------------------------- MODULE EncryptedConn ---------------------------
(***************************************************************************)
(* What a client writes and the server reads over the gnet transport,      *)
(* through ChaCha20Conn (pkg/crypto/chacha_crypto.go) or without           *)
(* encryption (NoneCrypto).  The client's end is a plain TCP connection.   *)
(* Write cuts the plaintext into frames [length][nonce][ciphertext, tag],  *)
(* each sent with one Write of the connection below.  readFrame reads a    *)
(* frame with two calls of io.ReadFull.                                    *)
(*                                                                         *)
(* Plaintext bytes are numbered from 1.  Byte j of frame f is <<f, j>> on  *)
(* the wire; without encryption plaintext byte p is <<0, p>>.  Nonce and   *)
(* tag together are Overhead bytes.  The AEAD opens what one Seal made and *)
(* nothing else.                                                           *)
(***************************************************************************)
EXTENDS GnetTransport

CONSTANTS
  Active,       \* bound: connections that carry data and that one of their
                \* ends may close; the others only compete for the event loop
  MaxBytes,     \* bound: plaintext bytes written on a connection
  WriteSizes,   \* sizes of Writes
  BufSizes,     \* sizes of the buffers given to Read
  LengthSize,   \* bytes of the length of a frame, 2
  LengthLimit,  \* the length field counts modulo this, 65536
  Overhead      \* bytes of nonce and tag, 28

ASSUME ChannelAssumption ==
  /\ Active \subseteq Conns /\ MaxBytes \in Nat
  /\ WriteSizes \subseteq Nat \ {0} /\ BufSizes \subseteq Nat \ {0}
  /\ LengthSize \in Nat \ {0} /\ Overhead \in Nat \ {0}
  /\ LengthLimit \in Nat /\ LengthLimit > Overhead + LengthSize

VARIABLES
  crypt,      \* the encryption both ends are configured with
  unwritten,  \* plaintext bytes the Write under way has still to send
  sent,       \* plaintext bytes sent on a connection
  frames,     \* the frames made: the first plaintext byte and how many
  reader,     \* what readFrame reads: "length", "body"; or how Read ended:
              \* "eof", "corrupt"
  acc,        \* what ReadFull has read so far
  length,     \* the length of the frame being read
  plain,      \* ChaCha20Conn.readBuf: plaintext that was not read yet
  delivered   \* plaintext bytes Read has returned

writeVars == <<crypt, unwritten, sent, frames>>
readVars == <<reader, acc, length, plain, delivered>>
vars == <<gnetVars, writeVars, readVars>>

TypeOK ==
  /\ GnetTypeOK(Nat \X (Nat \ {0}))
  /\ crypt \in {"none", "chacha20"}
  /\ unwritten \in [Conns -> Nat] /\ sent \in [Conns -> 0..MaxBytes]
  /\ frames \in [Conns -> Seq([first : Nat \ {0}, size : Nat \ {0}])]
  /\ reader \in [Conns -> {"length", "body", "eof", "corrupt"}]
  /\ acc \in [Conns -> Seq(Nat \X (Nat \ {0}))]
  /\ length \in [Conns -> 0..(LengthLimit - 1)]
  /\ plain \in [Conns -> Seq(1..MaxBytes)]
  /\ delivered \in [Conns -> Seq(1..MaxBytes)]

Init ==
  /\ GnetInit
  /\ crypt \in {"none", "chacha20"}
  /\ unwritten = [c \in Conns |-> 0] /\ sent = [c \in Conns |-> 0]
  /\ frames = [c \in Conns |-> <<>>]
  /\ reader = [c \in Conns |-> "length"]
  /\ acc = [c \in Conns |-> <<>>] /\ length = [c \in Conns |-> 0]
  /\ plain = [c \in Conns |-> <<>>] /\ delivered = [c \in Conns |-> <<>>]

(***************************************************************************)
(* Writing                                                                 *)
(***************************************************************************)

\* Deliberate bug: room for nonce and tag is forgotten.
maxPayloadWide == LengthLimit - LengthSize

maxPayload == LengthLimit - Overhead - LengthSize

CanWrite(c) == conn[c] \in {"pending", "open"} /\ c \notin fin

\* The client calls Write with n bytes.
Write(c, n) ==
  /\ CanWrite(c) /\ unwritten[c] = 0 /\ sent[c] + n <= MaxBytes
  /\ unwritten' = [unwritten EXCEPT ![c] = n]
  /\ UNCHANGED <<gnetVars, crypt, sent, frames, readVars>>

\* Frame f of a connection: its length field, and what the AEAD made.
FrameLen(c, f) == Overhead + frames[c][f].size
Header(f) == [j \in 1..LengthSize |-> <<f, j>>]
Body(c, f) == [j \in 1..FrameLen(c, f) |-> <<f, LengthSize + j>>]
Payload(c, f) == [i \in 1..frames[c][f].size |-> frames[c][f].first + i - 1]

\* Write: writeFrame with the next maxPayload bytes at most; the whole of b
\* without encryption.
WriteFrame(c) ==
  LET k == IF crypt = "none" THEN unwritten[c]
           ELSE Min({unwritten[c], maxPayload})
      f == Len(frames[c]) + 1
      data == IF crypt = "none" THEN [i \in 1..k |-> <<0, sent[c] + i>>]
              ELSE Header(f) \o [j \in 1..(Overhead + k) |-> <<f, LengthSize + j>>]
  IN
  /\ CanWrite(c) /\ unwritten[c] > 0
  /\ wire' = [wire EXCEPT ![c] = @ \o data]
  /\ sent' = [sent EXCEPT ![c] = @ + k]
  /\ unwritten' = [unwritten EXCEPT ![c] = @ - k]
  /\ frames' = IF crypt = "none" THEN frames
               ELSE [frames EXCEPT ![c] =
                      Append(@, [first |-> sent[c] + 1, size |-> k])]
  /\ UNCHANGED <<listenVars, conn, fin, hangup, closeCh, dataVars, crypt,
                 readVars>>

\* Write returns the error of the connection.
WriteFails(c) ==
  /\ ~CanWrite(c) /\ unwritten[c] > 0
  /\ unwritten' = [unwritten EXCEPT ![c] = 0]
  /\ UNCHANGED <<gnetVars, crypt, sent, frames, readVars>>

(***************************************************************************)
(* Reading                                                                 *)
(***************************************************************************)

Reading(c) == c \in accepted /\ reader[c] \in {"length", "body"}

\* Read without encryption, into a buffer of m bytes.
ReadPlain(c, m) ==
  /\ Reading(c) /\ crypt = "none"
  /\ Read(c, m)
  /\ LET b == ReadBytes(c, m) IN
     delivered' = [delivered EXCEPT ![c] = @ \o [i \in 1..Len(b) |-> b[i][2]]]
  /\ UNCHANGED <<writeVars, reader, acc, length, plain>>

\* Read: plaintext that is left over is returned first.
ReadBuffered(c, m) ==
  /\ Reading(c) /\ plain[c] # <<>>
  /\ delivered' = [delivered EXCEPT
                     ![c] = @ \o SubSeq(plain[c], 1, Min({m, Len(plain[c])}))]
  /\ plain' = [plain EXCEPT ![c] = SubSeq(@, m + 1, Len(@))]
  /\ UNCHANGED <<gnetVars, writeVars, reader, acc, length>>

Wanted(c) == IF reader[c] = "length" THEN LengthSize ELSE length[c]
InFrame(c) == Reading(c) /\ crypt = "chacha20" /\ plain[c] = <<>>

\* readFrame: one Read inside io.ReadFull
ReadFull(c) ==
  /\ InFrame(c) /\ Len(acc[c]) < Wanted(c)
  /\ Read(c, Wanted(c) - Len(acc[c]))
  /\ acc' = [acc EXCEPT ![c] = @ \o ReadBytes(c, Wanted(c) - Len(@))]
  /\ UNCHANGED <<writeVars, reader, length, plain, delivered>>

\* The value of a length field: that of the frame if it is the start of one,
\* else any.
LengthsOf(c, b) ==
  LET fs == {f \in 1..Len(frames[c]) : b = Header(f)} IN
  IF fs = {} THEN 0..(LengthLimit - 1)
  ELSE {FrameLen(c, f) % LengthLimit : f \in fs}

\* readFrame has the length; one below nonceSize + tagSize is an error.
ReadLength(c) ==
  /\ InFrame(c) /\ reader[c] = "length" /\ Len(acc[c]) = LengthSize
  /\ \E n \in LengthsOf(c, acc[c]) :
       /\ reader' = [reader EXCEPT ![c] = IF n < Overhead THEN "corrupt" ELSE "body"]
       /\ length' = [length EXCEPT ![c] = n]
  /\ acc' = [acc EXCEPT ![c] = <<>>]
  /\ UNCHANGED <<gnetVars, writeVars, plain, delivered>>

\* readFrame has nonce and ciphertext: aead.Open
ReadBody(c) ==
  /\ InFrame(c) /\ reader[c] = "body" /\ Len(acc[c]) = length[c]
  /\ \/ \E f \in 1..Len(frames[c]) :
          /\ acc[c] = Body(c, f)
          /\ plain' = [plain EXCEPT ![c] = Payload(c, f)]
          /\ reader' = [reader EXCEPT ![c] = "length"]
     \/ /\ \A f \in 1..Len(frames[c]) : acc[c] # Body(c, f)
        /\ reader' = [reader EXCEPT ![c] = "corrupt"]
        /\ UNCHANGED plain
  /\ acc' = [acc EXCEPT ![c] = <<>>]
  /\ length' = [length EXCEPT ![c] = 0]
  /\ UNCHANGED <<gnetVars, writeVars, delivered>>

\* The Read below returns io.EOF, and so does Read, or an error.
ReadEnds(c) ==
  /\ Reading(c) /\ plain[c] = <<>> /\ CanEOF(c)
  /\ crypt = "chacha20" => Len(acc[c]) < Wanted(c)
  /\ reader' = [reader EXCEPT ![c] = "eof"]
  /\ acc' = [acc EXCEPT ![c] = <<>>]
  /\ length' = [length EXCEPT ![c] = 0]
  /\ UNCHANGED <<gnetVars, writeVars, plain, delivered>>

\* The session closes an accepted connection: its reader has ended, or it
\* is closed from elsewhere.
ServerCloses(c) ==
  /\ c \in accepted /\ c \notin hangup
  /\ Close(c)
  /\ UNCHANGED <<writeVars, readVars>>

-----------------------------------------------------------------------------

ReadStep(c) ==
  \/ ReadFull(c) \/ ReadLength(c) \/ ReadBody(c) \/ ReadEnds(c)
  \/ \E m \in BufSizes : ReadPlain(c, m) \/ ReadBuffered(c, m)

Gnet ==
  /\ Engine \/ Accept \/ AcceptFails \/ CloseListener \/ Boot
     \/ (\E c \in Conns : PeerConnects(c))
     \/ \E c \in Active : PeerCloses(c)
  /\ UNCHANGED <<writeVars, readVars>>

Next ==
  \/ Gnet
  \/ \E c \in Conns : ReadStep(c)
  \/ \E c \in Active : \/ \E n \in WriteSizes : Write(c, n)
                       \/ WriteFrame(c) \/ WriteFails(c) \/ ServerCloses(c)

Spec == Init /\ [][Next]_vars

\* The event loop, the accept loop and the readers go on.  Each has finitely
\* many steps, so that none of them starves another.
Goroutines ==
  \/ (Engine \/ Accept) /\ UNCHANGED <<writeVars, readVars>>
  \/ \E c \in Conns : ReadStep(c)

FairSpec == Spec /\ WF_vars(Goroutines)

(***************************************************************************)
(* Properties                                                              *)
(***************************************************************************)

\* What was read, returned or about to be.
Plaintext(c) == delivered[c] \o plain[c]

\* What Read returns was written, in the order in which it was written and
\* once, and with encryption the frames it comes from are whole: a frame
\* from which something is missing is never taken for data.
FramesIntact ==
  \A c \in Conns :
    LET d == Plaintext(c) IN
    /\ \A i \in 1..Len(d) : d[i] <= sent[c]
    /\ \A i \in 1..(Len(d) - 1) : d[i] < d[i + 1]
    /\ \A f \in 1..Len(frames[c]) :
         LET got == {i \in 1..Len(d) : \E k \in 1..frames[c][f].size :
                                         d[i] = Payload(c, f)[k]}
         IN got = {} \/ Cardinality(got) = frames[c][f].size

\* What has been written on a connection, and the places in it: n frames hold
\* Lead(w, n) bytes of plaintext and take Place(w, n) bytes of the wire.
Written(c) == [crypt |-> crypt, frames |-> frames[c], sent |-> sent[c]]
Lead(w, n) == IF n < Len(w.frames) THEN w.frames[n + 1].first - 1 ELSE w.sent
Place(w, n) == Lead(w, n) + n * (LengthSize + Overhead)
Total(w) == Place(w, Len(w.frames))

\* The frames divide what was sent among them, and each fits its length field.
Divided(w) ==
  /\ IF w.crypt = "none" THEN w.frames = <<>> ELSE Lead(w, 0) = 0
  /\ \A f \in 1..Len(w.frames) :
       /\ w.frames[f].size <= maxPayload
       /\ Lead(w, f) = Lead(w, f - 1) + w.frames[f].size
  /\ \A m, n \in 0..Len(w.frames) : m <= n => Lead(w, m) <= Lead(w, n)

\* b is a byte that was written, at place Rank(w, b).
IsByte(w, b) ==
  IF w.crypt = "none" THEN b[1] = 0 /\ b[2] <= w.sent
  ELSE /\ b[1] \in 1..Len(w.frames)
       /\ b[2] <= LengthSize + Overhead + w.frames[b[1]].size
Rank(w, b) == IF w.crypt = "none" THEN b[2] ELSE Place(w, b[1] - 1) + b[2]

\* s is what was written after place x.
Run(w, s, x) == \A i \in 1..Len(s) : IsByte(w, s[i]) /\ Rank(w, s[i]) = x + i
Start(w, s) == Rank(w, s[1]) - 1
Stop(w, s) == Start(w, s) + Len(s)

\* The pieces P that were handed over are in order, before place y; none of
\* them begins before x; and nothing is missing between x and y, or after x
\* when the connection is shut.
InOrder(w, P, y) ==
  /\ \A k \in 1..Len(P) :
       P[k] # <<>> /\ Run(w, P[k], Start(w, P[k])) /\ Stop(w, P[k]) <= y
  /\ \A k, l \in 1..Len(P) : k < l => Stop(w, P[k]) <= Start(w, P[l])
Ahead(w, P, y, x) == x <= y /\ \A k \in 1..Len(P) : x <= Start(w, P[k])
Gapless(w, P, x, y, shut) ==
  /\ P = <<>> => shut \/ x = y
  /\ P # <<>> => Start(w, P[1]) = x /\ (shut \/ Stop(w, P[Len(P)]) = y)
  /\ \A k \in 1..(Len(P) - 1) : Stop(w, P[k]) = Start(w, P[k + 1])

\* What was returned, or is about to be, is d, and ReadFull has a: both are in
\* order and before all that is not read yet, and of a frame d holds all or
\* nothing.
ReadInOrder(w, P, y, d, a) ==
  /\ \A i, j \in 1..Len(d) : i < j => d[i] < d[j]
  /\ \A f \in 1..Len(w.frames), i \in 1..Len(d) :
       d[i] \in (Lead(w, f - 1) + 1)..Lead(w, f) =>
         \A v \in (Lead(w, f - 1) + 1)..Lead(w, f) : \E j \in 1..Len(d) : d[j] = v
  /\ \E x \in 0..y :
       /\ Ahead(w, P, y, x)
       /\ \A k \in 1..Len(a) : IsByte(w, a[k]) /\ Rank(w, a[k]) <= x
       /\ IF w.crypt = "none" THEN \A i \in 1..Len(d) : d[i] <= x
          ELSE \E n \in 0..Len(w.frames) :
                 /\ Place(w, n) <= x /\ \A i \in 1..Len(d) : d[i] <= Lead(w, n)
                 /\ \A k \in 1..Len(a) : Place(w, n) < Rank(w, a[k])

\* When nothing was dropped, nothing is missing between what was returned and
\* the wire, for a reader that expects what r says, a body of l bytes.
NothingMissing(w, P, y, shut, d, a, r, l) ==
  /\ \A i \in 1..Len(d) : d[i] = i
  /\ r # "corrupt"
  /\ w.crypt = "none" /\ r # "eof" => Gapless(w, P, Len(d), y, shut)
  /\ w.crypt = "chacha20" /\ r # "eof" =>
       \E n \in 0..Len(w.frames) :
         LET z == Place(w, n) + (IF r = "body" THEN LengthSize ELSE 0) IN
         /\ Len(d) = Lead(w, n)
         /\ Run(w, a, z) /\ Gapless(w, P, z + Len(a), y, shut)
         /\ r = "body" => n < Len(w.frames) /\ l = Overhead + w.frames[n + 1].size

\* The pieces that were handed over and not read, and where the wire begins.
Pieces(c) ==
  IF readBuf[c] = <<>> THEN readCh[c] ELSE <<readBuf[c]>> \o readCh[c]
OnWire(c) == Total(Written(c)) - Len(wire[c])
Carried(c) ==
  /\ Divided(Written(c)) /\ unwritten[c] + sent[c] <= MaxBytes
  /\ OnWire(c) >= 0 /\ Run(Written(c), wire[c], OnWire(c))
  /\ InOrder(Written(c), Pieces(c), OnWire(c))
  /\ ReadInOrder(Written(c), Pieces(c), OnWire(c), Plaintext(c), acc[c])
  /\ crypt = "none" =>
       reader[c] \in {"length", "eof"} /\ acc[c] = <<>> /\ plain[c] = <<>>
  /\ reader[c] = "eof" => c \in closeCh
  /\ c \notin dropped =>
       NothingMissing(Written(c), Pieces(c), OnWire(c), conn[c] = "closed",
                      Plaintext(c), acc[c], reader[c], length[c])

\* The invariant of the channel.
ChannelInv == TypeOK /\ FramesIntact /\ \A c \in Conns : Carried(c)

\* Only a full readCh makes a gap: else Read returns all that was written
\* up to some point, and fails only when the connection has ended.
GapsOnlyByOverflow ==
  \A c \in Conns \ dropped :
    /\ \A i \in 1..Len(delivered[c]) : delivered[c][i] = i
    /\ reader[c] # "corrupt"
    /\ reader[c] = "eof" => c \in closeCh

\* A goroutine in Read is released when the peer or the server closes the
\* connection, even while the event loop has waited for another one to be
\* accepted.
ReaderReleased ==
  \A c \in Conns :
    (c \in accepted /\ c \in fin \cup hangup) ~> (reader[c] \in {"eof", "corrupt"})

\* Close of the listener returns: OnOpen does not hold up the event loop.
CloseReturns == (closer = "stopping") ~> (closer = "done")
=============================================================================
