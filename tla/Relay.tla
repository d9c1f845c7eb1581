------------------------------- MODULE Relay --------------------------------
(***************************************************************************)
(* One user connection, from end to end.  Four parties in a chain,         *)
(*                                                                         *)
(*   0 user --- 1 server --- 2 client --- 3 local service                  *)
(*         link 1      link 2       link 3                                 *)
(*                                                                         *)
(* joined by a TCP connection, a mux stream and a TCP connection.  The     *)
(* server (handleUserConnection) and the client (handleNewConn) each run   *)
(* Join of internal/{server,client}/handler.go on their two links: two     *)
(* copyBuffer goroutines, one per direction, each of which closes the      *)
(* connection it writes to when it ends.  The goroutine of party k for     *)
(* direction d is <<k, d>>.                                                *)
(*                                                                         *)
(* Data are chunks, numbered per sender.  A link is a pair of bounded      *)
(* pipes; net.Conn and the kernel are modelled from how Join uses them.    *)
(* The traffic counters of the server are not modelled: nothing reads      *)
(* them back.                                                              *)
(***************************************************************************)
EXTENDS Integers, FiniteSetsExt, Sequences

CONSTANTS
  MaxDown,   \* bound: chunks the user sends
  MaxUp,     \* bound: chunks the local service sends
  Cap,       \* chunks a pipe holds before its writer blocks
  BufSize,   \* chunks one Read returns at most
  Lazy,      \* endpoints that may stop reading
  Faulty     \* links that may break

User == 0
Local == 3
Ends == {User, Local}
Links == 1..3

ASSUME RelayAssumption ==
  /\ MaxDown \in Nat /\ MaxUp \in Nat
  /\ Cap \in Nat \ {0} /\ BufSize \in Nat \ {0}
  /\ Lazy \subseteq Ends /\ Faulty \subseteq Links

MaxSend(k) == IF k = User THEN MaxDown ELSE MaxUp
Chunk == Nat \ {0}
TCPLinks == {1, 3}
Dirs == {"down", "up"}             \* "down": from the user to the service
Copies == {1, 2} \X Dirs

Peer(k) == User + Local - k                \* the other endpoint
LinkOf(k) == IF k = User THEN 1 ELSE 3     \* an endpoint's link
OutDir(k, l) == IF k = l THEN "up" ELSE "down"
InDir(k, l) == IF k = l THEN "down" ELSE "up"
Opposite(k, l) == 2 * l - 1 - k            \* the party at the other end of l

\* The links goroutine g reads from and writes to.
Src(g) == IF g[2] = "down" THEN g[1] ELSE g[1] + 1
Dst(g) == IF g[2] = "down" THEN g[1] + 1 ELSE g[1]
SrcPipe(g) == <<Src(g), g[2]>>
DstPipe(g) == <<Dst(g), g[2]>>

VARIABLES
  pipe,      \* data under way on a link in a direction
  fin,       \* the writer of a pipe has finished
  closed,    \* the ends <<party, link>> that are closed
  broken,    \* links that were reset
  copy,      \* where each copyBuffer is
  buf,       \* what it has read and not written yet
  readErr,   \* Read returned io.EOF together with buf
  sent,      \* chunks an endpoint has sent
  got,       \* chunks an endpoint has received
  eof,       \* endpoints that have seen the end of the data
  stalled    \* endpoints that do not read any more

linkVars == <<pipe, fin, closed, broken>>
copyVars == <<copy, buf, readErr>>
endVars == <<sent, got, eof, stalled>>
vars == <<linkVars, copyVars, endVars>>

TypeOK ==
  /\ pipe \in [Links \X Dirs -> Seq(Chunk)]
  /\ \A p \in Links \X Dirs : Len(pipe[p]) <= Cap
  /\ fin \in [Links \X Dirs -> BOOLEAN]
  /\ closed \subseteq {e \in (User..Local) \X Links : e[1] \in {e[2] - 1, e[2]}}
  /\ broken \subseteq Links
  /\ copy \in [Copies -> {"read", "write", "return", "done"}]
  /\ buf \in [Copies -> Seq(Chunk)]
  /\ \A g \in Copies : Len(buf[g]) <= BufSize
  /\ readErr \in [Copies -> BOOLEAN]
  /\ sent \in [Ends -> Nat]
  /\ got \in [Ends -> Seq(Chunk)]
  /\ eof \subseteq Ends /\ stalled \subseteq Ends

Init ==
  /\ pipe = [p \in Links \X Dirs |-> <<>>]
  /\ fin = [p \in Links \X Dirs |-> FALSE]
  /\ closed = {} /\ broken = {}
  /\ copy = [g \in Copies |-> "read"]
  /\ buf = [g \in Copies |-> <<>>]
  /\ readErr = [g \in Copies |-> FALSE]
  /\ sent = [k \in Ends |-> 0]
  /\ got = [k \in Ends |-> <<>>]
  /\ eof = {} /\ stalled = {}

\* Reads and writes of party k on link l fail.
Unusable(k, l) == <<k, l>> \in closed \/ l \in broken

\* Close of party k's end of link l.  The other side reads what is under way
\* and then the end of the data; closing a TCP connection with unread data
\* resets it.
CloseEnd(k, l) ==
  /\ closed' = closed \cup {<<k, l>>}
  /\ fin' = [fin EXCEPT ![<<l, OutDir(k, l)>>] = TRUE]
  /\ pipe' = [pipe EXCEPT ![<<l, InDir(k, l)>>] = <<>>]
  /\ broken' = IF l \in TCPLinks /\ pipe[<<l, InDir(k, l)>>] # <<>>
               THEN broken \cup {l} ELSE broken

(***************************************************************************)
(* copyBuffer                                                              *)
(***************************************************************************)

\* Deliberate bug: the error is looked at before the data.
CopyReadDropsLast(g) ==
  LET p == SrcPipe(g) IN
  /\ copy[g] = "read" /\ <<g[1], Src(g)>> \notin closed
  /\ \E n \in 1..Min({BufSize, Len(pipe[p])}) :
       /\ pipe' = [pipe EXCEPT ![p] = SubSeq(@, n + 1, Len(@))]
       /\ \E e \in BOOLEAN :
            /\ e => fin[p] /\ n = Len(pipe[p])
            /\ buf' = [buf EXCEPT
                        ![g] = IF e THEN <<>> ELSE SubSeq(pipe[p], 1, n)]
            /\ copy' = [copy EXCEPT ![g] = IF e THEN "return" ELSE "write"]
  /\ UNCHANGED <<fin, closed, broken, readErr, endVars>>

\* src.Read returns n > 0 chunks, io.EOF with the last ones perhaps.
CopyRead(g) ==
  LET p == SrcPipe(g) IN
  /\ copy[g] = "read" /\ <<g[1], Src(g)>> \notin closed
  /\ \E n \in 1..Min({BufSize, Len(pipe[p])}) :
       /\ buf' = [buf EXCEPT ![g] = SubSeq(pipe[p], 1, n)]
       /\ pipe' = [pipe EXCEPT ![p] = SubSeq(@, n + 1, Len(@))]
       /\ \E e \in BOOLEAN :
            /\ e => fin[p] /\ n = Len(pipe[p])
            /\ readErr' = [readErr EXCEPT ![g] = e]
  /\ copy' = [copy EXCEPT ![g] = "write"]
  /\ UNCHANGED <<fin, closed, broken, endVars>>

\* src.Read returns no data and an error or io.EOF.
CopyReadEnds(g) ==
  LET p == SrcPipe(g) IN
  /\ copy[g] = "read"
  /\ Unusable(g[1], Src(g)) \/ (pipe[p] = <<>> /\ fin[p])
  /\ copy' = [copy EXCEPT ![g] = "return"]
  /\ UNCHANGED <<linkVars, buf, readErr, endVars>>

\* Where copyBuffer goes when rest is still to be written.
Continue(g, rest) ==
  /\ buf' = [buf EXCEPT ![g] = rest]
  /\ copy' = [copy EXCEPT ![g] = IF rest # <<>> THEN "write"
                                 ELSE IF readErr[g] THEN "return" ELSE "read"]

\* Deliberate bug: the last chunk written is written again.
CopyWriteRepeats(g) ==
  LET p == DstPipe(g) IN
  /\ copy[g] = "write" /\ ~Unusable(g[1], Dst(g))
  /\ <<Opposite(g[1], Dst(g)), Dst(g)>> \notin closed
  /\ \E n \in 1..Min({Len(buf[g]), Cap - Len(pipe[p])}) :
       /\ pipe' = [pipe EXCEPT ![p] = @ \o SubSeq(buf[g], 1, n)]
       /\ Continue(g, SubSeq(buf[g], n, Len(buf[g])))
  /\ UNCHANGED <<fin, closed, broken, readErr, endVars>>

\* Deliberate bug: Write does not wait for room, and is retried after it has
\* succeeded.
CopyWriteUnbounded(g) ==
  LET p == DstPipe(g) IN
  /\ copy[g] = "write" /\ ~Unusable(g[1], Dst(g))
  /\ <<Opposite(g[1], Dst(g)), Dst(g)>> \notin closed
  /\ pipe' = [pipe EXCEPT ![p] = @ \o buf[g]]
  /\ Continue(g, buf[g])
  /\ UNCHANGED <<fin, closed, broken, readErr, endVars>>

\* dst.Write makes progress.  (It returns when all is written or with an
\* error, so copyBuffer's check for a short write never fires.)
CopyWrite(g) ==
  LET p == DstPipe(g) IN
  /\ copy[g] = "write" /\ ~Unusable(g[1], Dst(g))
  /\ <<Opposite(g[1], Dst(g)), Dst(g)>> \notin closed
  /\ \E n \in 1..Min({Len(buf[g]), Cap - Len(pipe[p])}) :
       /\ pipe' = [pipe EXCEPT ![p] = @ \o SubSeq(buf[g], 1, n)]
       /\ Continue(g, SubSeq(buf[g], n + 1, Len(buf[g])))
  /\ UNCHANGED <<fin, closed, broken, readErr, endVars>>

\* dst.Write succeeds, but the other side has closed: the data are lost.
CopyWriteLost(g) ==
  /\ copy[g] = "write" /\ ~Unusable(g[1], Dst(g))
  /\ <<Opposite(g[1], Dst(g)), Dst(g)>> \in closed
  /\ Continue(g, <<>>)
  /\ UNCHANGED <<linkVars, readErr, endVars>>

\* dst.Write fails: copyBuffer returns, what it had read is lost.
CopyWriteFails(g) ==
  /\ copy[g] = "write"
  /\ \/ Unusable(g[1], Dst(g))
     \/ <<Opposite(g[1], Dst(g)), Dst(g)>> \in closed
  /\ buf' = [buf EXCEPT ![g] = <<>>]
  /\ copy' = [copy EXCEPT ![g] = "return"]
  /\ UNCHANGED <<linkVars, readErr, endVars>>

\* Deliberate bug: the goroutine ends without closing its connection.
CopyReturnOpen(g) ==
  /\ copy[g] = "return"
  /\ copy' = [copy EXCEPT ![g] = "done"]
  /\ UNCHANGED <<linkVars, buf, readErr, endVars>>

\* The deferred Close of the connection it wrote to, and wg.Done.  (When both
\* goroutines have ended Join returns, and what its callers close is closed.)
CopyReturn(g) ==
  /\ copy[g] = "return"
  /\ CloseEnd(g[1], Dst(g))
  /\ copy' = [copy EXCEPT ![g] = "done"]
  /\ UNCHANGED <<buf, readErr, endVars>>

(***************************************************************************)
(* The endpoints and the network                                           *)
(***************************************************************************)

OutPipe(k) == <<LinkOf(k), OutDir(k, LinkOf(k))>>
InPipe(k) == <<LinkOf(k), InDir(k, LinkOf(k))>>

\* Endpoint k sends a chunk; it is lost if the relay has closed its side.
Send(k) ==
  /\ sent[k] < MaxSend(k)
  /\ ~Unusable(k, LinkOf(k)) /\ ~fin[OutPipe(k)]
  /\ sent' = [sent EXCEPT ![k] = @ + 1]
  /\ \/ /\ <<Opposite(k, LinkOf(k)), LinkOf(k)>> \in closed
        /\ UNCHANGED pipe
     \/ /\ <<Opposite(k, LinkOf(k)), LinkOf(k)>> \notin closed
        /\ Len(pipe[OutPipe(k)]) < Cap
        /\ pipe' = [pipe EXCEPT ![OutPipe(k)] = Append(@, sent[k] + 1)]
  /\ UNCHANGED <<fin, closed, broken, copyVars, got, eof, stalled>>

\* It ends its sending direction only (shutdown).
Shutdown(k) ==
  /\ ~Unusable(k, LinkOf(k)) /\ ~fin[OutPipe(k)]
  /\ fin' = [fin EXCEPT ![OutPipe(k)] = TRUE]
  /\ UNCHANGED <<pipe, closed, broken, copyVars, endVars>>

\* It closes its connection.
Quit(k) ==
  /\ <<k, LinkOf(k)>> \notin closed
  /\ CloseEnd(k, LinkOf(k))
  /\ UNCHANGED <<copyVars, endVars>>

Receive(k) ==
  /\ k \notin stalled /\ <<k, LinkOf(k)>> \notin closed
  /\ pipe[InPipe(k)] # <<>>
  /\ got' = [got EXCEPT ![k] = Append(@, Head(pipe[InPipe(k)]))]
  /\ pipe' = [pipe EXCEPT ![InPipe(k)] = Tail(@)]
  /\ UNCHANGED <<fin, closed, broken, copyVars, sent, eof, stalled>>

SeeEof(k) ==
  /\ k \notin stalled \cup eof /\ ~Unusable(k, LinkOf(k))
  /\ pipe[InPipe(k)] = <<>> /\ fin[InPipe(k)]
  /\ eof' = eof \cup {k}
  /\ UNCHANGED <<linkVars, copyVars, sent, got, stalled>>

Stall(k) ==
  /\ k \in Lazy \ stalled
  /\ stalled' = stalled \cup {k}
  /\ UNCHANGED <<linkVars, copyVars, sent, got, eof>>

\* A connection, or the session that carries the stream, breaks.
Reset(l) ==
  /\ l \in Faulty \ broken
  /\ broken' = broken \cup {l}
  /\ UNCHANGED <<pipe, fin, closed, copyVars, endVars>>

-----------------------------------------------------------------------------

CopyStep(g) ==
  \/ CopyRead(g) \/ CopyReadEnds(g) \/ CopyWrite(g) \/ CopyWriteLost(g)
  \/ CopyWriteFails(g) \/ CopyReturn(g)

Next ==
  \/ \E g \in Copies : CopyStep(g)
  \/ \E k \in Ends :
       \/ Send(k) \/ Shutdown(k) \/ Quit(k) \/ Receive(k) \/ SeeEof(k)
       \/ Stall(k)
  \/ \E l \in Links : Reset(l)

Spec == Init /\ [][Next]_vars

\* Goroutines that can run do run, and an endpoint reads unless it stalls.
FairSpec ==
  /\ Spec
  /\ \A g \in Copies : WF_vars(CopyStep(g))
  /\ \A k \in Ends : WF_vars(Receive(k))

(***************************************************************************)
(* Properties                                                              *)
(***************************************************************************)

\* Whatever fails, an endpoint receives a prefix of what the other one sent:
\* nothing is reordered, repeated or left out in the middle (copyBuffer).
PrefixDelivered ==
  \A k \in Ends :
    /\ Len(got[k]) <= sent[Peer(k)]
    /\ \A i \in 1..Len(got[k]) : got[k][i] = i

\* A one-way transfer over unbroken links is complete: when the receiver,
\* which has sent nothing, sees the end of the data it has all of them, also
\* when Read returned the last ones together with io.EOF.
OneWayComplete ==
  \A k \in Ends :
    k \in eof /\ sent[k] = 0 /\ ~fin[OutPipe(k)] /\ broken = {}
      => Len(got[k]) = sent[Peer(k)]

(***************************************************************************)
(* Why: the invariant of the chain.  Along direction d the parties are     *)
(* numbered 0 (the sender) to 3, party i - 1 writes to the i-th link and   *)
(* party i reads from it.                                                  *)
(***************************************************************************)

Stages == {1, 2, 3}   \* the links
Hops == {1, 2}        \* the copyBuffers between them

Rev(d) == IF d = "down" THEN "up" ELSE "down"
Party(d, i) == IF d = "down" THEN i ELSE 3 - i
Stage(d, i) == <<IF d = "down" THEN i ELSE 4 - i, d>>
Copier(d, i) == <<Party(d, i), d>>
WriterEnd(d, i) == <<Party(d, i - 1), Stage(d, i)[1]>>
ReaderEnd(d, i) == <<Party(d, i), Stage(d, i)[1]>>

Received(d) == got[Party(d, 3)]
Produced(d) == sent[Party(d, 0)]
Pipe(d, i) == pipe[Stage(d, i)]
Held(d, i) == buf[Copier(d, i)]

\* The number of chunks that the i-th link, or what comes after it, has taken
\* and not lost.
Passed3(d) == Len(Received(d)) + Len(Pipe(d, 3))
Passed2(d) == Passed3(d) + (Len(Held(d, 2)) + Len(Pipe(d, 2)))
Passed1(d) == Passed2(d) + (Len(Held(d, 1)) + Len(Pipe(d, 1)))

\* What is written to the i-th link can be read.
Open(d, i) ==
  /\ WriterEnd(d, i) \notin closed /\ ReaderEnd(d, i) \notin closed
  /\ Stage(d, i)[1] \notin broken

\* The chunks of s are the ones after number b; they are among the first n.
Consecutive(s, b) == \A j \in 1..Len(s) : s[j] = b + j
Within(s, n) == \A j \in 1..Len(s) : s[j] <= n

\* Chunks follow each other without a gap, as far as nothing that can still
\* be delivered lies behind a place where chunks were lost.
InOrder(d) ==
  /\ Consecutive(Received(d), 0)
  /\ Consecutive(Pipe(d, 3), Len(Received(d)))
  /\ Open(d, 3) =>
       /\ Consecutive(Held(d, 2), Passed3(d))
       /\ Consecutive(Pipe(d, 2), Passed3(d) + Len(Held(d, 2)))
  /\ Open(d, 3) /\ Open(d, 2) =>
       /\ Consecutive(Held(d, 1), Passed2(d))
       /\ Consecutive(Pipe(d, 1), Passed2(d) + Len(Held(d, 1)))

\* Nothing is under way that was not sent.
Bounded(d) ==
  /\ Within(Received(d), Produced(d))
  /\ \A i \in Hops : Within(Held(d, i), Produced(d))
  /\ \A i \in Stages : Within(Pipe(d, i), Produced(d))

\* Who closes what: a copyBuffer closes the link it writes to, when it ends.
ClosedByCopy(d) ==
  /\ \A i \in Hops :
       /\ WriterEnd(d, i + 1) \in closed <=> copy[Copier(d, i)] = "done"
       /\ fin[Stage(d, i + 1)] <=> copy[Copier(d, i)] = "done"
       /\ Held(d, i) # <<>> <=> copy[Copier(d, i)] = "write"
  /\ WriterEnd(d, 1) \in closed => fin[Stage(d, 1)]

\* The receiver has sent nothing and not ended its sending direction.
Quiet(d) ==
  sent[Party(d, 3)] = 0 /\ ~fin[Stage(Rev(d), 1)] /\ broken = {}

\* Then both machines end the transfer in the order of the data: a copyBuffer
\* ends when its source is finished and drained, and only then the one for
\* the other direction.
EndsInOrder(d) ==
  Quiet(d) =>
    /\ \A i \in Hops :
         /\ copy[Copier(d, i)] \in {"return", "done"} \/ readErr[Copier(d, i)]
              => Pipe(d, i) = <<>> /\ fin[Stage(d, i)]
         /\ copy[Copier(Rev(d), 3 - i)] \in {"return", "done"}
              => copy[Copier(d, i)] = "done"
    /\ Party(d, 3) \in eof => Pipe(d, 3) = <<>> /\ fin[Stage(d, 3)]

\* Nothing was lost.
Lossless(d) ==
  Quiet(d) \/ (Open(d, 1) /\ Open(d, 2) /\ Open(d, 3))
    => Passed1(d) = Produced(d)

\* The invariant of the relay.
RelayInv ==
  /\ TypeOK
  /\ \A d \in Dirs : /\ InOrder(d) /\ Bounded(d) /\ ClosedByCopy(d)
                     /\ EndsInOrder(d) /\ Lossless(d)

\* When an endpoint has closed its connection all four goroutines end, on
\* both machines, unless the other endpoint neither reads nor closes.
RelayEnds ==
  \A k \in Ends :
    <<k, LinkOf(k)>> \in closed
      ~> ((\A g \in Copies : copy[g] = "done") \/ Peer(k) \in stalled)
=============================================================================
