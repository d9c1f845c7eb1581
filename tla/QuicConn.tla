------------------------------ MODULE QuicConn ------------------------------
(***************************************************************************)
(* The two ends of one QUIC connection (pkg/transport/quic_transport.go).  *)
(* QUICConn is used as a net.Conn: the first Read or Write initialises the *)
(* one stream, the client by opening it, the server by waiting for it.     *)
(* initStream does so with c.mu held; Close does not take c.mu.            *)
(*                                                                         *)
(* At each end the mux session runs one goroutine that reads and one that  *)
(* writes (Ops).  The QUIC library is modelled from how the code uses it:  *)
(* the peer learns of a stream when something is sent on it, a closed      *)
(* connection fails all calls of its end, and the other end learns of the  *)
(* close from a message or, when that is lost, from the idle timeout.      *)
(***************************************************************************)
EXTENDS Integers, Sequences

CONSTANTS
  MaxWrites,    \* bound: Writes of each end
  MaxStreams    \* bound: streams the client opens

ASSUME QuicAssumption == MaxWrites \in Nat /\ MaxStreams \in Nat \ {0}

Sides == {"client", "server"}
Other(s) == IF s = "client" THEN "server" ELSE "client"
Ops == {"Read", "Write"}
Nobody == "nobody"
Streams == 1..MaxStreams

VARIABLES
  pc,          \* where a goroutine is: "idle", "lock", "init", "io", "failed"
  mu,          \* the goroutine that holds c.mu, or Nobody
  streamInit,  \* c.streamInit
  stream,      \* c.stream, or 0
  opened,      \* streams the client has opened
  announced,   \* streams the client has sent something on
  taken,       \* streams the server has accepted
  written,     \* Writes that succeeded, by stream and sending end
  finished,    \* ends of streams that were closed: <<stream, end>>
  read,        \* Writes that were read, by stream and reading end
  closing,     \* where Close is: "no", "called", "stream", "conn", "done"
  dead,        \* the end has closed the connection or has seen it closed
  silent       \* nothing gets through any more

goVars == <<pc, mu>>
initVars == <<streamInit, stream>>
netVars == <<opened, announced, taken, written, finished, read>>
endVars == <<closing, dead, silent>>
quicVars == <<goVars, initVars, netVars, endVars>>

QuicTypeOK ==
  /\ pc \in [Sides \X Ops -> {"idle", "lock", "init", "io", "failed"}]
  /\ mu \in [Sides -> Ops \cup {Nobody}]
  /\ streamInit \in [Sides -> BOOLEAN]
  /\ stream \in [Sides -> 0..MaxStreams]
  /\ opened \in 0..MaxStreams /\ taken \in 0..MaxStreams
  /\ announced \subseteq Streams
  /\ written \in [Streams \X Sides -> 0..MaxWrites]
  /\ finished \subseteq Streams \X Sides
  /\ read \in [Streams \X Sides -> 0..MaxWrites]
  /\ closing \in [Sides -> {"no", "called", "stream", "conn", "done"}]
  /\ dead \in [Sides -> BOOLEAN]
  /\ silent \in BOOLEAN

\* Dial and Accept have returned the two ends.
QuicInit ==
  /\ pc = [g \in Sides \X Ops |-> "idle"]
  /\ mu = [s \in Sides |-> Nobody]
  /\ streamInit = [s \in Sides |-> FALSE]
  /\ stream = [s \in Sides |-> 0]
  /\ opened = 0 /\ announced = {} /\ taken = 0
  /\ written = [x \in Streams \X Sides |-> 0]
  /\ finished = {}
  /\ read = [x \in Streams \X Sides |-> 0]
  /\ closing = [s \in Sides |-> "no"]
  /\ dead = [s \in Sides |-> FALSE]
  /\ silent = FALSE

At(s, op, l) == pc[<<s, op>>] = l
Goto(s, op, l) == pc' = [pc EXCEPT ![<<s, op>>] = l]
Unlock(s) == mu' = [mu EXCEPT ![s] = Nobody]

\* The mux session calls Read or Write.
Call(s, op) ==
  /\ At(s, op, "idle")
  /\ op = "Write" =>
       \A x \in Streams : written[<<x, s>>] < MaxWrites
  /\ Goto(s, op, "lock")
  /\ UNCHANGED <<mu, initVars, netVars, endVars>>

\* Deliberate bug: streamInit is looked at without the lock.
LockNever(s, op) ==
  /\ At(s, op, "lock")
  /\ Goto(s, op, IF streamInit[s] THEN "io" ELSE "init")
  /\ UNCHANGED <<mu, initVars, netVars, endVars>>

\* initStream: c.mu.Lock() and the look at streamInit.
Lock(s, op) ==
  /\ At(s, op, "lock") /\ mu[s] = Nobody
  /\ IF streamInit[s]
     THEN Goto(s, op, "io") /\ UNCHANGED mu
     ELSE Goto(s, op, "init") /\ mu' = [mu EXCEPT ![s] = op]
  /\ UNCHANGED <<initVars, netVars, endVars>>

\* initStream has its stream, sets c.stream and c.streamInit and unlocks.
HasStream(s, op, x) ==
  /\ stream' = [stream EXCEPT ![s] = x]
  /\ streamInit' = [streamInit EXCEPT ![s] = TRUE]
  /\ Goto(s, op, "io") /\ Unlock(s)

\* initStream of the client: OpenStreamSync
OpenStreamSync(op) ==
  /\ At("client", op, "init") /\ ~dead["client"] /\ opened < MaxStreams
  /\ opened' = opened + 1
  /\ HasStream("client", op, opened + 1)
  /\ UNCHANGED <<announced, taken, written, finished, read, endVars>>

\* Deliberate bug: the lock is kept.
AcceptStreamLocked(op) ==
  /\ At("server", op, "init") /\ ~dead["server"]
  /\ taken < MaxStreams /\ taken + 1 \in announced
  /\ taken' = taken + 1
  /\ stream' = [stream EXCEPT !["server"] = taken + 1]
  /\ streamInit' = [streamInit EXCEPT !["server"] = TRUE]
  /\ Goto("server", op, "io")
  /\ UNCHANGED <<mu, opened, announced, written, finished, read, endVars>>

\* initStream of the server: AcceptStream waits until the client's stream
\* is known.
AcceptStream(op) ==
  /\ At("server", op, "init") /\ ~dead["server"]
  /\ taken < MaxStreams /\ taken + 1 \in announced
  /\ taken' = taken + 1
  /\ HasStream("server", op, taken + 1)
  /\ UNCHANGED <<opened, announced, written, finished, read, endVars>>

\* initStream returns an error, streamInit stays as it is; the session
\* that called gives up.
InitFails(s, op) ==
  /\ At(s, op, "init") /\ dead[s]
  /\ Goto(s, op, "failed") /\ Unlock(s)
  /\ UNCHANGED <<initVars, netVars, endVars>>

\* Write: c.stream.Write
StreamWrite(s) ==
  LET x == stream[s] IN
  /\ At(s, "Write", "io") /\ ~dead[s] /\ <<x, s>> \notin finished
  /\ written' = [written EXCEPT ![<<x, s>>] = @ + 1]
  /\ announced' = IF silent THEN announced ELSE announced \cup {x}
  /\ Goto(s, "Write", "idle")
  /\ UNCHANGED <<mu, initVars, opened, taken, finished, read, endVars>>

\* Read: c.stream.Read returns data
StreamRead(s) ==
  LET x == stream[s] IN
  /\ At(s, "Read", "io") /\ ~dead[s] /\ ~silent
  /\ read[<<x, s>>] < written[<<x, Other(s)>>]
  /\ read' = [read EXCEPT ![<<x, s>>] = @ + 1]
  /\ Goto(s, "Read", "idle")
  /\ UNCHANGED <<mu, initVars, opened, announced, taken, written, finished,
                 endVars>>

\* Read or Write fails: the connection is dead, the stream closed by this
\* end (Write) or finished by the other one (Read).
IoFails(s, op) ==
  LET x == stream[s] IN
  /\ At(s, op, "io")
  /\ \/ dead[s]
     \/ op = "Write" /\ <<x, s>> \in finished
     \/ /\ op = "Read" /\ ~silent /\ <<x, Other(s)>> \in finished
        /\ read[<<x, s>>] = written[<<x, Other(s)>>]
  /\ Goto(s, op, "failed")
  /\ UNCHANGED <<mu, initVars, netVars, endVars>>

\* The session calls Close.
CallClose(s) ==
  /\ closing[s] = "no"
  /\ closing' = [closing EXCEPT ![s] = "called"]
  /\ UNCHANGED <<goVars, initVars, netVars, dead, silent>>

\* Deliberate bug: Close waits for c.mu.
CloseBeginLocked(s) ==
  /\ closing[s] = "called" /\ mu[s] = Nobody
  /\ closing' = [closing EXCEPT ![s] = IF streamInit[s] THEN "stream" ELSE "conn"]
  /\ UNCHANGED <<goVars, initVars, netVars, dead, silent>>

\* Close reads c.streamInit without the lock, and may see it not yet set.
CloseBegin(s) ==
  /\ closing[s] = "called"
  /\ \E seen \in {FALSE, streamInit[s]} :
       closing' = [closing EXCEPT ![s] = IF seen THEN "stream" ELSE "conn"]
  /\ UNCHANGED <<goVars, initVars, netVars, dead, silent>>

\* Close: c.stream.Close()
CloseStream(s) ==
  /\ closing[s] = "stream"
  /\ finished' = finished \cup {<<stream[s], s>>}
  /\ announced' = IF silent \/ dead[s] THEN announced
                  ELSE announced \cup {stream[s]}
  /\ closing' = [closing EXCEPT ![s] = "conn"]
  /\ UNCHANGED <<goVars, initVars, opened, taken, written, read, dead, silent>>

\* Close: c.conn.CloseWithError
CloseConn(s) ==
  /\ closing[s] = "conn"
  /\ dead' = [dead EXCEPT ![s] = TRUE]
  /\ closing' = [closing EXCEPT ![s] = "done"]
  /\ UNCHANGED <<goVars, initVars, netVars, silent>>

\* An end hears that the other one has closed the connection, or has heard
\* nothing for MaxIdleTimeout; KeepAlivePeriod keeps a live one from that.
EndNotices(s) ==
  /\ ~dead[s] /\ (dead[Other(s)] \/ silent)
  /\ dead' = [dead EXCEPT ![s] = TRUE]
  /\ UNCHANGED <<goVars, initVars, netVars, closing, silent>>

\* The network stops carrying packets.
GoSilent ==
  /\ ~silent
  /\ silent' = TRUE
  /\ UNCHANGED <<goVars, initVars, netVars, closing, dead>>

-----------------------------------------------------------------------------

\* The steps of a call that was made.
Step(s, op) ==
  \/ Lock(s, op)
  \/ s = "client" /\ OpenStreamSync(op)
  \/ s = "server" /\ AcceptStream(op)
  \/ InitFails(s, op)
  \/ op = "Write" /\ StreamWrite(s)
  \/ op = "Read" /\ StreamRead(s)
  \/ IoFails(s, op)

\* The mux session closes the connection when one of its goroutines failed.
SessionCloses(s) ==
  (\E op \in Ops : At(s, op, "failed")) /\ CallClose(s)

CloseStep(s) == CloseBegin(s) \/ CloseStream(s) \/ CloseConn(s)

QuicNext ==
  \/ \E s \in Sides, op \in Ops : Call(s, op) \/ Step(s, op)
  \/ \E s \in Sides : CallClose(s) \/ CloseStep(s) \/ EndNotices(s)
  \/ GoSilent

QuicSpec == QuicInit /\ [][QuicNext]_quicVars

\* Goroutines go on, sessions close a connection that has failed, and the
\* library reports a dead peer.  Nobody has to call, and the network need
\* not fail.
QuicFairSpec ==
  /\ QuicSpec
  /\ \A s \in Sides, op \in Ops : WF_quicVars(Step(s, op))
  /\ \A s \in Sides : /\ WF_quicVars(SessionCloses(s) \/ CloseStep(s))
                      /\ WF_quicVars(EndNotices(s))

(***************************************************************************)
(* Properties                                                              *)
(***************************************************************************)

\* The stream is initialised with c.mu held and once; it is used by Read,
\* Write and Close only when it is there.
InitExclusive ==
  /\ \A s \in Sides, op \in Ops :
       /\ At(s, op, "init") => mu[s] = op /\ ~streamInit[s]
       /\ At(s, op, "io") => streamInit[s]
  /\ \A s \in Sides : closing[s] = "stream" => streamInit[s]

\* Both ends use the same stream for all that is read and written, although
\* two goroutines of each end may be the first: the client opens one.
OneStream ==
  /\ opened <= 1
  /\ \A s \in Sides : /\ streamInit[s] <=> stream[s] = 1
                      /\ stream[s] <= opened
  /\ stream["client"] = opened /\ stream["server"] = taken
  /\ announced \subseteq 1..opened

\* The bound of Call holds until the Write is done.
WriteBounded ==
  \A s \in Sides : pc[<<s, "Write">>] \in {"lock", "init", "io"} =>
    \A x \in Streams : written[<<x, s>>] < MaxWrites

\* The invariant of the two ends.
StreamInv == QuicTypeOK /\ InitExclusive /\ OneStream /\ WriteBounded

\* When an end closes the connection, the calls under way at both ends
\* return, the ones that wait in initStream or for its lock included.
CloseEndsCalls ==
  \A s \in Sides :
    (closing[s] # "no") ~>
      \A t \in Sides : dead[t] /\ (\A op \in Ops : pc[<<t, op>>] \in {"idle", "failed"})

\* Once the client has sent something, no Read or Write of the server waits
\* in initStream for ever, unless the connection fails.
ServerHears ==
  \A op \in Ops :
    (written[<<1, "client">>] > 0 /\ pc[<<"server", op>>] \in {"lock", "init"})
      ~> (pc[<<"server", op>>] \notin {"lock", "init"} \/ dead["server"])
=============================================================================
