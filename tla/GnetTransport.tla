--------------------------- MODULE GnetTransport ----------------------------
(***************************************************************************)
(* The gnet transport of the server (pkg/transport/gnet_transport.go): a   *)
(* listener whose event loop hands connections and data over to blocking   *)
(* goroutines through channels.  acceptCh holds AcceptCap connections and  *)
(* readCh of a connection ReadCap pieces of data; OnOpen waits for room,   *)
(* OnTraffic does not.                                                     *)
(*                                                                         *)
(* One event loop serves all connections, which is what the connections of *)
(* one loop see in a multicore engine.  The engine is modelled from how    *)
(* the code uses it.  EncryptedConn adds what is sent and who reads.       *)
(***************************************************************************)
EXTENDS Integers, Sequences, FiniteSetsExt

CONSTANTS
  Conns,       \* connections
  AcceptCap,   \* capacity of acceptCh, 1024
  ReadCap,     \* capacity of a readCh, 256
  None         \* no connection

ASSUME GnetAssumption ==
  AcceptCap \in Nat \ {0} /\ ReadCap \in Nat \ {0} /\ None \notin Conns

VARIABLES
  engine,    \* "starting", "running", "failed", "stopped"
  loop,      \* the connection whose OnOpen the event loop is in, or None
  conn,      \* "new", "pending" (not opened yet), "open", "closed"
  acceptCh,  \* connections handed over and not accepted
  accepted,  \* connections Accept has returned
  acceptor,  \* the accept loop of the server runs
  closer,    \* where Close of the listener is: "no", "stopping", "done"
  wire,      \* data of a connection that the engine has not read
  fin,       \* connections their peer has closed
  hangup,    \* connections the server has asked the engine to close
  readCh,    \* pieces of data handed over
  readBuf,   \* the rest of the piece that was read last
  closeCh,   \* connections whose closeCh is closed
  dropped    \* history: connections that OnTraffic dropped data of

listenVars == <<engine, loop, acceptCh, accepted, acceptor, closer>>
dataVars == <<readCh, readBuf, dropped>>
gnetVars == <<listenVars, conn, wire, fin, hangup, closeCh, dataVars>>

GnetTypeOK(Byte) ==
  /\ engine \in {"starting", "running", "failed", "stopped"}
  /\ loop \in Conns \cup {None}
  /\ conn \in [Conns -> {"new", "pending", "open", "closed"}]
  /\ acceptCh \in Seq(Conns) /\ Len(acceptCh) <= AcceptCap
  /\ acceptor \in BOOLEAN
  /\ closer \in {"no", "stopping", "done"}
  /\ wire \in [Conns -> Seq(Byte)]
  /\ readCh \in [Conns -> Seq(Seq(Byte))]
  /\ \A c \in Conns : Len(readCh[c]) <= ReadCap
  /\ readBuf \in [Conns -> Seq(Byte)]
  /\ \A S \in {accepted, fin, hangup, closeCh, dropped} : S \subseteq Conns

\* Listen returns after 100 ms, whatever the engine does.
GnetInit ==
  /\ engine = "starting" /\ loop = None
  /\ conn = [c \in Conns |-> "new"]
  /\ acceptCh = <<>> /\ accepted = {} /\ acceptor = TRUE /\ closer = "no"
  /\ wire = [c \in Conns |-> <<>>] /\ fin = {} /\ hangup = {}
  /\ readCh = [c \in Conns |-> <<>>] /\ readBuf = [c \in Conns |-> <<>>]
  /\ closeCh = {} /\ dropped = {}

(***************************************************************************)
(* The engine and its event loop                                           *)
(***************************************************************************)

\* gnet.Run calls OnBoot, or fails, which nobody is told.
Boot ==
  /\ engine = "starting"
  /\ engine' \in {"running", "failed"}
  /\ UNCHANGED <<loop, acceptCh, accepted, acceptor, closer, conn, wire, fin,
                 hangup, closeCh, dataVars>>

\* A client connects.
PeerConnects(c) ==
  /\ engine = "running" /\ conn[c] = "new"
  /\ conn' = [conn EXCEPT ![c] = "pending"]
  /\ UNCHANGED <<listenVars, wire, fin, hangup, closeCh, dataVars>>

\* The client closes its end; what it wrote still arrives.
PeerCloses(c) ==
  /\ conn[c] \in {"pending", "open"} /\ c \notin fin
  /\ fin' = fin \cup {c}
  /\ UNCHANGED <<listenVars, conn, wire, hangup, closeCh, dataVars>>

LoopFree == engine = "running" /\ loop = None

\* OnOpen is called and comes to its select.
OnOpen(c) ==
  /\ LoopFree /\ conn[c] = "pending"
  /\ loop' = c
  /\ conn' = [conn EXCEPT ![c] = "open"]
  /\ UNCHANGED <<engine, acceptCh, accepted, acceptor, closer, wire, fin,
                 hangup, closeCh, dataVars>>

\* OnOpen: l.acceptCh <- conn
OnOpenHandOver ==
  /\ loop # None /\ Len(acceptCh) < AcceptCap
  /\ acceptCh' = Append(acceptCh, loop)
  /\ loop' = None
  /\ UNCHANGED <<engine, accepted, acceptor, closer, conn, wire, fin, hangup,
                 closeCh, dataVars>>

\* Deliberate bug: OnOpen does not look at the closeCh of the listener.
OnOpenRefuseNever ==
  /\ FALSE
  /\ UNCHANGED gnetVars

\* OnOpen: <-l.closeCh, the engine closes the connection and calls OnClose
OnOpenRefuse ==
  /\ loop # None /\ closer # "no"
  /\ conn' = [conn EXCEPT ![loop] = "closed"]
  /\ closeCh' = closeCh \cup {loop}
  /\ loop' = None
  /\ UNCHANGED <<engine, acceptCh, accepted, acceptor, closer, wire, fin,
                 hangup, dataVars>>

\* OnTraffic with the first n bytes under way: they are handed over, the
\* connection is closed (OnClose follows), or, when neither is possible,
\* they are dropped.
OnTraffic(c) ==
  /\ LoopFree /\ conn[c] = "open"
  /\ \E n \in 1..Len(wire[c]) :
       LET piece == SubSeq(wire[c], 1, n)
           room == Len(readCh[c]) < ReadCap
       IN
       /\ wire' = [wire EXCEPT ![c] = SubSeq(@, n + 1, Len(@))]
       /\ \/ /\ room
             /\ readCh' = [readCh EXCEPT ![c] = Append(@, piece)]
             /\ UNCHANGED <<conn, dropped>>
          \/ /\ c \in closeCh
             /\ conn' = [conn EXCEPT ![c] = "closed"]
             /\ UNCHANGED <<readCh, dropped>>
          \/ /\ ~room /\ c \notin closeCh
             /\ dropped' = dropped \cup {c}
             /\ UNCHANGED <<conn, readCh>>
  /\ UNCHANGED <<listenVars, fin, hangup, closeCh, readBuf>>

\* Deliberate bug: OnClose forgets the channel of the connection.
OnCloseQuiet(c) ==
  /\ LoopFree /\ conn[c] = "open"
  /\ c \in hangup \/ (c \in fin /\ wire[c] = <<>>)
  /\ conn' = [conn EXCEPT ![c] = "closed"]
  /\ UNCHANGED <<listenVars, wire, fin, hangup, closeCh, dataVars>>

\* The engine closes a connection that the peer has closed, after its data,
\* or that the server has, and calls OnClose: close(conn.closeCh), once.
OnClose(c) ==
  /\ LoopFree /\ conn[c] = "open"
  /\ c \in hangup \/ (c \in fin /\ wire[c] = <<>>)
  /\ conn' = [conn EXCEPT ![c] = "closed"]
  /\ closeCh' = closeCh \cup {c}
  /\ UNCHANGED <<listenVars, wire, fin, hangup, dataVars>>

(***************************************************************************)
(* The listener                                                            *)
(***************************************************************************)

\* Accept returns a connection.
Accept ==
  /\ acceptor /\ acceptCh # <<>>
  /\ accepted' = accepted \cup {Head(acceptCh)}
  /\ acceptCh' = Tail(acceptCh)
  /\ UNCHANGED <<engine, loop, acceptor, closer, conn, wire, fin, hangup,
                 closeCh, dataVars>>

\* Accept fails, the listener is closed; the accept loop of the server ends.
AcceptFails ==
  /\ acceptor /\ closer # "no"
  /\ acceptor' = FALSE
  /\ UNCHANGED <<engine, loop, acceptCh, accepted, closer, conn, wire, fin,
                 hangup, closeCh, dataVars>>

\* Close: close(l.closeCh); an engine that has not booted is left alone.
CloseListener ==
  /\ closer = "no"
  /\ closer' = IF engine = "running" THEN "stopping" ELSE "done"
  /\ UNCHANGED <<engine, loop, acceptCh, accepted, acceptor, conn, wire, fin,
                 hangup, closeCh, dataVars>>

\* Close: l.engine.Stop waits for the event loop, which closes what is open.
StopEngine ==
  /\ closer = "stopping" /\ LoopFree
  /\ engine' = "stopped" /\ closer' = "done"
  /\ closeCh' = closeCh \cup {c \in Conns : conn[c] = "open"}
  /\ conn' = [c \in Conns |-> IF conn[c] = "new" THEN "new" ELSE "closed"]
  /\ UNCHANGED <<loop, acceptCh, accepted, acceptor, wire, fin, hangup,
                 dataVars>>

(***************************************************************************)
(* GnetConn                                                                *)
(***************************************************************************)

CanRead(c) == readBuf[c] # <<>> \/ readCh[c] # <<>>

\* Read(b) with Len(b) = m returns the bytes ReadBytes(c, m).
Piece(c) == IF readBuf[c] # <<>> THEN readBuf[c] ELSE Head(readCh[c])
ReadBytes(c, m) == SubSeq(Piece(c), 1, Min({m, Len(Piece(c))}))

\* Deliberate bug: what is left of a piece is not cut.
ReadAgain(c, m) ==
  /\ CanRead(c)
  /\ readBuf' = [readBuf EXCEPT
                   ![c] = IF m < Len(Piece(c)) THEN Piece(c) ELSE <<>>]
  /\ readCh' = IF readBuf[c] # <<>> THEN readCh
               ELSE [readCh EXCEPT ![c] = Tail(@)]
  /\ UNCHANGED <<listenVars, conn, wire, fin, hangup, closeCh, dropped>>

\* Read: readBuf first, then the next piece, the rest of which is kept.
Read(c, m) ==
  /\ CanRead(c)
  /\ readBuf' = [readBuf EXCEPT
                   ![c] = SubSeq(Piece(c), m + 1, Len(Piece(c)))]
  /\ readCh' = IF readBuf[c] # <<>> THEN readCh
               ELSE [readCh EXCEPT ![c] = Tail(@)]
  /\ UNCHANGED <<listenVars, conn, wire, fin, hangup, closeCh, dropped>>

\* Read returns io.EOF.  The select of Read is free to choose this when
\* there are data as well.
CanEOF(c) == readBuf[c] = <<>> /\ c \in closeCh

\* Close: close(c.closeCh), once, and c.gnetConn.Close()
Close(c) ==
  /\ closeCh' = closeCh \cup {c}
  /\ hangup' = hangup \cup {c}
  /\ UNCHANGED <<listenVars, conn, wire, fin, dataVars>>

Engine ==
  \/ OnOpenHandOver \/ OnOpenRefuse \/ StopEngine
  \/ \E c \in Conns : OnOpen(c) \/ OnTraffic(c) \/ OnClose(c)
=============================================================================
