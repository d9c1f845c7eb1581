------------------------------- MODULE Tunnel -------------------------------
(***************************************************************************)
(* One established session between a client and the server: the proxies    *)
(* are registered over the control stream, users connect to them, and      *)
(* every user connection is given a data stream.                           *)
(*                                                                         *)
(* server: handleControlStream / handleNewProxy answer the requests, the   *)
(* accept loops (runProxy) start a handleUserConnection per user, which    *)
(* sends NewConn and takes the next stream the client opens.               *)
(* client: connect registers one proxy after the other (registerProxy),    *)
(* then handleControlStream starts a handleNewConn per NewConn.            *)
(*                                                                         *)
(* A user v stands for its connection, its handleUserConnection goroutine, *)
(* its ConnID, and the handleNewConn goroutine and data stream which the   *)
(* client creates for that ConnID.  Keepalive messages are the business of *)
(* ClientLifecycle, the bytes of a joined pair that of Relay.              *)
(***************************************************************************)
EXTENDS Integers, Sequences, FiniteSets

CONSTANTS
  Users,   \* user connections
  Names,   \* the proxies of the client
  None     \* no proxy, no stream

ASSUME TunnelAssumption == None \notin Users \cup Names /\ IsFiniteSet(Users)

VARIABLES
  session,     \* "open" or "closed"
  c2s,         \* proxy requests under way on the control stream
  s2c,         \* messages to the client under way on the control stream
  main,        \* where the client's connect is
  todo,        \* proxies the client has still to register
  running,     \* proxies with a running accept loop
  user,        \* handleUserConnection of each user
  want,        \* the proxy a user connected to
  handler,     \* the client's handleNewConn for a user's NewConn
  queue,       \* data streams opened and not accepted yet
  stream,      \* the data stream a user was given
  activeConns  \* stats.ActiveConns

ctrlVars == <<session, c2s, s2c, main, todo, running>>
vars == <<ctrlVars, user, want, handler, queue, stream, activeConns>>

Resp == [type |-> "resp"]
NewConn(v) == [type |-> "newconn", id |-> v]

TypeOK ==
  /\ session \in {"open", "closed"}
  /\ c2s \in Seq(Names)
  /\ s2c \in Seq({Resp} \cup {NewConn(v) : v \in Users})
  /\ main \in {"register", "await", "serve", "ended"}
  /\ todo \subseteq Names /\ running \subseteq Names
  /\ user \in [Users -> {"none", "notify", "waiting", "joined", "closed"}]
  /\ want \in [Users -> Names \cup {None}]
  /\ handler \in [Users -> {"none", "open", "dial", "joined", "closed"}]
  /\ queue \in Seq(Users)
  /\ stream \in [Users -> Users \cup {None}]
  /\ activeConns \in 0..Cardinality(Users)

Init ==
  /\ session = "open" /\ c2s = <<>> /\ s2c = <<>>
  /\ main = "register" /\ todo = Names /\ running = {}
  /\ user = [v \in Users |-> "none"]
  /\ want = [v \in Users |-> None]
  /\ handler = [v \in Users |-> "none"]
  /\ queue = <<>>
  /\ stream = [v \in Users |-> None]
  /\ activeConns = 0

(***************************************************************************)
(* Client: connect, registerProxy, handleControlStream                     *)
(***************************************************************************)

\* registerProxy sends the request; on a closed session it returns an error,
\* which connect only logs.
SendNewProxy(n) ==
  /\ main = "register" /\ n \in todo
  /\ todo' = todo \ {n}
  /\ \/ session = "open" /\ c2s' = Append(c2s, n) /\ main' = "await"
     \/ session = "closed" /\ UNCHANGED <<c2s, main>>
  /\ UNCHANGED <<session, s2c, running, user, want, handler, queue, stream,
                 activeConns>>

\* registerProxy takes the next message for the answer; any other type is an
\* error and the message is gone.
RecvAnswer ==
  /\ main = "await" /\ s2c # <<>>
  /\ s2c' = Tail(s2c)
  /\ main' = "register"
  /\ UNCHANGED <<session, c2s, todo, running, user, want, handler, queue,
                 stream, activeConns>>

\* All proxies were tried: keepalive and handleControlStream begin.
StartServing ==
  /\ main = "register" /\ todo = {}
  /\ main' = "serve"
  /\ UNCHANGED <<session, c2s, s2c, todo, running, user, want, handler,
                 queue, stream, activeConns>>

\* handleControlStream: NewConn starts a handleNewConn, a late answer is an
\* unknown message.
RecvControl ==
  /\ main = "serve" /\ s2c # <<>>
  /\ s2c' = Tail(s2c)
  /\ handler' = IF Head(s2c) = Resp THEN handler
                ELSE [handler EXCEPT ![Head(s2c).id] = "open"]
  /\ UNCHANGED <<session, c2s, main, todo, running, user, want, queue,
                 stream, activeConns>>

\* RecvMessage fails on the closed session.
RecvFails ==
  /\ session = "closed" /\ main \in {"await", "serve"}
  /\ main' = IF main = "await" THEN "register" ELSE "ended"
  /\ UNCHANGED <<session, c2s, s2c, todo, running, user, want, handler,
                 queue, stream, activeConns>>

(***************************************************************************)
(* Client: handleNewConn                                                   *)
(***************************************************************************)

\* Deliberate bug: the local service is dialed before the stream is opened.
OpenStreamAfterDial(v) ==
  /\ handler[v] = "open"
  /\ \/ /\ session = "open"
        /\ queue' = Append(queue, v)
        /\ handler' = [handler EXCEPT ![v] = "dial"]
     \/ /\ handler' = [handler EXCEPT ![v] = "closed"]
        /\ UNCHANGED queue
  /\ UNCHANGED <<ctrlVars, user, want, stream, activeConns>>

\* The data stream is opened before the local service is dialed.
OpenStream(v) ==
  /\ handler[v] = "open"
  /\ \/ /\ session = "open"
        /\ queue' = Append(queue, v)
        /\ handler' = [handler EXCEPT ![v] = "dial"]
     \/ /\ session = "closed"
        /\ handler' = [handler EXCEPT ![v] = "closed"]
        /\ UNCHANGED queue
  /\ UNCHANGED <<ctrlVars, user, want, stream, activeConns>>

\* The local service is dialed; on failure the deferred Close of the stream
\* tells the server.  (The proxy is known: the server only names proxies
\* this client has registered.)
DialLocal(v) ==
  /\ handler[v] = "dial"
  /\ \E r \in {"joined", "closed"} : handler' = [handler EXCEPT ![v] = r]
  /\ UNCHANGED <<ctrlVars, user, want, queue, stream, activeConns>>

\* The stream of v has ended: its session, or the user it was given to.
StreamEnded(v) ==
  \/ session = "closed"
  \/ \E w \in Users : stream[w] = v /\ user[w] = "closed"

\* Join returns: the stream or the local connection ended.
ClientJoinEnds(v) ==
  /\ handler[v] = "joined"
  /\ handler' = [handler EXCEPT ![v] = "closed"]
  /\ UNCHANGED <<ctrlVars, user, want, queue, stream, activeConns>>

(***************************************************************************)
(* Server                                                                  *)
(***************************************************************************)

\* handleNewProxy answers; a granted proxy gets its accept loop.
ServeNewProxy ==
  /\ session = "open" /\ c2s # <<>>
  /\ c2s' = Tail(c2s)
  /\ s2c' = Append(s2c, Resp)
  /\ running' \in {running, running \cup {Head(c2s)}}
  /\ UNCHANGED <<session, main, todo, user, want, handler, queue, stream,
                 activeConns>>

\* runProxy accepts a user connection.
AcceptUser(v, n) ==
  /\ user[v] = "none" /\ n \in running
  /\ user' = [user EXCEPT ![v] = "notify"]
  /\ want' = [want EXCEPT ![v] = n]
  /\ UNCHANGED <<ctrlVars, handler, queue, stream, activeConns>>

\* handleUserConnection sends NewConn; if that fails the user is dropped.
NotifyClient(v) ==
  /\ user[v] = "notify"
  /\ \/ /\ session = "open"
        /\ s2c' = Append(s2c, NewConn(v))
        /\ user' = [user EXCEPT ![v] = "waiting"]
     \/ /\ session = "closed"
        /\ user' = [user EXCEPT ![v] = "closed"]
        /\ UNCHANGED s2c
  /\ UNCHANGED <<session, c2s, main, todo, running, want, handler, queue,
                 stream, activeConns>>

\* AcceptStream returns the next stream, whoever's ConnID it was opened for.
AcceptStream(v) ==
  /\ user[v] = "waiting" /\ queue # <<>>
  /\ stream' = [stream EXCEPT ![v] = Head(queue)]
  /\ queue' = Tail(queue)
  /\ user' = [user EXCEPT ![v] = "joined"]
  /\ activeConns' = activeConns + 1
  /\ UNCHANGED <<ctrlVars, want, handler>>

\* Deliberate bug: the wait for a stream is given up.
AcceptGivesUp(v) ==
  /\ user[v] = "waiting"
  /\ user' = [user EXCEPT ![v] = "closed"]
  /\ UNCHANGED <<ctrlVars, want, handler, queue, stream, activeConns>>

\* Deliberate bug: a connection that was never counted is uncounted.
AcceptFailsUncounts(v) ==
  /\ user[v] = "waiting" /\ session = "closed"
  /\ user' = [user EXCEPT ![v] = "closed"]
  /\ activeConns' = activeConns - 1
  /\ UNCHANGED <<ctrlVars, want, handler, queue, stream>>

\* AcceptStream fails on the closed session.
AcceptFails(v) ==
  /\ user[v] = "waiting" /\ session = "closed"
  /\ user' = [user EXCEPT ![v] = "closed"]
  /\ UNCHANGED <<ctrlVars, want, handler, queue, stream, activeConns>>

\* The other side has closed the stream that user v was given.
PeerEnded(v) == session = "closed" \/ handler[stream[v]] = "closed"

\* Deliberate bug: the gauge is not decremented.
UserJoinEndsUncounted(v) ==
  /\ user[v] = "joined"
  /\ user' = [user EXCEPT ![v] = "closed"]
  /\ UNCHANGED <<ctrlVars, want, handler, queue, stream, activeConns>>

\* Join returns: the stream or the user ended; the deferred calls close both
\* and decrement the gauge.
UserJoinEnds(v) ==
  /\ user[v] = "joined"
  /\ user' = [user EXCEPT ![v] = "closed"]
  /\ activeConns' = activeConns - 1
  /\ UNCHANGED <<ctrlVars, want, handler, queue, stream>>

\* After the session has ended cleanupClient closes the proxies.
CleanupClient ==
  /\ session = "closed" /\ running # {}
  /\ running' = {}
  /\ UNCHANGED <<session, c2s, s2c, main, todo, user, want, handler, queue,
                 stream, activeConns>>

\* Network, keepalive, eviction or Stop end the session.
SessionDies ==
  /\ session = "open"
  /\ session' = "closed"
  /\ UNCHANGED <<c2s, s2c, main, todo, running, user, want, handler, queue,
                 stream, activeConns>>

-----------------------------------------------------------------------------

ClientStep ==
  (\E n \in Names : SendNewProxy(n)) \/ RecvAnswer \/ StartServing
  \/ RecvControl \/ RecvFails

ServerStep == ServeNewProxy \/ CleanupClient

Next ==
  \/ ClientStep \/ ServerStep \/ SessionDies
  \/ \E v \in Users :
       \/ OpenStream(v) \/ DialLocal(v) \/ ClientJoinEnds(v)
       \/ \E n \in Names : AcceptUser(v, n)
       \/ NotifyClient(v) \/ AcceptStream(v) \/ AcceptFails(v)
       \/ UserJoinEnds(v)

Spec == Init /\ [][Next]_vars

\* Goroutines that can run do run.  A joined pair must only end when the
\* other side has (users may stay for ever), the session need not end.
FairSpec ==
  /\ Spec
  /\ WF_vars(ClientStep) /\ WF_vars(ServerStep) /\ WF_vars(RecvFails)
  /\ \A v \in Users :
       /\ WF_vars(OpenStream(v)) /\ WF_vars(DialLocal(v))
       /\ WF_vars(ClientJoinEnds(v) /\ StreamEnded(v))
       /\ WF_vars(NotifyClient(v))
       /\ WF_vars(AcceptStream(v) \/ AcceptFails(v))
       /\ WF_vars(UserJoinEnds(v) /\ PeerEnded(v))

(***************************************************************************)
(* Properties                                                              *)
(***************************************************************************)

\* The gauge counts the joined users.
GaugeExact == activeConns = Cardinality({v \in Users : user[v] = "joined"})

\* A NewConn is sent once, by a user that goes on to wait, and starts one
\* handler.
NotifiedOnce ==
  /\ \A i, j \in 1..Len(s2c) : s2c[i] = s2c[j] /\ s2c[i] # Resp => i = j
  /\ \A i \in 1..Len(s2c), v \in Users :
       s2c[i] = NewConn(v) => user[v] \notin {"none", "notify"} /\ handler[v] = "none"
  /\ \A v \in Users : handler[v] # "none" => user[v] \notin {"none", "notify"}

\* A data stream is opened by its handler, queued once, and given away once.
StreamsOnce ==
  /\ \A i, j \in 1..Len(queue) : queue[i] = queue[j] => i = j
  /\ \A i \in 1..Len(queue) : handler[queue[i]] \in {"dial", "joined", "closed"}
  /\ \A v \in Users : stream[v] # None =>
       /\ handler[stream[v]] \in {"dial", "joined", "closed"}
       /\ \A i \in 1..Len(queue) : queue[i] # stream[v]
       /\ \A w \in Users : stream[w] = stream[v] => w = v

\* The invariant of the session.
TunnelInv == TypeOK /\ GaugeExact /\ NotifiedOnce /\ StreamsOnce

\* NewConn messages that are under way.
Announced == {v \in Users : \E i \in 1..Len(s2c) : s2c[i] = NewConn(v)}

\* The data streams that are queued or will be opened for a NewConn, and the
\* users that wait for one.
Streams ==
  Len(queue) + Cardinality(Announced)
    + Cardinality({v \in Users : handler[v] = "open"})
Waiters == Cardinality({v \in Users : user[v] = "waiting"})

\* Every data stream, opened or still to be opened for a NewConn, finds a
\* user that waits for a stream, also after registerProxy has swallowed a
\* NewConn, and no two users get the same stream (handleUserConnection,
\* handleNewConn).
StreamsMatched ==
  /\ session = "open" => Waiters >= Streams
  /\ \A v, w \in Users : stream[v] = stream[w] /\ stream[v] # None => v = w

\* If no NewConn was swallowed while the client registered its proxies, every
\* user that waits is given a stream, or is closed with the session, even
\* though users take each other's streams and the local service may refuse.
WaitersServed ==
  \A v \in Users :
    (user[v] = "waiting" /\ main = "serve" /\ Waiters = Streams)
      ~> (user[v] \in {"joined", "closed"})

\* When the session has ended every user connection and every local
\* connection is closed, and the ActiveConns gauge is back at zero.
SessionEndFreesAll ==
  (session = "closed")
    ~> (/\ \A v \in Users : /\ user[v] \in {"none", "closed"}
                            /\ handler[v] \in {"none", "closed"}
        /\ activeConns = 0 /\ running = {})

(***************************************************************************)
(* What the documentation says and the code does not do                    *)
(***************************************************************************)

\* A user is connected to the service of the proxy whose port it used: the
\* new-connection request carries a connection id.
RoutedToOwnProxy ==
  \A v \in Users : user[v] = "joined" => want[stream[v]] = want[v]
=============================================================================
