-------------------------- MODULE ClientLifecycle ---------------------------
(***************************************************************************)
(* The life of a client process (internal/client/client.go): the Run loop  *)
(* with its exponential backoff, connect, the keepalive goroutine of each  *)
(* connection, the handlers of user connections, and Stop.                 *)
(*                                                                         *)
(* connect number e creates the session, pongCh and connCloseCh number e.  *)
(* The fields c.session, c.ctrlStream, c.pongCh and c.connCloseCh are      *)
(* replaced by every connect and read by all goroutines without a lock:    *)
(* cSession and cCtrl are the first two; the other two are replaced        *)
(* together at the start of connect, so both are conn.                     *)
(***************************************************************************)
EXTENDS Integers, FiniteSetsExt

CONSTANTS
  MaxConns,         \* bound: calls of connect
  MaxUsers,         \* bound: concurrent user connections of one session
  MaxDue,           \* bound: unanswered pings that are told apart
  MinDelay,         \* minDelay of Run, 1 second
  MaxDelay,         \* maxDelay of Run, 60 seconds
  MaxPongMiss,      \* maxPongMiss of keepalive, 3
  MTMux             \* config.MTMux.Enabled

Conns == 1..MaxConns
Nil == 0   \* a nil session or stream

ASSUME LifecycleAssumption ==
  /\ MaxConns \in Nat \ {0} /\ MaxUsers \in Nat /\ MaxDue \in Nat \ {0}
  /\ MinDelay \in Nat \ {0} /\ MaxDelay \in Nat /\ MinDelay <= MaxDelay
  /\ MaxPongMiss \in Nat \ {0}
  /\ MTMux \in BOOLEAN

VARIABLES
  main,        \* where Run is
  conn,        \* the number of the latest connect
  session,     \* the session of each connect
  cSession,    \* c.session
  cCtrl,       \* c.ctrlStream
  connClosed,  \* connCloseCh of a connect is closed
  pongBuf,     \* pongs in a connect's pongCh (capacity 1)
  due,         \* pings sent on a session and not answered yet
  silent,      \* the server of a session does not answer any more
  users,       \* running handleNewConn goroutines of a session
  ka,          \* the keepalive goroutine of each connect
  kaCh,        \* the connect whose channels its pending select waits on
  missed,      \* missedPongs
  failures,    \* successiveFailures
  delay,       \* currentDelay
  stop         \* progress of Stop

runVars == <<failures, delay>>
kaVars == <<ka, kaCh, missed>>
peerVars == <<pongBuf, due, silent, users>>
connVars == <<conn, session, cSession, cCtrl, connClosed>>
vars == <<main, connVars, peerVars, kaVars, runVars, stop>>

TypeOK ==
  /\ main \in {"start", "dial", "dialed", "control", "auth", "register",
               "serve", "cleanup", "failed", "ok", "decide", "sleep",
               "returned", "panicked"}
  /\ conn \in 0..MaxConns
  /\ session \in [Conns -> {"none", "open", "closed"}]
  /\ cSession \in 0..MaxConns /\ cCtrl \in 0..MaxConns
  /\ connClosed \in [Conns -> BOOLEAN]
  /\ pongBuf \in [Conns -> 0..1]
  /\ due \in [Conns -> 0..MaxDue]
  /\ silent \in [Conns -> BOOLEAN]
  /\ users \in [Conns -> 0..MaxUsers]
  /\ ka \in [Conns -> {"none", "top", "idle", "send", "wait", "done"}]
  /\ kaCh \in [Conns -> 0..MaxConns]
  /\ missed \in [Conns -> 0..MaxPongMiss - 1]
  /\ failures \in 0..MaxConns
  /\ delay \in MinDelay..MaxDelay
  /\ stop \in {"no", "marked", "waiting", "returned"}

Init ==
  /\ main = "start" /\ conn = 0 /\ cSession = Nil /\ cCtrl = Nil
  /\ session = [e \in Conns |-> "none"]
  /\ connClosed = [e \in Conns |-> FALSE]
  /\ pongBuf = [e \in Conns |-> 0]
  /\ due = [e \in Conns |-> 0]
  /\ silent = [e \in Conns |-> FALSE]
  /\ users = [e \in Conns |-> 0]
  /\ ka = [e \in Conns |-> "none"]
  /\ kaCh = [e \in Conns |-> Nil]
  /\ missed = [e \in Conns |-> 0]
  /\ failures = 0 /\ delay = MinDelay
  /\ stop = "no"

\* session.Close() on session s; nothing happens to a nil or closed one.
CloseSession(s) ==
  session' = [e \in Conns |-> IF e = s THEN "closed" ELSE session[e]]

(***************************************************************************)
(* Run and connect                                                         *)
(***************************************************************************)

\* connect begins with fresh pongCh and connCloseCh.
Connect ==
  /\ main = "start" /\ conn < MaxConns
  /\ conn' = conn + 1
  /\ main' = "dial"
  /\ UNCHANGED <<session, cSession, cCtrl, connClosed, peerVars, kaVars,
                 runVars, stop>>

\* Dialing, the encryption or the mux session fails; nothing stays open.
DialFails ==
  /\ main = "dial"
  /\ main' = "failed"
  /\ UNCHANGED <<connVars, peerVars, kaVars, runVars, stop>>

\* connectWithMTMux: one tunnel cannot be encrypted.  The function closes the
\* others and returns the err of the successful Dial, which is nil: connect
\* goes on with a nil session and OpenStream panics.
BundleFails ==
  /\ main = "dial" /\ MTMux
  /\ cSession' = Nil
  /\ main' = "panicked"
  /\ UNCHANGED <<conn, session, cCtrl, connClosed, peerVars, kaVars, runVars,
                 stop>>

\* connectStandard or connectWithMTMux returns a session.
Dial ==
  /\ main = "dial"
  /\ session' = [session EXCEPT ![conn] = "open"]
  /\ main' = "dialed"
  /\ UNCHANGED <<conn, cSession, cCtrl, connClosed, peerVars, kaVars, runVars,
                 stop>>

\* c.session = session.
PublishSession ==
  /\ main = "dialed"
  /\ cSession' = conn
  /\ main' = "control"
  /\ UNCHANGED <<conn, session, cCtrl, connClosed, peerVars, kaVars, runVars,
                 stop>>

\* OpenStream succeeds; c.ctrlStream = ctrlStream.
OpenControl ==
  /\ main = "control" /\ session[conn] = "open"
  /\ cCtrl' = conn
  /\ main' = "auth"
  /\ UNCHANGED <<conn, session, cSession, connClosed, peerVars, kaVars,
                 runVars, stop>>

\* authenticate gets the positive answer.
Authenticate ==
  /\ main = "auth" /\ session[conn] = "open"
  /\ main' = "register"
  /\ UNCHANGED <<connVars, peerVars, kaVars, runVars, stop>>

\* Deliberate bug: the session of a failed connect is left open.
ConnectFailsKeepingSession ==
  /\ main \in {"control", "auth"}
  /\ main' = "failed"
  /\ UNCHANGED <<connVars, peerVars, kaVars, runVars, stop>>

\* The control stream cannot be opened, or authenticate fails: connect closes
\* the session and returns the error.
ConnectFails ==
  /\ main \in {"control", "auth"}
  /\ CloseSession(conn)
  /\ main' = "failed"
  /\ UNCHANGED <<conn, cSession, cCtrl, connClosed, peerVars, kaVars, runVars,
                 stop>>

\* All proxies were tried, failures only logged; keepalive is started.
StartServing ==
  /\ main = "register"
  /\ ka' = [ka EXCEPT ![conn] = "top"]
  /\ main' = "serve"
  /\ UNCHANGED <<connVars, peerVars, kaCh, missed, runVars, stop>>

\* Deliberate bug: connCloseCh is not closed.
ServeEndsQuietly ==
  /\ main = "serve"
  /\ main' = "cleanup"
  /\ UNCHANGED <<connVars, peerVars, kaVars, runVars, stop>>

\* handleControlStream returns on a receive error; close(c.connCloseCh).
ServeEnds ==
  /\ main = "serve"
  /\ connClosed' = [connClosed EXCEPT ![conn] = TRUE]
  /\ main' = "cleanup"
  /\ UNCHANGED <<conn, session, cSession, cCtrl, peerVars, kaVars, runVars,
                 stop>>

\* The control stream and the session are closed; connect returns nil.
Cleanup ==
  /\ main = "cleanup"
  /\ CloseSession(cSession)
  /\ main' = "ok"
  /\ UNCHANGED <<conn, cSession, cCtrl, connClosed, peerVars, kaVars, runVars,
                 stop>>

\* Deliberate bug: the first failure doubles the delay already.
AfterFailureEarly ==
  /\ main = "failed"
  /\ failures' = failures + 1
  /\ delay' = Min({2 * delay, MaxDelay})
  /\ main' = "decide"
  /\ UNCHANGED <<connVars, peerVars, kaVars, stop>>

\* connect returned an error: the delay doubles from the second failure on.
AfterFailure ==
  /\ main = "failed"
  /\ failures' = failures + 1
  /\ delay' = IF failures + 1 > 1 THEN Min({2 * delay, MaxDelay}) ELSE delay
  /\ main' = "decide"
  /\ UNCHANGED <<connVars, peerVars, kaVars, stop>>

\* Deliberate bug: Run returns when a connection has ended without error.
AfterSuccessReturns ==
  /\ main = "ok"
  /\ failures' = 0 /\ delay' = MinDelay
  /\ main' = "returned"
  /\ UNCHANGED <<connVars, peerVars, kaVars, stop>>

\* connect returned nil: the backoff is reset.
AfterSuccess ==
  /\ main = "ok"
  /\ failures' = 0 /\ delay' = MinDelay
  /\ main' = "decide"
  /\ UNCHANGED <<connVars, peerVars, kaVars, stop>>

\* Run returns if closeCh is closed or reconnect is off (Stop sets both in
\* one critical section), else it sleeps.
Decide ==
  /\ main = "decide"
  /\ main' = IF stop # "no" THEN "returned" ELSE "sleep"
  /\ UNCHANGED <<connVars, peerVars, kaVars, runVars, stop>>

\* The keepalive of connect e has ended or is blocked in a select none of
\* whose channels is closed.
Settled(e) ==
  \/ ka[e] \in {"none", "done"}
  \/ ka[e] \in {"idle", "wait"} /\ ~connClosed[kaCh[e]] /\ stop = "no"

\* time.Sleep(currentDelay) is over.  It lasts at least minDelay, time enough
\* for a goroutine that can run to reach its next blocking operation.
Wake ==
  /\ main = "sleep"
  /\ \A e \in Conns : Settled(e)
  /\ main' = "start"
  /\ UNCHANGED <<connVars, peerVars, kaVars, runVars, stop>>

(***************************************************************************)
(* keepalive of connect e                                                  *)
(***************************************************************************)

Running == main # "panicked"
KaGoto(e, label) == ka' = [ka EXCEPT ![e] = label]

\* The outer select is entered: it waits on the current c.connCloseCh.
KaSelect(e) ==
  /\ Running /\ ka[e] = "top"
  /\ KaGoto(e, "idle")
  /\ kaCh' = [kaCh EXCEPT ![e] = conn]
  /\ UNCHANGED <<main, connVars, peerVars, missed, runVars, stop>>

\* The ticker fires.
KaTick(e) ==
  /\ Running /\ ka[e] = "idle"
  /\ KaGoto(e, "send")
  /\ UNCHANGED <<main, connVars, peerVars, kaCh, missed, runVars, stop>>

\* The ping is sent on the current c.ctrlStream; the inner select waits on
\* the current c.pongCh and c.connCloseCh.
KaPing(e) ==
  /\ Running /\ ka[e] = "send" /\ session[cCtrl] = "open"
  /\ due' = [due EXCEPT ![cCtrl] = Min({@ + 1, MaxDue})]
  /\ kaCh' = [kaCh EXCEPT ![e] = conn]
  /\ KaGoto(e, "wait")
  /\ UNCHANGED <<main, connVars, pongBuf, silent, users, missed, runVars, stop>>

\* The goroutine returns; its local variables are gone.
KaReturn(e) ==
  /\ KaGoto(e, "done")
  /\ kaCh' = [kaCh EXCEPT ![e] = Nil]
  /\ missed' = [missed EXCEPT ![e] = 0]

\* triggerReconnect closes the current c.session and c.ctrlStream, and the
\* goroutine returns.  (If the two belong to different connects the stream's
\* session is closed already.)
TriggerReconnect(e) == CloseSession(cSession) /\ KaReturn(e)

\* The ping cannot be sent.
KaPingFails(e) ==
  /\ Running /\ ka[e] = "send" /\ session[cCtrl] = "closed"
  /\ TriggerReconnect(e)
  /\ UNCHANGED <<main, conn, cSession, cCtrl, connClosed, peerVars, runVars,
                 stop>>

\* A pong was waiting in pongCh, possibly the answer to an earlier ping.
KaPong(e) ==
  /\ Running /\ ka[e] = "wait" /\ pongBuf[kaCh[e]] = 1
  /\ pongBuf' = [pongBuf EXCEPT ![kaCh[e]] = 0]
  /\ missed' = [missed EXCEPT ![e] = 0]
  /\ KaGoto(e, "top")
  /\ UNCHANGED <<main, connVars, due, silent, users, kaCh, runVars, stop>>

\* Deliberate bug: a miss is never counted.
KaTimeoutForgiving(e) ==
  /\ Running /\ ka[e] = "wait"
  /\ KaGoto(e, "top")
  /\ UNCHANGED <<main, connVars, peerVars, kaCh, missed, runVars, stop>>

\* pongTimeout passes; the third miss in a row gives the connection up.
KaTimeout(e) ==
  /\ Running /\ ka[e] = "wait"
  /\ \/ /\ missed[e] + 1 >= MaxPongMiss
        /\ TriggerReconnect(e)
     \/ /\ missed[e] + 1 < MaxPongMiss
        /\ missed' = [missed EXCEPT ![e] = @ + 1]
        /\ KaGoto(e, "top")
        /\ UNCHANGED <<session, kaCh>>
  /\ UNCHANGED <<main, conn, cSession, cCtrl, connClosed, peerVars, runVars,
                 stop>>

\* A select of keepalive finds connCloseCh or closeCh closed.
KaStops(e) ==
  /\ Running /\ ka[e] \in {"idle", "wait"}
  /\ connClosed[kaCh[e]] \/ stop # "no"
  /\ KaReturn(e)
  /\ UNCHANGED <<main, connVars, peerVars, runVars, stop>>

(***************************************************************************)
(* Control messages, the peer and Stop                                     *)
(***************************************************************************)

\* A pong arrives: it is put into c.pongCh unless that is full.
PongArrives ==
  /\ main = "serve" /\ session[conn] = "open"
  /\ due[conn] > 0 /\ ~silent[conn]
  /\ due' = [due EXCEPT ![conn] = @ - 1]
  /\ pongBuf' = [pongBuf EXCEPT ![conn] = 1]
  /\ UNCHANGED <<main, connVars, silent, users, kaVars, runVars, stop>>

\* A NewConn message starts a handleNewConn goroutine, counted in c.wg.
UserArrives ==
  /\ main = "serve" /\ session[conn] = "open"
  /\ users[conn] < MaxUsers
  /\ users' = [users EXCEPT ![conn] = @ + 1]
  /\ UNCHANGED <<main, connVars, pongBuf, due, silent, kaVars, runVars, stop>>

\* A user, or the local service, ends its connection.
UserLeaves(e) ==
  /\ Running /\ users[e] > 0
  /\ users' = [users EXCEPT ![e] = @ - 1]
  /\ UNCHANGED <<main, connVars, pongBuf, due, silent, kaVars, runVars, stop>>

\* Network or server end the session.
PeerDrops(e) ==
  /\ session[e] = "open"
  /\ CloseSession(e)
  /\ UNCHANGED <<main, conn, cSession, cCtrl, connClosed, peerVars, kaVars,
                 runVars, stop>>

\* The server stops answering without the connection being closed.
GoSilent(e) ==
  /\ session[e] = "open" /\ ~silent[e]
  /\ silent' = [silent EXCEPT ![e] = TRUE]
  /\ UNCHANGED <<main, connVars, pongBuf, due, users, kaVars, runVars, stop>>

\* Stop: reconnect = false and close(c.closeCh), under c.mu.
StopBegin ==
  /\ Running /\ stop = "no"
  /\ stop' = "marked"
  /\ UNCHANGED <<main, connVars, peerVars, kaVars, runVars>>

\* Stop: the current c.session, if any, is closed.
StopClose ==
  /\ Running /\ stop = "marked"
  /\ CloseSession(cSession)
  /\ stop' = "waiting"
  /\ UNCHANGED <<main, conn, cSession, cCtrl, connClosed, peerVars, kaVars,
                 runVars>>

\* Stop: c.wg.Wait() returns.
StopReturn ==
  /\ Running /\ stop = "waiting"
  /\ \A e \in Conns : ka[e] \in {"none", "done"} /\ users[e] = 0
  /\ stop' = "returned"
  /\ UNCHANGED <<main, connVars, peerVars, kaVars, runVars>>

\* Run has ended, or the bound on connects is reached.
Finished ==
  /\ main \in {"returned", "panicked"} \/ (main = "start" /\ conn = MaxConns)
  /\ UNCHANGED vars

-----------------------------------------------------------------------------

RunStep ==
  \/ Connect \/ DialFails \/ BundleFails \/ Dial \/ PublishSession
  \/ OpenControl \/ Authenticate \/ ConnectFails \/ StartServing
  \/ Cleanup \/ AfterFailure \/ AfterSuccess \/ Decide \/ Wake

KaStep(e) ==
  \/ KaSelect(e) \/ KaTick(e) \/ KaPing(e) \/ KaPingFails(e) \/ KaPong(e)
  \/ KaTimeout(e) \/ KaStops(e)

Environment ==
  \/ PongArrives \/ UserArrives \/ StopBegin
  \/ \E e \in Conns : PeerDrops(e) \/ GoSilent(e)

Next ==
  \/ RunStep \/ ServeEnds
  \/ \E e \in Conns : KaStep(e) \/ UserLeaves(e)
  \/ StopClose \/ StopReturn
  \/ Environment
  \/ Finished

Spec == Init /\ [][Next]_vars

\* Goroutines that can run do run; timers fire; a receive on a closed session
\* fails, and so do the streams of the users on it.  wg.Wait is not assumed to
\* return: new users may come as long as a session is open.
Fairness ==
  /\ WF_vars(RunStep)
  /\ WF_vars(ServeEnds /\ session[conn] = "closed")
  /\ \A e \in Conns :
       /\ WF_vars(KaStep(e))
       /\ WF_vars(KaStops(e))
       /\ WF_vars(UserLeaves(e) /\ session[e] = "closed")
  /\ WF_vars(StopClose)

FairSpec == Spec /\ Fairness

(***************************************************************************)
(* Properties                                                              *)
(***************************************************************************)

Connected == {"dialed", "control", "auth", "register", "serve", "cleanup"}

\* Every way out of connect closes the session it opened: sessions do not
\* pile up over reconnects.
NoSessionLeak ==
  \A e \in Conns : session[e] = "open" => e = conn /\ main \in Connected

\* minDelay doubled n times.
Doubled[n \in Nat] == IF n = 0 THEN MinDelay ELSE 2 * Doubled[n - 1]

\* The delay before a reconnect is minDelay after a success or one failure
\* and doubles with every further failure up to maxDelay (Run).
BackoffFollowsFailures ==
  main = "sleep" =>
    delay = Min({MaxDelay, IF failures = 0 THEN MinDelay
                           ELSE Doubled[failures - 1]})

KaLive(e) == ka[e] \notin {"none", "done"}

\* When connections are established again, the keepalive of an earlier one
\* is gone: a connection has one keepalive, its own.
OneKeepalive ==
  \A e \in Conns : KaLive(e) => e = conn

\* Why: a keepalive that outlives its control stream has, or will get, the
\* closed connCloseCh of its own connect in its select, and Run does not wake
\* up before it has seen it.
KeepaliveEnds ==
  \A e \in Conns : KaLive(e) =>
    /\ main \in {"serve", "cleanup", "ok", "decide", "sleep", "returned"}
    /\ main # "serve" => connClosed[conn]
    /\ ka[e] \in {"idle", "wait"} => kaCh[e] = conn

\* The unlocked fields are those of the current connect whenever connect or a
\* keepalive uses them.
FieldsCurrent ==
  /\ main # "start" => conn # 0
  /\ main \in Connected \ {"dialed"} => cSession = conn
  /\ main \in Connected \ {"dialed", "control"} => cCtrl = conn
  /\ \A e \in Conns : KaLive(e) => cSession = conn /\ cCtrl = conn

\* A connect counts as at most one failure.
FailuresCounted ==
  /\ failures <= conn
  /\ main \notin {"start", "decide", "sleep", "returned"} => failures < conn

\* The invariant of the client.
ClientInv ==
  /\ TypeOK /\ OneKeepalive /\ KeepaliveEnds /\ FieldsCurrent
  /\ FailuresCounted

\* A keepalive only ever gives up its own connection (triggerReconnect).
ClosesOwnSession ==
  [][\A e, s \in Conns :
       /\ KaLive(e) /\ ka'[e] = "done"
       /\ session[s] = "open" /\ session'[s] = "closed"
       => e = s]_vars

\* A lost connection leads to another connect, unless Stop was called.
Reconnects ==
  (main = "serve" /\ session[conn] = "closed")
    ~> (main = "start" \/ stop # "no")

\* A server that stops answering is noticed by the missed pongs.
SilenceNoticed ==
  \A e \in Conns :
    (silent[e] /\ ka[e] = "top")
      ~> (session[e] = "closed" \/ stop # "no")
=============================================================================
