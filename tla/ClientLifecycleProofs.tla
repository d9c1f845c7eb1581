----------------------- MODULE ClientLifecycleProofs ------------------------
(***************************************************************************)
(* Proofs about the life of a client, for any number of connects, any      *)
(* delays and any limit of missed pongs: a connection has one keepalive,   *)
(* no connect leaves its session open, and a keepalive gives up its own    *)
(* connection only.                                                        *)
(***************************************************************************)
EXTENDS ClientLifecycle, WellFoundedInduction, TLAPS

USE DEF runVars, kaVars, peerVars, connVars, vars

\* What is proved by induction.
LifeInv == ClientInv /\ NoSessionLeak

Mains == {"start", "dial", "dialed", "control", "auth", "register",
          "serve", "cleanup", "failed", "ok", "decide", "sleep",
          "returned", "panicked"}
KaLabels == {"none", "top", "idle", "send", "wait", "done"}

\* Min of two numbers.
LEMMA MinPair ==
  ASSUME NEW a \in Int, NEW b \in Int
  PROVE  Min({a, b}) = IF a <= b THEN a ELSE b
<1>1. \E x \in {a, b} : \A y \in {a, b} : x =< y
  OBVIOUS
<1>2. Min({a, b}) \in {a, b} /\ \A y \in {a, b} : Min({a, b}) =< y
  BY <1>1 DEF Min
<1> QED
  BY <1>2

\* The parts of the invariant an action must look at when it changes neither
\* a keepalive nor the fields they use.
LEMMA KeepalivesUntouched ==
  ASSUME LifeInv, UNCHANGED <<conn, kaVars, cSession, cCtrl>>,
         \A e \in Conns : KaLive(e) =>
           /\ main' \in {"serve", "cleanup", "ok", "decide", "sleep", "returned"}
           /\ main' # "serve" => connClosed'[conn]
  PROVE  /\ OneKeepalive' /\ KeepaliveEnds'
         /\ \A e \in Conns : KaLive(e)' => cSession' = conn' /\ cCtrl' = conn'
<1>1. \A e \in Conns : KaLive(e)' <=> KaLive(e)
  BY DEF KaLive
<1> QED
  BY <1>1 DEF LifeInv, ClientInv, OneKeepalive, KeepaliveEnds, FieldsCurrent

\* No keepalive is live while Run connects.
LEMMA NoKeepalive ==
  ASSUME LifeInv, main \in {"start", "dial", "dialed", "control", "auth", "register", "failed"}
  PROVE  \A e \in Conns : ~KaLive(e)
BY DEF LifeInv, ClientInv, KeepaliveEnds

\* The initial state satisfies the invariant.
LEMMA InvariantInit == Init => LifeInv
<1> SUFFICES ASSUME Init PROVE LifeInv
  OBVIOUS
<1>1. TypeOK
  <2>1. /\ main \in Mains
        /\ session \in [Conns -> {"none", "open", "closed"}]
        /\ connClosed \in [Conns -> BOOLEAN] /\ silent \in [Conns -> BOOLEAN]
        /\ ka \in [Conns -> KaLabels]
        /\ stop \in {"no", "marked", "waiting", "returned"}
    BY DEF Init, Mains, KaLabels
  <2>2. /\ 0 \in 0..MaxConns /\ 0 \in 0..MaxDue /\ 0 \in 0..MaxUsers
        /\ 0 \in 0..MaxPongMiss - 1 /\ MinDelay \in MinDelay..MaxDelay
    BY LifecycleAssumption
  <2>3. /\ conn \in 0..MaxConns /\ cSession \in 0..MaxConns /\ cCtrl \in 0..MaxConns
        /\ failures \in 0..MaxConns /\ delay \in MinDelay..MaxDelay
    BY <2>2 DEF Init, Nil
  <2>4. /\ pongBuf \in [Conns -> 0..1] /\ due \in [Conns -> 0..MaxDue]
        /\ users \in [Conns -> 0..MaxUsers] /\ kaCh \in [Conns -> 0..MaxConns]
        /\ missed \in [Conns -> 0..MaxPongMiss - 1]
    BY <2>2 DEF Init, Nil
  <2> QED
    BY <2>1, <2>3, <2>4 DEF TypeOK, Mains, KaLabels
<1>2. \A e \in Conns : ~KaLive(e) /\ session[e] = "none"
  BY DEF Init, KaLive
<1> QED
  BY <1>1, <1>2 DEF Init, LifeInv, ClientInv, OneKeepalive, KeepaliveEnds,
     FieldsCurrent, FailuresCounted, NoSessionLeak, Connected

(***************************************************************************)
(* Run and connect                                                         *)
(***************************************************************************)

\* A new connect: no session is open and no keepalive is live.
LEMMA ConnectStep ==
  ASSUME LifeInv, Connect PROVE LifeInv'
<1>1. \A e \in Conns : ~KaLive(e) /\ session[e] # "open"
  BY NoKeepalive DEF Connect, LifeInv, NoSessionLeak, Connected
<1>2. TypeOK'
  BY LifecycleAssumption DEF LifeInv, ClientInv, TypeOK, Connect
<1>3. \A e \in Conns : ~KaLive(e)'
  BY <1>1 DEF Connect, KaLive
<1>4. FieldsCurrent' /\ FailuresCounted'
  BY <1>3 DEF Connect, LifeInv, ClientInv, TypeOK, FieldsCurrent, FailuresCounted, Connected
<1> QED
  BY <1>1, <1>2, <1>3, <1>4 DEF Connect, LifeInv, ClientInv, OneKeepalive, KeepaliveEnds,
     NoSessionLeak

\* The session is opened.
LEMMA DialStep ==
  ASSUME LifeInv, Dial PROVE LifeInv'
<1>1. conn \in Conns
  BY DEF LifeInv, ClientInv, TypeOK, FieldsCurrent, Dial, Conns
<1>2. TypeOK'
  BY <1>1 DEF LifeInv, ClientInv, TypeOK, Dial
<1>3. \A e \in Conns : ~KaLive(e)
  BY NoKeepalive DEF Dial
<1>4. OneKeepalive' /\ KeepaliveEnds'
  BY <1>3, KeepalivesUntouched DEF Dial
<1>5. FieldsCurrent' /\ FailuresCounted'
  BY <1>3 DEF LifeInv, ClientInv, FieldsCurrent, FailuresCounted, Dial, Connected, KaLive
<1>6. NoSessionLeak'
  BY <1>1 DEF LifeInv, ClientInv, TypeOK, NoSessionLeak, Connected, Dial
<1> QED
  BY <1>2, <1>4, <1>5, <1>6 DEF LifeInv, ClientInv

\* Steps of connect before any keepalive of it is live.
LEMMA ConnectingStep ==
  ASSUME LifeInv,
         \/ DialFails \/ BundleFails \/ PublishSession \/ OpenControl
         \/ Authenticate
  PROVE  LifeInv'
<1>1. \A e \in Conns : ~KaLive(e)
  BY NoKeepalive DEF DialFails, BundleFails, PublishSession, OpenControl, Authenticate
<1>2. TypeOK'
  BY LifecycleAssumption DEF LifeInv, ClientInv, TypeOK, DialFails, BundleFails, PublishSession,
     OpenControl, Authenticate, Nil
<1>3. UNCHANGED <<conn, kaVars, session, failures>>
  BY DEF DialFails, BundleFails, PublishSession, OpenControl, Authenticate
<1>4. \A e \in Conns : ~KaLive(e)'
  BY <1>1, <1>3 DEF KaLive
<1>5. OneKeepalive' /\ KeepaliveEnds'
  BY <1>4 DEF OneKeepalive, KeepaliveEnds
<1>6. FieldsCurrent' /\ FailuresCounted'
  BY <1>3, <1>4 DEF LifeInv, ClientInv, FieldsCurrent, FailuresCounted, Connected,
     DialFails, BundleFails, PublishSession, OpenControl, Authenticate
<1>7. NoSessionLeak'
  BY <1>3 DEF LifeInv, NoSessionLeak, Connected, DialFails, BundleFails, PublishSession,
     OpenControl, Authenticate
<1> QED
  BY <1>2, <1>5, <1>6, <1>7 DEF LifeInv, ClientInv

\* connect gives up and closes the session.
LEMMA ConnectFailsStep ==
  ASSUME LifeInv, ConnectFails PROVE LifeInv'
<1>1. \A e \in Conns : ~KaLive(e)
  BY NoKeepalive DEF ConnectFails
<1>2. /\ session' \in [Conns -> {"none", "open", "closed"}]
      /\ \A e \in Conns : session'[e] # "open"
  BY DEF LifeInv, ClientInv, TypeOK, NoSessionLeak, ConnectFails, CloseSession
<1>3. TypeOK'
  BY <1>2 DEF LifeInv, ClientInv, TypeOK, ConnectFails
<1>4. OneKeepalive' /\ KeepaliveEnds'
  BY <1>1, KeepalivesUntouched DEF ConnectFails
<1>5. FieldsCurrent' /\ FailuresCounted'
  BY <1>1 DEF LifeInv, ClientInv, FieldsCurrent, FailuresCounted, Connected, ConnectFails, KaLive
<1> QED
  BY <1>2, <1>3, <1>4, <1>5 DEF LifeInv, ClientInv, NoSessionLeak

\* The keepalive of this connect is started, and there is no other.
LEMMA StartServingStep ==
  ASSUME LifeInv, StartServing PROVE LifeInv'
<1>1. conn \in Conns
  BY DEF LifeInv, ClientInv, TypeOK, FieldsCurrent, StartServing, Conns
<1>2. TypeOK'
  BY <1>1 DEF LifeInv, ClientInv, TypeOK, StartServing
<1>3. \A e \in Conns : ~KaLive(e)
  BY NoKeepalive DEF StartServing
<1>4. \A e \in Conns : KaLive(e)' => e = conn /\ ka'[e] = "top"
  BY <1>1, <1>3 DEF KaLive, StartServing, LifeInv, ClientInv, TypeOK
<1>5. OneKeepalive' /\ KeepaliveEnds'
  BY <1>4 DEF OneKeepalive, KeepaliveEnds, StartServing
<1>6. FieldsCurrent' /\ FailuresCounted'
  BY <1>4 DEF LifeInv, ClientInv, FieldsCurrent, FailuresCounted, Connected, StartServing
<1>7. NoSessionLeak'
  BY DEF LifeInv, NoSessionLeak, Connected, StartServing
<1> QED
  BY <1>2, <1>5, <1>6, <1>7 DEF LifeInv, ClientInv

\* connCloseCh is closed when the control stream has failed.
LEMMA ServeEndsStep ==
  ASSUME LifeInv, ServeEnds PROVE LifeInv'
<1>1. conn \in Conns
  BY DEF LifeInv, ClientInv, TypeOK, FieldsCurrent, ServeEnds, Conns
<1>2. TypeOK' /\ connClosed'[conn]
  BY <1>1 DEF LifeInv, ClientInv, TypeOK, ServeEnds
<1>3. /\ OneKeepalive' /\ KeepaliveEnds'
      /\ \A e \in Conns : KaLive(e)' => cSession' = conn' /\ cCtrl' = conn'
  BY <1>2, KeepalivesUntouched DEF ServeEnds
<1>4. FieldsCurrent' /\ FailuresCounted'
  BY <1>3 DEF LifeInv, ClientInv, FieldsCurrent, FailuresCounted, Connected, ServeEnds
<1>5. NoSessionLeak'
  BY DEF LifeInv, NoSessionLeak, Connected, ServeEnds
<1> QED
  BY <1>2, <1>3, <1>4, <1>5 DEF LifeInv, ClientInv

\* The session closed after serving is the one that was opened.
LEMMA CleanupStep ==
  ASSUME LifeInv, Cleanup PROVE LifeInv'
<1>1. cSession = conn
  BY DEF LifeInv, ClientInv, FieldsCurrent, Connected, Cleanup
<1>2. /\ session' \in [Conns -> {"none", "open", "closed"}]
      /\ \A e \in Conns : session'[e] # "open"
  BY <1>1 DEF LifeInv, ClientInv, TypeOK, NoSessionLeak, Cleanup, CloseSession
<1>3. TypeOK'
  BY <1>2 DEF LifeInv, ClientInv, TypeOK, Cleanup
<1>4. \A e \in Conns : KaLive(e) => connClosed[conn]
  BY DEF LifeInv, ClientInv, KeepaliveEnds, Cleanup
<1>5. /\ OneKeepalive' /\ KeepaliveEnds'
      /\ \A e \in Conns : KaLive(e)' => cSession' = conn' /\ cCtrl' = conn'
  BY <1>4, KeepalivesUntouched DEF Cleanup
<1>6. FieldsCurrent' /\ FailuresCounted'
  BY <1>5 DEF LifeInv, ClientInv, FieldsCurrent, FailuresCounted, Connected, Cleanup
<1> QED
  BY <1>2, <1>3, <1>5, <1>6 DEF LifeInv, ClientInv, NoSessionLeak

\* Run after a connect: the backoff stays in its range.
LEMMA BackoffStep ==
  ASSUME LifeInv, AfterFailure \/ AfterSuccess PROVE LifeInv'
<1>1. delay' \in MinDelay..MaxDelay
  <2>1. /\ 2 * delay \in Int /\ MaxDelay \in Int /\ delay \in MinDelay..MaxDelay
        /\ MinDelay \in Nat /\ MinDelay <= MaxDelay
    BY LifecycleAssumption DEF LifeInv, ClientInv, TypeOK
  <2>2. Min({2 * delay, MaxDelay}) = IF 2 * delay <= MaxDelay THEN 2 * delay ELSE MaxDelay
    BY <2>1, MinPair
  <2> QED
    BY <2>1, <2>2 DEF AfterFailure, AfterSuccess
<1>2. failures' \in 0..MaxConns /\ FailuresCounted'
  BY LifecycleAssumption DEF LifeInv, ClientInv, TypeOK, FailuresCounted, AfterFailure, AfterSuccess
<1>3. TypeOK'
  BY <1>1, <1>2 DEF LifeInv, ClientInv, TypeOK, AfterFailure, AfterSuccess
<1>4. \A e \in Conns : KaLive(e) => connClosed[conn]
  BY DEF LifeInv, ClientInv, KeepaliveEnds, AfterFailure, AfterSuccess
<1>5. /\ OneKeepalive' /\ KeepaliveEnds'
      /\ \A e \in Conns : KaLive(e)' => cSession' = conn' /\ cCtrl' = conn'
  BY <1>4, KeepalivesUntouched DEF AfterFailure, AfterSuccess
<1>6. FieldsCurrent'
  BY <1>5 DEF LifeInv, ClientInv, FieldsCurrent, Connected, AfterFailure, AfterSuccess
<1>7. NoSessionLeak'
  BY DEF LifeInv, NoSessionLeak, Connected, AfterFailure, AfterSuccess
<1> QED
  BY <1>2, <1>3, <1>5, <1>6, <1>7 DEF LifeInv, ClientInv

\* Run returns or goes to sleep.
LEMMA DecideStep ==
  ASSUME LifeInv, Decide PROVE LifeInv'
<1>1. main' \in {"returned", "sleep"}
  BY DEF Decide
<1>2. TypeOK'
  BY <1>1 DEF LifeInv, ClientInv, TypeOK, Decide
<1>3. \A e \in Conns : KaLive(e) => connClosed[conn]
  BY DEF LifeInv, ClientInv, KeepaliveEnds, Decide
<1>4. /\ OneKeepalive' /\ KeepaliveEnds'
      /\ \A e \in Conns : KaLive(e)' => cSession' = conn' /\ cCtrl' = conn'
  BY <1>1, <1>3, KeepalivesUntouched DEF Decide
<1>5. FieldsCurrent' /\ FailuresCounted'
  BY <1>1, <1>4 DEF LifeInv, ClientInv, FieldsCurrent, FailuresCounted, Connected, Decide
<1>6. NoSessionLeak'
  BY <1>1 DEF LifeInv, NoSessionLeak, Connected, Decide
<1> QED
  BY <1>2, <1>4, <1>5, <1>6 DEF LifeInv, ClientInv

\* A settled keepalive has ended: its select had the closed connCloseCh.
LEMMA WakeStep ==
  ASSUME LifeInv, Wake PROVE LifeInv'
<1>1. \A e \in Conns : ~KaLive(e)
  BY DEF LifeInv, ClientInv, KeepaliveEnds, Wake, Settled, KaLive
<1>2. TypeOK'
  BY DEF LifeInv, ClientInv, TypeOK, Wake
<1>3. OneKeepalive' /\ KeepaliveEnds'
  BY <1>1, KeepalivesUntouched DEF Wake
<1>4. FieldsCurrent' /\ FailuresCounted'
  BY <1>1 DEF LifeInv, ClientInv, FieldsCurrent, FailuresCounted, Connected, Wake, KaLive
<1>5. NoSessionLeak'
  BY DEF LifeInv, NoSessionLeak, Connected, Wake
<1> QED
  BY <1>2, <1>3, <1>4, <1>5 DEF LifeInv, ClientInv

(***************************************************************************)
(* Keepalives                                                              *)
(***************************************************************************)

\* A keepalive moves and leaves Run and the fields alone.
LEMMA KeepaliveMoves ==
  ASSUME LifeInv, NEW e \in Conns, NEW l \in KaLabels, KaLive(e), KaGoto(e, l),
         UNCHANGED <<main, conn, cSession, cCtrl, connClosed, runVars>>,
         \A f \in Conns : f # e => kaCh'[f] = kaCh[f],
         l \in {"idle", "wait"} => kaCh'[e] = conn
  PROVE  /\ ka' \in [Conns -> KaLabels]
         /\ OneKeepalive' /\ KeepaliveEnds' /\ FieldsCurrent' /\ FailuresCounted'
<1>1. /\ ka' \in [Conns -> KaLabels] /\ ka'[e] = l
      /\ \A f \in Conns : f # e => ka'[f] = ka[f]
  BY DEF LifeInv, ClientInv, TypeOK, KaLabels, KaGoto
<1>2. \A f \in Conns : KaLive(f)' => KaLive(f)
  BY <1>1 DEF KaLive
<1>3. OneKeepalive' /\ FieldsCurrent' /\ FailuresCounted'
  BY <1>2 DEF LifeInv, ClientInv, OneKeepalive, FieldsCurrent, FailuresCounted
<1>4. KeepaliveEnds'
  BY <1>1, <1>2 DEF LifeInv, ClientInv, KeepaliveEnds
<1> QED
  BY <1>1, <1>3, <1>4

\* A live keepalive is of the current connect and sees its session and stream.
LEMMA KeepaliveOwn ==
  ASSUME LifeInv, NEW e \in Conns, KaLive(e)
  PROVE  /\ e = conn /\ cSession = e /\ cCtrl = e
         /\ ka[e] \in {"idle", "wait"} => kaCh[e] = e
BY DEF LifeInv, ClientInv, OneKeepalive, KeepaliveEnds, FieldsCurrent

\* Closing a session leaves no other one open.
LEMMA CloseKeeps ==
  ASSUME LifeInv, NEW s, CloseSession(s), UNCHANGED <<main, conn>>
  PROVE  session' \in [Conns -> {"none", "open", "closed"}] /\ NoSessionLeak'
BY DEF LifeInv, ClientInv, TypeOK, NoSessionLeak, CloseSession

\* The selects, the ticker and the ping.
LEMMA KaWaitsStep ==
  ASSUME LifeInv, NEW e \in Conns, KaSelect(e) \/ KaTick(e) \/ KaPing(e)
  PROVE  LifeInv'
<1>1. KaLive(e)
  BY DEF KaLive, KaSelect, KaTick, KaPing
<1>2. e = conn /\ cCtrl = e
  BY <1>1, KeepaliveOwn
<1>3. kaCh' \in [Conns -> 0..MaxConns]
  BY <1>2 DEF LifeInv, ClientInv, TypeOK, KaSelect, KaTick, KaPing
<1>4. due' \in [Conns -> 0..MaxDue]
  <2>1. CASE KaPing(e)
    <3>1. due[e] \in 0..MaxDue /\ MaxDue \in Nat
      BY LifecycleAssumption DEF LifeInv, ClientInv, TypeOK
    <3>2. Min({due[e] + 1, MaxDue}) \in 0..MaxDue
      BY <3>1, MinPair
    <3> QED
      BY <1>2, <2>1, <3>2 DEF KaPing, LifeInv, ClientInv, TypeOK
  <2> QED
    BY <2>1 DEF LifeInv, ClientInv, TypeOK, KaSelect, KaTick, KaPing
<1>5. PICK l \in {"idle", "send", "wait"} :
        /\ KaGoto(e, l)
        /\ l \in {"idle", "wait"} => kaCh' = [kaCh EXCEPT ![e] = conn]
        /\ l = "send" => kaCh' = kaCh
  BY DEF KaSelect, KaTick, KaPing
<1>6. /\ \A f \in Conns : f # e => kaCh'[f] = kaCh[f]
      /\ l \in {"idle", "wait"} => kaCh'[e] = conn
  BY <1>5 DEF LifeInv, ClientInv, TypeOK
<1>7. UNCHANGED <<main, connVars, pongBuf, silent, users, missed, runVars, stop>>
  BY DEF KaSelect, KaTick, KaPing
<1>8. /\ ka' \in [Conns -> KaLabels]
      /\ OneKeepalive' /\ KeepaliveEnds' /\ FieldsCurrent' /\ FailuresCounted'
  BY <1>1, <1>5, <1>6, <1>7, KeepaliveMoves DEF KaLabels
<1>9. TypeOK'
  BY <1>3, <1>4, <1>7, <1>8 DEF LifeInv, ClientInv, TypeOK, KaLabels
<1>10. NoSessionLeak'
  BY <1>7 DEF LifeInv, NoSessionLeak
<1> QED
  BY <1>8, <1>9, <1>10 DEF LifeInv, ClientInv

\* A goroutine that returns.
LEMMA KaReturnStep ==
  ASSUME LifeInv, NEW e \in Conns, KaLive(e), KaReturn(e),
         UNCHANGED <<main, conn, cSession, cCtrl, connClosed, peerVars, runVars, stop>>,
         \/ session' = session
         \/ CloseSession(cSession)
  PROVE  LifeInv'
<1>1. /\ kaCh' \in [Conns -> 0..MaxConns] /\ missed' \in [Conns -> 0..MaxPongMiss - 1]
      /\ \A f \in Conns : f # e => kaCh'[f] = kaCh[f]
  BY LifecycleAssumption DEF KaReturn, LifeInv, ClientInv, TypeOK, Nil
<1>2. /\ ka' \in [Conns -> KaLabels]
      /\ OneKeepalive' /\ KeepaliveEnds' /\ FieldsCurrent' /\ FailuresCounted'
  BY <1>1, KeepaliveMoves DEF KaReturn, KaLabels
<1>3. session' \in [Conns -> {"none", "open", "closed"}] /\ NoSessionLeak'
  <2>1. CASE session' = session
    BY <2>1 DEF LifeInv, ClientInv, TypeOK, NoSessionLeak
  <2>2. CASE CloseSession(cSession)
    BY <2>2, CloseKeeps
  <2> QED
    BY <2>1, <2>2
<1>4. TypeOK'
  BY <1>1, <1>2, <1>3 DEF LifeInv, ClientInv, TypeOK, KaLabels
<1> QED
  BY <1>2, <1>3, <1>4 DEF LifeInv, ClientInv

\* The keepalive returns, with or without triggerReconnect.
LEMMA KaEndsStep ==
  ASSUME LifeInv, NEW e \in Conns,
         \/ KaPingFails(e) \/ KaStops(e)
         \/ KaTimeout(e) /\ missed[e] + 1 >= MaxPongMiss
  PROVE  LifeInv'
<1>1. KaLive(e)
  BY DEF KaLive, KaPingFails, KaStops, KaTimeout
<1>2. missed[e] + 1 \in Int /\ MaxPongMiss \in Int
  BY LifecycleAssumption DEF LifeInv, ClientInv, TypeOK
<1>3. KaReturn(e) /\ (session' = session \/ CloseSession(cSession))
  BY <1>2 DEF KaPingFails, KaStops, KaTimeout, TriggerReconnect
<1>4. UNCHANGED <<main, conn, cSession, cCtrl, connClosed, peerVars, runVars, stop>>
  BY DEF KaPingFails, KaStops, KaTimeout
<1> QED
  BY <1>1, <1>3, <1>4, KaReturnStep

\* A pong, or its absence that is forgiven.
LEMMA KaGoesOnStep ==
  ASSUME LifeInv, NEW e \in Conns,
         \/ KaPong(e)
         \/ KaTimeout(e) /\ missed[e] + 1 < MaxPongMiss
  PROVE  LifeInv'
<1>1. KaLive(e) /\ ka[e] = "wait"
  BY DEF KaLive, KaPong, KaTimeout
<1>2. e = conn /\ kaCh[e] = e
  BY <1>1, KeepaliveOwn
<1>3. missed[e] \in 0..MaxPongMiss - 1 /\ MaxPongMiss \in Nat \ {0}
  BY LifecycleAssumption DEF LifeInv, ClientInv, TypeOK
<1>4. /\ KaGoto(e, "top")
      /\ UNCHANGED <<main, connVars, due, silent, users, kaCh, runVars, stop>>
  BY <1>3 DEF KaPong, KaTimeout, TriggerReconnect
<1>5. missed' \in [Conns -> 0..MaxPongMiss - 1] /\ pongBuf' \in [Conns -> 0..1]
  BY <1>2, <1>3 DEF LifeInv, ClientInv, TypeOK, KaPong, KaTimeout
<1>6. /\ ka' \in [Conns -> KaLabels]
      /\ OneKeepalive' /\ KeepaliveEnds' /\ FieldsCurrent' /\ FailuresCounted'
  BY <1>1, <1>4, KeepaliveMoves DEF KaLabels
<1>7. TypeOK'
  BY <1>4, <1>5, <1>6 DEF LifeInv, ClientInv, TypeOK, KaLabels
<1>8. NoSessionLeak'
  BY <1>4 DEF LifeInv, NoSessionLeak
<1> QED
  BY <1>6, <1>7, <1>8 DEF LifeInv, ClientInv

(***************************************************************************)
(* The peer and Stop                                                       *)
(***************************************************************************)

\* Messages and users change neither keepalives nor sessions.
LEMMA PeerStep ==
  ASSUME LifeInv,
         \/ PongArrives \/ UserArrives
         \/ \E e \in Conns : UserLeaves(e) \/ GoSilent(e)
  PROVE  LifeInv'
<1>1. UNCHANGED <<main, connVars, kaVars, runVars, stop>>
  BY DEF PongArrives, UserArrives, UserLeaves, GoSilent
<1>2. main # "start" => conn \in Conns
  BY DEF LifeInv, ClientInv, TypeOK, FieldsCurrent, Conns
<1>3. /\ due' \in [Conns -> 0..MaxDue] /\ pongBuf' \in [Conns -> 0..1]
      /\ silent' \in [Conns -> BOOLEAN] /\ users' \in [Conns -> 0..MaxUsers]
  <2>1. CASE PongArrives
    <3>1. conn \in Conns /\ due[conn] \in 0..MaxDue /\ MaxDue \in Nat
      BY <1>2, <2>1, LifecycleAssumption DEF PongArrives, LifeInv, ClientInv, TypeOK
    <3> QED
      BY <2>1, <3>1 DEF PongArrives, LifeInv, ClientInv, TypeOK
  <2>2. CASE UserArrives
    <3>1. conn \in Conns /\ users[conn] \in 0..MaxUsers /\ MaxUsers \in Nat
      BY <1>2, <2>2, LifecycleAssumption DEF UserArrives, LifeInv, ClientInv, TypeOK
    <3> QED
      BY <2>2, <3>1 DEF UserArrives, LifeInv, ClientInv, TypeOK
  <2>3. ASSUME NEW e \in Conns, UserLeaves(e) \/ GoSilent(e)
        PROVE  /\ UNCHANGED <<due, pongBuf>> /\ silent' \in [Conns -> BOOLEAN]
               /\ users' \in [Conns -> 0..MaxUsers]
    <3>1. users[e] \in 0..MaxUsers /\ MaxUsers \in Nat
      BY LifecycleAssumption DEF LifeInv, ClientInv, TypeOK
    <3>2. users' \in [Conns -> 0..MaxUsers] /\ UNCHANGED <<due, pongBuf>>
      BY <2>3, <3>1 DEF UserLeaves, GoSilent, LifeInv, ClientInv, TypeOK
    <3>3. silent' \in [Conns -> BOOLEAN]
      BY <2>3 DEF UserLeaves, GoSilent, LifeInv, ClientInv, TypeOK
    <3> QED
      BY <3>2, <3>3
  <2> QED
    BY <2>1, <2>2, <2>3 DEF LifeInv, ClientInv, TypeOK
<1>4. TypeOK'
  BY <1>1, <1>3 DEF LifeInv, ClientInv, TypeOK
<1> QED
  BY <1>1, <1>4 DEF LifeInv, ClientInv, OneKeepalive, KeepaliveEnds, FieldsCurrent,
     FailuresCounted, NoSessionLeak, KaLive

\* A session is closed by the peer or by Stop; Stop goes on.
LEMMA StopStep ==
  ASSUME LifeInv,
         \/ StopBegin \/ StopClose \/ StopReturn
         \/ \E e \in Conns : PeerDrops(e)
  PROVE  LifeInv'
<1>1. /\ UNCHANGED <<main, conn, cSession, cCtrl, connClosed, peerVars, kaVars, runVars>>
      /\ stop' \in {"no", "marked", "waiting", "returned"}
  BY DEF LifeInv, ClientInv, TypeOK, StopBegin, StopClose, StopReturn, PeerDrops
<1>2. session' \in [Conns -> {"none", "open", "closed"}] /\ NoSessionLeak'
  <2>1. CASE session' = session
    BY <1>1, <2>1 DEF LifeInv, ClientInv, TypeOK, NoSessionLeak
  <2>2. CASE \E s \in 0..MaxConns : CloseSession(s)
    BY <1>1, <2>2, CloseKeeps
  <2>3. \A e \in Conns : e \in 0..MaxConns
    BY LifecycleAssumption DEF Conns
  <2> QED
    BY <2>1, <2>2, <2>3 DEF StopBegin, StopClose, StopReturn, PeerDrops, LifeInv, ClientInv, TypeOK
<1>3. TypeOK'
  BY <1>1, <1>2 DEF LifeInv, ClientInv, TypeOK
<1> QED
  BY <1>1, <1>2, <1>3 DEF LifeInv, ClientInv, OneKeepalive, KeepaliveEnds, FieldsCurrent,
     FailuresCounted, KaLive

-----------------------------------------------------------------------------

\* Every step preserves the invariant.
LEMMA InvariantStep == LifeInv /\ [Next]_vars => LifeInv'
<1> SUFFICES ASSUME LifeInv, [Next]_vars PROVE LifeInv'
  OBVIOUS
<1>1. CASE RunStep \/ ServeEnds
  BY <1>1, ConnectStep, DialStep, ConnectingStep, ConnectFailsStep, StartServingStep,
     ServeEndsStep, CleanupStep, BackoffStep, DecideStep, WakeStep DEF RunStep
<1>2. ASSUME NEW e \in Conns, KaStep(e) \/ UserLeaves(e)
      PROVE  LifeInv'
  <2>1. CASE UserLeaves(e)
    BY <2>1, PeerStep
  <2>2. CASE KaTimeout(e)
    <3>1. missed[e] + 1 >= MaxPongMiss \/ missed[e] + 1 < MaxPongMiss
      BY LifecycleAssumption DEF LifeInv, ClientInv, TypeOK
    <3> QED
      BY <2>2, <3>1, KaEndsStep, KaGoesOnStep
  <2> QED
    BY <1>2, <2>1, <2>2, KaWaitsStep, KaEndsStep, KaGoesOnStep DEF KaStep
<1>3. CASE StopClose \/ StopReturn \/ Environment
  BY <1>3, PeerStep, StopStep DEF Environment
<1>4. CASE Finished \/ UNCHANGED vars
  <2>1. UNCHANGED vars
    BY <1>4 DEF Finished
  <2> QED
    BY <2>1 DEF LifeInv, ClientInv, TypeOK, OneKeepalive, KeepaliveEnds, FieldsCurrent,
       FailuresCounted, NoSessionLeak, KaLive
<1> QED
  BY <1>1, <1>2, <1>3, <1>4 DEF Next

\* The invariant of the client and, with it, that a connection has exactly
\* its own keepalive, although c.session, c.ctrlStream, c.pongCh and
\* c.connCloseCh are replaced under the goroutines that read them.
THEOREM ClientSafety == Spec => []ClientInv
<1>1. LifeInv => ClientInv
  BY DEF LifeInv
<1> QED
  BY <1>1, InvariantInit, InvariantStep, PTL DEF Spec

\* Every way out of connect closes the session it opened.
THEOREM SessionsClosed == Spec => []NoSessionLeak
<1>1. LifeInv => NoSessionLeak
  BY DEF LifeInv
<1> QED
  BY <1>1, InvariantInit, InvariantStep, PTL DEF Spec

\* Only a keepalive's own steps end it.
LEMMA EndsByOwnStep ==
  ASSUME LifeInv, Next, NEW e \in Conns, KaLive(e), ka'[e] = "done"
  PROVE  KaStep(e)
<1>1. ka'[e] # ka[e]
  BY DEF KaLive
<1>2. \A f \in Conns : KaStep(f) => \A g \in Conns : g # f => ka'[g] = ka[g]
  BY DEF KaStep, KaSelect, KaTick, KaPing, KaPingFails, KaPong, KaTimeout, KaStops,
     TriggerReconnect, KaReturn, KaGoto, LifeInv, ClientInv, TypeOK
<1>3. ~UNCHANGED ka
  BY <1>1
<1>4. ~(ServeEnds \/ StopClose \/ StopReturn \/ Environment \/ Finished)
  BY <1>3 DEF ServeEnds, StopClose, StopReturn, Environment, Finished, PongArrives, UserArrives,
     StopBegin, PeerDrops, GoSilent
<1>5. ~RunStep
  <2>1. ~StartServing
    BY NoKeepalive DEF StartServing
  <2> QED
    BY <1>3, <2>1 DEF RunStep, Connect, DialFails, BundleFails, Dial, PublishSession, OpenControl,
       Authenticate, ConnectFails, Cleanup, AfterFailure, AfterSuccess, Decide, Wake
<1>6. \A f \in Conns : ~UserLeaves(f)
  BY <1>3 DEF UserLeaves
<1> QED
  BY <1>1, <1>2, <1>4, <1>5, <1>6 DEF Next

\* A keepalive that ends closes at most its own session.
LEMMA ClosesOwnStep ==
  ASSUME LifeInv, [Next]_vars, NEW e \in Conns, NEW s \in Conns,
         KaLive(e), ka'[e] = "done", session[s] = "open", session'[s] = "closed"
  PROVE  e = s
<1>1. ~UNCHANGED vars
  BY DEF KaLive
<1>2. KaStep(e)
  BY <1>1, EndsByOwnStep
<1>3. session' # session
  OBVIOUS
<1>4. CloseSession(cSession)
  BY <1>2, <1>3 DEF KaStep, KaSelect, KaTick, KaPing, KaPingFails, KaPong, KaTimeout, KaStops,
     TriggerReconnect
<1>5. s = cSession
  BY <1>4 DEF CloseSession
<1> QED
  BY <1>5, KeepaliveOwn

\* triggerReconnect reads c.session without a lock, and yet a keepalive never
\* gives up the connection of another connect.
THEOREM KeepaliveClosesOwn == Spec => ClosesOwnSession
<1>1. LifeInv /\ [Next]_vars =>
        [\A e, s \in Conns :
           /\ KaLive(e) /\ ka'[e] = "done"
           /\ session[s] = "open" /\ session'[s] = "closed"
           => e = s]_vars
  BY ClosesOwnStep
<1> QED
  BY <1>1, InvariantInit, InvariantStep, PTL DEF Spec, ClosesOwnSession

(***************************************************************************)
(* The backoff of Run                                                      *)
(***************************************************************************)

\* Every set of numbers has a least one; induction is done with it below.
LEMMA LeastNumber ==
  ASSUME NEW T \in SUBSET Nat, T # {}
  PROVE  \E m \in T : \A k \in T : m <= k
<1>1. OpToRel(<, Nat) = {ss \in Nat \X Nat : ss[1] < ss[2]}
  BY Zenon DEF OpToRel
<1>2. PICK m \in T : \A k \in T : ~(<<k, m>> \in OpToRel(<, Nat))
  BY WFMin, NatLessThanWellFounded, Zenon
<1>3. \A k \in T : ~(<<k, m>> \in {ss \in Nat \X Nat : ss[1] < ss[2]})
  BY <1>1, <1>2, Zenon
<1>4. ASSUME NEW k \in T PROVE m <= k
  <2>1. k \in Nat /\ m \in Nat
    OBVIOUS
  <2>2. <<k, m>> \in Nat \X Nat /\ <<k, m>>[1] = k /\ <<k, m>>[2] = m
    BY <2>1
  <2>3. ~(k < m)
    BY <1>3, <2>2
  <2> QED
    BY <2>1, <2>3
<1> QED BY <1>4

\* The first n + 1 delays of an unlimited backoff.
Doublings(n) ==
  {g \in [0..n -> Nat] : g[0] = MinDelay /\ \A i \in 1..n : g[i] = 2 * g[i - 1]}

\* A longer list of delays continues a shorter one.
LEMMA DoublingsAgree ==
  ASSUME NEW m \in Nat, NEW n \in Nat, m <= n, NEW g \in Doublings(m), NEW h \in Doublings(n),
         NEW i \in 0..m
  PROVE  g[i] = h[i]
<1> DEFINE T == {j \in Nat : j <= m /\ g[j] # h[j]}
<1> SUFFICES ASSUME T # {} PROVE FALSE
  OBVIOUS
<1>1. T \in SUBSET Nat
  OBVIOUS
<1>2. PICK j \in T : \A k \in T : j <= k
  BY <1>1, LeastNumber
<1>3. j # 0
  BY <1>2 DEF Doublings
<1>4. j \in Nat /\ j <= m /\ j - 1 \in Nat /\ j - 1 \notin T
  BY <1>2, <1>3
<1>5. g[j - 1] = h[j - 1]
  BY <1>4
<1>6. g[j] = 2 * g[j - 1] /\ h[j] = 2 * h[j - 1]
  BY <1>3, <1>4 DEF Doublings
<1> QED
  BY <1>2, <1>5, <1>6

\* There is such a list of every length.
LEMMA DoublingsExist ==
  ASSUME NEW n \in Nat PROVE Doublings(n) # {}
<1> DEFINE T == {j \in Nat : Doublings(j) = {}}
<1> SUFFICES ASSUME T # {} PROVE FALSE
  OBVIOUS
<1>1. T \in SUBSET Nat
  OBVIOUS
<1>2. PICK j \in T : \A k \in T : j <= k
  <2> HIDE DEF T
  <2> QED BY <1>1, LeastNumber
<1>3. j # 0
  <2>1. [k \in 0..0 |-> MinDelay] \in Doublings(0)
    BY LifecycleAssumption DEF Doublings
  <2> QED
    BY <2>1, <1>2
<1>4. j \in Nat /\ j - 1 \in Nat /\ Doublings(j - 1) # {} /\ Doublings(j) = {}
  BY <1>2, <1>3
<1>5. PICK g : g \in Doublings(j - 1)
  BY <1>4
<1>6. g \in [0..(j - 1) -> Nat] /\ g[0] = MinDelay /\ \A i \in 1..(j-1) : g[i] = 2 * g[i - 1]
  BY <1>5 DEF Doublings
<1> DEFINE h == [i \in 0..j |-> IF i = j THEN 2 * g[j - 1] ELSE g[i]]
<1>7. h \in [0..j -> Nat]
  <2>1. ASSUME NEW i \in 0..j PROVE h[i] \in Nat
    <3>1. g[j - 1] \in Nat
      BY <1>4, <1>6
    <3>2. CASE i # j
      BY <1>4, <1>6, <3>2
    <3> QED
      BY <3>1, <3>2
  <2> QED
    BY <2>1
<1>8. h[0] = MinDelay
  BY <1>4, <1>6
<1>9. ASSUME NEW i \in 1..j PROVE h[i] = 2 * h[i - 1]
  <2>1. CASE i = j
    BY <1>4, <2>1
  <2>2. CASE i # j
    <3>1. i \in 1..(j - 1) /\ i - 1 # j /\ i - 1 \in 0..j
      BY <1>4, <2>2
    <3> QED
      BY <1>6, <2>2, <3>1
  <2> QED
    BY <2>1, <2>2
<1>10. h \in Doublings(j)
  <2> HIDE DEF h
  <2> QED
    BY <1>7, <1>8, <1>9 DEF Doublings
<1> QED
  BY <1>4, <1>10

\* The recursive definition of Doubled defines a function.
LEMMA DoubledDefined ==
  /\ Doubled \in [Nat -> Nat]
  /\ Doubled[0] = MinDelay
  /\ \A n \in Nat : Doubled[n + 1] = 2 * Doubled[n]
<1> DEFINE G(n) == CHOOSE g : g \in Doublings(n)
           f == [n \in Nat |-> G(n)[n]]
<1>1. ASSUME NEW n \in Nat PROVE G(n) \in Doublings(n)
  BY DoublingsExist
<1> HIDE DEF G
<1>2. ASSUME NEW n \in Nat PROVE G(n)[n] \in Nat
  BY <1>1 DEF Doublings
<1>3. G(0)[0] = MinDelay
  BY <1>1 DEF Doublings
<1>4. ASSUME NEW n \in Nat PROVE G(n + 1)[n + 1] = 2 * G(n)[n]
  <2>1. G(n + 1)[n + 1] = 2 * G(n + 1)[n]
    <3>1. G(n + 1) \in Doublings(n + 1)
      BY <1>1
    <3>2. n + 1 \in 1..(n + 1) /\ (n + 1) - 1 = n
      OBVIOUS
    <3> QED
      BY <3>1, <3>2 DEF Doublings
  <2>2. G(n)[n] = G(n + 1)[n]
    <3>1. /\ G(n) \in Doublings(n) /\ G(n + 1) \in Doublings(n + 1)
          /\ n + 1 \in Nat /\ n <= n + 1 /\ n \in 0..n
      BY <1>1
    <3> QED
      BY <3>1, DoublingsAgree
  <2> QED
    BY <2>1, <2>2
<1>5. f \in [Nat -> Nat] /\ f[0] = MinDelay /\ \A n \in Nat : f[n + 1] = 2 * f[n]
  BY <1>2, <1>3, <1>4
<1> HIDE DEF f
<1>6. f = [n \in Nat |-> IF n = 0 THEN MinDelay ELSE 2 * f[n - 1]]
  <2>1. ASSUME NEW n \in Nat, n # 0 PROVE f[n] = 2 * f[n - 1]
    <3>1. n - 1 \in Nat /\ (n - 1) + 1 = n
      BY <2>1
    <3> QED
      BY <1>5, <3>1
  <2>2. ASSUME NEW n \in Nat PROVE f[n] = IF n = 0 THEN MinDelay ELSE 2 * f[n - 1]
    BY <1>5, <2>1
  <2> QED
    BY <1>5, <2>2
<1>7. Doubled = [n \in Nat |-> IF n = 0 THEN MinDelay ELSE 2 * Doubled[n - 1]]
  BY <1>6 DEF Doubled
<1>8. Doubled[0] = MinDelay
  BY <1>7
<1>9. ASSUME NEW n \in Nat PROVE Doubled[n + 1] = 2 * Doubled[n]
  <2>1. n + 1 \in Nat /\ n + 1 # 0 /\ (n + 1) - 1 = n
    OBVIOUS
  <2> QED
    BY <1>7, <2>1
<1>10. \A n \in Nat : Doubled[n] = f[n]
  <2> DEFINE T == {j \in Nat : Doubled[j] # f[j]}
  <2> SUFFICES ASSUME T # {} PROVE FALSE
    OBVIOUS
  <2>1. T \in SUBSET Nat
    OBVIOUS
  <2>2. PICK j \in T : \A k \in T : j <= k
    BY <2>1, LeastNumber
  <2>3. j # 0
    BY <1>5, <1>8, <2>2
  <2>4. j - 1 \in Nat /\ j - 1 \notin T /\ (j - 1) + 1 = j
    BY <2>2, <2>3
  <2>5. Doubled[j - 1] = f[j - 1]
    BY <2>4
  <2>6. Doubled[j] = 2 * Doubled[j - 1] /\ f[j] = 2 * f[j - 1]
    BY <1>5, <1>9, <2>4
  <2> QED
    BY <2>2, <2>5, <2>6
<1>11. Doubled \in [Nat -> Nat]
  BY <1>5, <1>7, <1>10
<1> QED
  BY <1>8, <1>9, <1>11

\* The delay that belongs to the number of failures, at every point of Run.
Backoff ==
  delay = Min({MaxDelay, IF failures = 0 THEN MinDelay ELSE Doubled[failures - 1]})

\* Doubling a delay that was cut off at maxDelay and cutting off again is
\* cutting off the doubled delay.
LEMMA DoublingCut ==
  ASSUME NEW a \in Nat, NEW m \in Nat, NEW d \in Nat, d = Min({m, a})
  PROVE  Min({2 * d, m}) = Min({m, 2 * a})
<1>1. d = IF m <= a THEN m ELSE a
  BY MinPair
<1>2. /\ Min({2 * d, m}) = IF 2 * d <= m THEN 2 * d ELSE m
      /\ Min({m, 2 * a}) = IF m <= 2 * a THEN m ELSE 2 * a
  <2>1. 2 * d \in Int /\ 2 * a \in Int /\ m \in Int
    OBVIOUS
  <2> QED
    BY <2>1, MinPair
<1> QED
  BY <1>1, <1>2

\* A failure after the first one doubles the delay.
LEMMA FailureKeepsBackoff ==
  ASSUME TypeOK, Backoff, AfterFailure PROVE Backoff'
<1>1. failures \in Nat /\ MinDelay \in Nat /\ MaxDelay \in Nat /\ delay \in Nat
  BY LifecycleAssumption DEF TypeOK
<1>2. failures' = failures + 1 /\ failures' # 0 /\ failures' - 1 = failures
  BY <1>1 DEF AfterFailure
<1>3. CASE failures = 0
  <2>1. delay' = delay /\ delay = Min({MaxDelay, MinDelay})
    BY <1>3 DEF AfterFailure, Backoff
  <2> QED
    BY <1>2, <1>3, <2>1, DoubledDefined DEF Backoff
<1>4. CASE failures # 0
  <2>1. failures + 1 > 1 /\ failures - 1 \in Nat /\ (failures - 1) + 1 = failures
    BY <1>1, <1>4
  <2>2. /\ Doubled[failures - 1] \in Nat
        /\ Doubled[failures] = 2 * Doubled[failures - 1]
    BY <2>1, DoubledDefined
  <2>3. delay = Min({MaxDelay, Doubled[failures - 1]})
    BY <1>4 DEF Backoff
  <2>4. Min({2 * delay, MaxDelay}) = Min({MaxDelay, 2 * Doubled[failures - 1]})
    BY <1>1, <2>2, <2>3, DoublingCut
  <2>5. delay' = Min({2 * delay, MaxDelay})
    BY <2>1 DEF AfterFailure
  <2> QED
    BY <1>2, <2>2, <2>4, <2>5 DEF Backoff
<1> QED
  BY <1>3, <1>4

\* Every step keeps the delay in line with the failures.
LEMMA BackoffKept ==
  ASSUME LifeInv, Backoff, [Next]_vars PROVE Backoff'
<1>1. CASE AfterFailure
  BY <1>1, FailureKeepsBackoff DEF LifeInv, ClientInv
<1>2. CASE AfterSuccess
  <2>1. MinDelay \in Int /\ MaxDelay \in Int /\ MinDelay <= MaxDelay
    BY LifecycleAssumption
  <2>2. Min({MaxDelay, MinDelay}) = MinDelay
    BY <2>1, MinPair
  <2> QED
    BY <1>2, <2>2 DEF AfterSuccess, Backoff
<1>3. CASE UNCHANGED runVars
  BY <1>3 DEF Backoff
<1>4. Next => AfterFailure \/ AfterSuccess \/ UNCHANGED runVars
  BY DEF Next, RunStep, ServeEnds, KaStep, StopClose, StopReturn, Environment, Finished,
     UserLeaves, PongArrives, UserArrives, StopBegin, PeerDrops, GoSilent, Connect, DialFails,
     BundleFails, Dial, PublishSession, OpenControl, Authenticate, ConnectFails, StartServing,
     Cleanup, Decide, Wake, KaSelect, KaTick, KaPing, KaPingFails, KaPong, KaTimeout, KaStops
<1> QED
  BY <1>1, <1>2, <1>3, <1>4

\* The delay before a reconnect is minDelay doubled with every failure after
\* the first in a row, up to maxDelay: the counter and the delay, which Run
\* updates and resets separately, never disagree.
THEOREM BackoffExact == Spec => []BackoffFollowsFailures
<1>1. Init => Backoff
  <2>1. MinDelay \in Int /\ MaxDelay \in Int /\ MinDelay <= MaxDelay
    BY LifecycleAssumption
  <2>2. Min({MaxDelay, MinDelay}) = MinDelay
    BY <2>1, MinPair
  <2> QED
    BY <2>2 DEF Init, Backoff
<1>2. Backoff => BackoffFollowsFailures
  BY DEF Backoff, BackoffFollowsFailures
<1> QED
  BY <1>1, <1>2, InvariantInit, InvariantStep, BackoffKept, PTL DEF Spec
=============================================================================
