--------------------------- MODULE ServerRegistry ---------------------------
(***************************************************************************)
(* The server's bookkeeping of client connections and proxies              *)
(* (internal/server/server.go): the sync.Maps Server.clients and           *)
(* Server.proxies, every client's own proxy table, the proxy listeners,    *)
(* and the goroutines that change them concurrently:                       *)
(*                                                                         *)
(*   - one connection handler per accepted connection (handleConnection-   *)
(*     Standard / handleConnectionMTMux), which authenticates, serves the  *)
(*     control stream and finally cleans up after itself;                  *)
(*   - another connection's handler that evicts it (handleAuth, when a     *)
(*     client with the same id is already registered);                     *)
(*   - one accept loop per proxy (runProxy);                               *)
(*   - Server.Stop.                                                        *)
(*                                                                         *)
(* A handler h stands for one accepted connection: its goroutine, its mux  *)
(* session and its *Client object.  A client requests each of its proxies  *)
(* once per connection (client.connect ranges over a map keyed by name),   *)
(* so the *Proxy object made for name n on connection h is <<h, n>>.       *)
(*                                                                         *)
(* One action is one step other goroutines can observe: a sync.Map         *)
(* operation, a critical section of Client.mu, a listen, a close, a send.  *)
(* handleNewProxy counts a proxy after it has released Client.mu, a step   *)
(* of its own.  cleanupClient and runProxy count theirs in the same action *)
(* as the s.proxies.Delete before it: in between they keep what GaugeExact *)
(* relates the gauge to (the mutex, the proxies still to visit, the        *)
(* running accept loop).  The gauge of clients is read by no property and  *)
(* is joined to the step next to it.  A local variable of a handler is     *)
(* reset to None when it goes out of scope.                                *)
(***************************************************************************)
EXTENDS Integers, FiniteSets

CONSTANTS
  Handlers,     \* connections the server may accept
  Tokens,       \* tokens clients present
  ShortTokens,  \* those of fewer than 8 bytes
  ClientID,     \* the client id of a token: token[:8] + "..."
  Names,        \* proxy names a client may register
  RemotePort,   \* the remote port of a proxy name
  None          \* "no value": nil, or an absent map entry

Proxy == Handlers \X Names
Ports == {RemotePort[n] : n \in Names}
ClientIDs == {ClientID[t] : t \in Tokens}

ASSUME RegistryAssumption ==
  /\ ShortTokens \subseteq Tokens
  /\ DOMAIN ClientID = Tokens
  /\ RemotePort \in [Names -> Ports]
  /\ None \notin Handlers \cup Names \cup Tokens \cup Proxy

\* Only the counting of proxies needs this.
ASSUME FiniteAssumption == IsFiniteSet(Handlers) /\ IsFiniteSet(Names)

VARIABLES
  pc,            \* where each connection handler is
  session,       \* the mux session of each connection
  token,         \* the token a connection authenticated with
  clients,       \* Server.clients: client id -> *Client
  proxies,       \* Server.proxies: remote port -> *Proxy
  held,          \* Client.proxies of each connection, as a set of names
  mu,            \* the handler inside Client.mu, per connection
  todo,          \* proxies the client has still to ask for
  cur,           \* the name a handler is registering or cleaning up
  target,        \* the client cleanupClient works on, per calling handler
  left,          \* names cleanupClient has still to visit, per caller
  listening,     \* the proxy's listener is open
  closeCh,       \* the proxy's closeCh is closed
  run,           \* the proxy's accept loop
  activeClients, \* stats.ActiveClients
  activeProxies, \* stats.ActiveProxies
  stop,          \* progress of Server.Stop
  stopLeft       \* ports Stop's Range has still to visit

connVars == <<pc, session, token, todo, cur, target, left>>
tableVars == <<clients, proxies, held, mu>>
proxyVars == <<listening, closeCh, run>>
statVars == <<activeClients, activeProxies>>
stopVars == <<stop, stopLeft>>
vars == <<connVars, tableVars, proxyVars, statVars, stopVars>>

PCs == {"free", "accepted", "setup", "load", "evict", "store", "loop",
        "listen", "publish", "record", "count", "reply", "undoPort",
        "undoName", "undoCount", "lock", "close", "delete", "forget", "finish", "done"}

\* Registering a proxy whose listener is not in the client's table yet.
Unrecorded == {"publish", "record"}
\* Inside handleNewProxy, after the check of the port.
Registering ==
  Unrecorded \cup
    {"listen", "count", "reply", "undoPort", "undoName", "undoCount"}
\* Inside cleanupClient's critical section.
Cleaning == {"close", "delete"}

TypeOK ==
  /\ pc \in [Handlers -> PCs]
  /\ session \in [Handlers -> {"none", "open", "closed"}]
  /\ token \in [Handlers -> Tokens \cup {None}]
  /\ clients \in [ClientIDs -> Handlers \cup {None}]
  /\ proxies \in [Ports -> Proxy \cup {None}]
  /\ held \in [Handlers -> SUBSET Names]
  /\ mu \in [Handlers -> Handlers \cup {None}]
  /\ todo \in [Handlers -> SUBSET Names]
  /\ cur \in [Handlers -> Names \cup {None}]
  /\ target \in [Handlers -> Handlers \cup {None}]
  /\ left \in [Handlers -> SUBSET Names]
  /\ listening \in [Proxy -> BOOLEAN]
  /\ closeCh \in [Proxy -> BOOLEAN]
  /\ run \in [Proxy -> {"none", "accept", "exit", "done"}]
  /\ activeClients \in Int
  /\ activeProxies \in Int
  /\ stop \in {"no", "range", "returned"}
  /\ stopLeft \in SUBSET Ports

Init ==
  /\ pc = [h \in Handlers |-> "free"]
  /\ session = [h \in Handlers |-> "none"]
  /\ token = [h \in Handlers |-> None]
  /\ clients = [i \in ClientIDs |-> None]
  /\ proxies = [r \in Ports |-> None]
  /\ held = [h \in Handlers |-> {}]
  /\ mu = [h \in Handlers |-> None]
  /\ todo = [h \in Handlers |-> Names]
  /\ cur = [h \in Handlers |-> None]
  /\ target = [h \in Handlers |-> None]
  /\ left = [h \in Handlers |-> {}]
  /\ listening = [p \in Proxy |-> FALSE]
  /\ closeCh = [p \in Proxy |-> FALSE]
  /\ run = [p \in Proxy |-> "none"]
  /\ activeClients = 0
  /\ activeProxies = 0
  /\ stop = "no"
  /\ stopLeft = {}

Goto(h, label) == pc' = [pc EXCEPT ![h] = label]

(***************************************************************************)
(* Accepting and authenticating a connection                               *)
(***************************************************************************)

\* The accept loop of Start gets a connection from the listener.
AcceptConn(h) ==
  /\ pc[h] = "free" /\ stop = "no"
  /\ session' = [session EXCEPT ![h] = "open"]
  /\ Goto(h, "accepted")
  /\ UNCHANGED <<token, todo, cur, target, left, tableVars, proxyVars,
                 statVars, stopVars>>

\* wg.Add(1) and the start of the handler goroutine.  Stop may have closed
\* the listener, and even have returned, since the connection was accepted.
BeginHandler(h) ==
  /\ pc[h] = "accepted"
  /\ Goto(h, "setup")
  /\ UNCHANGED <<session, token, todo, cur, target, left, tableVars,
                 proxyVars, statVars, stopVars>>

\* Encryption, the mux session or the control stream fails, or handleAuth
\* returns an error: everything opened so far is closed.
RejectConn(h) ==
  /\ pc[h] = "setup"
  /\ session' = [session EXCEPT ![h] = "closed"]
  /\ Goto(h, "done")
  /\ UNCHANGED <<token, todo, cur, target, left, tableVars, proxyVars,
                 statVars, stopVars>>

\* handleAuth verifies the request and sends the positive answer.
AuthAccept(h, t) ==
  /\ pc[h] = "setup" /\ session[h] = "open"
  /\ t \notin ShortTokens
  /\ token' = [token EXCEPT ![h] = t]
  /\ Goto(h, "load")
  /\ UNCHANGED <<session, todo, cur, target, left, tableVars, proxyVars,
                 statVars, stopVars>>

\* req.Token[:8] of a shorter token panics, whether the token is accepted
\* (after the answer) or not (before it); the handler's deferred recover ends
\* the goroutine and closes nothing.
AuthPanic(h, t) ==
  /\ pc[h] = "setup"
  /\ t \in ShortTokens
  /\ token' = [token EXCEPT ![h] = t]
  /\ Goto(h, "done")
  /\ UNCHANGED <<session, todo, cur, target, left, tableVars, proxyVars,
                 statVars, stopVars>>

\* s.clients.Load(clientID): a registered client with this id is evicted.
LoadOldClient(h) ==
  /\ pc[h] = "load"
  /\ LET old == clients[ClientID[token[h]]] IN
       /\ target' = [target EXCEPT ![h] = old]
       /\ Goto(h, IF old = None THEN "store" ELSE "lock")
  /\ UNCHANGED <<session, token, todo, cur, left, tableVars, proxyVars,
                 statVars, stopVars>>

\* Deliberate bug: the old session is left to its peer.
KeepOldSession(h) ==
  /\ pc[h] = "evict"
  /\ Goto(h, "store")
  /\ UNCHANGED <<session, token, todo, cur, target, left, tableVars,
                 proxyVars, statVars, stopVars>>

\* oldClient.session.Close(), after cleanupClient(oldClient).
CloseOldSession(h) ==
  /\ pc[h] = "evict"
  /\ session' = [session EXCEPT ![target[h]] = "closed"]
  /\ Goto(h, "store")
  /\ UNCHANGED <<token, todo, cur, target, left, tableVars, proxyVars,
                 statVars, stopVars>>

\* s.clients.Store(client.id, client); IncActiveClients.
StoreClient(h) ==
  /\ pc[h] = "store"
  /\ clients' = [clients EXCEPT ![ClientID[token[h]]] = h]
  /\ activeClients' = activeClients + 1
  /\ Goto(h, "loop")
  /\ target' = [target EXCEPT ![h] = None]
  /\ UNCHANGED <<session, token, todo, cur, left, proxies, held, mu,
                 proxyVars, activeProxies, stopVars>>

(***************************************************************************)
(* handleControlStream and handleNewProxy                                  *)
(***************************************************************************)

\* The client, the network or the mux keepalive ends the session.
PeerDrops(h) ==
  /\ session[h] = "open"
  /\ session' = [session EXCEPT ![h] = "closed"]
  /\ UNCHANGED <<pc, token, todo, cur, target, left, tableVars, proxyVars,
                 statVars, stopVars>>

\* RecvMessage fails, because the session or only the control stream has
\* ended or the message cannot be decoded, or the pong cannot be sent: the
\* handler leaves the loop and enters cleanupClient for its own client.
RecvError(h) ==
  /\ pc[h] = "loop"
  /\ target' = [target EXCEPT ![h] = h]
  /\ Goto(h, "lock")
  /\ UNCHANGED <<session, token, todo, cur, left, tableVars, proxyVars,
                 statVars, stopVars>>

\* A NewProxy request arrives; s.proxies.Load(req.RemotePort) decides.  A
\* request buffered in the stream is still read after the session closed.
CheckPort(h, n) ==
  /\ pc[h] = "loop" /\ n \in todo[h]
  /\ todo' = [todo EXCEPT ![h] = @ \ {n}]
  /\ \/ /\ proxies[RemotePort[n]] = None
        /\ cur' = [cur EXCEPT ![h] = n]
        /\ Goto(h, "listen")
     \/ /\ proxies[RemotePort[n]] # None       \* "port already in use"
        /\ UNCHANGED <<cur, pc>>
  /\ UNCHANGED <<session, token, target, left, tableVars, proxyVars,
                 statVars, stopVars>>

\* lc.Listen fails: another process holds the port.
ListenFails(h) ==
  /\ pc[h] = "listen"
  /\ Goto(h, "loop")
  /\ cur' = [cur EXCEPT ![h] = None]
  /\ UNCHANGED <<session, token, todo, target, left, tableVars,
                 proxyVars, statVars, stopVars>>

\* lc.Listen succeeds.  pool.SetReuseAddr sets SO_REUSEADDR and
\* SO_REUSEPORT, so a listener of this server on the port is no obstacle.
Listen(h) ==
  /\ pc[h] = "listen"
  /\ listening' = [listening EXCEPT ![<<h, cur[h]>>] = TRUE]
  /\ Goto(h, "publish")
  /\ UNCHANGED <<session, token, todo, cur, target, left, tableVars,
                 closeCh, run, statVars, stopVars>>

\* s.proxies.Store(req.RemotePort, proxy).
PublishProxy(h) ==
  /\ pc[h] = "publish"
  /\ proxies' = [proxies EXCEPT ![RemotePort[cur[h]]] = <<h, cur[h]>>]
  /\ Goto(h, "record")
  /\ UNCHANGED <<session, token, todo, cur, target, left, clients, held, mu,
                 proxyVars, statVars, stopVars>>

\* client.proxies[req.Name] = proxy under client.mu.
RecordProxy(h) ==
  /\ pc[h] = "record" /\ mu[h] = None
  /\ held' = [held EXCEPT ![h] = @ \cup {cur[h]}]
  /\ Goto(h, "count")
  /\ UNCHANGED <<session, token, todo, cur, target, left, clients, proxies,
                 mu, proxyVars, statVars, stopVars>>

\* IncActiveProxies, after the mutex is released: an evicting handler may
\* have closed, and uncounted, the proxy by now.
CountProxy(h) ==
  /\ pc[h] = "count"
  /\ activeProxies' = activeProxies + 1
  /\ Goto(h, "reply")
  /\ UNCHANGED <<session, token, todo, cur, target, left, tableVars,
                 proxyVars, activeClients, stopVars>>

\* The positive answer is sent and the accept loop is started.
ReplyOK(h) ==
  /\ pc[h] = "reply" /\ session[h] = "open"
  /\ run' = [run EXCEPT ![<<h, cur[h]>>] = "accept"]
  /\ Goto(h, "loop")
  /\ cur' = [cur EXCEPT ![h] = None]
  /\ UNCHANGED <<session, token, todo, target, left, tableVars,
                 listening, closeCh, statVars, stopVars>>

\* Deliberate bug: the rollback forgets the listener.
ReplyFailsKeepsListener(h) ==
  /\ pc[h] = "reply"
  /\ Goto(h, "undoPort")
  /\ UNCHANGED <<session, token, todo, cur, target, left, tableVars,
                 proxyVars, statVars, stopVars>>

\* The answer cannot be sent: ln.Close() begins the rollback.
ReplyFails(h) ==
  /\ pc[h] = "reply"
  /\ listening' = [listening EXCEPT ![<<h, cur[h]>>] = FALSE]
  /\ Goto(h, "undoPort")
  /\ UNCHANGED <<session, token, todo, cur, target, left, tableVars,
                 closeCh, run, statVars, stopVars>>

\* Rollback: s.proxies.Delete(req.RemotePort).
UndoPort(h) ==
  /\ pc[h] = "undoPort"
  /\ proxies' = [proxies EXCEPT ![RemotePort[cur[h]]] = None]
  /\ Goto(h, "undoName")
  /\ UNCHANGED <<session, token, todo, cur, target, left, clients, held, mu,
                 proxyVars, statVars, stopVars>>

\* Rollback: delete(client.proxies, req.Name) under client.mu.
UndoName(h) ==
  /\ pc[h] = "undoName" /\ mu[h] = None
  /\ held' = [held EXCEPT ![h] = @ \ {cur[h]}]
  /\ Goto(h, "undoCount")
  /\ UNCHANGED <<session, token, todo, cur, target, left, clients, proxies,
                 mu, proxyVars, statVars, stopVars>>

\* Rollback: DecActiveProxies, after the mutex is released.
UndoCount(h) ==
  /\ pc[h] = "undoCount"
  /\ activeProxies' = activeProxies - 1
  /\ Goto(h, "loop")
  /\ cur' = [cur EXCEPT ![h] = None]
  /\ UNCHANGED <<session, token, todo, target, left, tableVars, proxyVars,
                 activeClients, stopVars>>

(***************************************************************************)
(* Proxy.Close and cleanupClient.  Handler w runs cleanupClient for        *)
(* target[w]: its own client, or the one it evicts.                        *)
(***************************************************************************)

\* Deliberate bug: only the listener is closed.
CloseProxySilently(p) ==
  /\ listening' = [listening EXCEPT ![p] = FALSE]
  /\ UNCHANGED closeCh

\* Proxy.Close: close(closeCh) once, then listener.Close().  closeCh is only
\* read after an accept error, which needs the closed listener: one step.
CloseProxy(p) ==
  /\ closeCh' = [closeCh EXCEPT ![p] = TRUE]
  /\ listening' = [listening EXCEPT ![p] = FALSE]

\* client.mu.Lock() and the start of the range over client.proxies.
CleanupLock(w) ==
  /\ pc[w] = "lock" /\ mu[target[w]] = None
  /\ mu' = [mu EXCEPT ![target[w]] = w]
  /\ left' = [left EXCEPT ![w] = held[target[w]]]
  /\ Goto(w, "close")
  /\ UNCHANGED <<session, token, todo, cur, target, clients, proxies, held,
                 proxyVars, statVars, stopVars>>

\* proxy.Close() for the next proxy of the range.
CleanupClose(w, n) ==
  /\ pc[w] = "close" /\ n \in left[w]
  /\ CloseProxy(<<target[w], n>>)
  /\ cur' = [cur EXCEPT ![w] = n]
  /\ Goto(w, "delete")
  /\ UNCHANGED <<session, token, todo, target, left, tableVars, run,
                 statVars, stopVars>>

\* Deliberate bug: the port stays in Server.proxies.
CleanupDeleteNothing(w) ==
  /\ pc[w] = "delete"
  /\ left' = [left EXCEPT ![w] = @ \ {cur[w]}]
  /\ activeProxies' = activeProxies - 1
  /\ Goto(w, "close")
  /\ UNCHANGED <<session, token, todo, cur, target, tableVars, proxyVars,
                 activeClients, stopVars>>

\* Deliberate bug: the gauge is not decremented.
CleanupDeleteUncounted(w) ==
  /\ pc[w] = "delete"
  /\ proxies' = [proxies EXCEPT ![RemotePort[cur[w]]] = None]
  /\ left' = [left EXCEPT ![w] = @ \ {cur[w]}]
  /\ Goto(w, "close")
  /\ UNCHANGED <<session, token, todo, cur, target, clients, held, mu,
                 proxyVars, statVars, stopVars>>

\* s.proxies.Delete(proxy.remotePort), whoever's entry that is by now;
\* DecActiveProxies.
CleanupDelete(w) ==
  /\ pc[w] = "delete"
  /\ proxies' = [proxies EXCEPT ![RemotePort[cur[w]]] = None]
  /\ left' = [left EXCEPT ![w] = @ \ {cur[w]}]
  /\ activeProxies' = activeProxies - 1
  /\ Goto(w, "close")
  /\ UNCHANGED <<session, token, todo, cur, target, clients, held, mu,
                 proxyVars, activeClients, stopVars>>

\* Deliberate bug: the mutex is not released.
CleanupUnlockForgotten(w) ==
  /\ pc[w] = "close" /\ left[w] = {}
  /\ held' = [held EXCEPT ![target[w]] = {}]
  /\ Goto(w, "forget")
  /\ cur' = [cur EXCEPT ![w] = None]
  /\ UNCHANGED <<session, token, todo, target, left, clients, proxies,
                 mu, proxyVars, statVars, stopVars>>

\* client.proxies becomes an empty map; client.mu.Unlock().
CleanupUnlock(w) ==
  /\ pc[w] = "close" /\ left[w] = {}
  /\ held' = [held EXCEPT ![target[w]] = {}]
  /\ mu' = [mu EXCEPT ![target[w]] = None]
  /\ Goto(w, "forget")
  /\ cur' = [cur EXCEPT ![w] = None]
  /\ UNCHANGED <<session, token, todo, target, left, clients, proxies,
                 proxyVars, statVars, stopVars>>

\* s.clients.Delete(client.id), whoever is registered under it by now.
CleanupForget(w) ==
  /\ pc[w] = "forget"
  /\ clients' = [clients EXCEPT ![ClientID[token[target[w]]]] = None]
  /\ Goto(w, IF target[w] = w THEN "finish" ELSE "evict")
  /\ UNCHANGED <<session, token, todo, cur, target, left, proxies, held, mu,
                 proxyVars, statVars, stopVars>>

\* session.Close(), then the deferred DecActiveClients and wg.Done.
Finish(h) ==
  /\ pc[h] = "finish"
  /\ session' = [session EXCEPT ![h] = "closed"]
  /\ activeClients' = activeClients - 1
  /\ Goto(h, "done")
  /\ target' = [target EXCEPT ![h] = None]
  /\ UNCHANGED <<token, todo, cur, left, tableVars, proxyVars,
                 activeProxies, stopVars>>

(***************************************************************************)
(* runProxy and Stop                                                       *)
(***************************************************************************)

\* Accept fails on the closed listener and closeCh is closed: return.  (An
\* accepted user is the business of module Tunnel; an accept error with
\* closeCh open only goes round the loop.)
RunProxyReturn(p) ==
  /\ run[p] = "accept" /\ ~listening[p] /\ closeCh[p]
  /\ run' = [run EXCEPT ![p] = "exit"]
  /\ UNCHANGED <<connVars, tableVars, listening, closeCh, statVars, stopVars>>

\* runProxy's deferred function: s.proxies.Delete(proxy.remotePort), whoever's
\* entry that is by now; DecActiveProxies.
RunProxyDefer(p) ==
  /\ run[p] = "exit"
  /\ run' = [run EXCEPT ![p] = "done"]
  /\ proxies' = [proxies EXCEPT ![RemotePort[p[2]]] = None]
  /\ activeProxies' = activeProxies - 1
  /\ UNCHANGED <<connVars, clients, held, mu, listening, closeCh,
                 activeClients, stopVars>>

\* Stop: close(closeCh), close the listeners, begin proxies.Range.
StopBegin ==
  /\ stop = "no"
  /\ stop' = "range"
  /\ stopLeft' = Ports
  /\ UNCHANGED <<connVars, tableVars, proxyVars, statVars>>

\* One visit of proxies.Range: the proxy found under the port is closed.
StopRange(r) ==
  /\ stop = "range" /\ r \in stopLeft
  /\ stopLeft' = stopLeft \ {r}
  /\ \/ proxies[r] # None /\ CloseProxy(proxies[r])
     \/ proxies[r] = None /\ UNCHANGED <<listening, closeCh>>
  /\ UNCHANGED <<connVars, tableVars, run, statVars, stop>>

\* s.wg.Wait() returns when every counted handler has finished.
StopReturn ==
  /\ stop = "range" /\ stopLeft = {}
  /\ \A h \in Handlers : pc[h] \in {"free", "accepted", "done"}
  /\ stop' = "returned"
  /\ UNCHANGED <<connVars, tableVars, proxyVars, statVars, stopLeft>>

\* Every goroutine has ended and no connection is left: the process may stay
\* like this for ever.
Terminated ==
  /\ stop = "returned"
  /\ \A h \in Handlers : pc[h] \in {"free", "done"} /\ session[h] # "open"
  /\ \A p \in Proxy : run[p] \in {"none", "done"}
  /\ UNCHANGED vars

-----------------------------------------------------------------------------

\* Events from outside: connections, requests, disconnects, the stop signal.
Environment ==
  \/ \E h \in Handlers :
       \/ AcceptConn(h)
       \/ PeerDrops(h) \/ RecvError(h)
       \/ \E t \in Tokens : AuthAccept(h, t) \/ AuthPanic(h, t)
       \/ \E n \in Names : CheckPort(h, n)
  \/ StopBegin

\* The steps a handler goroutine takes by itself once it can.
HandlerStep(h) ==
  \/ BeginHandler(h) \/ RejectConn(h)
  \/ LoadOldClient(h) \/ CloseOldSession(h) \/ StoreClient(h)
  \/ (RecvError(h) /\ session[h] = "closed")
  \/ Listen(h) \/ ListenFails(h) \/ PublishProxy(h) \/ RecordProxy(h)
  \/ CountProxy(h) \/ ReplyOK(h) \/ ReplyFails(h)
  \/ UndoPort(h) \/ UndoName(h) \/ UndoCount(h)
  \/ CleanupLock(h) \/ (\E n \in Names : CleanupClose(h, n))
  \/ CleanupDelete(h) \/ CleanupUnlock(h) \/ CleanupForget(h)
  \/ Finish(h)

RunProxyStep(p) == RunProxyReturn(p) \/ RunProxyDefer(p)

StopStep == (\E r \in Ports : StopRange(r)) \/ StopReturn

Next ==
  \/ Environment
  \/ \E h \in Handlers : HandlerStep(h)
  \/ \E p \in Proxy : RunProxyStep(p)
  \/ StopStep
  \/ Terminated

Spec == Init /\ [][Next]_vars

\* The Go scheduler runs every goroutine that can run.
Fairness ==
  /\ \A h \in Handlers : WF_vars(HandlerStep(h))
  /\ \A p \in Proxy : WF_vars(RunProxyStep(p))
  /\ WF_vars(StopStep)

FairSpec == Spec /\ Fairness

(***************************************************************************)
(* Safety                                                                  *)
(***************************************************************************)

\* When a connection's handler has ended, whatever evictions, rollbacks and
\* Stop did in between, no listener the connection opened is still open
\* (handleNewProxy, cleanupClient).
NoOrphanListener ==
  \A h \in Handlers, n \in Names : pc[h] = "done" => ~listening[<<h, n>>]

\* When a connection's handler has ended, no port is still marked as used by
\* one of its proxies, so handleNewProxy refuses nobody on its account.
NoGhostEntry ==
  \A h \in Handlers, n \in Names :
    pc[h] = "done" => proxies[RemotePort[n]] # <<h, n>>

\* An accept loop whose listener is closed finds closeCh closed too: runProxy
\* returns instead of spinning on the accept error.
AcceptLoopCanStop ==
  \A p \in Proxy : run[p] = "accept" /\ ~listening[p] => closeCh[p]

\* The proxies in a client's table that no cleanupClient has uncounted yet.
Counted ==
  {p \in Proxy : /\ p[2] \in held[p[1]]
                 /\ mu[p[1]] # None => p[2] \in left[mu[p[1]]]}

\* Those a rollback has taken out of the table and not uncounted yet.
Uncounting == {p \in Proxy : pc[p[1]] = "undoCount" /\ cur[p[1]] = p[2]}

\* Those whose accept loop has ended.
LoopEnded == {p \in Proxy : run[p] = "done"}

\* Those that were asked for and have no accept loop: refused, being
\* registered, or rolled back.
Unserved == {p \in Proxy : p[2] \notin todo[p[1]] /\ run[p] = "none"}

\* What stats.ActiveProxies is worth.  Each accept loop that has ended has
\* decremented it a second time (runProxy after cleanupClient); but for that
\* it counts the proxies of the client tables, exactly those that are served.
\* One that a rollback is taking back may still be counted, and one that has
\* no accept loop may be missing: not counted yet, or uncounted both by an
\* evicting handler and by the rollback of handleNewProxy.
GaugeExact ==
  /\ activeProxies + Cardinality(LoopEnded)
       <= Cardinality(Counted \cup Uncounting)
  /\ Cardinality(Counted)
       <= activeProxies + Cardinality(LoopEnded) + Cardinality(Unserved)

(***************************************************************************)
(* The inductive invariant behind NoOrphanListener, NoGhostEntry and       *)
(* AcceptLoopCanStop                                                       *)
(***************************************************************************)

\* The handler's local variables are set where they are used.
LocalsSet ==
  \A h \in Handlers :
    /\ pc[h] \in Registering \cup {"delete"} => cur[h] \in Names
    /\ pc[h] \in Cleaning \cup {"lock", "forget", "evict"}
         => target[h] \in Handlers
    /\ pc[h] \notin {"free", "accepted", "setup", "done"}
         => token[h] \in Tokens

\* Nothing exists yet for a request that is not decided, and no accept loop
\* before the positive answer.
NothingYet ==
  \A h \in Handlers :
    /\ \A n \in todo[h] : ~listening[<<h, n>>] /\ run[<<h, n>>] = "none"
    /\ pc[h] = "listen" => ~listening[<<h, cur[h]>>]
    /\ pc[h] \in Registering =>
         cur[h] \notin todo[h] /\ run[<<h, cur[h]>>] = "none"

\* A listener or an entry of Server.proxies belongs to a proxy that is in its
\* client's table, or that is about to be put there.
ListenersTracked ==
  \A h \in Handlers, n \in Names :
    listening[<<h, n>>] =>
      n \in held[h] \/ (pc[h] \in Unrecorded /\ cur[h] = n)

EntriesTracked ==
  \A h \in Handlers, n \in Names :
    proxies[RemotePort[n]] = <<h, n>> =>
      n \in held[h] \/ (pc[h] = "record" /\ cur[h] = n)

\* The rollback of handleNewProxy has undone what it has passed.
RollbackDone ==
  \A h \in Handlers :
    /\ pc[h] \in {"undoPort", "undoName"} => ~listening[<<h, cur[h]>>]
    /\ pc[h] = "undoName" =>
         proxies[RemotePort[cur[h]]] # <<h, cur[h]>>

\* Client.mu is held exactly by the handler that is inside cleanupClient.
MutexHeld ==
  /\ \A w \in Handlers : pc[w] \in Cleaning => mu[target[w]] = w
  /\ \A c \in Handlers :
       mu[c] # None => pc[mu[c]] \in Cleaning /\ target[mu[c]] = c

\* Inside the critical section, what cleanupClient has passed is closed and
\* unregistered; only a registration that waits for the mutex is exempt.
CleanupProgress ==
  \A w \in Handlers : pc[w] \in Cleaning =>
    /\ \A n \in Names : listening[<<target[w], n>>] =>
         \/ n \in left[w] /\ ~(pc[w] = "delete" /\ cur[w] = n)
         \/ pc[target[w]] \in Unrecorded /\ cur[target[w]] = n
    /\ \A n \in Names : proxies[RemotePort[n]] = <<target[w], n>> =>
         \/ n \in left[w]
         \/ pc[target[w]] = "record" /\ cur[target[w]] = n

\* A client that is not served, or not any more, has an empty proxy table.
HoldsNothing ==
  \A h \in Handlers :
    \/ pc[h] \in {"free", "accepted", "setup", "load", "store", "evict",
                  "forget", "finish", "done"}
    \/ pc[h] \in Cleaning \cup {"lock"} /\ target[h] # h
    => held[h] = {}

\* An accept loop is, or will be, started on a listener that is open or was
\* closed with closeCh.
LoopsStoppable ==
  /\ AcceptLoopCanStop
  /\ \A h \in Handlers :
       pc[h] \in Unrecorded \cup {"count", "reply"} /\ ~listening[<<h, cur[h]>>]
         => closeCh[<<h, cur[h]>>]

\* The invariant of handleNewProxy, cleanupClient, runProxy and Stop that
\* every step preserves.
RegistryInv ==
  /\ TypeOK /\ LocalsSet /\ NothingYet
  /\ ListenersTracked /\ EntriesTracked /\ RollbackDone
  /\ MutexHeld /\ CleanupProgress /\ HoldsNothing /\ LoopsStoppable

(***************************************************************************)
(* Liveness, under FairSpec                                                *)
(***************************************************************************)

\* Once the session of a connection is closed, its handler ends: no handler
\* waits for ever for a Client.mu.
HandlerEnds ==
  \A h \in Handlers :
    (session[h] = "closed" /\ pc[h] # "accepted") ~> (pc[h] = "done")

\* Once a connection is being evicted, its handler ends, even if its peer is
\* silent and would never have ended the session: the evicting handler gets
\* Client.mu, whoever is cleaning up at the same time, and closes the session.
EvictedEnds ==
  \A w, c \in Handlers :
    (c # w /\ pc[w] = "lock" /\ target[w] = c) ~> (pc[c] = "done")

\* A port whose registered listener is closed is released again.
DeadPortReleased ==
  \A p \in Proxy :
    (proxies[RemotePort[p[2]]] = p /\ ~listening[p])
      ~> (proxies[RemotePort[p[2]]] # p)

(***************************************************************************)
(* The server implements SessionContract: the stage of a connection is     *)
(* read off its handler, the phase of a proxy off its listener.            *)
(***************************************************************************)

\* Connection h has still to decide about its proxy n.
Undecided(h, n) == n \in todo[h] \/ (pc[h] = "listen" /\ cur[h] = n)

stageBar ==
  [h \in Handlers |-> CASE pc[h] = "free" -> "idle"
                        [] pc[h] = "done" -> "ended"
                        [] OTHER -> "active"]

phaseBar ==
  [p \in Proxy |-> CASE listening[p] -> "open"
                     [] ~listening[p] /\ Undecided(p[1], p[2]) -> "unused"
                     [] OTHER -> "closed"]

Contract == INSTANCE SessionContract
              WITH Conns <- Handlers, stage <- stageBar, phase <- phaseBar

\* What the owner of a connection can rely on: its proxies are opened at most
\* once, only while it is served, and are all closed when it ends.
ImplementsContract == Contract!Spec

(***************************************************************************)
(* What the documentation says and the code does not do                    *)
(***************************************************************************)

\* A connection that has evicted its predecessor (handleAuth) stays registered
\* under its id while it is served over an open session and nobody evicts it,
\* so that the client's next connection finds it and cleans it up in turn.
RegisteredWhileServed(h) ==
  /\ pc[h] = "loop" /\ session[h] = "open"
  /\ \A w \in Handlers \ {h} : target[w] # h
  => clients[ClientID[token[h]]] = h

SuccessorRegistered ==
  \A h \in Handlers : [](pc[h] = "evict" => []RegisteredWhileServed(h))
=============================================================================
