------------------------ MODULE ServerRegistryProofs ------------------------
(***************************************************************************)
(* Proofs about ServerRegistry, for any number of connections, tokens,     *)
(* proxy names and ports.  RegistryInv is inductive: a lemma each for the  *)
(* actions whose case takes several steps, then InvariantStep with one     *)
(* step per action.                                                        *)
(***************************************************************************)
EXTENDS ServerRegistry, FiniteSetTheorems, TLAPS

USE DEF Proxy, Goto, connVars, tableVars, proxyVars, statVars, stopVars, vars,
        Registering, Unrecorded, Cleaning

\* The initial state satisfies the invariant.
LEMMA InvariantInit == Init => RegistryInv
<1> SUFFICES ASSUME Init PROVE RegistryInv
  OBVIOUS
<1>1. TypeOK
  BY DEF Init, TypeOK, PCs
<1>2. \A h \in Handlers, n \in Names : proxies[RemotePort[n]] # <<h, n>>
  <2> SUFFICES ASSUME NEW h \in Handlers, NEW n \in Names
               PROVE  proxies[RemotePort[n]] # <<h, n>>
    OBVIOUS
  <2>1. RemotePort[n] \in Ports /\ <<h, n>> # None
    BY RegistryAssumption
  <2> QED
    BY <2>1 DEF Init
<1>3. EntriesTracked /\ RollbackDone
  BY <1>2 DEF Init, EntriesTracked, RollbackDone
<1>4. LocalsSet /\ NothingYet /\ ListenersTracked /\ MutexHeld
  BY RegistryAssumption
  DEF Init, LocalsSet, NothingYet, ListenersTracked, MutexHeld
<1>5. CleanupProgress /\ HoldsNothing /\ LoopsStoppable
  BY DEF Init, CleanupProgress, HoldsNothing, LoopsStoppable,
         AcceptLoopCanStop
<1> QED
  BY <1>1, <1>3, <1>4, <1>5 DEF RegistryInv

\* proxies.Delete(r) unregisters what is under r and adds nothing.
LEMMA DeleteEntry ==
  ASSUME TypeOK, NEW r \in Ports, proxies' = [proxies EXCEPT ![r] = None]
  PROVE  /\ proxies' \in [Ports -> Proxy \cup {None}]
         /\ \A k \in Handlers, n \in Names :
              proxies'[RemotePort[n]] = <<k, n>> =>
                RemotePort[n] # r /\ proxies[RemotePort[n]] = <<k, n>>
<1>1. proxies' \in [Ports -> Proxy \cup {None}]
  BY DEF TypeOK
<1>2. ASSUME NEW k \in Handlers, NEW n \in Names,
             proxies'[RemotePort[n]] = <<k, n>>
      PROVE  RemotePort[n] # r /\ proxies[RemotePort[n]] = <<k, n>>
  <2>1. RemotePort[n] \in Ports /\ <<k, n>> # None
    BY RegistryAssumption
  <2> QED
    BY <1>2, <2>1 DEF TypeOK
<1> QED
  BY <1>1, <1>2

\* s.clients.Load in handleAuth: whatever it finds becomes the target of
\* cleanupClient, and the new client holds nothing yet.
LEMMA LoadOldClientStep ==
  ASSUME RegistryInv, NEW h \in Handlers, LoadOldClient(h)
  PROVE  RegistryInv'
<1>1. /\ token[h] \in Tokens
      /\ ClientID[token[h]] \in ClientIDs
  BY RegistryAssumption DEF RegistryInv, LocalsSet, LoadOldClient, ClientIDs
<1> DEFINE old == clients[ClientID[token[h]]]
<1>2. old \in Handlers \cup {None}
  BY <1>1 DEF RegistryInv, TypeOK
<1>3. /\ target' = [target EXCEPT ![h] = old]
      /\ pc[h] = "load"
      /\ pc' = [pc EXCEPT ![h] = IF old = None THEN "store" ELSE "lock"]
      /\ UNCHANGED <<session, token, todo, cur, left, tableVars, proxyVars,
                     statVars, stopVars>>
  BY DEF LoadOldClient
<1> HIDE DEF old
<1>4. TypeOK' /\ LocalsSet'
  BY <1>2, <1>3, RegistryAssumption DEF RegistryInv, TypeOK, LocalsSet, PCs
<1> QED
  BY <1>2, <1>3, <1>4, RegistryAssumption
  DEF RegistryInv, TypeOK, LocalsSet, NothingYet, ListenersTracked,
      EntriesTracked, RollbackDone, MutexHeld, CleanupProgress, HoldsNothing,
      LoopsStoppable, AcceptLoopCanStop

\* oldClient.session.Close() in handleAuth changes no proxy.
LEMMA CloseOldSessionStep ==
  ASSUME RegistryInv, NEW h \in Handlers, CloseOldSession(h)
  PROVE  RegistryInv'
<1>1. TypeOK'
  BY DEF CloseOldSession, RegistryInv, TypeOK, PCs
<1> QED
  BY <1>1
  DEF CloseOldSession, RegistryInv, TypeOK, LocalsSet, NothingYet,
      ListenersTracked, EntriesTracked, RollbackDone, MutexHeld,
      CleanupProgress, HoldsNothing, LoopsStoppable, AcceptLoopCanStop

\* s.clients.Store at the end of handleAuth changes no proxy.
LEMMA StoreClientStep ==
  ASSUME RegistryInv, NEW h \in Handlers, StoreClient(h)
  PROVE  RegistryInv'
<1>1. TypeOK'
  <2>1. activeClients' \in Int
    BY DEF RegistryInv, TypeOK, StoreClient
  <2>2. clients' \in [ClientIDs -> Handlers \cup {None}]
    BY DEF RegistryInv, TypeOK, StoreClient
  <2> QED
    BY <2>1, <2>2, RegistryAssumption
    DEF RegistryInv, TypeOK, StoreClient, PCs
<1> QED
  BY <1>1, RegistryAssumption
  DEF RegistryInv, TypeOK, StoreClient, LocalsSet, NothingYet,
      ListenersTracked, EntriesTracked, RollbackDone, MutexHeld,
      CleanupProgress, HoldsNothing, LoopsStoppable, AcceptLoopCanStop

\* The port check of handleNewProxy: the request leaves todo and, if the
\* port is free, becomes the one being registered.
LEMMA CheckPortStep ==
  ASSUME RegistryInv, NEW h \in Handlers, NEW n \in Names, CheckPort(h, n)
  PROVE  RegistryInv'
<1>1. CASE proxies[RemotePort[n]] = None
  <2>1. /\ pc[h] = "loop" /\ pc' = [pc EXCEPT ![h] = "listen"]
        /\ n \in todo[h] /\ todo' = [todo EXCEPT ![h] = todo[h] \ {n}]
        /\ cur' = [cur EXCEPT ![h] = n]
        /\ UNCHANGED <<session, token, target, left, tableVars, proxyVars,
                 statVars, stopVars>>
    BY <1>1 DEF CheckPort
  <2>2. TypeOK'
    <3>1. todo' \in [Handlers -> SUBSET Names]
      BY <2>1 DEF RegistryInv, TypeOK
    <3> QED
    BY <2>1, <3>1 DEF RegistryInv, TypeOK, PCs
  <2>3. LocalsSet'
    BY <2>1 DEF RegistryInv, TypeOK, LocalsSet
  <2>4. NothingYet'
    BY <2>1 DEF RegistryInv, TypeOK, NothingYet
  <2> QED
    BY <2>1, <2>2, <2>3, <2>4, RegistryAssumption
  DEF RegistryInv, TypeOK, CheckPort, ListenersTracked, EntriesTracked,
      RollbackDone, MutexHeld, CleanupProgress, HoldsNothing, LoopsStoppable,
      AcceptLoopCanStop, LocalsSet
<1>2. CASE proxies[RemotePort[n]] # None
    BY <1>2, RegistryAssumption
  DEF RegistryInv, TypeOK, CheckPort, PCs, LocalsSet, NothingYet,
      ListenersTracked, EntriesTracked, RollbackDone, MutexHeld,
      CleanupProgress, HoldsNothing, LoopsStoppable, AcceptLoopCanStop
<1> QED BY <1>1, <1>2

\* s.proxies.Store: the new entry is of a proxy that is about to be
\* recorded, also while another handler cleans its client up.
LEMMA PublishProxyStep ==
  ASSUME RegistryInv, NEW h \in Handlers, PublishProxy(h)
  PROVE  RegistryInv'
<1>1. cur[h] \in Names /\ <<h, cur[h]>> \in Proxy /\ pc[h] = "publish"
  BY DEF PublishProxy, RegistryInv, LocalsSet
<1>2. TypeOK'
  BY <1>1 DEF RegistryInv, TypeOK, PublishProxy, PCs
<1>3. EntriesTracked'
  BY <1>1, SMTT(30) DEF RegistryInv, TypeOK, PublishProxy, EntriesTracked
<1>4. CleanupProgress'
  <2>1. ASSUME NEW w \in Handlers, pc[w] \in Cleaning, NEW n \in Names,
               proxies'[RemotePort[n]] = <<target[w], n>>
        PROVE  \/ n \in left[w]
               \/ pc'[target[w]] = "record" /\ cur[target[w]] = n
    <3>1. target[w] \in Handlers
      BY <2>1 DEF RegistryInv, LocalsSet
    <3>2. CASE RemotePort[n] = RemotePort[cur[h]]
      BY <1>1, <2>1, <3>1, <3>2, RegistryAssumption
      DEF RegistryInv, TypeOK, PublishProxy
    <3>3. CASE RemotePort[n] # RemotePort[cur[h]]
      BY <1>1, <2>1, <3>1, <3>3, RegistryAssumption
      DEF RegistryInv, TypeOK, PublishProxy, CleanupProgress
    <3> QED BY <3>2, <3>3
  <2> QED
    BY <1>1, <2>1, SMTT(30)
    DEF RegistryInv, TypeOK, LocalsSet, PublishProxy, CleanupProgress
<1>5. RollbackDone'
  BY <1>1, RegistryAssumption
  DEF RegistryInv, TypeOK, PublishProxy, RollbackDone, LocalsSet
<1> QED
  BY <1>1, <1>2, <1>3, <1>4, <1>5
  DEF RegistryInv, TypeOK, PublishProxy, LocalsSet, NothingYet,
      ListenersTracked, MutexHeld, HoldsNothing, LoopsStoppable,
      AcceptLoopCanStop

\* The rollback of handleNewProxy deletes the entry of its port, which may
\* be another proxy's.
LEMMA UndoPortStep ==
  ASSUME RegistryInv, NEW h \in Handlers, UndoPort(h)
  PROVE  RegistryInv'
<1>1. cur[h] \in Names /\ pc[h] = "undoPort" /\ RemotePort[cur[h]] \in Ports
  BY RegistryAssumption DEF UndoPort, RegistryInv, LocalsSet
<1>2. /\ proxies' \in [Ports -> Proxy \cup {None}]
      /\ \A k \in Handlers, n \in Names :
              proxies'[RemotePort[n]] = <<k, n>> =>
                /\ RemotePort[n] # RemotePort[cur[h]]
                /\ proxies[RemotePort[n]] = <<k, n>>
  BY <1>1, DeleteEntry DEF RegistryInv, UndoPort
<1>3. TypeOK'
  BY <1>1, <1>2 DEF RegistryInv, TypeOK, UndoPort, PCs
<1>4. EntriesTracked' /\ RollbackDone'
  BY <1>1, <1>2
  DEF RegistryInv, TypeOK, UndoPort, EntriesTracked, RollbackDone, LocalsSet
<1>5. CleanupProgress'
  BY <1>1, <1>2 DEF RegistryInv, TypeOK, UndoPort, CleanupProgress, LocalsSet
<1> QED
  BY <1>1, <1>3, <1>4, <1>5
  DEF RegistryInv, TypeOK, UndoPort, LocalsSet, NothingYet, ListenersTracked,
      MutexHeld, HoldsNothing, LoopsStoppable, AcceptLoopCanStop

\* The accept loop is started: its listener is open, or was closed together
\* with closeCh by a cleanup or by Stop.
LEMMA ReplyOKStep ==
  ASSUME RegistryInv, NEW h \in Handlers, ReplyOK(h)
  PROVE  RegistryInv'
<1>1. /\ cur[h] \in Names /\ pc[h] = "reply" /\ cur[h] \notin todo[h]
      /\ ~listening[<<h, cur[h]>>] => closeCh[<<h, cur[h]>>]
  BY DEF ReplyOK, RegistryInv, LocalsSet, NothingYet, LoopsStoppable
<1>2. TypeOK'
  BY <1>1 DEF RegistryInv, TypeOK, ReplyOK, PCs
<1>3. LocalsSet' /\ HoldsNothing' /\ MutexHeld' /\ RollbackDone'
  BY <1>1
  DEF RegistryInv, TypeOK, ReplyOK, LocalsSet, HoldsNothing, MutexHeld,
      RollbackDone
<1>4. ListenersTracked' /\ EntriesTracked' /\ CleanupProgress'
  BY <1>1
  DEF RegistryInv, TypeOK, ReplyOK, LocalsSet, ListenersTracked,
      EntriesTracked, CleanupProgress
<1>5. NothingYet'
  BY <1>1 DEF RegistryInv, TypeOK, ReplyOK, LocalsSet, NothingYet
<1>6. LoopsStoppable'
  BY <1>1
  DEF RegistryInv, TypeOK, ReplyOK, LocalsSet, LoopsStoppable,
      AcceptLoopCanStop
<1> QED
  BY <1>2, <1>3, <1>4, <1>5, <1>6 DEF RegistryInv

\* The rollback takes the name out of the client's table: neither listener
\* nor entry is left under it.
LEMMA UndoNameStep ==
  ASSUME RegistryInv, NEW h \in Handlers, UndoName(h)
  PROVE  RegistryInv'
<1>1. cur[h] \in Names /\ pc[h] = "undoName" /\ mu[h] = None
  BY DEF UndoName, RegistryInv, LocalsSet
<1>2. TypeOK'
  BY <1>1 DEF RegistryInv, TypeOK, UndoName, PCs
<1>3. ListenersTracked'
  BY <1>1 DEF RegistryInv, TypeOK, UndoName, ListenersTracked, RollbackDone
<1>4. EntriesTracked'
  <2> SUFFICES ASSUME NEW k \in Handlers, NEW n \in Names,
                      proxies[RemotePort[n]] = <<k, n>>
               PROVE  n \in held'[k] \/ (pc'[k] = "record" /\ cur'[k] = n)
    BY DEF EntriesTracked, UndoName
  <2>1. CASE k = h
    BY <1>1, <2>1, ZenonT(30)
    DEF RegistryInv, TypeOK, UndoName, EntriesTracked, RollbackDone
  <2>2. CASE k # h
    BY <1>1, <2>2 DEF RegistryInv, TypeOK, UndoName, EntriesTracked
  <2> QED BY <2>1, <2>2
<1> QED
  BY <1>1, <1>2, <1>3, <1>4
  DEF RegistryInv, TypeOK, UndoName, LocalsSet, NothingYet, RollbackDone,
      CleanupProgress, MutexHeld, HoldsNothing, LoopsStoppable,
      AcceptLoopCanStop

\* cleanupClient enters the critical section: everything tracked is still
\* ahead of it.
LEMMA CleanupLockStep ==
  ASSUME RegistryInv, NEW h \in Handlers, CleanupLock(h)
  PROVE  RegistryInv'
<1>1. target[h] \in Handlers /\ pc[h] = "lock" /\ mu[target[h]] = None
  BY DEF CleanupLock, RegistryInv, LocalsSet
<1>2. TypeOK'
  BY <1>1 DEF RegistryInv, TypeOK, CleanupLock, PCs
<1>3. MutexHeld'
  BY <1>1, RegistryAssumption
  DEF RegistryInv, TypeOK, LocalsSet, CleanupLock, MutexHeld
<1>4. CleanupProgress'
  BY <1>1, RegistryAssumption
  DEF RegistryInv, TypeOK, LocalsSet, CleanupLock, CleanupProgress,
      ListenersTracked, EntriesTracked
<1> QED
  BY <1>1, <1>2, <1>3, <1>4
  DEF RegistryInv, TypeOK, CleanupLock, LocalsSet, NothingYet,
      ListenersTracked, EntriesTracked, RollbackDone, HoldsNothing,
      LoopsStoppable, AcceptLoopCanStop

\* proxy.Close() in cleanupClient, while the owner may be registering.
LEMMA CleanupCloseStep ==
  ASSUME RegistryInv, NEW h \in Handlers, NEW n \in Names, CleanupClose(h, n)
  PROVE  RegistryInv'
<1>1. /\ pc[h] = "close" /\ n \in left[h] /\ target[h] \in Handlers
      /\ mu[target[h]] = h
  BY DEF CleanupClose, RegistryInv, LocalsSet, MutexHeld
<1>2. TypeOK' /\ LocalsSet'
  BY <1>1 DEF CleanupClose, CloseProxy, RegistryInv, TypeOK, LocalsSet, PCs
<1>3. NothingYet' /\ ListenersTracked' /\ RollbackDone'
  BY <1>1 DEF CleanupClose, CloseProxy, RegistryInv, TypeOK, LocalsSet,
              NothingYet, ListenersTracked, RollbackDone
<1>4. CleanupProgress'
  BY <1>1 DEF CleanupClose, CloseProxy, RegistryInv, TypeOK, LocalsSet,
              MutexHeld, CleanupProgress
<1>5. LoopsStoppable'
  BY <1>1 DEF CleanupClose, CloseProxy, RegistryInv, TypeOK, LocalsSet,
              LoopsStoppable, AcceptLoopCanStop
<1> QED
  BY <1>1, <1>2, <1>3, <1>4, <1>5
  DEF CleanupClose, RegistryInv, TypeOK, LocalsSet, EntriesTracked, MutexHeld,
      HoldsNothing

\* cleanupClient deletes the entry of the proxy it has just closed.
LEMMA CleanupDeleteStep ==
  ASSUME RegistryInv, NEW h \in Handlers, CleanupDelete(h)
  PROVE  RegistryInv'
<1>1. /\ cur[h] \in Names /\ pc[h] = "delete" /\ RemotePort[cur[h]] \in Ports
      /\ target[h] \in Handlers /\ mu[target[h]] = h
  BY RegistryAssumption DEF CleanupDelete, RegistryInv, LocalsSet, MutexHeld
<1>2. /\ proxies' \in [Ports -> Proxy \cup {None}]
      /\ \A k \in Handlers, n \in Names :
              proxies'[RemotePort[n]] = <<k, n>> =>
                /\ RemotePort[n] # RemotePort[cur[h]]
                /\ proxies[RemotePort[n]] = <<k, n>>
  BY <1>1, DeleteEntry DEF RegistryInv, CleanupDelete
<1>3. TypeOK'
  BY <1>1, <1>2 DEF RegistryInv, TypeOK, CleanupDelete, PCs
<1>4. EntriesTracked' /\ RollbackDone'
  BY <1>1, <1>2, SMTT(30)
  DEF RegistryInv, TypeOK, CleanupDelete, EntriesTracked, RollbackDone,
      LocalsSet
<1>5. CleanupProgress'
  <2>1. ASSUME NEW w \in Handlers, pc'[w] \in Cleaning, NEW n \in Names,
               listening[<<target[w], n>>]
        PROVE  \/ n \in left'[w] /\ ~(pc'[w] = "delete" /\ cur[w] = n)
               \/ pc'[target[w]] \in Unrecorded /\ cur[target[w]] = n
    BY <1>1, <2>1
    DEF RegistryInv, TypeOK, LocalsSet, CleanupDelete, CleanupProgress
  <2>2. ASSUME NEW w \in Handlers, pc'[w] \in Cleaning, NEW n \in Names,
               proxies'[RemotePort[n]] = <<target[w], n>>
        PROVE  \/ n \in left'[w]
               \/ pc'[target[w]] = "record" /\ cur[target[w]] = n
    BY <1>1, <1>2, <2>2, SMTT(30)
    DEF RegistryInv, TypeOK, LocalsSet, CleanupDelete, CleanupProgress
  <2> QED
    BY <2>1, <2>2 DEF CleanupProgress, CleanupDelete
<1> QED
  BY <1>1, <1>3, <1>4, <1>5
  DEF RegistryInv, TypeOK, CleanupDelete, LocalsSet, NothingYet,
      ListenersTracked, MutexHeld, HoldsNothing, LoopsStoppable,
      AcceptLoopCanStop

\* cleanupClient empties the table: nothing it drops is open or published.
LEMMA CleanupUnlockStep ==
  ASSUME RegistryInv, NEW h \in Handlers, CleanupUnlock(h)
  PROVE  RegistryInv'
<1>1. /\ pc[h] = "close" /\ left[h] = {}
      /\ target[h] \in Handlers /\ mu[target[h]] = h
  BY DEF CleanupUnlock, RegistryInv, LocalsSet, MutexHeld
<1>2. TypeOK'
  BY <1>1 DEF RegistryInv, TypeOK, CleanupUnlock, PCs
<1>3. MutexHeld'
  BY <1>1, RegistryAssumption
  DEF RegistryInv, TypeOK, LocalsSet, CleanupUnlock, MutexHeld
<1>4. ListenersTracked' /\ EntriesTracked'
  BY <1>1, RegistryAssumption
  DEF RegistryInv, TypeOK, LocalsSet, CleanupUnlock, CleanupProgress,
      ListenersTracked, EntriesTracked
<1>5. CleanupProgress'
  BY <1>1, RegistryAssumption
  DEF RegistryInv, TypeOK, LocalsSet, CleanupUnlock, CleanupProgress,
      MutexHeld
<1> QED
  BY <1>1, <1>2, <1>3, <1>4, <1>5
  DEF RegistryInv, TypeOK, CleanupUnlock, LocalsSet, NothingYet, RollbackDone,
      HoldsNothing, LoopsStoppable, AcceptLoopCanStop

\* s.clients.Delete at the end of cleanupClient changes no proxy.
LEMMA CleanupForgetStep ==
  ASSUME RegistryInv, NEW h \in Handlers, CleanupForget(h)
  PROVE  RegistryInv'
<1>1. target[h] \in Handlers /\ pc[h] = "forget"
  BY DEF CleanupForget, RegistryInv, LocalsSet
<1>2. TypeOK'
  <2>1. clients' \in [ClientIDs -> Handlers \cup {None}]
    BY DEF CleanupForget, RegistryInv, TypeOK
  <2> QED
    BY <1>1, <2>1 DEF RegistryInv, TypeOK, CleanupForget, PCs
<1> QED
  BY <1>1, <1>2
  DEF RegistryInv, TypeOK, CleanupForget, LocalsSet, NothingYet,
      ListenersTracked, EntriesTracked, RollbackDone, MutexHeld,
      CleanupProgress, HoldsNothing, LoopsStoppable, AcceptLoopCanStop

\* runProxy's deferred Delete, whoever the port belongs to by now.
LEMMA RunProxyDeferStep ==
  ASSUME RegistryInv, NEW p \in Proxy, RunProxyDefer(p)
  PROVE  RegistryInv'
<1>1. p[2] \in Names /\ RemotePort[p[2]] \in Ports /\ run[p] = "exit"
  BY RegistryAssumption DEF RunProxyDefer
<1>2. /\ proxies' \in [Ports -> Proxy \cup {None}]
      /\ \A k \in Handlers, n \in Names :
              proxies'[RemotePort[n]] = <<k, n>> =>
                /\ RemotePort[n] # RemotePort[p[2]]
                /\ proxies[RemotePort[n]] = <<k, n>>
  BY <1>1, DeleteEntry DEF RegistryInv, RunProxyDefer
<1>3. TypeOK'
  BY <1>1, <1>2 DEF RegistryInv, TypeOK, RunProxyDefer, PCs
<1>4. EntriesTracked' /\ RollbackDone' /\ CleanupProgress'
  BY <1>1, <1>2
  DEF RegistryInv, TypeOK, RunProxyDefer, EntriesTracked, RollbackDone,
      CleanupProgress, LocalsSet
<1>5. NothingYet' /\ LoopsStoppable'
  BY <1>1
  DEF RegistryInv, TypeOK, RunProxyDefer, NothingYet, LocalsSet,
      LoopsStoppable, AcceptLoopCanStop
<1> QED
  BY <1>1, <1>3, <1>4, <1>5
  DEF RegistryInv, TypeOK, RunProxyDefer, LocalsSet, ListenersTracked,
      MutexHeld, HoldsNothing

\* Stop closes a proxy that any handler may be working on.
LEMMA StopRangeStep ==
  ASSUME RegistryInv, NEW r \in Ports, StopRange(r)
  PROVE  RegistryInv'
<1>1. CASE proxies[r] = None
  BY <1>1
  DEF StopRange, RegistryInv, TypeOK, LocalsSet, NothingYet, ListenersTracked,
      EntriesTracked, RollbackDone, MutexHeld, CleanupProgress, HoldsNothing,
      LoopsStoppable, AcceptLoopCanStop
<1>2. CASE proxies[r] # None
  <2>1. PICK p \in Proxy : CloseProxy(p)
    BY <1>2 DEF RegistryInv, TypeOK, StopRange
  <2>2. /\ \A q \in Proxy : listening'[q] => listening[q]
        /\ \A q \in Proxy : closeCh[q] => closeCh'[q]
        /\ \A q \in Proxy : ~listening'[q] => ~listening[q] \/ closeCh'[q]
    BY <2>1 DEF RegistryInv, TypeOK, CloseProxy
  <2>3. TypeOK'
    BY <2>1 DEF RegistryInv, TypeOK, StopRange, CloseProxy
  <2>4. NothingYet'
    BY <2>2 DEF RegistryInv, TypeOK, StopRange, NothingYet, LocalsSet
  <2>5. LoopsStoppable'
    BY <2>2
    DEF RegistryInv, TypeOK, StopRange, LocalsSet, LoopsStoppable,
        AcceptLoopCanStop
  <2>6. ListenersTracked' /\ RollbackDone' /\ CleanupProgress'
    BY <2>2, SMTT(30)
    DEF RegistryInv, TypeOK, StopRange, LocalsSet, ListenersTracked,
        RollbackDone, CleanupProgress
  <2> QED
    BY <2>3, <2>4, <2>5, <2>6
    DEF RegistryInv, StopRange, LocalsSet, EntriesTracked, MutexHeld,
        HoldsNothing
<1> QED BY <1>1, <1>2

\* RecvError: the handler is outside of every critical section.
LEMMA RecvErrorStep ==
  ASSUME RegistryInv, NEW h \in Handlers, RecvError(h)
  PROVE  RegistryInv'
<1>1. TypeOK' /\ LocalsSet'
  BY DEF RegistryInv, TypeOK, PCs, RecvError, LocalsSet, Registering, Unrecorded, Cleaning
<1>2. NothingYet' /\ RollbackDone' /\ LoopsStoppable'
  BY DEF RegistryInv, TypeOK, RecvError, NothingYet, RollbackDone, LoopsStoppable,
         AcceptLoopCanStop, Registering, Unrecorded
<1>3. ListenersTracked' /\ EntriesTracked' /\ HoldsNothing'
  BY DEF RegistryInv, TypeOK, RecvError, ListenersTracked, EntriesTracked, HoldsNothing,
         Unrecorded, Cleaning
<1>4. MutexHeld' /\ CleanupProgress'
  BY RegistryAssumption
  DEF RegistryInv, TypeOK, RecvError, MutexHeld, CleanupProgress, Unrecorded, Cleaning
<1> QED
  BY <1>1, <1>2, <1>3, <1>4 DEF RegistryInv

\* The proxy that was only published is now in its client's table.
LEMMA RecordProxyStep ==
  ASSUME RegistryInv, NEW h \in Handlers, RecordProxy(h)
  PROVE  RegistryInv'
<1>1. TypeOK' /\ LocalsSet'
  BY DEF RegistryInv, TypeOK, PCs, RecordProxy, LocalsSet, Registering, Unrecorded, Cleaning
<1>2. NothingYet' /\ RollbackDone' /\ LoopsStoppable'
  BY DEF RegistryInv, TypeOK, RecordProxy, NothingYet, RollbackDone, LoopsStoppable,
         AcceptLoopCanStop, Registering, Unrecorded
<1>3. ListenersTracked' /\ EntriesTracked' /\ HoldsNothing'
  BY DEF RegistryInv, TypeOK, RecordProxy, ListenersTracked, EntriesTracked, HoldsNothing,
         Unrecorded, Cleaning
<1>4. MutexHeld' /\ CleanupProgress'
  BY RegistryAssumption
  DEF RegistryInv, TypeOK, RecordProxy, MutexHeld, CleanupProgress, Unrecorded, Cleaning
<1> QED
  BY <1>1, <1>2, <1>3, <1>4 DEF RegistryInv

\* Counting the proxy touches nothing that the invariant is about.
LEMMA CountProxyStep ==
  ASSUME RegistryInv, NEW h \in Handlers, CountProxy(h)
  PROVE  RegistryInv'
<1>1. TypeOK' /\ LocalsSet'
  BY DEF RegistryInv, TypeOK, PCs, CountProxy, LocalsSet, Registering, Unrecorded, Cleaning
<1>2. NothingYet' /\ RollbackDone' /\ LoopsStoppable'
  BY DEF RegistryInv, TypeOK, CountProxy, NothingYet, RollbackDone, LoopsStoppable,
         AcceptLoopCanStop, Registering, Unrecorded
<1>3. ListenersTracked' /\ EntriesTracked' /\ HoldsNothing'
  BY DEF RegistryInv, TypeOK, CountProxy, ListenersTracked, EntriesTracked, HoldsNothing,
         Unrecorded, Cleaning
<1>4. MutexHeld' /\ CleanupProgress'
  BY DEF RegistryInv, TypeOK, CountProxy, MutexHeld, CleanupProgress, Unrecorded, Cleaning
<1> QED
  BY <1>1, <1>2, <1>3, <1>4 DEF RegistryInv

\* Every step of the server preserves the invariant.
LEMMA InvariantStep ==
  ASSUME RegistryInv, [Next]_vars
  PROVE  RegistryInv'
<1> USE RegistryAssumption
    DEF RegistryInv, TypeOK, PCs, LocalsSet, NothingYet, ListenersTracked,
        EntriesTracked, RollbackDone,
        MutexHeld, CleanupProgress, HoldsNothing, LoopsStoppable,
        AcceptLoopCanStop
<1>1. ASSUME NEW h \in Handlers, AcceptConn(h)
      PROVE  RegistryInv'
  BY <1>1 DEF AcceptConn
<1>2. ASSUME NEW h \in Handlers, BeginHandler(h)
      PROVE  RegistryInv'
  BY <1>2 DEF BeginHandler
<1>3. ASSUME NEW h \in Handlers, RejectConn(h)
      PROVE  RegistryInv'
  BY <1>3 DEF RejectConn
<1>4. ASSUME NEW h \in Handlers, NEW t \in Tokens, AuthAccept(h, t)
      PROVE  RegistryInv'
  BY <1>4 DEF AuthAccept
<1>5. ASSUME NEW h \in Handlers, NEW t \in Tokens, AuthPanic(h, t)
      PROVE  RegistryInv'
  BY <1>5 DEF AuthPanic
<1>6. ASSUME NEW h \in Handlers, LoadOldClient(h)
      PROVE  RegistryInv'
  BY ONLY RegistryInv, <1>6, LoadOldClientStep
<1>7. ASSUME NEW h \in Handlers, CloseOldSession(h)
      PROVE  RegistryInv'
  BY ONLY RegistryInv, <1>7, CloseOldSessionStep
<1>8. ASSUME NEW h \in Handlers, StoreClient(h)
      PROVE  RegistryInv'
  BY ONLY RegistryInv, <1>8, StoreClientStep
<1>9. ASSUME NEW h \in Handlers, PeerDrops(h)
      PROVE  RegistryInv'
  BY <1>9 DEF PeerDrops
<1>10. ASSUME NEW h \in Handlers, RecvError(h)
      PROVE  RegistryInv'
  BY ONLY RegistryInv, <1>10, RecvErrorStep
<1>11. ASSUME NEW h \in Handlers, NEW n \in Names, CheckPort(h, n)
      PROVE  RegistryInv'
  BY ONLY RegistryInv, <1>11, CheckPortStep
<1>12. ASSUME NEW h \in Handlers, ListenFails(h)
      PROVE  RegistryInv'
  BY <1>12, SMTT(30) DEF ListenFails
<1>13. ASSUME NEW h \in Handlers, Listen(h)
      PROVE  RegistryInv'
  BY <1>13, SMTT(30) DEF Listen
<1>14. ASSUME NEW h \in Handlers, PublishProxy(h)
      PROVE  RegistryInv'
  BY ONLY RegistryInv, <1>14, PublishProxyStep
<1>15. ASSUME NEW h \in Handlers, RecordProxy(h)
      PROVE  RegistryInv'
  BY ONLY RegistryInv, <1>15, RecordProxyStep
<1>16. ASSUME NEW h \in Handlers, ReplyOK(h)
      PROVE  RegistryInv'
  BY ONLY RegistryInv, <1>16, ReplyOKStep
<1>17. ASSUME NEW h \in Handlers, ReplyFails(h)
      PROVE  RegistryInv'
  BY <1>17, SMTT(30) DEF ReplyFails
<1>18. ASSUME NEW h \in Handlers, UndoPort(h)
      PROVE  RegistryInv'
  BY ONLY RegistryInv, <1>18, UndoPortStep
<1>19. ASSUME NEW h \in Handlers, UndoName(h)
      PROVE  RegistryInv'
  BY ONLY RegistryInv, <1>19, UndoNameStep
<1>20. ASSUME NEW h \in Handlers, CleanupLock(h)
      PROVE  RegistryInv'
  BY ONLY RegistryInv, <1>20, CleanupLockStep
<1>21. ASSUME NEW h \in Handlers, NEW n \in Names, CleanupClose(h, n)
      PROVE  RegistryInv'
  BY ONLY RegistryInv, <1>21, CleanupCloseStep
<1>22. ASSUME NEW h \in Handlers, CleanupDelete(h)
      PROVE  RegistryInv'
  BY ONLY RegistryInv, <1>22, CleanupDeleteStep
<1>23. ASSUME NEW h \in Handlers, CleanupUnlock(h)
      PROVE  RegistryInv'
  BY ONLY RegistryInv, <1>23, CleanupUnlockStep
<1>24. ASSUME NEW h \in Handlers, CleanupForget(h)
      PROVE  RegistryInv'
  BY ONLY RegistryInv, <1>24, CleanupForgetStep
<1>25. ASSUME NEW h \in Handlers, Finish(h)
      PROVE  RegistryInv'
  BY <1>25 DEF Finish
<1>26. ASSUME NEW p \in Proxy, RunProxyReturn(p)
      PROVE  RegistryInv'
  BY <1>26 DEF RunProxyReturn
<1>27. ASSUME NEW p \in Proxy, RunProxyDefer(p)
      PROVE  RegistryInv'
  BY ONLY RegistryInv, <1>27, RunProxyDeferStep
<1>28. ASSUME StopBegin
      PROVE  RegistryInv'
  BY <1>28 DEF StopBegin
<1>29. ASSUME NEW r \in Ports, StopRange(r)
      PROVE  RegistryInv'
  BY ONLY RegistryInv, <1>29, StopRangeStep
<1>30. ASSUME StopReturn
      PROVE  RegistryInv'
  BY <1>30 DEF StopReturn
<1>31. ASSUME Terminated
      PROVE  RegistryInv'
  BY <1>31 DEF Terminated
<1>32. ASSUME UNCHANGED vars
      PROVE  RegistryInv'
  BY <1>32
<1>33. ASSUME NEW h \in Handlers, CountProxy(h)
      PROVE  RegistryInv'
  BY ONLY RegistryInv, <1>33, CountProxyStep
<1>34. ASSUME NEW h \in Handlers, UndoCount(h)
      PROVE  RegistryInv'
  BY <1>34, SMTT(30) DEF UndoCount
<1> QED
  BY <1>1, <1>2, <1>3, <1>4, <1>5, <1>6, <1>7, <1>8, <1>9, <1>10, <1>11,
      <1>12, <1>13, <1>14, <1>15, <1>16, <1>17, <1>18, <1>19, <1>20, <1>21,
      <1>22, <1>23, <1>24, <1>25, <1>26, <1>27, <1>28, <1>29, <1>30, <1>31,
      <1>32, <1>33, <1>34, ZenonT(30)
  DEF Next, Environment, HandlerStep, RunProxyStep, StopStep

\* RegistryInv holds in every reachable state, whatever the interleaving of
\* handlers, evictions, accept loops and Stop.
THEOREM RegistryInvariant == Spec => []RegistryInv
  BY InvariantInit, InvariantStep, PTL DEF Spec

\* The server's tables keep their types (Server, Client and Proxy structs).
THEOREM TypeCorrect == Spec => []TypeOK
<1>1. RegistryInv => TypeOK
  BY DEF RegistryInv
<1> QED
  BY <1>1, RegistryInvariant, PTL

\* No listener outlives the handler of the connection that asked for it.
THEOREM ListenersReleased == Spec => []NoOrphanListener
<1>1. RegistryInv => NoOrphanListener
  BY DEF RegistryInv, ListenersTracked, HoldsNothing, NoOrphanListener
<1> QED
  BY <1>1, RegistryInvariant, PTL

\* No port is blocked by a proxy of a connection whose handler has ended.
THEOREM PortsReleased == Spec => []NoGhostEntry
<1>1. RegistryInv => NoGhostEntry
  BY DEF RegistryInv, EntriesTracked, HoldsNothing, NoGhostEntry
<1> QED
  BY <1>1, RegistryInvariant, PTL

\* No accept loop of runProxy spins on a listener closed under it.
THEOREM AcceptLoopsStop == Spec => []AcceptLoopCanStop
<1>1. RegistryInv => AcceptLoopCanStop
  BY DEF RegistryInv, LoopsStoppable
<1> QED
  BY <1>1, RegistryInvariant, PTL

\* A proxy is a pair of a connection and a name.
LEMMA ProxyIsPair ==
  \A q \in Proxy : q[1] \in Handlers /\ q[2] \in Names /\ q = <<q[1], q[2]>>
  OBVIOUS

\* The phase of one proxy changes and no other.
LEMMA OnePhase ==
  ASSUME NEW c \in Handlers, NEW n \in Names, NEW v,
         phaseBar'[<<c, n>>] = v,
         \A h \in Handlers, m \in Names : <<h, m>> # <<c, n>> =>
           phaseBar'[<<h, m>>] = phaseBar[<<h, m>>]
  PROVE  phaseBar' = [phaseBar EXCEPT ![<<c, n>>] = v]
<1>2. /\ phaseBar = [q \in Proxy |-> phaseBar[q]]
      /\ phaseBar' = [q \in Proxy |-> phaseBar'[q]]
  BY DEF phaseBar
<1>3. \A q \in Proxy : phaseBar'[q] = [phaseBar EXCEPT ![<<c, n>>] = v][q]
  <2> SUFFICES ASSUME NEW q \in Proxy
               PROVE  phaseBar'[q] = [phaseBar EXCEPT ![<<c, n>>] = v][q]
    OBVIOUS
  <2>1. CASE q = <<c, n>>
    BY <1>2, <2>1
  <2>2. CASE q # <<c, n>>
    <3>1. phaseBar'[q] = phaseBar[q]
      BY <2>2, ProxyIsPair
    <3> QED
      BY <1>2, <2>2, <3>1
  <2> QED BY <2>1, <2>2
<1> HIDE DEF Proxy
<1> QED BY <1>2, <1>3

\* The phase of a proxy, spelled out for <<h, n>>.
LEMMA PhaseOf ==
  ASSUME NEW h \in Handlers, NEW n \in Names
  PROVE  /\ phaseBar[<<h, n>>] = CASE listening[<<h, n>>] -> "open"
                     [] ~listening[<<h, n>>] /\ Undecided(h, n) -> "unused"
                     [] OTHER -> "closed"
         /\ phaseBar'[<<h, n>>] = CASE listening'[<<h, n>>] -> "open"
                     [] ~listening'[<<h, n>>] /\ Undecided(h, n)' -> "unused"
                     [] OTHER -> "closed"
<1>1. <<h, n>> \in Proxy
  OBVIOUS
<1>2. <<h, n>>[1] = h /\ <<h, n>>[2] = n
  OBVIOUS
<1> QED
  BY <1>1, <1>2 DEF phaseBar

\* A proxy that is not touched keeps its phase.
LEMMA PhaseSame ==
  ASSUME NEW h \in Handlers, NEW n \in Names,
         listening'[<<h, n>>] = listening[<<h, n>>], Undecided(h, n) <=> Undecided(h, n)'
  PROVE  phaseBar'[<<h, n>>] = phaseBar[<<h, n>>]
BY PhaseOf

\* The stage and the phases only depend on pc, listening and what is undecided.
LEMMA ContractStutter ==
  ASSUME \A h \in Handlers : pc[h] = "free" <=> pc'[h] = "free",
         \A h \in Handlers : pc[h] = "done" <=> pc'[h] = "done",
         listening' = listening,
         \A h \in Handlers, n \in Names : Undecided(h, n) <=> Undecided(h, n)'
  PROVE  UNCHANGED <<stageBar, phaseBar>>
<1>1. stageBar' = stageBar
  BY DEF stageBar
<1>2. phaseBar' = phaseBar
  BY DEF phaseBar
<1> QED BY <1>1, <1>2

\* A handler that ends with all its listeners closed is End of the contract.
LEMMA ContractEnd ==
  ASSUME TypeOK, NEW h \in Handlers,
         pc[h] \notin {"free", "listen", "done"},
         pc' = [pc EXCEPT ![h] = "done"],
         \A n \in Names : ~listening[<<h, n>>],
         UNCHANGED <<listening, todo, cur>>
  PROVE  Contract!End(h)
<1>1. stageBar[h] = "active" /\ stageBar' = [stageBar EXCEPT ![h] = "ended"]
  BY DEF TypeOK, stageBar
<1>2. \A k \in Handlers, n \in Names : Undecided(k, n) <=> Undecided(k, n)'
  BY DEF TypeOK, Undecided
<1>3. phaseBar' = phaseBar
  BY <1>2 DEF phaseBar
<1>4. \A n \in Names : phaseBar[<<h, n>>] # "open"
  BY DEF phaseBar
<1> QED
  BY <1>1, <1>3, <1>4 DEF Contract!End

\* Closing a listener is Shut, or nothing if it was closed already.
LEMMA ContractShut ==
  ASSUME TypeOK, NothingYet, NEW c \in Handlers, NEW n \in Names,
         listening' = [listening EXCEPT ![<<c, n>>] = FALSE],
         \A h \in Handlers : pc[h] = "free" <=> pc'[h] = "free",
         \A h \in Handlers : pc[h] = "done" <=> pc'[h] = "done",
         \A h \in Handlers, m \in Names : Undecided(h, m) <=> Undecided(h, m)'
  PROVE  Contract!Shut(c, n) \/ UNCHANGED <<stageBar, phaseBar>>
<1>1. stageBar' = stageBar
  BY DEF stageBar
<1>2. CASE listening[<<c, n>>]
  <2>1. ~Undecided(c, n)
    BY <1>2 DEF NothingYet, Undecided
  <2>2. phaseBar' = [phaseBar EXCEPT ![<<c, n>>] = "closed"]
    <3>1. phaseBar'[<<c, n>>] = "closed"
      BY <2>1, PhaseOf DEF TypeOK
    <3>2. ASSUME NEW h \in Handlers, NEW m \in Names, <<h, m>> # <<c, n>>
          PROVE  phaseBar'[<<h, m>>] = phaseBar[<<h, m>>]
      <4>1. listening'[<<h, m>>] = listening[<<h, m>>]
        BY <3>2 DEF TypeOK
      <4> QED
        BY <4>1, PhaseSame
    <3> QED
      BY <3>1, <3>2, OnePhase
  <2>3. phaseBar[<<c, n>>] = "open"
    BY <1>2 DEF phaseBar
  <2> QED
    BY <1>1, <2>2, <2>3 DEF Contract!Shut
<1>3. CASE ~listening[<<c, n>>]
  <2>1. listening' = listening
    BY <1>3 DEF TypeOK
  <2>2. phaseBar' = phaseBar
    BY <2>1 DEF phaseBar
  <2> QED
    BY <1>1, <2>2
<1> QED BY <1>2, <1>3

\* A step of the server is a step of SessionContract or leaves it unchanged.
LEMMA ContractStep ==
  ASSUME RegistryInv, RegistryInv', [Next]_vars
  PROVE  [Contract!Next]_<<stageBar, phaseBar>>
<1> USE RegistryAssumption
    DEF RegistryInv, TypeOK, LocalsSet
<1>1. ASSUME NEW h \in Handlers, AcceptConn(h)
      PROVE  Contract!Start(h)
  <2>1. stageBar[h] = "idle" /\ stageBar' = [stageBar EXCEPT ![h] = "active"]
    <3>1. /\ h \in Handlers /\ pc[h] = "free" /\ DOMAIN pc = Handlers
          /\ pc' = [pc EXCEPT ![h] = "accepted"]
      BY <1>1 DEF AcceptConn
    <3> QED
      BY ONLY <3>1 DEF stageBar
  <2>2. \A k \in Handlers, n \in Names : Undecided(k, n) <=> Undecided(k, n)'
    BY <1>1 DEF AcceptConn, Undecided
  <2>3. phaseBar' = phaseBar
    BY <1>1, <2>2 DEF AcceptConn, phaseBar
  <2> QED
    BY <2>1, <2>3 DEF Contract!Start
<1>2. ASSUME NEW h \in Handlers,
             RejectConn(h) \/ (\E t \in Tokens : AuthPanic(h, t)) \/ Finish(h)
      PROVE  Contract!End(h)
  <2>1. \A n \in Names : ~listening[<<h, n>>]
    BY <1>2 DEF RejectConn, AuthPanic, Finish, ListenersTracked, HoldsNothing
  <2>2. CASE RejectConn(h) \/ (\E t \in Tokens : AuthPanic(h, t))
    BY <2>1, <2>2, ContractEnd DEF RejectConn, AuthPanic
  <2>3. CASE Finish(h)
    BY <2>1, <2>3, ContractEnd DEF Finish
  <2> QED BY <1>2, <2>2, <2>3
<1>3. ASSUME NEW h \in Handlers, Listen(h)
      PROVE  Contract!Open(h, cur[h]) /\ cur[h] \in Names
  <2>1. cur[h] \in Names /\ pc[h] = "listen" /\ ~listening[<<h, cur[h]>>]
    BY <1>3 DEF Listen, NothingYet
  <2>2. stageBar[h] = "active" /\ stageBar' = stageBar
    BY <1>3 DEF Listen, stageBar
  <2>3. phaseBar[<<h, cur[h]>>] = "unused"
    BY <2>1 DEF phaseBar, Undecided
  <2>4. \A k \in Handlers, n \in Names :
           <<k, n>> # <<h, cur[h]>> => (Undecided(k, n) <=> Undecided(k, n)')
    BY <1>3, <2>1 DEF Listen, Undecided
  <2>5. phaseBar' = [phaseBar EXCEPT ![<<h, cur[h]>>] = "open"]
    <3>1. phaseBar'[<<h, cur[h]>>] = "open"
      BY <1>3, <2>1, PhaseOf DEF Listen
    <3>2. ASSUME NEW k \in Handlers, NEW n \in Names, <<k, n>> # <<h, cur[h]>>
          PROVE  phaseBar'[<<k, n>>] = phaseBar[<<k, n>>]
      <4>1. listening'[<<k, n>>] = listening[<<k, n>>]
        BY <1>3, <2>1, <3>2 DEF Listen
      <4>2. Undecided(k, n) <=> Undecided(k, n)'
        BY <2>4, <3>2
      <4> QED
        BY <4>1, <4>2, PhaseOf
    <3> QED
      BY <2>1, <3>1, <3>2, OnePhase
  <2> QED
    BY <2>1, <2>2, <2>3, <2>5 DEF Contract!Open
<1>4. ASSUME NEW h \in Handlers, NEW n \in Names,
             \/ CheckPort(h, n) /\ proxies[RemotePort[n]] # None
             \/ ListenFails(h) /\ cur[h] = n
      PROVE  Contract!Refuse(h, n)
  <2>1. Undecided(h, n) /\ ~listening[<<h, n>>]
    BY <1>4 DEF CheckPort, ListenFails, Undecided, NothingYet
  <2>2. stageBar[h] = "active" /\ stageBar' = stageBar
    BY <1>4 DEF CheckPort, ListenFails, stageBar
  <2>3. ~Undecided(h, n)'
    <3>1. CASE CheckPort(h, n) /\ proxies[RemotePort[n]] # None
      BY <3>1 DEF CheckPort, Undecided
    <3>2. CASE ListenFails(h) /\ cur[h] = n
      <4>1. n \notin todo[h]
        BY <3>2 DEF ListenFails, NothingYet
      <4>2. todo' = todo /\ pc'[h] = "loop"
        BY <3>2 DEF ListenFails
      <4> QED
        BY <4>1, <4>2 DEF Undecided
    <3> QED
      BY <1>4, <3>1, <3>2
  <2>4. \A k \in Handlers, m \in Names :
           <<k, m>> # <<h, n>> => (Undecided(k, m) <=> Undecided(k, m)')
    BY <1>4 DEF CheckPort, ListenFails, Undecided
  <2>5. listening' = listening
    BY <1>4 DEF CheckPort, ListenFails
  <2>6. /\ phaseBar[<<h, n>>] = "unused"
        /\ phaseBar' = [phaseBar EXCEPT ![<<h, n>>] = "closed"]
    <3>1. phaseBar[<<h, n>>] = "unused" /\ phaseBar'[<<h, n>>] = "closed"
      BY <2>1, <2>3, <2>5, PhaseOf
    <3>2. ASSUME NEW k \in Handlers, NEW m \in Names, <<k, m>> # <<h, n>>
          PROVE  phaseBar'[<<k, m>>] = phaseBar[<<k, m>>]
      BY <2>4, <2>5, <3>2, PhaseOf
    <3> QED
      BY <3>1, <3>2, OnePhase
  <2> QED
    BY <2>2, <2>6 DEF Contract!Refuse
<1>5. ASSUME NEW h \in Handlers, ReplyFails(h)
      PROVE  [Contract!Next]_<<stageBar, phaseBar>>
  <2>1. cur[h] \in Names
    BY <1>5 DEF ReplyFails
  <2>2. \A k \in Handlers, m \in Names : Undecided(k, m) <=> Undecided(k, m)'
    BY <1>5 DEF ReplyFails, Undecided
  <2>3. Contract!Shut(h, cur[h]) \/ UNCHANGED <<stageBar, phaseBar>>
    BY <1>5, <2>1, <2>2, ContractShut DEF ReplyFails
  <2> QED BY <2>1, <2>3 DEF Contract!Next
<1>6. ASSUME NEW h \in Handlers, NEW n \in Names, CleanupClose(h, n)
      PROVE  [Contract!Next]_<<stageBar, phaseBar>>
  <2>1. target[h] \in Handlers
    BY <1>6 DEF CleanupClose
  <2>2. \A k \in Handlers, m \in Names : Undecided(k, m) <=> Undecided(k, m)'
    BY <1>6 DEF CleanupClose, Undecided
  <2>3. Contract!Shut(target[h], n) \/ UNCHANGED <<stageBar, phaseBar>>
    BY <1>6, <2>1, <2>2, ContractShut DEF CleanupClose, CloseProxy
  <2> QED BY <2>1, <2>3 DEF Contract!Next
<1>7. ASSUME NEW r \in Ports, StopRange(r)
      PROVE  [Contract!Next]_<<stageBar, phaseBar>>
  <2>1. \A k \in Handlers, m \in Names : Undecided(k, m) <=> Undecided(k, m)'
    BY <1>7 DEF StopRange, Undecided
  <2>2. CASE proxies[r] = None
    BY <1>7, <2>1, <2>2, ContractStutter DEF StopRange
  <2>3. CASE proxies[r] # None
    <3>1. PICK c \in Handlers, n \in Names : CloseProxy(<<c, n>>)
      <4>1. proxies[r] \in Proxy /\ CloseProxy(proxies[r])
        BY <1>7, <2>3 DEF StopRange
      <4>2. /\ proxies[r][1] \in Handlers /\ proxies[r][2] \in Names
            /\ proxies[r] = <<proxies[r][1], proxies[r][2]>>
        BY <4>1, ProxyIsPair
      <4>3. CloseProxy(<<proxies[r][1], proxies[r][2]>>)
        BY <4>1, <4>2 DEF CloseProxy
      <4> QED
        BY <4>2, <4>3
    <3>2. Contract!Shut(c, n) \/ UNCHANGED <<stageBar, phaseBar>>
      BY <1>7, <2>1, <3>1, ContractShut DEF StopRange, CloseProxy
    <3> QED BY <3>2 DEF Contract!Next
  <2> QED BY <2>2, <2>3
<1>8. ASSUME NEW h \in Handlers,
             \/ BeginHandler(h) \/ LoadOldClient(h) \/ CloseOldSession(h)
             \/ StoreClient(h) \/ PeerDrops(h) \/ RecvError(h)
             \/ PublishProxy(h) \/ RecordProxy(h) \/ CountProxy(h)
             \/ ReplyOK(h) \/ UndoPort(h) \/ UndoName(h)
             \/ UndoCount(h) \/ CleanupLock(h)
             \/ CleanupDelete(h) \/ CleanupUnlock(h) \/ CleanupForget(h)
             \/ \E t \in Tokens : AuthAccept(h, t)
             \/ \E n \in Names :
                  CheckPort(h, n) /\ proxies[RemotePort[n]] = None
      PROVE  UNCHANGED <<stageBar, phaseBar>>
  <2>1. listening' = listening
    BY <1>8
    DEF BeginHandler, LoadOldClient, CloseOldSession, StoreClient,
        PeerDrops, RecvError, PublishProxy, RecordProxy, CountProxy, ReplyOK,
        UndoPort, UndoName, UndoCount, CleanupLock, CleanupDelete, CleanupUnlock, CleanupForget,
        AuthAccept, CheckPort
  <2>2. \A k \in Handlers : /\ pc[k] = "free" <=> pc'[k] = "free"
                            /\ pc[k] = "done" <=> pc'[k] = "done"
    BY <1>8
    DEF BeginHandler, LoadOldClient, CloseOldSession, StoreClient,
        PeerDrops, RecvError, PublishProxy, RecordProxy, CountProxy, ReplyOK,
        UndoPort, UndoName, UndoCount, CleanupLock, CleanupDelete, CleanupUnlock, CleanupForget,
        AuthAccept, CheckPort
  <2>3. \A k \in Handlers, m \in Names : Undecided(k, m) <=> Undecided(k, m)'
    BY <1>8
    DEF Undecided, BeginHandler, LoadOldClient, CloseOldSession, StoreClient,
        PeerDrops, RecvError, PublishProxy, RecordProxy, CountProxy, ReplyOK,
        UndoPort, UndoName, UndoCount, CleanupLock, CleanupDelete, CleanupUnlock, CleanupForget,
        AuthAccept, CheckPort
  <2> QED
    BY <2>1, <2>2, <2>3, ContractStutter
<1>9. ASSUME \/ \E p \in Proxy : RunProxyReturn(p) \/ RunProxyDefer(p)
             \/ StopBegin \/ StopReturn \/ Terminated \/ UNCHANGED vars
      PROVE  UNCHANGED <<stageBar, phaseBar>>
  <2>1. UNCHANGED <<pc, todo, cur, listening>>
    BY <1>9 DEF RunProxyReturn, RunProxyDefer, StopBegin, StopReturn,
                Terminated
  <2>2. \A k \in Handlers, m \in Names : Undecided(k, m) <=> Undecided(k, m)'
    BY <2>1 DEF Undecided
  <2> QED BY <2>1, <2>2, ContractStutter
<1>10. CASE \E h \in Handlers : ListenFails(h)
  BY <1>10, <1>4 DEF ListenFails, Contract!Next
<1>11. CASE \E h \in Handlers, n \in Names : CheckPort(h, n)
  BY <1>11, <1>4, <1>8 DEF Contract!Next
<1> QED
  BY <1>1, <1>2, <1>3, <1>5, <1>6, <1>7, <1>8, <1>9, <1>10, <1>11
  DEF Next, Environment, HandlerStep, RunProxyStep, StopStep, Contract!Next

\* The server keeps the contract of its connections.
THEOREM ContractImplemented == Spec => ImplementsContract
<1>1. ASSUME Init PROVE Contract!Init
  <2>1. \A h \in Handlers, n \in Names :
          Undecided(h, n) /\ ~listening[<<h, n>>]
    BY <1>1 DEF Init, Undecided
  <2> QED
    BY <1>1, <2>1 DEF Init, Contract!Init, stageBar, phaseBar
<1> QED
  BY <1>1, ContractStep, RegistryInvariant, PTL
  DEF Spec, ImplementsContract, Contract!Spec

-----------------------------------------------------------------------------
(* The gauge of proxies *)

\* Sets of proxies that differ by one element.
LEMMA ProxiesCounted ==
  ASSUME NEW S \in SUBSET Proxy, NEW T \in SUBSET Proxy
  PROVE  /\ Cardinality(S) \in Nat /\ Cardinality(T) \in Nat
         /\ S \subseteq T => Cardinality(S) <= Cardinality(T)
         /\ \A x : S \ {x} \subseteq T => Cardinality(S) <= Cardinality(T) + 1
         /\ \A x : x \notin S /\ S \cup {x} \subseteq T => Cardinality(S) + 1 <= Cardinality(T)
<1>1. IsFiniteSet(Proxy)
  BY FiniteAssumption, FS_Product DEF Proxy
<1> HIDE DEF Proxy
<1>2. IsFiniteSet(S) /\ IsFiniteSet(T)
  BY <1>1, FS_Subset
<1>3. Cardinality(S) \in Nat /\ Cardinality(T) \in Nat
  BY <1>2, FS_CardinalityType
<1>4. S \subseteq T => Cardinality(S) <= Cardinality(T)
  BY <1>2, FS_Subset
<1>5. ASSUME NEW x, S \ {x} \subseteq T PROVE Cardinality(S) <= Cardinality(T) + 1
  <2>1. /\ IsFiniteSet(S \ {x})
        /\ Cardinality(S \ {x}) \in {Cardinality(S), Cardinality(S) - 1}
    BY <1>2, FS_RemoveElement
  <2>2. Cardinality(S \ {x}) <= Cardinality(T)
    BY <1>2, <1>5, FS_Subset
  <2> QED
    BY <1>3, <2>1, <2>2
<1>6. ASSUME NEW x, x \notin S, S \cup {x} \subseteq T PROVE Cardinality(S) + 1 <= Cardinality(T)
  <2>1. Cardinality(S \cup {x}) = Cardinality(S) + 1
    BY <1>2, <1>6, FS_AddElement
  <2>2. Cardinality(S \cup {x}) <= Cardinality(T)
    BY <1>2, <1>6, FS_Subset
  <2> QED
    BY <2>1, <2>2
<1> QED
  BY <1>3, <1>4, <1>5, <1>6

\* The proxies of the client tables and those a rollback still counts.
Books == Counted \cup Uncounting

\* The recorded proxies that handleNewProxy has still to count.
Counting == {p \in Proxy : pc[p[1]] = "count" /\ cur[p[1]] = p[2]}

\* The proxies the gauge may have missed: those, and the ones that were asked
\* for and are neither being registered nor served.
Missing ==
  {p \in Proxy : \/ pc[p[1]] = "count" /\ cur[p[1]] = p[2]
                 \/ /\ p[2] \notin todo[p[1]] /\ run[p] = "none"
                    /\ ~(pc[p[1]] \in Registering /\ cur[p[1]] = p[2])}

\* GaugeExact, strengthened.
GaugeBounds ==
  /\ activeProxies + Cardinality(LoopEnded) + Cardinality(Counting)
       <= Cardinality(Books)
  /\ Cardinality(Counted)
       <= activeProxies + Cardinality(LoopEnded) + Cardinality(Missing)

\* What cleanupClient has still to visit is in the table it holds locked.
LeftHeld ==
  \A w \in Handlers : pc[w] \in Cleaning =>
    /\ left[w] \subseteq held[target[w]]
    /\ pc[w] = "delete" => cur[w] \in left[w]

\* A name is decided once, so that a proxy is recorded once.
DecidedOnce ==
  \A h \in Handlers :
    /\ held[h] \cap todo[h] = {}
    /\ pc[h] \in Unrecorded \cup {"listen"} => cur[h] \notin held[h]

\* The same sets, for a connection and a name.
CountedAt(h, n) == n \in held[h] /\ (mu[h] # None => n \in left[mu[h]])
BooksAt(h, n) == CountedAt(h, n) \/ (pc[h] = "undoCount" /\ cur[h] = n)
CountingAt(h, n) == pc[h] = "count" /\ cur[h] = n
EndedAt(h, n) == run[<<h, n>>] = "done"
MissingAt(h, n) ==
  \/ CountingAt(h, n)
  \/ /\ n \notin todo[h] /\ run[<<h, n>>] = "none"
     /\ ~(pc[h] \in Registering /\ cur[h] = n)

\* The sets are sets of proxies.
LEMMA GaugeSets ==
  /\ Counted \in SUBSET Proxy /\ Counted' \in SUBSET Proxy
  /\ Books \in SUBSET Proxy /\ Books' \in SUBSET Proxy
  /\ Counting \in SUBSET Proxy /\ Counting' \in SUBSET Proxy
  /\ LoopEnded \in SUBSET Proxy /\ LoopEnded' \in SUBSET Proxy
  /\ Missing \in SUBSET Proxy /\ Missing' \in SUBSET Proxy
<1> HIDE DEF Proxy
<1> QED
  BY DEF Counted, Uncounting, Books, Counting, LoopEnded, Missing

\* What they hold, for a connection and a name.
LEMMA GaugeMembers ==
  ASSUME NEW h \in Handlers, NEW n \in Names
  PROVE  /\ <<h, n>> \in Counted <=> CountedAt(h, n)
         /\ <<h, n>> \in Books <=> BooksAt(h, n)
         /\ <<h, n>> \in Counting <=> CountingAt(h, n)
         /\ <<h, n>> \in LoopEnded <=> EndedAt(h, n)
         /\ <<h, n>> \in Missing <=> MissingAt(h, n)
         /\ <<h, n>> \in Counted' <=> CountedAt(h, n)'
         /\ <<h, n>> \in Books' <=> BooksAt(h, n)'
         /\ <<h, n>> \in Counting' <=> CountingAt(h, n)'
         /\ <<h, n>> \in LoopEnded' <=> EndedAt(h, n)'
         /\ <<h, n>> \in Missing' <=> MissingAt(h, n)'
<1>1. <<h, n>>[1] = h /\ <<h, n>>[2] = n /\ <<h, n>> \in Proxy
  BY DEF Proxy
<1>2. /\ <<h, n>> \in Counted <=> CountedAt(h, n)
      /\ <<h, n>> \in Counted' <=> CountedAt(h, n)'
  BY <1>1 DEF Counted, CountedAt
<1> HIDE DEF Proxy
<1>3. /\ <<h, n>> \in Uncounting <=> pc[h] = "undoCount" /\ cur[h] = n
      /\ <<h, n>> \in Uncounting' <=> pc'[h] = "undoCount" /\ cur'[h] = n
  BY <1>1 DEF Uncounting
<1>4. /\ <<h, n>> \in Books <=> BooksAt(h, n)
      /\ <<h, n>> \in Books' <=> BooksAt(h, n)'
  BY <1>2, <1>3 DEF Books, BooksAt
<1>5. /\ <<h, n>> \in Counting <=> CountingAt(h, n)
      /\ <<h, n>> \in Counting' <=> CountingAt(h, n)'
  BY <1>1 DEF Counting, CountingAt
<1>6. /\ <<h, n>> \in LoopEnded <=> EndedAt(h, n)
      /\ <<h, n>> \in LoopEnded' <=> EndedAt(h, n)'
  BY <1>1 DEF LoopEnded, EndedAt
<1>7. /\ <<h, n>> \in Missing <=> MissingAt(h, n)
      /\ <<h, n>> \in Missing' <=> MissingAt(h, n)'
  BY <1>1 DEF Missing, MissingAt, CountingAt
<1> QED
  BY <1>2, <1>4, <1>5, <1>6, <1>7

\* Inclusion of sets of proxies, one proxy excepted.
LEMMA ByPairs ==
  ASSUME NEW S \in SUBSET Proxy, NEW T \in SUBSET Proxy, NEW c \in Handlers, NEW m \in Names,
         \A h \in Handlers, n \in Names :
           <<h, n>> \in S /\ ~(h = c /\ n = m) => <<h, n>> \in T
  PROVE  S \ {<<c, m>>} \subseteq T
<1>1. ASSUME NEW q \in S, q # <<c, m>> PROVE q \in T
  <2>1. PICK h \in Handlers, n \in Names : q = <<h, n>>
    BY <1>1, ProxyIsPair
  <2> QED
    BY <1>1, <2>1
<1> QED
  BY <1>1

\* What a step may do to the gauge (from a to b), to LoopEnded, Counting and
\* Books without harm to the upper bound.
UpperCase(a, b, x, E, F, C, D, B, G) ==
  \/ b = a /\ F \subseteq E /\ D \subseteq C /\ B \subseteq G
  \/ b = a /\ F \subseteq E /\ D \ {x} \subseteq C /\ x \notin B /\ B \cup {x} \subseteq G
  \/ b = a + 1 /\ F \subseteq E /\ x \notin D /\ D \cup {x} \subseteq C /\ B \subseteq G
  \/ b = a - 1 /\ F \subseteq E /\ D \subseteq C /\ B \ {x} \subseteq G
  \/ b = a - 1 /\ F \ {x} \subseteq E /\ D \subseteq C /\ B \subseteq G

\* It keeps the bound.
LEMMA UpperMoves ==
  ASSUME NEW a \in Int, NEW b \in Int, NEW x,
         NEW E \in SUBSET Proxy, NEW F \in SUBSET Proxy,
         NEW C \in SUBSET Proxy, NEW D \in SUBSET Proxy,
         NEW B \in SUBSET Proxy, NEW G \in SUBSET Proxy,
         a + Cardinality(E) + Cardinality(C) <= Cardinality(B),
         UpperCase(a, b, x, E, F, C, D, B, G)
  PROVE  b + Cardinality(F) + Cardinality(D) <= Cardinality(G)
<1> HIDE DEF Proxy
<1>1. PICK e \in Nat, f \in Nat : e = Cardinality(E) /\ f = Cardinality(F)
  BY ProxiesCounted
<1>2. PICK c \in Nat, d \in Nat : c = Cardinality(C) /\ d = Cardinality(D)
  BY ProxiesCounted
<1>3. PICK k \in Nat, g \in Nat : k = Cardinality(B) /\ g = Cardinality(G)
  BY ProxiesCounted
<1>4. /\ F \subseteq E => f <= e
      /\ F \ {x} \subseteq E => f <= e + 1
  BY <1>1, ProxiesCounted
<1>5. /\ D \subseteq C => d <= c
      /\ D \ {x} \subseteq C => d <= c + 1
      /\ x \notin D /\ D \cup {x} \subseteq C => d + 1 <= c
  BY <1>2, ProxiesCounted
<1>6. /\ B \subseteq G => k <= g
      /\ B \ {x} \subseteq G => k <= g + 1
      /\ x \notin B /\ B \cup {x} \subseteq G => k + 1 <= g
  BY <1>3, ProxiesCounted
<1>7. a + e + c <= k
  BY <1>1, <1>2, <1>3
<1>8. \/ b = a /\ f <= e /\ d <= c /\ k <= g
      \/ b = a /\ f <= e /\ d <= c + 1 /\ k + 1 <= g
      \/ b = a + 1 /\ f <= e /\ d + 1 <= c /\ k <= g
      \/ b = a - 1 /\ f <= e /\ d <= c /\ k <= g + 1
      \/ b = a - 1 /\ f <= e + 1 /\ d <= c /\ k <= g
  BY <1>4, <1>5, <1>6 DEF UpperCase
<1>9. b + f + d <= g
  BY <1>7, <1>8
<1> QED
  BY <1>1, <1>2, <1>3, <1>9

\* What it may do to LoopEnded, Counted and Missing without harm to the lower
\* bound.
LowerCase(a, b, x, E, F, C, D, M, N) ==
  \/ b = a /\ E \subseteq F /\ D \subseteq C /\ M \subseteq N
  \/ b = a /\ E \subseteq F /\ D \ {x} \subseteq C /\ x \notin M /\ M \cup {x} \subseteq N
  \/ b = a + 1 /\ E \subseteq F /\ D \subseteq C /\ M \ {x} \subseteq N
  \/ b = a - 1 /\ E \subseteq F /\ x \notin D /\ D \cup {x} \subseteq C /\ M \subseteq N
  \/ b = a - 1 /\ E \subseteq F /\ D \subseteq C /\ x \notin M /\ M \cup {x} \subseteq N
  \/ b = a - 1 /\ x \notin E /\ E \cup {x} \subseteq F /\ D \subseteq C /\ M \subseteq N

\* It keeps the bound.
LEMMA LowerMoves ==
  ASSUME NEW a \in Int, NEW b \in Int, NEW x,
         NEW E \in SUBSET Proxy, NEW F \in SUBSET Proxy,
         NEW C \in SUBSET Proxy, NEW D \in SUBSET Proxy,
         NEW M \in SUBSET Proxy, NEW N \in SUBSET Proxy,
         Cardinality(C) <= a + Cardinality(E) + Cardinality(M),
         LowerCase(a, b, x, E, F, C, D, M, N)
  PROVE  Cardinality(D) <= b + Cardinality(F) + Cardinality(N)
<1> HIDE DEF Proxy
<1>1. PICK e \in Nat, f \in Nat : e = Cardinality(E) /\ f = Cardinality(F)
  BY ProxiesCounted
<1>2. PICK c \in Nat, d \in Nat : c = Cardinality(C) /\ d = Cardinality(D)
  BY ProxiesCounted
<1>3. PICK m \in Nat, o \in Nat : m = Cardinality(M) /\ o = Cardinality(N)
  BY ProxiesCounted
<1>4. /\ E \subseteq F => e <= f
      /\ x \notin E /\ E \cup {x} \subseteq F => e + 1 <= f
  BY <1>1, ProxiesCounted
<1>5. /\ D \subseteq C => d <= c
      /\ D \ {x} \subseteq C => d <= c + 1
      /\ x \notin D /\ D \cup {x} \subseteq C => d + 1 <= c
  BY <1>2, ProxiesCounted
<1>6. /\ M \subseteq N => m <= o
      /\ M \ {x} \subseteq N => m <= o + 1
      /\ x \notin M /\ M \cup {x} \subseteq N => m + 1 <= o
  BY <1>3, ProxiesCounted
<1>7. c <= a + e + m
  BY <1>1, <1>2, <1>3
<1>8. \/ b = a /\ e <= f /\ d <= c /\ m <= o
      \/ b = a /\ e <= f /\ d <= c + 1 /\ m + 1 <= o
      \/ b = a + 1 /\ e <= f /\ d <= c /\ m <= o + 1
      \/ b = a - 1 /\ e <= f /\ d + 1 <= c /\ m <= o
      \/ b = a - 1 /\ e <= f /\ d <= c /\ m + 1 <= o
      \/ b = a - 1 /\ e + 1 <= f /\ d <= c /\ m <= o
  BY <1>4, <1>5, <1>6 DEF LowerCase
<1>9. d <= b + f + o
  BY <1>7, <1>8
<1> QED
  BY <1>1, <1>2, <1>3, <1>9

\* Inclusion of sets of proxies.
LEMMA AllPairs ==
  ASSUME NEW S \in SUBSET Proxy, NEW T \in SUBSET Proxy,
         \A h \in Handlers, n \in Names : <<h, n>> \in S => <<h, n>> \in T
  PROVE  S \subseteq T
<1>1. ASSUME NEW q \in S PROVE q \in T
  <2>1. PICK h \in Handlers, n \in Names : q = <<h, n>>
    BY <1>1, ProxyIsPair
  <2> QED
    BY <1>1, <2>1
<1> QED
  BY <1>1

\* A step of the server that does so.
UpperMove(x) ==
  UpperCase(activeProxies, activeProxies', x, LoopEnded, LoopEnded', Counting, Counting',
            Books, Books')
LowerMove(x) ==
  LowerCase(activeProxies, activeProxies', x, LoopEnded, LoopEnded', Counted, Counted',
            Missing, Missing')

\* Such a step keeps both bounds.
LEMMA GaugeMove ==
  ASSUME TypeOK, GaugeBounds, NEW x, UpperMove(x), LowerMove(x)
  PROVE  GaugeBounds'
<1> HIDE DEF Proxy
<1>1. activeProxies \in Int /\ activeProxies' \in Int
  BY DEF TypeOK, UpperMove, UpperCase
<1>2. activeProxies' + Cardinality(LoopEnded') + Cardinality(Counting') <= Cardinality(Books')
  <2>1. activeProxies + Cardinality(LoopEnded) + Cardinality(Counting) <= Cardinality(Books)
    BY DEF GaugeBounds
  <2> QED
    BY <1>1, <2>1, GaugeSets, UpperMoves DEF UpperMove
<1>3. Cardinality(Counted') <= activeProxies' + Cardinality(LoopEnded') + Cardinality(Missing')
  <2>1. Cardinality(Counted) <= activeProxies + Cardinality(LoopEnded) + Cardinality(Missing)
    BY DEF GaugeBounds
  <2> QED
    BY <1>1, <2>1, GaugeSets, LowerMoves DEF LowerMove
<1> QED
  BY <1>2, <1>3 DEF GaugeBounds

\* A step that only moves proxies where the bounds allow it.
LEMMA GaugeKept ==
  ASSUME TypeOK, GaugeBounds, activeProxies' = activeProxies,
         \A h \in Handlers, n \in Names :
           /\ BooksAt(h, n) => BooksAt(h, n)'
           /\ CountingAt(h, n)' => CountingAt(h, n)
           /\ EndedAt(h, n)' <=> EndedAt(h, n)
           /\ CountedAt(h, n)' => CountedAt(h, n)
           /\ MissingAt(h, n) => MissingAt(h, n)'
  PROVE  GaugeBounds'
<1> HIDE DEF Proxy, BooksAt, CountingAt, EndedAt, CountedAt, MissingAt
<1>1. Books \subseteq Books' /\ Counting' \subseteq Counting
  BY GaugeSets, GaugeMembers, AllPairs
<1>2. LoopEnded \subseteq LoopEnded' /\ LoopEnded' \subseteq LoopEnded
  BY GaugeSets, GaugeMembers, AllPairs
<1>3. Counted' \subseteq Counted /\ Missing \subseteq Missing'
  BY GaugeSets, GaugeMembers, AllPairs
<1>4. UpperMove(None) /\ LowerMove(None)
  BY <1>1, <1>2, <1>3 DEF UpperMove, LowerMove, UpperCase, LowerCase
<1> QED
  BY <1>4, GaugeMove

\* RecordProxy: a proxy that was not in the table is in it, not counted yet.
LEMMA GaugeRecord ==
  ASSUME RegistryInv, DecidedOnce, GaugeBounds, NEW h \in Handlers, RecordProxy(h)
  PROVE  GaugeBounds'
<1>1. PICK m \in Names : m = cur[h]
  BY DEF RegistryInv, LocalsSet, RecordProxy
<1>2. /\ m \notin held[h] /\ pc[h] = "record" /\ mu[h] = None
      /\ activeProxies' = activeProxies
      /\ UNCHANGED <<mu, left, run, todo, cur>>
  BY <1>1 DEF DecidedOnce, RecordProxy
<1>3. \A c \in Handlers : held'[c] = IF c = h THEN held[h] \cup {m} ELSE held[c]
  BY <1>1 DEF RegistryInv, TypeOK, RecordProxy
<1>4. \A c \in Handlers : pc'[c] = IF c = h THEN "count" ELSE pc[c]
  BY DEF RegistryInv, TypeOK, RecordProxy
<1>5. /\ ~BooksAt(h, m) /\ ~MissingAt(h, m)
      /\ BooksAt(h, m)' /\ MissingAt(h, m)'
  BY <1>1, <1>2, <1>3, <1>4 DEF BooksAt, CountedAt, MissingAt, CountingAt
<1>6. \A c \in Handlers, n \in Names :
        /\ BooksAt(c, n) => BooksAt(c, n)'
        /\ MissingAt(c, n) => MissingAt(c, n)'
        /\ EndedAt(c, n)' <=> EndedAt(c, n)
        /\ CountingAt(c, n)' /\ ~(c = h /\ n = m) => CountingAt(c, n)
        /\ CountedAt(c, n)' /\ ~(c = h /\ n = m) => CountedAt(c, n)
  BY <1>1, <1>2, <1>3, <1>4 DEF BooksAt, CountedAt, MissingAt, CountingAt, EndedAt
<1> HIDE DEF Proxy, BooksAt, CountingAt, EndedAt, CountedAt, MissingAt
<1>7. Books \subseteq Books' /\ Missing \subseteq Missing'
  BY <1>6, GaugeSets, GaugeMembers, AllPairs
<1>8. LoopEnded \subseteq LoopEnded' /\ LoopEnded' \subseteq LoopEnded
  BY <1>6, GaugeSets, GaugeMembers, AllPairs
<1>9. Counting' \ {<<h, m>>} \subseteq Counting
  <2>1. \A c \in Handlers, n \in Names :
          <<c, n>> \in Counting' /\ ~(c = h /\ n = m) => <<c, n>> \in Counting
    BY <1>6, GaugeMembers
  <2> QED
    BY <2>1, GaugeSets, ByPairs
<1>10. Counted' \ {<<h, m>>} \subseteq Counted
  <2>1. \A c \in Handlers, n \in Names :
          <<c, n>> \in Counted' /\ ~(c = h /\ n = m) => <<c, n>> \in Counted
    BY <1>6, GaugeMembers
  <2> QED
    BY <2>1, GaugeSets, ByPairs
<1>11. /\ <<h, m>> \notin Books /\ <<h, m>> \in Books'
       /\ <<h, m>> \notin Missing /\ <<h, m>> \in Missing'
  BY <1>5, GaugeMembers
<1>12. UpperMove(<<h, m>>) /\ LowerMove(<<h, m>>)
  BY <1>2, <1>7, <1>8, <1>9, <1>10, <1>11 DEF UpperMove, LowerMove, UpperCase, LowerCase
<1> QED
  BY <1>12, GaugeMove DEF RegistryInv

\* CountProxy: the recorded proxy is counted, wherever it is by now.
LEMMA GaugeCount ==
  ASSUME RegistryInv, GaugeBounds, NEW h \in Handlers, CountProxy(h)
  PROVE  GaugeBounds'
<1>1. PICK m \in Names : m = cur[h]
  BY DEF RegistryInv, LocalsSet, CountProxy
<1>2. /\ pc[h] = "count" /\ activeProxies' = activeProxies + 1
      /\ UNCHANGED <<held, mu, left, run, todo, cur>>
  BY DEF CountProxy
<1>3. \A c \in Handlers : pc'[c] = IF c = h THEN "reply" ELSE pc[c]
  BY DEF RegistryInv, TypeOK, CountProxy
<1>4. CountingAt(h, m) /\ ~CountingAt(h, m)'
  BY <1>1, <1>2, <1>3 DEF CountingAt
<1>5. \A c \in Handlers, n \in Names :
        /\ BooksAt(c, n) => BooksAt(c, n)'
        /\ CountedAt(c, n)' => CountedAt(c, n)
        /\ EndedAt(c, n)' <=> EndedAt(c, n)
        /\ CountingAt(c, n)' => CountingAt(c, n)
        /\ MissingAt(c, n) /\ ~(c = h /\ n = m) => MissingAt(c, n)'
  BY <1>1, <1>2, <1>3 DEF BooksAt, CountedAt, MissingAt, CountingAt, EndedAt
<1> HIDE DEF Proxy, BooksAt, CountingAt, EndedAt, CountedAt, MissingAt
<1>6. Books \subseteq Books' /\ Counted' \subseteq Counted /\ Counting' \subseteq Counting
  BY <1>5, GaugeSets, GaugeMembers, AllPairs
<1>7. LoopEnded \subseteq LoopEnded' /\ LoopEnded' \subseteq LoopEnded
  BY <1>5, GaugeSets, GaugeMembers, AllPairs
<1>8. Missing \ {<<h, m>>} \subseteq Missing'
  <2>1. \A c \in Handlers, n \in Names :
          <<c, n>> \in Missing /\ ~(c = h /\ n = m) => <<c, n>> \in Missing'
    BY <1>5, GaugeMembers
  <2> QED
    BY <2>1, GaugeSets, ByPairs
<1>9. <<h, m>> \in Counting /\ <<h, m>> \notin Counting'
  BY <1>4, GaugeMembers
<1>10. UpperMove(<<h, m>>) /\ LowerMove(<<h, m>>)
  BY <1>2, <1>6, <1>7, <1>8, <1>9 DEF UpperMove, LowerMove, UpperCase, LowerCase
<1> QED
  BY <1>10, GaugeMove DEF RegistryInv

\* UndoCount: the rolled back proxy is uncounted, a second time if an evicting
\* handler was faster.
LEMMA GaugeUndo ==
  ASSUME RegistryInv, GaugeBounds, NEW h \in Handlers, UndoCount(h)
  PROVE  GaugeBounds'
<1>1. PICK m \in Names : m = cur[h]
  BY DEF RegistryInv, LocalsSet, UndoCount
<1>2. /\ pc[h] = "undoCount" /\ activeProxies' = activeProxies - 1
      /\ m \notin todo[h] /\ run[<<h, m>>] = "none"
      /\ UNCHANGED <<held, mu, left, run, todo>>
  BY <1>1 DEF RegistryInv, NothingYet, UndoCount
<1>3. \A c \in Handlers : /\ pc'[c] = IF c = h THEN "loop" ELSE pc[c]
                          /\ cur'[c] = IF c = h THEN None ELSE cur[c]
  BY DEF RegistryInv, TypeOK, UndoCount
<1>4. ~MissingAt(h, m) /\ MissingAt(h, m)'
  BY <1>1, <1>2, <1>3 DEF MissingAt, CountingAt
<1>5. \A c \in Handlers, n \in Names :
        /\ BooksAt(c, n) /\ ~(c = h /\ n = m) => BooksAt(c, n)'
        /\ CountedAt(c, n)' => CountedAt(c, n)
        /\ EndedAt(c, n)' <=> EndedAt(c, n)
        /\ CountingAt(c, n)' => CountingAt(c, n)
        /\ MissingAt(c, n) => MissingAt(c, n)'
  BY <1>1, <1>2, <1>3 DEF BooksAt, CountedAt, MissingAt, CountingAt, EndedAt
<1> HIDE DEF Proxy, BooksAt, CountingAt, EndedAt, CountedAt, MissingAt
<1>6. Counted' \subseteq Counted /\ Counting' \subseteq Counting /\ Missing \subseteq Missing'
  BY <1>5, GaugeSets, GaugeMembers, AllPairs
<1>7. LoopEnded \subseteq LoopEnded' /\ LoopEnded' \subseteq LoopEnded
  BY <1>5, GaugeSets, GaugeMembers, AllPairs
<1>8. Books \ {<<h, m>>} \subseteq Books'
  <2>1. \A c \in Handlers, n \in Names :
          <<c, n>> \in Books /\ ~(c = h /\ n = m) => <<c, n>> \in Books'
    BY <1>5, GaugeMembers
  <2> QED
    BY <2>1, GaugeSets, ByPairs
<1>9. <<h, m>> \notin Missing /\ <<h, m>> \in Missing'
  BY <1>4, GaugeMembers
<1>10. UpperMove(<<h, m>>) /\ LowerMove(<<h, m>>)
  BY <1>2, <1>6, <1>7, <1>8, <1>9 DEF UpperMove, LowerMove, UpperCase, LowerCase
<1> QED
  BY <1>10, GaugeMove DEF RegistryInv

\* cleanupClient uncounts the proxy it has closed, which was counted.
LEMMA GaugeDelete ==
  ASSUME RegistryInv, LeftHeld, GaugeBounds, NEW w \in Handlers, CleanupDelete(w)
  PROVE  GaugeBounds'
<1>1. PICK c \in Handlers, m \in Names : c = target[w] /\ m = cur[w]
  BY DEF RegistryInv, LocalsSet, CleanupDelete
<1>2. /\ m \in left[w] /\ m \in held[c] /\ mu[c] = w /\ pc[w] = "delete"
      /\ activeProxies' = activeProxies - 1
      /\ UNCHANGED <<held, mu, run, todo, cur>>
  BY <1>1 DEF RegistryInv, MutexHeld, LeftHeld, CleanupDelete
<1>3. \A k \in Handlers : /\ pc'[k] = IF k = w THEN "close" ELSE pc[k]
                          /\ left'[k] = IF k = w THEN left[w] \ {m} ELSE left[k]
  BY <1>1 DEF RegistryInv, TypeOK, CleanupDelete
<1>4. \A k \in Handlers : /\ mu[k] = w => k = c
                          /\ mu[k] \in Handlers \cup {None}
  BY <1>1, RegistryAssumption DEF RegistryInv, TypeOK, MutexHeld
<1>5. CountedAt(c, m) /\ ~CountedAt(c, m)'
  BY <1>2, <1>3, RegistryAssumption DEF CountedAt
<1>6. \A k \in Handlers, n \in Names :
        /\ CountedAt(k, n) /\ ~(k = c /\ n = m) => CountedAt(k, n)'
        /\ CountedAt(k, n)' => CountedAt(k, n)
  BY <1>2, <1>3, <1>4 DEF CountedAt
<1> HIDE DEF CountedAt
<1>7. \A k \in Handlers, n \in Names :
        /\ BooksAt(k, n) /\ ~(k = c /\ n = m) => BooksAt(k, n)'
        /\ EndedAt(k, n)' <=> EndedAt(k, n)
        /\ CountingAt(k, n)' => CountingAt(k, n)
        /\ MissingAt(k, n) => MissingAt(k, n)'
  BY <1>2, <1>3, <1>6 DEF BooksAt, MissingAt, CountingAt, EndedAt
<1> HIDE DEF Proxy, BooksAt, CountingAt, EndedAt, MissingAt
<1>8. Counted' \subseteq Counted /\ Counting' \subseteq Counting /\ Missing \subseteq Missing'
  BY <1>6, <1>7, GaugeSets, GaugeMembers, AllPairs
<1>9. LoopEnded \subseteq LoopEnded' /\ LoopEnded' \subseteq LoopEnded
  BY <1>7, GaugeSets, GaugeMembers, AllPairs
<1>10. Books \ {<<c, m>>} \subseteq Books'
  <2>1. \A k \in Handlers, n \in Names :
          <<k, n>> \in Books /\ ~(k = c /\ n = m) => <<k, n>> \in Books'
    BY <1>7, GaugeMembers
  <2> QED
    BY <2>1, GaugeSets, ByPairs
<1>11. <<c, m>> \in Counted /\ <<c, m>> \notin Counted'
  BY <1>5, GaugeMembers
<1>12. UpperMove(<<c, m>>) /\ LowerMove(<<c, m>>)
  BY <1>2, <1>8, <1>9, <1>10, <1>11 DEF UpperMove, LowerMove, UpperCase, LowerCase
<1> QED
  BY <1>12, GaugeMove DEF RegistryInv

\* runProxy's deferred function: the loop has ended, and decrements again.
LEMMA GaugeLoopEnd ==
  ASSUME RegistryInv, GaugeBounds, NEW p \in Proxy, RunProxyDefer(p)
  PROVE  GaugeBounds'
<1>1. PICK c \in Handlers, m \in Names : p = <<c, m>>
  BY ProxyIsPair
<1>2. /\ run[<<c, m>>] = "exit" /\ activeProxies' = activeProxies - 1
      /\ UNCHANGED <<pc, held, mu, left, todo, cur>>
  BY <1>1 DEF RunProxyDefer
<1>3. \A k \in Handlers, n \in Names :
        run'[<<k, n>>] = IF k = c /\ n = m THEN "done" ELSE run[<<k, n>>]
  BY <1>1 DEF RegistryInv, TypeOK, RunProxyDefer
<1>4. ~EndedAt(c, m) /\ EndedAt(c, m)'
  BY <1>2, <1>3 DEF EndedAt
<1>5. \A k \in Handlers, n \in Names :
        /\ BooksAt(k, n) => BooksAt(k, n)'
        /\ CountedAt(k, n)' => CountedAt(k, n)
        /\ CountingAt(k, n)' => CountingAt(k, n)
  BY <1>2 DEF BooksAt, CountedAt, CountingAt
<1>6. \A k \in Handlers, n \in Names :
        /\ EndedAt(k, n) => EndedAt(k, n)'
        /\ EndedAt(k, n)' /\ ~(k = c /\ n = m) => EndedAt(k, n)
  BY <1>3 DEF EndedAt
<1>7. \A k \in Handlers, n \in Names : MissingAt(k, n) => MissingAt(k, n)'
  BY <1>2, <1>3 DEF MissingAt, CountingAt
<1> HIDE DEF Proxy, BooksAt, CountingAt, EndedAt, CountedAt, MissingAt
<1>8. /\ Books \subseteq Books' /\ Counted' \subseteq Counted
      /\ Counting' \subseteq Counting /\ Missing \subseteq Missing'
  BY <1>5, <1>7, GaugeSets, GaugeMembers, AllPairs
<1>9. LoopEnded \subseteq LoopEnded'
  BY <1>6, GaugeSets, GaugeMembers, AllPairs
<1>10. LoopEnded' \ {<<c, m>>} \subseteq LoopEnded
  <2>1. \A k \in Handlers, n \in Names :
          <<k, n>> \in LoopEnded' /\ ~(k = c /\ n = m) => <<k, n>> \in LoopEnded
    BY <1>6, GaugeMembers
  <2> QED
    BY <2>1, GaugeSets, ByPairs
<1>11. <<c, m>> \notin LoopEnded /\ <<c, m>> \in LoopEnded'
  BY <1>4, GaugeMembers
<1>12. UpperMove(<<c, m>>) /\ LowerMove(<<c, m>>)
  BY <1>2, <1>8, <1>9, <1>10, <1>11 DEF UpperMove, LowerMove, UpperCase, LowerCase
<1> QED
  BY <1>12, GaugeMove DEF RegistryInv

\* cleanupClient takes the mutex: it has uncounted nothing yet.
LEMMA GaugeLock ==
  ASSUME RegistryInv, GaugeBounds, NEW w \in Handlers, CleanupLock(w)
  PROVE  GaugeBounds'
<1>1. PICK c \in Handlers : c = target[w]
  BY DEF RegistryInv, LocalsSet, CleanupLock
<1>2. /\ mu[c] = None /\ pc[w] = "lock" /\ activeProxies' = activeProxies
      /\ UNCHANGED <<held, run, todo, cur>>
  BY <1>1 DEF CleanupLock
<1>3. \A k \in Handlers : /\ pc'[k] = IF k = w THEN "close" ELSE pc[k]
                          /\ left'[k] = IF k = w THEN held[c] ELSE left[k]
                          /\ mu'[k] = IF k = c THEN w ELSE mu[k]
  BY <1>1 DEF RegistryInv, TypeOK, CleanupLock
<1>4. \A k \in Handlers : mu[k] # w /\ mu[k] \in Handlers \cup {None}
  BY RegistryAssumption DEF RegistryInv, TypeOK, MutexHeld, CleanupLock
<1>5. \A k \in Handlers, n \in Names : CountedAt(k, n) <=> CountedAt(k, n)'
  BY <1>2, <1>3, <1>4 DEF CountedAt
<1> HIDE DEF CountedAt
<1>6. \A k \in Handlers, n \in Names :
        /\ BooksAt(k, n) => BooksAt(k, n)'
        /\ EndedAt(k, n)' <=> EndedAt(k, n)
        /\ CountingAt(k, n)' => CountingAt(k, n)
        /\ MissingAt(k, n) => MissingAt(k, n)'
  BY <1>2, <1>3, <1>5 DEF BooksAt, MissingAt, CountingAt, EndedAt
<1> HIDE DEF Proxy, BooksAt, CountingAt, EndedAt, MissingAt
<1> QED
  BY <1>2, <1>5, <1>6, GaugeKept DEF RegistryInv

\* cleanupClient empties the table: all of it was uncounted.
LEMMA GaugeUnlock ==
  ASSUME RegistryInv, GaugeBounds, NEW w \in Handlers, CleanupUnlock(w)
  PROVE  GaugeBounds'
<1>1. PICK c \in Handlers : c = target[w] /\ mu[c] = w
  BY DEF RegistryInv, LocalsSet, MutexHeld, CleanupUnlock
<1>2. /\ left[w] = {} /\ pc[w] = "close" /\ activeProxies' = activeProxies
      /\ UNCHANGED <<left, run, todo>>
  BY DEF CleanupUnlock
<1>3. \A k \in Handlers : /\ pc'[k] = IF k = w THEN "forget" ELSE pc[k]
                          /\ cur'[k] = IF k = w THEN None ELSE cur[k]
                          /\ held'[k] = IF k = c THEN {} ELSE held[k]
                          /\ mu'[k] = IF k = c THEN None ELSE mu[k]
  BY <1>1 DEF RegistryInv, TypeOK, CleanupUnlock
<1>4. \A n \in Names : ~CountedAt(c, n)
  BY <1>1, <1>2, RegistryAssumption DEF CountedAt
<1>5. \A k \in Handlers, n \in Names : CountedAt(k, n) <=> CountedAt(k, n)'
  BY <1>2, <1>3, <1>4 DEF CountedAt
<1> HIDE DEF CountedAt
<1>6. \A k \in Handlers, n \in Names :
        /\ BooksAt(k, n) => BooksAt(k, n)'
        /\ EndedAt(k, n)' <=> EndedAt(k, n)
        /\ CountingAt(k, n)' => CountingAt(k, n)
        /\ MissingAt(k, n) => MissingAt(k, n)'
  BY <1>2, <1>3, <1>5 DEF BooksAt, MissingAt, CountingAt, EndedAt
<1> HIDE DEF Proxy, BooksAt, CountingAt, EndedAt, MissingAt
<1> QED
  BY <1>2, <1>5, <1>6, GaugeKept DEF RegistryInv

\* CheckPort: the name is decided, and being registered unless it is refused.
LEMMA GaugeCheck ==
  ASSUME RegistryInv, GaugeBounds, NEW h \in Handlers, NEW m \in Names, CheckPort(h, m)
  PROVE  GaugeBounds'
<1>1. /\ m \in todo[h] /\ pc[h] = "loop" /\ activeProxies' = activeProxies
      /\ UNCHANGED <<held, mu, left, run>>
  BY DEF CheckPort
<1>2. \A k \in Handlers :
        /\ todo'[k] = IF k = h THEN todo[h] \ {m} ELSE todo[k]
        /\ k # h => pc'[k] = pc[k] /\ cur'[k] = cur[k]
  BY DEF RegistryInv, TypeOK, CheckPort
<1>3. (pc'[h] = "listen" /\ cur'[h] = m) \/ pc'[h] = "loop"
  BY DEF RegistryInv, TypeOK, CheckPort
<1>4. \A k \in Handlers, n \in Names :
        /\ BooksAt(k, n) => BooksAt(k, n)'
        /\ EndedAt(k, n)' <=> EndedAt(k, n)
        /\ CountingAt(k, n)' => CountingAt(k, n)
        /\ CountedAt(k, n)' => CountedAt(k, n)
        /\ MissingAt(k, n) => MissingAt(k, n)'
  BY <1>1, <1>2, <1>3 DEF BooksAt, CountedAt, MissingAt, CountingAt, EndedAt
<1> HIDE DEF Proxy, BooksAt, CountingAt, EndedAt, CountedAt, MissingAt
<1> QED
  BY <1>1, <1>4, GaugeKept DEF RegistryInv

\* ReplyOK: a proxy that is recorded and counted is served from now on.
LEMMA GaugeReply ==
  ASSUME RegistryInv, GaugeBounds, NEW h \in Handlers, ReplyOK(h)
  PROVE  GaugeBounds'
<1>1. PICK m \in Names : m = cur[h]
  BY DEF RegistryInv, LocalsSet, ReplyOK
<1>2. /\ pc[h] = "reply" /\ activeProxies' = activeProxies /\ run[<<h, m>>] = "none"
      /\ UNCHANGED <<held, mu, left, todo>>
  BY <1>1 DEF RegistryInv, NothingYet, ReplyOK
<1>3. \A k \in Handlers, n \in Names :
        run'[<<k, n>>] = IF k = h /\ n = m THEN "accept" ELSE run[<<k, n>>]
  BY <1>1 DEF RegistryInv, TypeOK, ReplyOK
<1>4. \A k \in Handlers : /\ pc'[k] = IF k = h THEN "loop" ELSE pc[k]
                          /\ cur'[k] = IF k = h THEN None ELSE cur[k]
  BY DEF RegistryInv, TypeOK, ReplyOK
<1>5. \A k \in Handlers, n \in Names :
        /\ BooksAt(k, n) => BooksAt(k, n)'
        /\ CountingAt(k, n)' => CountingAt(k, n)
        /\ CountedAt(k, n)' => CountedAt(k, n)
  BY <1>2, <1>4 DEF BooksAt, CountedAt, CountingAt
<1>6. \A k \in Handlers, n \in Names : EndedAt(k, n)' <=> EndedAt(k, n)
  BY <1>2, <1>3 DEF EndedAt
<1>7. \A k \in Handlers, n \in Names : MissingAt(k, n) => MissingAt(k, n)'
  BY <1>1, <1>2, <1>3, <1>4, SMTT(30) DEF MissingAt, CountingAt
<1> HIDE DEF Proxy, BooksAt, CountingAt, EndedAt, CountedAt, MissingAt
<1> QED
  BY <1>2, <1>5, <1>6, <1>7, GaugeKept DEF RegistryInv

\* UndoName: the proxy leaves the table, and stays on the books.
LEMMA GaugeUndoName ==
  ASSUME RegistryInv, GaugeBounds, NEW h \in Handlers, UndoName(h)
  PROVE  GaugeBounds'
<1>1. PICK m \in Names : m = cur[h]
  BY DEF RegistryInv, LocalsSet, UndoName
<1>2. /\ pc[h] = "undoName" /\ activeProxies' = activeProxies
      /\ UNCHANGED <<mu, left, run, todo, cur>>
  BY DEF UndoName
<1>3. \A k \in Handlers :
        /\ pc'[k] = IF k = h THEN "undoCount" ELSE pc[k]
        /\ held'[k] = IF k = h THEN held[h] \ {m} ELSE held[k]
  BY <1>1 DEF RegistryInv, TypeOK, UndoName
<1>4. \A k \in Handlers, n \in Names :
        /\ BooksAt(k, n) => BooksAt(k, n)'
        /\ EndedAt(k, n)' <=> EndedAt(k, n)
        /\ CountingAt(k, n)' => CountingAt(k, n)
        /\ CountedAt(k, n)' => CountedAt(k, n)
        /\ MissingAt(k, n) => MissingAt(k, n)'
  BY <1>1, <1>2, <1>3 DEF BooksAt, CountedAt, MissingAt, CountingAt, EndedAt
<1> HIDE DEF Proxy, BooksAt, CountingAt, EndedAt, CountedAt, MissingAt
<1> QED
  BY <1>2, <1>4, GaugeKept DEF RegistryInv

\* An accept loop that returns is still to decrement the gauge.
LEMMA GaugeReturn ==
  ASSUME RegistryInv, GaugeBounds, NEW p \in Proxy, RunProxyReturn(p)
  PROVE  GaugeBounds'
<1>1. /\ run[p] = "accept" /\ activeProxies' = activeProxies
      /\ UNCHANGED <<pc, held, mu, left, todo, cur>>
  BY DEF RunProxyReturn
<1>2. \A k \in Handlers, n \in Names :
        run'[<<k, n>>] = IF <<k, n>> = p THEN "exit" ELSE run[<<k, n>>]
  BY DEF RegistryInv, TypeOK, RunProxyReturn
<1>3. \A k \in Handlers, n \in Names :
        /\ BooksAt(k, n) => BooksAt(k, n)'
        /\ EndedAt(k, n)' <=> EndedAt(k, n)
        /\ CountingAt(k, n)' => CountingAt(k, n)
        /\ CountedAt(k, n)' => CountedAt(k, n)
        /\ MissingAt(k, n) => MissingAt(k, n)'
  BY <1>1, <1>2 DEF BooksAt, CountedAt, MissingAt, CountingAt, EndedAt
<1> HIDE DEF Proxy, BooksAt, CountingAt, EndedAt, CountedAt, MissingAt
<1> QED
  BY <1>1, <1>3, GaugeKept DEF RegistryInv

\* A handler's step that moves it neither to nor from a step that counts, nor
\* to a registration from outside.
LEMMA GaugeQuiet ==
  ASSUME RegistryInv, GaugeBounds, NEW h \in Handlers, activeProxies' = activeProxies,
         UNCHANGED <<held, mu, left, run, todo>>,
         NEW a, pc' = [pc EXCEPT ![h] = a],
         \A k \in Handlers : k # h => cur'[k] = cur[k],
         pc[h] \notin {"count", "undoCount"}, a \notin {"count", "undoCount"},
         a \in Registering => pc[h] \in Registering /\ cur'[h] = cur[h]
  PROVE  GaugeBounds'
<1>1. \A k \in Handlers : pc'[k] = IF k = h THEN a ELSE pc[k]
  BY DEF RegistryInv, TypeOK
<1>2. \A k \in Handlers, n \in Names :
        /\ BooksAt(k, n) => BooksAt(k, n)'
        /\ EndedAt(k, n)' <=> EndedAt(k, n)
        /\ CountingAt(k, n)' => CountingAt(k, n)
        /\ CountedAt(k, n)' => CountedAt(k, n)
        /\ MissingAt(k, n) => MissingAt(k, n)'
  BY <1>1 DEF BooksAt, CountedAt, MissingAt, CountingAt, EndedAt
<1> HIDE DEF Proxy, BooksAt, CountingAt, EndedAt, CountedAt, MissingAt
<1> QED
  BY <1>2, GaugeKept DEF RegistryInv

\* No step breaks the bounds.
LEMMA GaugeStep ==
  ASSUME RegistryInv, DecidedOnce, LeftHeld, GaugeBounds, [Next]_vars
  PROVE  GaugeBounds'
<1>1. ASSUME UNCHANGED <<pc, held, mu, left, run, todo, cur, activeProxies>>
      PROVE  GaugeBounds'
  BY <1>1 DEF GaugeBounds, Books, Counted, Uncounting, Counting, LoopEnded, Missing
<1>2. ASSUME \/ \E h \in Handlers : PeerDrops(h)
             \/ StopBegin \/ StopStep \/ Terminated \/ UNCHANGED vars
      PROVE  GaugeBounds'
  <2>1. UNCHANGED <<pc, held, mu, left, run, todo, cur, activeProxies>>
    BY <1>2 DEF PeerDrops, StopBegin, StopStep, StopRange, StopReturn, Terminated
  <2> QED
    BY <1>1, <2>1
<1>3. ASSUME NEW h \in Handlers,
             \/ AcceptConn(h) \/ BeginHandler(h) \/ RejectConn(h)
             \/ LoadOldClient(h) \/ CloseOldSession(h) \/ StoreClient(h)
             \/ RecvError(h) \/ CleanupForget(h) \/ Finish(h)
             \/ \E t \in Tokens : AuthAccept(h, t) \/ AuthPanic(h, t)
      PROVE  GaugeBounds'
  <2>1. /\ UNCHANGED <<held, mu, left, run, todo, cur, activeProxies>>
        /\ pc[h] \notin {"count", "undoCount"}
    BY <1>3
    DEF AcceptConn, BeginHandler, RejectConn, LoadOldClient, CloseOldSession, StoreClient,
        RecvError, CleanupForget, Finish, AuthAccept, AuthPanic
  <2>2. CASE LoadOldClient(h) \/ CleanupForget(h)
    <3>1. PICK a : pc' = [pc EXCEPT ![h] = a] /\ a \in {"store", "lock", "finish", "evict"}
      BY <2>2 DEF LoadOldClient, CleanupForget
    <3> QED
      BY <2>1, <3>1, GaugeQuiet
  <2>3. CASE ~(LoadOldClient(h) \/ CleanupForget(h))
    <3>1. PICK a : /\ pc' = [pc EXCEPT ![h] = a]
                   /\ a \in {"accepted", "setup", "done", "store", "loop", "lock", "load"}
      BY <1>3, <2>3
      DEF AcceptConn, BeginHandler, RejectConn, CloseOldSession, StoreClient, RecvError,
          Finish, AuthAccept, AuthPanic
    <3> QED
      BY <2>1, <3>1, GaugeQuiet
  <2> QED
    BY <2>2, <2>3
<1>4. ASSUME NEW h \in Handlers,
             \/ Listen(h) \/ PublishProxy(h) \/ ReplyFails(h) \/ UndoPort(h)
      PROVE  GaugeBounds'
  <2>1. /\ UNCHANGED <<held, mu, left, run, todo, cur, activeProxies>>
        /\ pc[h] \in Registering \ {"count", "undoCount"}
    BY <1>4 DEF Listen, PublishProxy, ReplyFails, UndoPort
  <2>2. PICK a : pc' = [pc EXCEPT ![h] = a] /\ a \in Registering \ {"count", "undoCount"}
    BY <1>4 DEF Listen, PublishProxy, ReplyFails, UndoPort
  <2> QED
    BY <2>1, <2>2, GaugeQuiet
<1>5. ASSUME NEW h \in Handlers, ListenFails(h) \/ \E n \in Names : CleanupClose(h, n)
      PROVE  GaugeBounds'
  <2>1. /\ UNCHANGED <<held, mu, left, run, todo, activeProxies>>
        /\ pc[h] \in {"listen", "close"}
        /\ \A k \in Handlers : k # h => cur'[k] = cur[k]
    BY <1>5 DEF RegistryInv, TypeOK, ListenFails, CleanupClose
  <2>2. PICK a : pc' = [pc EXCEPT ![h] = a] /\ a \in {"loop", "delete"}
    BY <1>5 DEF ListenFails, CleanupClose
  <2>3. a \notin Registering \cup {"count", "undoCount"}
    BY <2>2
  <2> QED
    BY <2>1, <2>2, <2>3, GaugeQuiet
<1>6. ASSUME NEW p \in Proxy, RunProxyStep(p) PROVE GaugeBounds'
  BY <1>6, GaugeReturn, GaugeLoopEnd DEF RunProxyStep
<1>7. ASSUME NEW h \in Handlers, HandlerStep(h) PROVE GaugeBounds'
  BY <1>3, <1>4, <1>5, <1>7, GaugeRecord, GaugeCount, GaugeReply, GaugeUndoName, GaugeUndo,
     GaugeLock, GaugeDelete, GaugeUnlock
  DEF HandlerStep
<1> QED
  BY <1>2, <1>3, <1>6, <1>7, GaugeCheck DEF Next, Environment

\* Nobody but cleanupClient touches a table it holds locked.
LEMMA LeftStep ==
  ASSUME RegistryInv, LeftHeld, [Next]_vars
  PROVE  LeftHeld'
<1>1. /\ pc \in [Handlers -> PCs] /\ held \in [Handlers -> SUBSET Names]
      /\ left \in [Handlers -> SUBSET Names] /\ cur \in [Handlers -> Names \cup {None}]
      /\ target \in [Handlers -> Handlers \cup {None}]
      /\ mu \in [Handlers -> Handlers \cup {None}]
  BY DEF RegistryInv, TypeOK
<1>2. \A w \in Handlers : pc[w] \in Cleaning => target[w] \in Handlers /\ mu[target[w]] = w
  BY DEF RegistryInv, LocalsSet, MutexHeld
<1> USE DEF LeftHeld
<1>3. ASSUME NEW h \in Handlers, RecordProxy(h) \/ UndoName(h) PROVE LeftHeld'
  <2>1. \A w \in Handlers : pc[w] \in Cleaning => target[w] # h
    BY <1>2, <1>3, RegistryAssumption DEF RecordProxy, UndoName
  <2>2. \A k \in Handlers : k # h => held'[k] = held[k] /\ pc'[k] = pc[k]
    BY <1>1, <1>3 DEF RecordProxy, UndoName
  <2>3. pc'[h] \notin Cleaning /\ UNCHANGED <<left, target, cur>>
    BY <1>1, <1>3 DEF RecordProxy, UndoName
  <2> QED
    BY <1>2, <2>1, <2>2, <2>3
<1>4. ASSUME NEW w \in Handlers, CleanupLock(w) PROVE LeftHeld'
  BY <1>1, <1>4 DEF CleanupLock
<1>5. ASSUME NEW w \in Handlers, NEW n \in Names, CleanupClose(w, n) PROVE LeftHeld'
  BY <1>1, <1>5 DEF CleanupClose
<1>6. ASSUME NEW w \in Handlers, CleanupDelete(w) PROVE LeftHeld'
  BY <1>1, <1>6 DEF CleanupDelete
<1>7. ASSUME NEW w \in Handlers, CleanupUnlock(w) PROVE LeftHeld'
  <2>1. PICK c \in Handlers : c = target[w] /\ mu[c] = w
    BY <1>2, <1>7 DEF CleanupUnlock
  <2>2. \A k \in Handlers : pc'[k] \in Cleaning => k # w /\ pc[k] \in Cleaning /\ target[k] # c
    BY <1>1, <1>2, <1>7, <2>1 DEF CleanupUnlock
  <2>3. \A k \in Handlers : /\ k # w => pc'[k] = pc[k] /\ cur'[k] = cur[k]
                            /\ k # c => held'[k] = held[k]
    BY <1>1, <1>7, <2>1 DEF CleanupUnlock
  <2> QED
    BY <1>2, <1>7, <2>2, <2>3 DEF CleanupUnlock
<1>8. ASSUME UNCHANGED <<held, left>>, NEW h \in Handlers, NEW a,
             pc' = [pc EXCEPT ![h] = a], a \notin Cleaning,
             \A k \in Handlers : k # h => cur'[k] = cur[k] /\ target'[k] = target[k]
      PROVE  LeftHeld'
  BY <1>1, <1>8
<1>9. ASSUME NEW h \in Handlers,
             \/ ListenFails(h) \/ ReplyOK(h) \/ UndoCount(h) \/ Listen(h) \/ PublishProxy(h)
             \/ CountProxy(h) \/ ReplyFails(h) \/ UndoPort(h)
      PROVE  LeftHeld'
  <2>1. /\ UNCHANGED <<held, left>>
        /\ \A k \in Handlers : k # h => cur'[k] = cur[k] /\ target'[k] = target[k]
    BY <1>1, <1>9
    DEF ListenFails, ReplyOK, UndoCount, Listen, PublishProxy, CountProxy, ReplyFails, UndoPort
  <2>2. \E a : pc' = [pc EXCEPT ![h] = a] /\ a \notin Cleaning
    BY <1>9
    DEF ListenFails, ReplyOK, UndoCount, Listen, PublishProxy, CountProxy, ReplyFails, UndoPort
  <2> QED
    BY <1>8, <2>1, <2>2
<1>10. ASSUME NEW h \in Handlers,
              \/ AcceptConn(h) \/ BeginHandler(h) \/ RejectConn(h)
              \/ LoadOldClient(h) \/ CloseOldSession(h) \/ StoreClient(h)
              \/ RecvError(h) \/ CleanupForget(h) \/ Finish(h)
              \/ \E t \in Tokens : AuthAccept(h, t) \/ AuthPanic(h, t)
       PROVE  LeftHeld'
  <2>1. /\ UNCHANGED <<held, left>>
        /\ \A k \in Handlers : k # h => cur'[k] = cur[k] /\ target'[k] = target[k]
    BY <1>1, <1>10
    DEF AcceptConn, BeginHandler, RejectConn, LoadOldClient, CloseOldSession, StoreClient,
        RecvError, CleanupForget, Finish, AuthAccept, AuthPanic
  <2>2. \E a : pc' = [pc EXCEPT ![h] = a] /\ a \notin Cleaning
    BY <1>10, ZenonT(60)
    DEF AcceptConn, BeginHandler, RejectConn, LoadOldClient, CloseOldSession, StoreClient,
        RecvError, CleanupForget, Finish, AuthAccept, AuthPanic
  <2> QED
    BY <1>8, <2>1, <2>2
<1>11. ASSUME NEW h \in Handlers, NEW n \in Names, CheckPort(h, n) PROVE LeftHeld'
  BY <1>1, <1>11 DEF CheckPort
<1>12. ASSUME \/ \E h \in Handlers : PeerDrops(h)
              \/ \E p \in Proxy : RunProxyStep(p)
              \/ StopBegin \/ StopStep \/ Terminated \/ UNCHANGED vars
       PROVE  LeftHeld'
  <2>1. UNCHANGED <<held, left, cur, target, pc>>
    BY <1>12 DEF PeerDrops, RunProxyStep, RunProxyReturn, RunProxyDefer, StopBegin, StopStep,
       StopRange, StopReturn, Terminated
  <2> QED
    BY <2>1
<1> HIDE DEF LeftHeld
<1> QED
  BY <1>3, <1>4, <1>5, <1>6, <1>7, <1>9, <1>10, <1>11, <1>12, ZenonT(30)
  DEF Next, Environment, HandlerStep

\* A name that is asked for is not in the table.
LEMMA DecidedStep ==
  ASSUME RegistryInv, DecidedOnce, [Next]_vars
  PROVE  DecidedOnce'
<1>1. /\ pc \in [Handlers -> PCs] /\ held \in [Handlers -> SUBSET Names]
      /\ todo \in [Handlers -> SUBSET Names] /\ cur \in [Handlers -> Names \cup {None}]
  BY DEF RegistryInv, TypeOK
<1> USE DEF DecidedOnce
<1>2. ASSUME NEW h \in Handlers, NEW n \in Names, CheckPort(h, n) PROVE DecidedOnce'
  BY <1>1, <1>2 DEF CheckPort
<1>3. ASSUME NEW h \in Handlers, RecordProxy(h) PROVE DecidedOnce'
  <2>1. cur[h] \notin todo[h]
    BY <1>3 DEF RecordProxy, RegistryInv, NothingYet
  <2> QED
    BY <1>1, <1>3, <2>1 DEF RecordProxy
<1>4. ASSUME NEW h \in Handlers, UndoName(h) PROVE DecidedOnce'
  BY <1>1, <1>4 DEF UndoName
<1>5. ASSUME NEW w \in Handlers, CleanupUnlock(w) PROVE DecidedOnce'
  <2>1. target[w] \in Handlers
    BY <1>5 DEF CleanupUnlock, RegistryInv, LocalsSet
  <2> QED
    BY <1>1, <1>5, <2>1 DEF CleanupUnlock
<1>6. ASSUME NEW w \in Handlers, NEW n \in Names, CleanupClose(w, n) PROVE DecidedOnce'
  BY <1>1, <1>6 DEF CleanupClose
<1>7. ASSUME UNCHANGED <<held, todo, cur>>, NEW h \in Handlers, NEW a, pc' = [pc EXCEPT ![h] = a],
             a \in Unrecorded \cup {"listen"} => pc[h] \in Unrecorded \cup {"listen"}
      PROVE  DecidedOnce'
  BY <1>1, <1>7
<1>8. ASSUME NEW h \in Handlers, Listen(h) \/ PublishProxy(h) PROVE DecidedOnce'
  BY <1>1, <1>8 DEF Listen, PublishProxy
<1>9. ASSUME NEW h \in Handlers, ListenFails(h) \/ ReplyOK(h) \/ UndoCount(h) PROVE DecidedOnce'
  BY <1>1, <1>9 DEF ListenFails, ReplyOK, UndoCount
<1>10. ASSUME NEW h \in Handlers, \/ BeginHandler(h) \/ RejectConn(h) \/ LoadOldClient(h)
                                  \/ CloseOldSession(h) \/ StoreClient(h) \/ RecvError(h)
                                  \/ ReplyFails(h) \/ UndoPort(h) \/ CleanupLock(h)
                                  \/ CleanupDelete(h) \/ CleanupForget(h) \/ Finish(h)
                                  \/ CountProxy(h)
                                  \/ AcceptConn(h)
                                  \/ \E t \in Tokens : AuthAccept(h, t) \/ AuthPanic(h, t)
       PROVE  DecidedOnce'
  <2>1. /\ UNCHANGED <<held, todo, cur>>
        /\ \E a : /\ pc' = [pc EXCEPT ![h] = a]
                  /\ a \in Unrecorded \cup {"listen"} => pc[h] \in Unrecorded \cup {"listen"}
    BY <1>10, ZenonT(60) DEF BeginHandler, RejectConn, LoadOldClient, CloseOldSession, StoreClient, RecvError,
       CountProxy, ReplyFails, UndoPort, CleanupLock, CleanupDelete, CleanupForget, Finish, AcceptConn,
       AuthAccept, AuthPanic
  <2> QED
    BY <1>7, <2>1
<1>11. ASSUME UNCHANGED <<held, todo, cur, pc>> PROVE DecidedOnce'
  BY <1>11
<1>12. ASSUME \/ \E h \in Handlers : PeerDrops(h)
              \/ \E p \in Proxy : RunProxyStep(p)
              \/ StopBegin \/ StopStep \/ Terminated \/ UNCHANGED vars
       PROVE  DecidedOnce'
  <2>1. UNCHANGED <<held, todo, cur, pc>>
    BY <1>12 DEF PeerDrops, RunProxyStep, RunProxyReturn, RunProxyDefer, StopBegin, StopStep,
       StopRange, StopReturn, Terminated
  <2> QED
    BY <1>11, <2>1
<1> HIDE DEF DecidedOnce
<1> QED
  BY <1>2, <1>3, <1>4, <1>5, <1>6, <1>8, <1>9, <1>10, <1>12 DEF Next, Environment, HandlerStep

\* stats.ActiveProxies, which handleNewProxy increments and its rollback,
\* cleanupClient and runProxy decrement, each for itself: but for the second
\* decrement of every ended accept loop it counts the proxies of the client
\* tables, a rollback and a proxy without accept loop excepted.
THEOREM GaugeAccounted == Spec => []GaugeExact
<1> DEFINE GaugeInv == DecidedOnce /\ LeftHeld /\ GaugeBounds
<1>1. Init => GaugeInv
  <2>1. SUFFICES ASSUME Init PROVE GaugeInv
    OBVIOUS
  <2>2. DecidedOnce /\ LeftHeld
    BY <2>1 DEF Init, DecidedOnce, LeftHeld
  <2>3. \A h \in Handlers, n \in Names :
          ~EndedAt(h, n) /\ ~CountingAt(h, n) /\ ~CountedAt(h, n)
    BY <2>1 DEF Init, EndedAt, CountingAt, CountedAt
  <2> HIDE DEF Proxy, EndedAt, CountingAt, CountedAt
  <2>4. LoopEnded = {} /\ Counting = {} /\ Counted = {}
    <3>1. ASSUME NEW q \in Proxy
          PROVE  q \notin LoopEnded /\ q \notin Counting /\ q \notin Counted
      <4>1. PICK h \in Handlers, n \in Names : q = <<h, n>>
        BY ProxyIsPair
      <4> QED
        BY <2>3, <4>1, GaugeMembers
    <3> QED
      BY <3>1, GaugeSets
  <2>5. /\ Cardinality(Books) \in Nat /\ Cardinality(Missing) \in Nat
        /\ Cardinality(LoopEnded) = 0 /\ Cardinality(Counting) = 0 /\ Cardinality(Counted) = 0
    BY <2>4, GaugeSets, ProxiesCounted, FS_EmptySet
  <2>6. activeProxies = 0
    BY <2>1 DEF Init
  <2>7. GaugeBounds
    BY <2>5, <2>6 DEF GaugeBounds
  <2> QED
    BY <2>2, <2>7
<1>2. RegistryInv /\ GaugeInv /\ [Next]_vars => GaugeInv'
  BY GaugeStep, DecidedStep, LeftStep
<1>3. RegistryInv /\ GaugeInv => GaugeExact
  <2>1. SUFFICES ASSUME RegistryInv, GaugeBounds PROVE GaugeExact
    OBVIOUS
  <2>2. Missing \subseteq Unserved
    BY <2>1 DEF RegistryInv, NothingYet, Missing, Unserved
  <2>3. Unserved \subseteq Proxy
    BY DEF Unserved
  <2> HIDE DEF Proxy
  <2>4. PICK c \in Nat, e \in Nat, k \in Nat :
          c = Cardinality(Counted) /\ e = Cardinality(LoopEnded) /\ k = Cardinality(Counting)
    BY GaugeSets, ProxiesCounted
  <2>5. PICK b \in Nat, m \in Nat, u \in Nat :
          /\ b = Cardinality(Books) /\ m = Cardinality(Missing) /\ u = Cardinality(Unserved)
          /\ m <= u
    BY <2>2, <2>3, GaugeSets, ProxiesCounted
  <2>6. activeProxies + e + k <= b /\ c <= activeProxies + e + m /\ activeProxies \in Int
    BY <2>1, <2>4, <2>5 DEF GaugeBounds, RegistryInv, TypeOK
  <2>7. activeProxies + e <= b /\ c <= activeProxies + e + u
    BY <2>5, <2>6
  <2> QED
    BY <2>4, <2>5, <2>7 DEF GaugeExact, Books
<1> HIDE DEF GaugeInv
<1> QED
  BY <1>1, <1>2, <1>3, RegistryInvariant, PTL DEF Spec
=============================================================================
