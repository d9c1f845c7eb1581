---------------------------- MODULE TunnelProofs ----------------------------
(***************************************************************************)
(* Proofs about one session, for any finite set of users and any proxies.  *)
(***************************************************************************)
EXTENDS Tunnel, FiniteSetTheorems, TLAPS

USE DEF ctrlVars, vars

-----------------------------------------------------------------------------
(* Messages, sequences and counting *)

\* NewConn messages differ from answers and from each other.
LEMMA Messages ==
  /\ \A v : NewConn(v) # Resp /\ NewConn(v).id = v
  /\ \A v, w : NewConn(v) = NewConn(w) => v = w
<1>1. \A v : NewConn(v).id = v /\ NewConn(v).type = "newconn" /\ Resp.type = "resp"
  BY DEF NewConn, Resp
<1>2. \A v : NewConn(v) # Resp
  BY <1>1
<1>3. \A v, w : NewConn(v) = NewConn(w) => v = w
  BY <1>1
<1> QED
  BY <1>1, <1>2, <1>3

\* The messages to the client.
ToClient == {Resp} \cup {NewConn(v) : v \in Users}

\* What a queue is without its head.
LEMMA Removed ==
  ASSUME NEW S, NEW q \in Seq(S), q # <<>>
  PROVE  /\ Len(q) \in Nat /\ 1 \in 1..Len(q) /\ Head(q) = q[1] /\ q[1] \in S
         /\ Tail(q) \in Seq(S) /\ Len(Tail(q)) = Len(q) - 1
         /\ \A i \in 1..Len(Tail(q)) : i + 1 \in 1..Len(q) /\ Tail(q)[i] = q[i + 1]
         /\ \A i \in 1..Len(q) : i = 1 \/ (i - 1 \in 1..Len(Tail(q)) /\ Tail(q)[i - 1] = q[i])
<1>1. /\ Len(q) \in Nat /\ 1 \in 1..Len(q) /\ Head(q) = q[1] /\ q[1] \in S
  OBVIOUS
<1>2. Tail(q) \in Seq(S) /\ Len(Tail(q)) = Len(q) - 1
  OBVIOUS
<1>3. \A i \in 1..(Len(q) - 1) : i + 1 \in 1..Len(q) /\ Tail(q)[i] = q[i + 1]
  OBVIOUS
<1>4. ASSUME NEW i \in 1..Len(q), i # 1
      PROVE  i - 1 \in 1..(Len(q) - 1) /\ Tail(q)[i - 1] = q[i]
  <2>1. i - 1 \in 1..(Len(q) - 1) /\ (i - 1) + 1 = i
    BY <1>1, <1>4
  <2> QED
    BY <1>3, <2>1
<1> QED
  BY <1>1, <1>2, <1>3, <1>4

\* What a queue is with one more at its end.
LEMMA Added ==
  ASSUME NEW S, NEW q \in Seq(S), NEW x \in S
  PROVE  /\ Len(q) \in Nat /\ Append(q, x) \in Seq(S) /\ Len(Append(q, x)) = Len(q) + 1
         /\ \A i \in 1..Len(q) : Append(q, x)[i] = q[i]
         /\ Append(q, x)[Len(q) + 1] = x
         /\ \A i \in 1..Len(Append(q, x)) : i \in 1..Len(q) \/ i = Len(q) + 1
OBVIOUS

Count(f, a) == Cardinality({w \in Users : f[w] = a})

\* A count of users is a number.
LEMMA CountType ==
  ASSUME NEW f, NEW a
  PROVE  Count(f, a) \in Nat /\ Count(f, a) <= Cardinality(Users) /\ Cardinality(Users) \in Nat
<1>1. IsFiniteSet(Users)
  BY TunnelAssumption
<1>2. {w \in Users : f[w] = a} \in SUBSET Users
  OBVIOUS
<1>3. IsFiniteSet({w \in Users : f[w] = a}) /\ Cardinality({w \in Users : f[w] = a}) <= Cardinality(Users)
  BY <1>1, <1>2, FS_Subset
<1> QED
  BY <1>1, <1>3, FS_CardinalityType DEF Count

\* One more user makes the count one more.
LEMMA CountUp ==
  ASSUME NEW f, NEW g, NEW a, NEW v \in Users, f[v] # a, g[v] = a,
         \A w \in Users : w # v => (g[w] = a <=> f[w] = a)
  PROVE  Count(g, a) = Count(f, a) + 1
<1>1. IsFiniteSet({w \in Users : f[w] = a})
  BY TunnelAssumption, FS_Subset
<1>2. {w \in Users : g[w] = a} = {w \in Users : f[w] = a} \cup {v}
  OBVIOUS
<1>3. v \notin {w \in Users : f[w] = a}
  OBVIOUS
<1> QED
  BY <1>1, <1>2, <1>3, FS_AddElement DEF Count

\* The same users make the same count.
LEMMA CountSame ==
  ASSUME NEW f, NEW g, NEW a, \A w \in Users : g[w] = a <=> f[w] = a
  PROVE  Count(g, a) = Count(f, a)
<1>1. {w \in Users : g[w] = a} = {w \in Users : f[w] = a}
  OBVIOUS
<1> QED
  BY <1>1 DEF Count

-----------------------------------------------------------------------------
(* Types and the gauge *)

Status == {"none", "notify", "waiting", "joined", "closed"}

\* Every step keeps the gauge exact.
LEMMA GaugeNext ==
  ASSUME TypeOK, GaugeExact, [Next]_vars
  PROVE  GaugeExact'
<1>1. /\ user \in [Users -> Status]
      /\ activeConns = Count(user, "joined") /\ Count(user, "joined") \in Nat
  BY CountType DEF TypeOK, GaugeExact, Count, Status
<1>2. SUFFICES activeConns' = Count(user', "joined")
  BY DEF GaugeExact, Count
<1>3. ASSUME \A w \in Users : user'[w] = "joined" <=> user[w] = "joined", activeConns' = activeConns
      PROVE  activeConns' = Count(user', "joined")
  BY <1>1, <1>3, CountSame
<1>4. ASSUME NEW v \in Users, AcceptStream(v) PROVE activeConns' = Count(user', "joined")
  <2>1. /\ user' = [user EXCEPT ![v] = "joined"] /\ user[v] = "waiting"
        /\ activeConns' = activeConns + 1
    BY <1>4 DEF AcceptStream
  <2>2. /\ user[v] # "joined" /\ user'[v] = "joined"
        /\ \A w \in Users : w # v => (user'[w] = "joined" <=> user[w] = "joined")
    BY <1>1, <2>1
  <2>3. Count(user', "joined") = Count(user, "joined") + 1
    BY <2>2, CountUp
  <2> QED
    BY <1>1, <2>1, <2>3
<1>5. ASSUME NEW v \in Users, UserJoinEnds(v) PROVE activeConns' = Count(user', "joined")
  <2>1. /\ user' = [user EXCEPT ![v] = "closed"] /\ user[v] = "joined"
        /\ activeConns' = activeConns - 1
    BY <1>5 DEF UserJoinEnds
  <2>2. /\ user'[v] # "joined" /\ user[v] = "joined"
        /\ \A w \in Users : w # v => (user[w] = "joined" <=> user'[w] = "joined")
    BY <1>1, <2>1
  <2>3. Count(user, "joined") = Count(user', "joined") + 1
    BY <2>2, CountUp
  <2>4. Count(user', "joined") \in Nat
    BY CountType
  <2> QED
    BY <1>1, <2>1, <2>3, <2>4
<1>6. ASSUME NEW v \in Users, (\E n \in Names : AcceptUser(v, n)) \/ NotifyClient(v) \/ AcceptFails(v)
      PROVE  activeConns' = Count(user', "joined")
  <2>1. /\ \E c \in {"notify", "waiting", "closed"} : user' = [user EXCEPT ![v] = c]
        /\ user[v] # "joined" /\ activeConns' = activeConns
    BY <1>6 DEF AcceptUser, NotifyClient, AcceptFails
  <2>2. \A w \in Users : user'[w] = "joined" <=> user[w] = "joined"
    BY <1>1, <2>1
  <2> QED
    BY <1>3, <2>1, <2>2
<1>7. ASSUME UNCHANGED <<user, activeConns>> PROVE activeConns' = Count(user', "joined")
  BY <1>1, <1>7
<1> QED
  BY <1>4, <1>5, <1>6, <1>7
     DEF Next, ClientStep, ServerStep, SendNewProxy, RecvAnswer, StartServing, RecvControl,
         RecvFails, OpenStream, DialLocal, ClientJoinEnds, ServeNewProxy, CleanupClient,
         SessionDies

\* A message in s2c other than an answer is a NewConn.
LEMMA Typed ==
  ASSUME TypeOK
  PROVE  /\ s2c \in Seq(ToClient) /\ c2s \in Seq(Names) /\ queue \in Seq(Users)
         /\ \A x \in ToClient : x # Resp => \E v \in Users : x = NewConn(v)
BY DEF TypeOK, ToClient

\* Every step keeps the types; activeConns is a number as it is a count.
LEMMA TypeNext ==
  ASSUME TypeOK, GaugeExact', [Next]_vars
  PROVE  TypeOK'
<1>1. activeConns' \in 0..Cardinality(Users)
  <2>1. activeConns' = Count(user', "joined")
    BY DEF GaugeExact, Count
  <2> QED
    BY <2>1, CountType
<1> HIDE <1>1
<1>2. ASSUME NEW n \in Names, SendNewProxy(n) PROVE TypeOK'
  <2>1. c2s' \in Seq(Names)
    <3>1. c2s' \in {c2s, Append(c2s, n)}
      BY <1>2 DEF SendNewProxy
    <3> QED
      BY <3>1, Typed, Added, SMTT(30)
  <2> QED
    BY <1>1, <1>2, <2>1 DEF TypeOK, SendNewProxy
<1>3. ASSUME RecvAnswer PROVE TypeOK'
  <2>1. s2c' \in Seq(ToClient)
    BY <1>3, Typed, Removed DEF RecvAnswer
  <2> QED
    BY <1>1, <1>3, <2>1 DEF TypeOK, RecvAnswer, ToClient
<1>4. ASSUME StartServing PROVE TypeOK'
  BY <1>1, <1>4 DEF TypeOK, StartServing
<1>5. ASSUME RecvControl PROVE TypeOK'
  <2>1. s2c' \in Seq(ToClient) /\ Head(s2c) \in ToClient
    BY <1>5, Typed, Removed DEF RecvControl
  <2>2. handler' \in [Users -> {"none", "open", "dial", "joined", "closed"}]
    <3>1. CASE Head(s2c) = Resp
      BY <1>5, <3>1 DEF RecvControl, TypeOK
    <3>2. CASE Head(s2c) # Resp
      <4>1. PICK v \in Users : Head(s2c) = NewConn(v)
        BY <2>1, <3>2, Typed
      <4>2. Head(s2c).id = v
        BY <4>1, Messages
      <4>3. handler' = [handler EXCEPT ![v] = "open"]
        BY <1>5, <3>2, <4>2 DEF RecvControl
      <4> QED
        BY <4>3 DEF TypeOK
    <3> QED
      BY <3>1, <3>2
  <2>3. UNCHANGED <<session, c2s, main, todo, running, user, want, queue, stream>>
    BY <1>5 DEF RecvControl
  <2> QED
    BY <1>1, <2>1, <2>2, <2>3 DEF TypeOK, ToClient
<1>6. ASSUME RecvFails PROVE TypeOK'
  BY <1>1, <1>6 DEF TypeOK, RecvFails
<1>7. ASSUME NEW v \in Users, OpenStream(v) PROVE TypeOK'
  <2>1. queue' \in Seq(Users)
    <3>1. queue' \in {queue, Append(queue, v)}
      BY <1>7 DEF OpenStream
    <3>2. queue \in Seq(Users)
      BY DEF TypeOK
    <3>3. Append(queue, v) \in Seq(Users)
      BY <3>2
    <3> QED
      BY <3>1, <3>2, <3>3
  <2> QED
    BY <1>1, <1>7, <2>1 DEF TypeOK, OpenStream
<1>8. ASSUME NEW v \in Users, DialLocal(v) \/ ClientJoinEnds(v) PROVE TypeOK'
  BY <1>1, <1>8 DEF TypeOK, DialLocal, ClientJoinEnds
<1>9. ASSUME ServeNewProxy PROVE TypeOK'
  <2>1. c2s' \in Seq(Names) /\ Head(c2s) \in Names
    BY <1>9, Typed, Removed DEF ServeNewProxy
  <2>2. s2c' \in Seq(ToClient)
    <3>1. Resp \in ToClient
      BY DEF ToClient
    <3> QED
      BY <1>9, <3>1, Typed, Added DEF ServeNewProxy
  <2>3. running' \subseteq Names
    BY <1>9, <2>1 DEF ServeNewProxy, TypeOK
  <2>4. UNCHANGED <<session, main, todo, user, want, handler, queue, stream>>
    BY <1>9 DEF ServeNewProxy
  <2> QED
    BY <1>1, <2>1, <2>2, <2>3, <2>4 DEF TypeOK, ToClient
<1>10. ASSUME NEW v \in Users, NEW n \in Names, AcceptUser(v, n) PROVE TypeOK'
  BY <1>1, <1>10 DEF TypeOK, AcceptUser
<1>11. ASSUME NEW v \in Users, NotifyClient(v) PROVE TypeOK'
  <2>1. s2c' \in Seq(ToClient)
    <3>1. NewConn(v) \in ToClient /\ s2c' \in {s2c, Append(s2c, NewConn(v))}
      BY <1>11 DEF NotifyClient, ToClient
    <3> QED
      BY <3>1, Typed, Added, SMTT(30)
  <2>2. user' \in [Users -> {"none", "notify", "waiting", "joined", "closed"}]
    BY <1>11 DEF NotifyClient, TypeOK
  <2>3. UNCHANGED <<session, c2s, main, todo, running, want, handler, queue, stream>>
    BY <1>11 DEF NotifyClient
  <2> QED
    BY <1>1, <2>1, <2>2, <2>3 DEF TypeOK, ToClient
<1>12. ASSUME NEW v \in Users, AcceptStream(v) PROVE TypeOK'
  <2>1. queue' \in Seq(Users) /\ Head(queue) \in Users
    BY <1>12, Typed, Removed DEF AcceptStream
  <2>2. stream' \in [Users -> Users \cup {None}]
    BY <1>12, <2>1 DEF AcceptStream, TypeOK
  <2>3. user' \in [Users -> {"none", "notify", "waiting", "joined", "closed"}]
    BY <1>12 DEF AcceptStream, TypeOK
  <2>4. UNCHANGED <<ctrlVars, want, handler>>
    BY <1>12 DEF AcceptStream
  <2> QED
    BY <1>1, <2>1, <2>2, <2>3, <2>4 DEF TypeOK
<1>13. ASSUME NEW v \in Users, AcceptFails(v) \/ UserJoinEnds(v) PROVE TypeOK'
  BY <1>1, <1>13 DEF TypeOK, AcceptFails, UserJoinEnds
<1>14. ASSUME CleanupClient \/ SessionDies \/ UNCHANGED vars PROVE TypeOK'
  BY <1>1, <1>14 DEF TypeOK, CleanupClient, SessionDies
<1> QED
  BY <1>2, <1>3, <1>4, <1>5, <1>6, <1>7, <1>8, <1>9, <1>10, <1>11, <1>12, <1>13, <1>14
     DEF Next, ClientStep, ServerStep

-----------------------------------------------------------------------------
(* NewConn messages *)

\* No message but Resp is twice in q.
Once(q) == \A i, j \in 1..Len(q) : q[i] = q[j] /\ q[i] # Resp => i = j

\* A queue without repetitions has none without its head.
LEMMA TailOnce ==
  ASSUME NEW S, NEW q \in Seq(S), q # <<>>, Once(q)
  PROVE  /\ Once(Tail(q))
         /\ \A i \in 1..Len(Tail(q)) : \E j \in 1..Len(q) : Tail(q)[i] = q[j]
         /\ Head(q) # Resp => \A i \in 1..Len(Tail(q)) : Tail(q)[i] # Head(q)
<1>1. PICK t \in Seq(S) :
        /\ t = Tail(q) /\ Head(q) = q[1] /\ 1 \in 1..Len(q) /\ Len(t) \in Nat
        /\ \A i \in 1..Len(t) : i + 1 \in 1..Len(q) /\ t[i] = q[i + 1]
  <2>1. /\ Tail(q) \in Seq(S) /\ Head(q) = q[1] /\ 1 \in 1..Len(q)
        /\ \A i \in 1..Len(Tail(q)) : i + 1 \in 1..Len(q) /\ Tail(q)[i] = q[i + 1]
    BY Removed
  <2>2. Len(Tail(q)) \in Nat
    BY <2>1
  <2> QED
    BY <2>1, <2>2
<1>2. \A i, j \in 1..Len(t) : i + 1 = j + 1 => i = j
  OBVIOUS
<1>3. Once(t)
  BY <1>1, <1>2 DEF Once
<1>4. \A i \in 1..Len(t) : i + 1 # 1
  OBVIOUS
<1>5. ASSUME Head(q) # Resp, NEW i \in 1..Len(t) PROVE t[i] # Head(q)
  BY <1>1, <1>4, <1>5 DEF Once
<1> QED
  BY <1>1, <1>3, <1>5

\* A queue without repetitions has none with one more that is not in it.
LEMMA AppendOnce ==
  ASSUME NEW S, NEW q \in Seq(S), NEW x \in S, Once(q),
         x = Resp \/ \A i \in 1..Len(q) : q[i] # x
  PROVE  /\ Once(Append(q, x))
         /\ \A i \in 1..Len(Append(q, x)) :
              Append(q, x)[i] = x \/ \E j \in 1..Len(q) : Append(q, x)[i] = q[j]
<1>1. PICK t \in Seq(S) :
        /\ t = Append(q, x)
        /\ \A i \in 1..Len(q) : t[i] = q[i]
        /\ t[Len(q) + 1] = x
        /\ \A i \in 1..Len(t) : i \in 1..Len(q) \/ i = Len(q) + 1
  BY Added
<1>2. Once(t)
  BY <1>1 DEF Once
<1> QED
  BY <1>1, <1>2

\* What is known of the sender of a NewConn.
Sent(s, u, h) ==
  /\ Once(s)
  /\ \A i \in 1..Len(s), v \in Users :
       s[i] = NewConn(v) => u[v] \notin {"none", "notify"} /\ h[v] = "none"
  /\ \A v \in Users : h[v] # "none" => u[v] \notin {"none", "notify"}

\* Every step keeps NotifiedOnce.
LEMMA NotifiedNext ==
  ASSUME TypeOK, NotifiedOnce, TypeOK', [Next]_vars
  PROVE  NotifiedOnce'
<1>1. /\ Once(s2c) /\ s2c \in Seq(ToClient)
      /\ user \in [Users -> Status]
      /\ handler \in [Users -> {"none", "open", "dial", "joined", "closed"}]
  BY Typed DEF NotifiedOnce, Once, TypeOK, Status
<1>2. SUFFICES Sent(s2c', user', handler')
  BY DEF NotifiedOnce, Sent, Once
<1>3. Sent(s2c, user, handler)
  BY DEF NotifiedOnce, Sent, Once
<1>4. ASSUME RecvAnswer PROVE Sent(s2c', user', handler')
  <2>1. Once(s2c') /\ \A i \in 1..Len(s2c') : \E j \in 1..Len(s2c) : s2c'[i] = s2c[j]
    BY <1>1, <1>4, TailOnce DEF RecvAnswer
  <2> QED
    BY <1>3, <1>4, <2>1 DEF RecvAnswer, Sent
<1>5. ASSUME RecvControl PROVE Sent(s2c', user', handler')
  <2>1. /\ Once(s2c') /\ \A i \in 1..Len(s2c') : \E j \in 1..Len(s2c) : s2c'[i] = s2c[j]
        /\ Head(s2c) # Resp => \A i \in 1..Len(s2c') : s2c'[i] # Head(s2c)
    BY <1>1, <1>5, TailOnce DEF RecvControl
  <2>2. CASE Head(s2c) = Resp
    BY <1>3, <1>5, <2>1, <2>2 DEF RecvControl, Sent
  <2>3. CASE Head(s2c) # Resp
    <3>1. PICK v \in Users : Head(s2c) = NewConn(v)
      BY <1>1, <1>5, <2>3, Typed, Removed DEF RecvControl
    <3>2. handler' = [handler EXCEPT ![v] = "open"] /\ user' = user
      BY <1>5, <2>3, <3>1, Messages DEF RecvControl
    <3>3. 1 \in 1..Len(s2c) /\ s2c[1] = NewConn(v)
      BY <1>1, <1>5, <3>1, Removed DEF RecvControl
    <3>4. user[v] \notin {"none", "notify"}
      BY <1>3, <3>3 DEF Sent
    <3>5. ASSUME NEW i \in 1..Len(s2c'), NEW w \in Users, s2c'[i] = NewConn(w)
          PROVE  user'[w] \notin {"none", "notify"} /\ handler'[w] = "none"
      <4>1. w # v
        BY <2>1, <2>3, <3>1, <3>5
      <4>2. PICK j \in 1..Len(s2c) : s2c[j] = NewConn(w)
        BY <2>1, <3>5
      <4> QED
        BY <1>1, <1>3, <3>2, <4>1, <4>2 DEF Sent
    <3>6. \A w \in Users : handler'[w] # "none" => user'[w] \notin {"none", "notify"}
      BY <1>1, <1>3, <3>2, <3>4 DEF Sent
    <3> QED
      BY <2>1, <3>5, <3>6 DEF Sent
  <2> QED
    BY <2>2, <2>3
<1>6. ASSUME ServeNewProxy PROVE Sent(s2c', user', handler')
  <2>1. Resp \in ToClient
    BY DEF ToClient
  <2>2. /\ Once(s2c')
        /\ \A i \in 1..Len(s2c') : s2c'[i] = Resp \/ \E j \in 1..Len(s2c) : s2c'[i] = s2c[j]
    BY <1>1, <1>6, <2>1, AppendOnce DEF ServeNewProxy
  <2> QED
    BY <1>3, <1>6, <2>2, Messages DEF ServeNewProxy, Sent
<1>7. ASSUME NEW v \in Users, NotifyClient(v), session = "open" PROVE Sent(s2c', user', handler')
  <2>1. /\ NewConn(v) \in ToClient /\ s2c' = Append(s2c, NewConn(v)) /\ handler' = handler
        /\ user' = [user EXCEPT ![v] = "waiting"] /\ user[v] = "notify"
    BY <1>7 DEF ToClient, NotifyClient
  <2>2. \A i \in 1..Len(s2c) : s2c[i] # NewConn(v)
    BY <1>3, <2>1 DEF Sent
  <2>3. /\ Once(s2c')
        /\ \A i \in 1..Len(s2c') :
             s2c'[i] = NewConn(v) \/ \E j \in 1..Len(s2c) : s2c'[i] = s2c[j]
    BY <1>1, <2>1, <2>2, AppendOnce
  <2>4. handler[v] = "none" /\ user'[v] = "waiting" /\ \A w \in Users : w # v => user'[w] = user[w]
    BY <1>1, <1>3, <2>1 DEF Sent
  <2>5. ASSUME NEW i \in 1..Len(s2c'), NEW w \in Users, s2c'[i] = NewConn(w)
        PROVE  user'[w] \notin {"none", "notify"} /\ handler'[w] = "none"
    <3>1. CASE w = v
      BY <2>1, <2>4, <3>1
    <3>2. CASE w # v
      <4>1. PICK j \in 1..Len(s2c) : s2c[j] = NewConn(w)
        BY <2>3, <2>5, <3>2, Messages
      <4> QED
        BY <1>3, <2>1, <2>4, <3>2, <4>1 DEF Sent
    <3> QED
      BY <3>1, <3>2
  <2>6. \A w \in Users : handler'[w] # "none" => user'[w] \notin {"none", "notify"}
    BY <1>3, <2>1, <2>4 DEF Sent
  <2> QED
    BY <2>3, <2>5, <2>6 DEF Sent
<1>8. ASSUME NEW v \in Users, NEW n \in Names, AcceptUser(v, n) PROVE Sent(s2c', user', handler')
  <2>1. \A i \in 1..Len(s2c) : s2c[i] # NewConn(v)
    BY <1>3, <1>8 DEF Sent, AcceptUser
  <2>2. handler[v] = "none" /\ \A w \in Users : w # v => user'[w] = user[w]
    BY <1>1, <1>3, <1>8 DEF Sent, AcceptUser
  <2>3. s2c' = s2c /\ handler' = handler
    BY <1>8 DEF AcceptUser
  <2> QED
    BY <1>3, <2>1, <2>2, <2>3 DEF Sent
<1>9. ASSUME s2c' = s2c, handler' = handler,
             \A w \in Users : user'[w] = user[w] \/ user'[w] \notin {"none", "notify"}
      PROVE  Sent(s2c', user', handler')
  BY <1>3, <1>9 DEF Sent
<1>10. ASSUME NEW v \in Users, (NotifyClient(v) /\ session # "open") \/ AcceptStream(v) \/ AcceptFails(v) \/ UserJoinEnds(v)
       PROVE  Sent(s2c', user', handler')
  <2>1. /\ s2c' = s2c /\ handler' = handler
        /\ \E c \in {"joined", "closed"} : user' = [user EXCEPT ![v] = c]
    BY <1>10 DEF NotifyClient, AcceptStream, AcceptFails, UserJoinEnds
  <2>2. \A w \in Users : user'[w] = user[w] \/ user'[w] \notin {"none", "notify"}
    BY <1>1, <2>1
  <2> QED
    BY <1>9, <2>1, <2>2
<1>11. ASSUME NEW v \in Users, OpenStream(v) \/ DialLocal(v) \/ ClientJoinEnds(v)
       PROVE  Sent(s2c', user', handler')
  <2>1. /\ s2c' = s2c /\ user' = user /\ handler[v] # "none"
        /\ \E c \in {"dial", "joined", "closed"} : handler' = [handler EXCEPT ![v] = c]
    BY <1>11 DEF OpenStream, DialLocal, ClientJoinEnds
  <2>2. \A w \in Users : handler'[w] = "none" <=> handler[w] = "none"
    BY <1>1, <2>1
  <2> QED
    BY <1>3, <2>1, <2>2 DEF Sent
<1>12. ASSUME UNCHANGED <<s2c, user, handler>> PROVE Sent(s2c', user', handler')
  BY <1>3, <1>12
<1> QED
  BY <1>4, <1>5, <1>6, <1>7, <1>8, <1>10, <1>11, <1>12
     DEF Next, ClientStep, ServerStep, SendNewProxy, StartServing, RecvFails, CleanupClient,
         SessionDies

-----------------------------------------------------------------------------
(* Data streams *)

Opened == {"dial", "joined", "closed"}

\* What is known of the data streams.
Placed(q, h, st) ==
  /\ \A i, j \in 1..Len(q) : q[i] = q[j] => i = j
  /\ \A i \in 1..Len(q) : h[q[i]] \in Opened
  /\ \A v \in Users : st[v] # None =>
       /\ h[st[v]] \in Opened
       /\ \A i \in 1..Len(q) : q[i] # st[v]
       /\ \A w \in Users : st[w] = st[v] => w = v

\* Every step keeps StreamsOnce.
LEMMA PlacedNext ==
  ASSUME TypeOK, NotifiedOnce, StreamsOnce, [Next]_vars
  PROVE  StreamsOnce'
<1>1. /\ queue \in Seq(Users) /\ stream \in [Users -> Users \cup {None}]
      /\ handler \in [Users -> {"none", "open", "dial", "joined", "closed"}]
      /\ \A i \in 1..Len(queue) : queue[i] \in Users
      /\ \A v \in Users : stream[v] # None => stream[v] \in Users
  BY DEF TypeOK
<1>2. SUFFICES Placed(queue', handler', stream')
  BY DEF StreamsOnce, Placed, Opened
<1>3. Placed(queue, handler, stream)
  BY DEF StreamsOnce, Placed, Opened
\* A handler that has opened its stream, or none, is not undone.
<1>4. ASSUME queue' = queue, stream' = stream,
             \A w \in Users : handler[w] \in Opened => handler'[w] \in Opened
      PROVE  Placed(queue', handler', stream')
  BY <1>1, <1>3, <1>4 DEF Placed
<1>5. ASSUME RecvControl PROVE Placed(queue', handler', stream')
  <2>1. CASE Head(s2c) = Resp
    BY <1>4, <1>5, <2>1 DEF RecvControl
  <2>2. CASE Head(s2c) # Resp
    <3>1. s2c # <<>> /\ s2c \in Seq(ToClient)
      BY <1>5, Typed DEF RecvControl
    <3>2. Head(s2c) = s2c[1] /\ 1 \in 1..Len(s2c) /\ s2c[1] \in ToClient
      BY <3>1, Removed
    <3>3. PICK v \in Users : Head(s2c) = NewConn(v) /\ s2c[1] = NewConn(v)
      BY <2>2, <3>2, Typed
    <3>4. handler[v] = "none"
      BY <3>2, <3>3 DEF NotifiedOnce
    <3>5. handler' = [handler EXCEPT ![v] = "open"]
      BY <1>5, <2>2, <3>3, Messages DEF RecvControl
    <3>6. \A w \in Users : handler[w] \in Opened => handler'[w] \in Opened
      BY <1>1, <3>4, <3>5 DEF Opened
    <3> QED
      BY <1>4, <1>5, <3>6 DEF RecvControl
  <2> QED
    BY <2>1, <2>2
<1>6. ASSUME NEW v \in Users, OpenStream(v), session = "open"
      PROVE  Placed(queue', handler', stream')
  <2>1. /\ queue' = Append(queue, v) /\ handler' = [handler EXCEPT ![v] = "dial"]
        /\ stream' = stream /\ handler[v] = "open"
    BY <1>6 DEF OpenStream
  <2>2. /\ \A i \in 1..Len(queue) : queue[i] # v
        /\ \A w \in Users : stream[w] # None => stream[w] # v
    BY <1>3, <2>1 DEF Placed, Opened
  <2>3. /\ \A i \in 1..Len(queue) : queue'[i] = queue[i]
        /\ queue'[Len(queue) + 1] = v
        /\ \A i \in 1..Len(queue') : i \in 1..Len(queue) \/ i = Len(queue) + 1
    BY <1>1, <2>1, Added
  <2>4. handler'[v] \in Opened /\ \A w \in Users : w # v => handler'[w] = handler[w]
    BY <1>1, <2>1 DEF Opened
  <2>5. \A i, j \in 1..Len(queue') : queue'[i] = queue'[j] => i = j
    BY <1>3, <2>2, <2>3 DEF Placed
  <2>6. \A i \in 1..Len(queue') : handler'[queue'[i]] \in Opened
    BY <1>1, <1>3, <2>2, <2>3, <2>4 DEF Placed
  <2>7. ASSUME NEW w \in Users, stream'[w] # None
        PROVE  /\ handler'[stream'[w]] \in Opened
               /\ \A i \in 1..Len(queue') : queue'[i] # stream'[w]
               /\ \A u \in Users : stream'[u] = stream'[w] => u = w
    <3>1. stream'[w] = stream[w] /\ stream[w] \in Users /\ stream[w] # v
      BY <1>1, <2>1, <2>2, <2>7
    <3>2. handler'[stream[w]] \in Opened
      BY <1>3, <2>4, <2>7, <3>1 DEF Placed
    <3>3. \A i \in 1..Len(queue') : queue'[i] # stream[w]
      BY <1>3, <2>3, <2>7, <3>1 DEF Placed
    <3> QED
      BY <1>3, <2>1, <2>7, <3>1, <3>2, <3>3 DEF Placed
  <2> QED
    BY <2>5, <2>6, <2>7 DEF Placed
<1>7. ASSUME NEW v \in Users, (OpenStream(v) /\ session # "open") \/ DialLocal(v) \/ ClientJoinEnds(v)
      PROVE  Placed(queue', handler', stream')
  <2>1. /\ queue' = queue /\ stream' = stream
        /\ \E c \in Opened : handler' = [handler EXCEPT ![v] = c]
    BY <1>7 DEF OpenStream, DialLocal, ClientJoinEnds, Opened
  <2>2. \A w \in Users : handler[w] \in Opened => handler'[w] \in Opened
    BY <1>1, <2>1
  <2> QED
    BY <1>4, <2>1, <2>2
<1>8. ASSUME NEW v \in Users, AcceptStream(v) PROVE Placed(queue', handler', stream')
  <2>1. /\ queue' = Tail(queue) /\ queue # <<>> /\ handler' = handler
        /\ stream' = [stream EXCEPT ![v] = Head(queue)]
    BY <1>8 DEF AcceptStream
  <2>2. /\ Len(queue) \in Nat /\ 1 \in 1..Len(queue) /\ Head(queue) = queue[1]
        /\ queue' \in Seq(Users)
        /\ \A i \in 1..Len(queue') : i + 1 \in 1..Len(queue) /\ queue'[i] = queue[i + 1]
    BY <1>1, <2>1, Removed
  <2>3. PICK x \in Users : x = queue[1] /\ stream' = [stream EXCEPT ![v] = x]
    BY <1>1, <2>1, <2>2
  <2>4. \A i, j \in 1..Len(queue') : i + 1 # 1 /\ (i + 1 = j + 1 => i = j)
    OBVIOUS
  <2>5. \A i \in 1..Len(queue') : queue'[i] # x
    BY <1>3, <2>2, <2>3, <2>4 DEF Placed
  <2>6. \A i, j \in 1..Len(queue') : queue'[i] = queue'[j] => i = j
    BY <1>3, <2>2, <2>4 DEF Placed
  <2>7. handler[x] \in Opened /\ \A w \in Users : stream[w] # None => stream[w] # x
    BY <1>3, <2>2, <2>3 DEF Placed
  <2>8. \A i \in 1..Len(queue') : handler'[queue'[i]] \in Opened
    BY <1>3, <2>1, <2>2 DEF Placed
  <2>9. x # None /\ stream'[v] = x /\ \A w \in Users : w # v => stream'[w] = stream[w]
    BY <1>1, <2>3, TunnelAssumption
  <2>10. ASSUME NEW w \in Users, stream'[w] # None
         PROVE  /\ handler'[stream'[w]] \in Opened
                /\ \A i \in 1..Len(queue') : queue'[i] # stream'[w]
                /\ \A u \in Users : stream'[u] = stream'[w] => u = w
    <3>1. CASE w = v
      BY <2>1, <2>5, <2>7, <2>9, <3>1
    <3>2. CASE w # v
      <4>1. stream'[w] = stream[w] /\ stream[w] # None
        BY <2>9, <2>10, <3>2
      <4>2. handler'[stream[w]] \in Opened /\ \A i \in 1..Len(queue) : queue[i] # stream[w]
        BY <1>3, <2>1, <4>1 DEF Placed
      <4>3. \A u \in Users : stream'[u] = stream[w] => u = w
        BY <1>3, <2>7, <2>9, <4>1 DEF Placed
      <4> QED
        BY <2>2, <4>1, <4>2, <4>3
    <3> QED
      BY <3>1, <3>2
  <2> QED
    BY <2>6, <2>8, <2>10 DEF Placed
<1>9. ASSUME UNCHANGED <<queue, handler, stream>> PROVE Placed(queue', handler', stream')
  BY <1>3, <1>9
<1> QED
  BY <1>5, <1>6, <1>7, <1>8, <1>9
     DEF Next, ClientStep, ServerStep, SendNewProxy, RecvAnswer, StartServing, RecvFails,
         ServeNewProxy, CleanupClient, SessionDies, AcceptUser, NotifyClient, AcceptFails,
         UserJoinEnds

\* The initial state satisfies the invariant.
LEMMA TunnelInit ==
  ASSUME Init
  PROVE  TunnelInv
<1>1. GaugeExact
  <2>1. {v \in Users : user[v] = "joined"} = {}
    BY DEF Init
  <2> QED
    BY <2>1, FS_EmptySet DEF Init, GaugeExact
<1>2. TypeOK
  <2>1. activeConns \in 0..Cardinality(Users)
    BY <1>1, CountType DEF GaugeExact, Count
  <2>2. c2s \in Seq(Names) /\ s2c \in Seq({Resp} \cup {NewConn(v) : v \in Users}) /\ queue \in Seq(Users)
    BY DEF Init
  <2> QED
    BY <2>1, <2>2 DEF Init, TypeOK
<1>3. NotifiedOnce /\ StreamsOnce
  BY DEF Init, NotifiedOnce, StreamsOnce
<1> QED
  BY <1>1, <1>2, <1>3 DEF TunnelInv

\* Every step preserves the invariant.
LEMMA TunnelNext ==
  ASSUME TunnelInv, [Next]_vars
  PROVE  TunnelInv'
<1>1. GaugeExact'
  BY GaugeNext DEF TunnelInv
<1>2. TypeOK'
  BY <1>1, TypeNext DEF TunnelInv
<1>3. NotifiedOnce'
  BY <1>2, NotifiedNext DEF TunnelInv
<1>4. StreamsOnce'
  BY PlacedNext DEF TunnelInv
<1> QED
  BY <1>1, <1>2, <1>3, <1>4 DEF TunnelInv

\* server.go, handleUserConnection, and client.go, handleNewConn: for any
\* number of users, a NewConn starts one handler, the data stream it opens is
\* accepted once, and ActiveConns counts the joined users exactly.
THEOREM TunnelSafety == Spec => []TunnelInv
<1>1. Init => TunnelInv
  BY TunnelInit
<1>2. TunnelInv /\ [Next]_vars => TunnelInv'
  BY TunnelNext
<1> QED
  BY <1>1, <1>2, PTL DEF Spec

-----------------------------------------------------------------------------
(* Streams and the users that wait for them *)

AnnouncedIn(s) == {v \in Users : \E i \in 1..Len(s) : s[i] = NewConn(v)}

\* Sets of users that differ by one user differ by one in number.
LEMMA FewerAnnounced ==
  ASSUME NEW S \in SUBSET Users, NEW T \in SUBSET Users
  PROVE  /\ Cardinality(S) \in Nat
         /\ T \subseteq S => Cardinality(T) <= Cardinality(S)
         /\ \A v \in Users : T \subseteq S \cup {v} => Cardinality(T) <= Cardinality(S) + 1
         /\ \A v \in S : T \subseteq S \ {v} => Cardinality(T) + 1 <= Cardinality(S)
<1>1. IsFiniteSet(S) /\ IsFiniteSet(T)
  BY TunnelAssumption, FS_Subset
<1>2. Cardinality(S) \in Nat /\ Cardinality(T) \in Nat
  BY <1>1, FS_CardinalityType
<1>3. T \subseteq S => Cardinality(T) <= Cardinality(S)
  BY <1>1, FS_Subset
<1>4. ASSUME NEW v \in Users, T \subseteq S \cup {v} PROVE Cardinality(T) <= Cardinality(S) + 1
  <2>1. IsFiniteSet(S \cup {v}) /\ Cardinality(S \cup {v}) <= Cardinality(S) + 1
    <3>1. /\ IsFiniteSet(S \cup {v})
          /\ Cardinality(S \cup {v}) \in {Cardinality(S), Cardinality(S) + 1}
      BY <1>1, FS_AddElement
    <3> QED
      BY <1>2, <3>1
  <2>2. Cardinality(T) <= Cardinality(S \cup {v})
    BY <1>4, <2>1, FS_Subset
  <2>3. Cardinality(S \cup {v}) \in Nat
    BY <2>1, FS_CardinalityType
  <2> QED
    BY <1>2, <2>1, <2>2, <2>3
<1>5. ASSUME NEW v \in S, T \subseteq S \ {v} PROVE Cardinality(T) + 1 <= Cardinality(S)
  <2>1. IsFiniteSet(S \ {v}) /\ Cardinality(S \ {v}) = Cardinality(S) - 1
    BY <1>1, FS_RemoveElement
  <2>2. Cardinality(T) <= Cardinality(S \ {v})
    BY <1>5, <2>1, FS_Subset
  <2> QED
    BY <1>2, <2>1, <2>2
<1> QED
  BY <1>2, <1>3, <1>4, <1>5

\* There are as many waiting users as streams on their way.
Enough(q, s, h, u) ==
  Count(u, "waiting") >= Len(q) + (Cardinality(AnnouncedIn(s)) + Count(h, "open"))

\* Enough as an inequality between numbers.
LEMMA EnoughNumbers ==
  ASSUME NEW q \in Seq(Users), NEW s, NEW h, NEW u
  PROVE  \E n \in Nat, a \in Nat, o \in Nat, w \in Nat :
           /\ n = Len(q) /\ a = Cardinality(AnnouncedIn(s))
           /\ o = Count(h, "open") /\ w = Count(u, "waiting")
           /\ Enough(q, s, h, u) <=> w >= n + (a + o)
<1>1. AnnouncedIn(s) \in SUBSET Users
  BY DEF AnnouncedIn
<1>2. /\ Len(q) \in Nat /\ Cardinality(AnnouncedIn(s)) \in Nat
      /\ Count(h, "open") \in Nat /\ Count(u, "waiting") \in Nat
  BY <1>1, FewerAnnounced, CountType
<1> QED
  BY <1>2 DEF Enough

\* The first part of StreamsMatched in terms of Enough.
LEMMA MatchedEnough ==
  ASSUME TypeOK
  PROVE  Waiters >= Streams <=> Enough(queue, s2c, handler, user)
<1>1. Announced = AnnouncedIn(s2c)
  BY DEF Announced, AnnouncedIn
<1>2. /\ Len(queue) \in Nat /\ Cardinality(AnnouncedIn(s2c)) \in Nat
      /\ Count(handler, "open") \in Nat /\ Count(user, "waiting") \in Nat
  BY EnoughNumbers DEF TypeOK
<1>3. Streams = Len(queue) + (Cardinality(AnnouncedIn(s2c)) + Count(handler, "open"))
  <2>1. Streams = Len(queue) + Cardinality(AnnouncedIn(s2c)) + Count(handler, "open")
    BY <1>1 DEF Streams, Count
  <2>2. \A n, a, o \in Nat : n + a + o = n + (a + o)
    OBVIOUS
  <2> QED
    BY <1>2, <2>1, <2>2
<1>4. Waiters = Count(user, "waiting")
  BY DEF Waiters, Count
<1> QED
  BY <1>3, <1>4 DEF Enough

\* MatchedEnough for the next state.
LEMMA MatchedEnoughPrimed ==
  ASSUME TypeOK'
  PROVE  (Waiters >= Streams)' <=> Enough(queue', s2c', handler', user')
<1>1. Announced' = AnnouncedIn(s2c')
  BY DEF Announced, AnnouncedIn
<1>2. /\ Len(queue') \in Nat /\ Cardinality(AnnouncedIn(s2c')) \in Nat
      /\ Count(handler', "open") \in Nat /\ Count(user', "waiting") \in Nat
  BY EnoughNumbers DEF TypeOK
<1>3. Streams' = Len(queue') + (Cardinality(AnnouncedIn(s2c')) + Count(handler', "open"))
  <2>1. Streams' = Len(queue') + Cardinality(AnnouncedIn(s2c')) + Count(handler', "open")
    BY <1>1 DEF Streams, Count
  <2>2. \A n, a, o \in Nat : n + a + o = n + (a + o)
    OBVIOUS
  <2> QED
    BY <1>2, <2>1, <2>2
<1>4. Waiters' = Count(user', "waiting")
  BY DEF Waiters, Count
<1> QED
  BY <1>3, <1>4 DEF Enough

\* As long as the session is open no step takes a waiting user from a stream.
LEMMA EnoughNext ==
  ASSUME TunnelInv, TypeOK', Next, session = "open", session' = "open",
         Enough(queue, s2c, handler, user)
  PROVE  Enough(queue', s2c', handler', user')
<1>1. /\ queue \in Seq(Users) /\ queue' \in Seq(Users) /\ s2c \in Seq(ToClient)
      /\ user \in [Users -> Status]
      /\ handler \in [Users -> {"none", "open", "dial", "joined", "closed"}]
  BY Typed DEF TunnelInv, TypeOK, Status
<1>2. PICK n \in Nat, a \in Nat, o \in Nat, w \in Nat :
        /\ n = Len(queue) /\ a = Cardinality(AnnouncedIn(s2c))
        /\ o = Count(handler, "open") /\ w = Count(user, "waiting")
        /\ w >= n + (a + o)
  BY <1>1, EnoughNumbers
<1>3. PICK n1 \in Nat, a1 \in Nat, o1 \in Nat, w1 \in Nat :
        /\ n1 = Len(queue') /\ a1 = Cardinality(AnnouncedIn(s2c'))
        /\ o1 = Count(handler', "open") /\ w1 = Count(user', "waiting")
        /\ Enough(queue', s2c', handler', user') <=> w1 >= n1 + (a1 + o1)
  BY <1>1, EnoughNumbers
<1>4. AnnouncedIn(s2c) \in SUBSET Users /\ AnnouncedIn(s2c') \in SUBSET Users
  BY DEF AnnouncedIn
<1>balance. w >= n + (a + o)
  BY <1>2
<1>5. ASSUME AnnouncedIn(s2c') \subseteq AnnouncedIn(s2c) PROVE a1 <= a
  BY <1>2, <1>3, <1>4, <1>5, FewerAnnounced
<1>6. ASSUME queue' = queue, s2c' = s2c,
             \A x \in Users : user'[x] = "waiting" <=> user[x] = "waiting",
             \A x \in Users : handler'[x] = "open" <=> handler[x] = "open"
      PROVE  Enough(queue', s2c', handler', user')
  <2>1. w1 = w /\ o1 = o
    BY <1>2, <1>3, <1>6, CountSame, ZenonT(30)
  <2> QED
    BY <1>2, <1>3, <1>6, <2>1
<1>7. ASSUME queue' = queue, handler' = handler, user' = user,
             AnnouncedIn(s2c') \subseteq AnnouncedIn(s2c)
      PROVE  Enough(queue', s2c', handler', user')
  <2>1. w1 = w /\ o1 = o /\ n1 = n /\ a1 <= a
    BY <1>2, <1>3, <1>5, <1>7
  <2> QED
    BY <1>2, <1>3, <2>1, SMTT(30)
<1>8. ASSUME RecvAnswer PROVE Enough(queue', s2c', handler', user')
  <2>1. \A i \in 1..Len(s2c') : i + 1 \in 1..Len(s2c) /\ s2c'[i] = s2c[i + 1]
    BY <1>1, <1>8, Removed DEF RecvAnswer
  <2>2. AnnouncedIn(s2c') \subseteq AnnouncedIn(s2c)
    BY <2>1 DEF AnnouncedIn
  <2> QED
    BY <1>7, <1>8, <2>2 DEF RecvAnswer
<1>9. ASSUME RecvControl PROVE Enough(queue', s2c', handler', user')
  <2>1. /\ \A i \in 1..Len(s2c') : i + 1 \in 1..Len(s2c) /\ s2c'[i] = s2c[i + 1]
        /\ s2c[1] \in ToClient /\ Head(s2c) = s2c[1] /\ 1 \in 1..Len(s2c)
    BY <1>1, <1>9, Removed DEF RecvControl
  <2>2. AnnouncedIn(s2c') \subseteq AnnouncedIn(s2c)
    BY <2>1 DEF AnnouncedIn
  <2>3. CASE Head(s2c) = Resp
    BY <1>7, <1>9, <2>2, <2>3 DEF RecvControl
  <2>4. CASE Head(s2c) # Resp
    <3>1. PICK v \in Users : Head(s2c) = NewConn(v) /\ s2c[1] = NewConn(v)
      BY <2>1, <2>4, Typed DEF TunnelInv
    <3>2. /\ handler' = [handler EXCEPT ![v] = "open"] /\ user' = user /\ queue' = queue
          /\ s2c' = Tail(s2c) /\ s2c # <<>>
      BY <1>9, <2>4, <3>1, Messages DEF RecvControl
    <3>3. handler[v] = "none"
      BY <2>1, <3>1 DEF TunnelInv, NotifiedOnce
    <3>4. o1 = o + 1
      <4>1. /\ handler[v] # "open" /\ handler'[v] = "open"
            /\ \A x \in Users : x # v => (handler'[x] = "open" <=> handler[x] = "open")
        BY <1>1, <3>2, <3>3
      <4> QED
        BY <1>2, <1>3, <4>1, CountUp
    <3>5. \A i \in 1..Len(s2c') : s2c'[i] # NewConn(v)
      <4>1. Once(s2c)
        BY DEF TunnelInv, NotifiedOnce, Once
      <4> QED
        BY <1>1, <2>4, <3>1, <3>2, <4>1, TailOnce
    <3>6. v \in AnnouncedIn(s2c) /\ AnnouncedIn(s2c') \subseteq AnnouncedIn(s2c) \ {v}
      BY <2>1, <2>2, <3>1, <3>5 DEF AnnouncedIn
    <3>7. a1 + 1 <= a
      BY <1>2, <1>3, <1>4, <3>6, FewerAnnounced
    <3>8. n1 = n /\ w1 = w
      BY <1>2, <1>3, <3>2
    <3>9. w1 >= n1 + (a1 + o1)
      BY <1>balance, <3>4, <3>7, <3>8
    <3> QED
      BY <1>3, <3>9
  <2> QED
    BY <2>3, <2>4
<1>10. ASSUME ServeNewProxy PROVE Enough(queue', s2c', handler', user')
  <2>1. Resp \in ToClient
    BY DEF ToClient
  <2>2. /\ \A i \in 1..Len(s2c) : s2c'[i] = s2c[i]
        /\ s2c'[Len(s2c) + 1] = Resp
        /\ \A i \in 1..Len(s2c') : i \in 1..Len(s2c) \/ i = Len(s2c) + 1
    BY <1>1, <1>10, <2>1, Added DEF ServeNewProxy
  <2>3. AnnouncedIn(s2c') \subseteq AnnouncedIn(s2c)
    BY <2>2, Messages DEF AnnouncedIn
  <2> QED
    BY <1>7, <1>10, <2>3 DEF ServeNewProxy
<1>11. ASSUME NEW v \in Users, NotifyClient(v) PROVE Enough(queue', s2c', handler', user')
  <2>1. /\ user[v] = "notify" /\ user' = [user EXCEPT ![v] = "waiting"]
        /\ s2c' = Append(s2c, NewConn(v)) /\ queue' = queue /\ handler' = handler
    BY <1>11 DEF NotifyClient
  <2>2. NewConn(v) \in ToClient
    BY DEF ToClient
  <2>3. /\ \A i \in 1..Len(s2c) : s2c'[i] = s2c[i]
        /\ s2c'[Len(s2c) + 1] = NewConn(v)
        /\ \A i \in 1..Len(s2c') : i \in 1..Len(s2c) \/ i = Len(s2c) + 1
    BY <1>1, <2>1, <2>2, Added
  <2>4. AnnouncedIn(s2c') \subseteq AnnouncedIn(s2c) \cup {v}
    BY <2>3, Messages DEF AnnouncedIn
  <2>5. a1 <= a + 1
    BY <1>2, <1>3, <1>4, <2>4, FewerAnnounced
  <2>6. w1 = w + 1
    <3>1. /\ user[v] # "waiting" /\ user'[v] = "waiting"
          /\ \A x \in Users : x # v => (user'[x] = "waiting" <=> user[x] = "waiting")
      BY <1>1, <2>1
    <3> QED
      BY <1>2, <1>3, <3>1, CountUp
  <2>7. n1 = n /\ o1 = o
    BY <1>2, <1>3, <2>1
  <2>8. w1 >= n1 + (a1 + o1)
    BY <1>balance, <2>5, <2>6, <2>7
  <2> QED
    BY <1>3, <2>8
<1>12. ASSUME NEW v \in Users, OpenStream(v) PROVE Enough(queue', s2c', handler', user')
  <2>1. /\ handler[v] = "open" /\ handler' = [handler EXCEPT ![v] = "dial"]
        /\ queue' = Append(queue, v) /\ user' = user /\ s2c' = s2c
    BY <1>12 DEF OpenStream
  <2>2. n1 = n + 1
    BY <1>1, <1>2, <1>3, <2>1, Added
  <2>3. o = o1 + 1
    <3>1. /\ handler'[v] # "open" /\ handler[v] = "open"
          /\ \A x \in Users : x # v => (handler[x] = "open" <=> handler'[x] = "open")
      BY <1>1, <2>1
    <3> QED
      BY <1>2, <1>3, <3>1, CountUp
  <2>4. a1 = a /\ w1 = w
    BY <1>2, <1>3, <2>1
  <2>5. w1 >= n1 + (a1 + o1)
    BY <1>balance, <2>2, <2>3, <2>4
  <2> QED
    BY <1>3, <2>5
<1>13. ASSUME NEW v \in Users, AcceptStream(v) PROVE Enough(queue', s2c', handler', user')
  <2>1. /\ user[v] = "waiting" /\ user' = [user EXCEPT ![v] = "joined"]
        /\ queue # <<>> /\ queue' = Tail(queue) /\ handler' = handler /\ s2c' = s2c
    BY <1>13 DEF AcceptStream
  <2>2. n1 = n - 1
    BY <1>1, <1>2, <1>3, <2>1, Removed
  <2>3. w = w1 + 1
    <3>1. /\ user'[v] # "waiting" /\ user[v] = "waiting"
          /\ \A x \in Users : x # v => (user[x] = "waiting" <=> user'[x] = "waiting")
      BY <1>1, <2>1
    <3> QED
      BY <1>2, <1>3, <3>1, CountUp
  <2>4. a1 = a /\ o1 = o
    BY <1>2, <1>3, <2>1
  <2>5. w1 >= n1 + (a1 + o1)
    BY <1>balance, <2>2, <2>3, <2>4
  <2> QED
    BY <1>3, <2>5
<1>14. ASSUME NEW v \in Users, (\E p \in Names : AcceptUser(v, p)) \/ UserJoinEnds(v)
       PROVE  Enough(queue', s2c', handler', user')
  <2>1. /\ user[v] \in {"none", "joined"} /\ UNCHANGED <<queue, s2c, handler>>
        /\ \E c \in {"notify", "closed"} : user' = [user EXCEPT ![v] = c]
    BY <1>14 DEF AcceptUser, UserJoinEnds
  <2>2. \A x \in Users : user'[x] = "waiting" <=> user[x] = "waiting"
    BY <1>1, <2>1
  <2> QED
    BY <1>6, <2>1, <2>2
<1>15. ASSUME NEW v \in Users, DialLocal(v) \/ ClientJoinEnds(v)
       PROVE  Enough(queue', s2c', handler', user')
  <2>1. /\ handler[v] \in {"dial", "joined"} /\ UNCHANGED <<queue, s2c, user>>
        /\ \E c \in {"joined", "closed"} : handler' = [handler EXCEPT ![v] = c]
    BY <1>15 DEF DialLocal, ClientJoinEnds
  <2>2. \A x \in Users : handler'[x] = "open" <=> handler[x] = "open"
    BY <1>1, <2>1
  <2> QED
    BY <1>6, <2>1, <2>2
<1>16. ASSUME UNCHANGED <<queue, s2c, handler, user>>
       PROVE  Enough(queue', s2c', handler', user')
  BY <1>6, <1>16
<1> QED
  BY <1>8, <1>9, <1>10, <1>11, <1>12, <1>13, <1>14, <1>15, <1>16
     DEF Next, ClientStep, ServerStep, SendNewProxy, StartServing, RecvFails, CleanupClient,
         SessionDies, AcceptFails

\* Every step preserves StreamsMatched.
LEMMA MatchedNext ==
  ASSUME TunnelInv, TunnelInv', StreamsMatched, [Next]_vars
  PROVE  StreamsMatched'
<1>1. \A v, w \in Users : stream'[v] = stream'[w] /\ stream'[v] # None => v = w
  BY DEF TunnelInv, StreamsOnce
<1>2. ASSUME session' = "open" PROVE (Waiters >= Streams)'
  <2>1. CASE Next
    <3>1. session = "open"
      BY <1>2, <2>1 DEF Next, ClientStep, ServerStep, SendNewProxy, RecvAnswer, StartServing,
         RecvControl, RecvFails, OpenStream, DialLocal, ClientJoinEnds, ServeNewProxy, AcceptUser,
         NotifyClient, AcceptStream, AcceptFails, UserJoinEnds, CleanupClient, SessionDies
    <3>2. Enough(queue, s2c, handler, user)
      BY <3>1, MatchedEnough DEF StreamsMatched, TunnelInv
    <3>3. Enough(queue', s2c', handler', user')
      BY <1>2, <2>1, <3>1, <3>2, EnoughNext DEF TunnelInv
    <3> QED
      BY <3>3, MatchedEnoughPrimed DEF TunnelInv
  <2>2. CASE UNCHANGED vars
    <3>1. Enough(queue, s2c, handler, user)
      BY <1>2, <2>2, MatchedEnough DEF StreamsMatched, TunnelInv
    <3>2. Enough(queue', s2c', handler', user')
      BY <2>2, <3>1
    <3> QED
      BY <3>2, MatchedEnoughPrimed DEF TunnelInv
  <2> QED
    BY <2>1, <2>2
<1> QED
  BY <1>1, <1>2 DEF StreamsMatched

\* The initial state satisfies StreamsMatched.
LEMMA MatchedInit ==
  ASSUME Init
  PROVE  StreamsMatched
<1>1. TypeOK
  BY TunnelInit DEF TunnelInv
<1>2. AnnouncedIn(s2c) = {} /\ {v \in Users : handler[v] = "open"} = {} /\ Len(queue) = 0
  BY DEF Init, AnnouncedIn
<1>3. Cardinality(AnnouncedIn(s2c)) = 0 /\ Count(handler, "open") = 0
  BY <1>2, FS_EmptySet DEF Count
<1>4. Enough(queue, s2c, handler, user)
  <2>1. PICK w \in Nat : w = Count(user, "waiting")
    BY CountType
  <2> QED
    BY <1>2, <1>3, <2>1 DEF Enough
<1>5. \A v, w \in Users : stream[v] = stream[w] /\ stream[v] # None => v = w
  BY DEF Init
<1> QED
  BY <1>1, <1>4, <1>5, MatchedEnough DEF StreamsMatched

\* server.go, handleUserConnection takes the next stream, whoever's it is:
\* still, while the session lasts every stream the client opens finds a user
\* that waits for one, also after registerProxy has swallowed a NewConn, and
\* no two users are given the same stream.
THEOREM StreamsFindUsers == Spec => []StreamsMatched
<1>1. Init => StreamsMatched
  BY MatchedInit
<1>2. TunnelInv /\ TunnelInv' /\ StreamsMatched /\ [Next]_vars => StreamsMatched'
  BY MatchedNext
<1> QED
  BY <1>1, <1>2, TunnelSafety, PTL DEF Spec
=============================================================================
