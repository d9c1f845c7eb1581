------------------------ MODULE AuthenticatorProofs -------------------------
(***************************************************************************)
(* Proofs about Authenticator, for any number of handlers and requests,    *)
(* any clock and any limits with MaxTimeDiff <= NonceExpiry.               *)
(***************************************************************************)
EXTENDS Authenticator, TLAPS

USE DEF Idle, Never

\* The expiry is a number of ticks.
LEMMA ExpiryType == ExpiryTicks \in Nat
BY AuthAssumption, SMT DEF ExpiryTicks

\* A call that is not idle has a nonce and the time of its check.
LEMMA CallFields ==
  ASSUME TypeOK, NEW c \in Callers
  PROVE  /\ call[c] # Idle <=> call[c].next \in {"Exists", "Add"}
         /\ call[c] # Idle => /\ call[c] \in Call
                              /\ call[c].nonce \in Nonces
                              /\ call[c].checked \in Ticks
                              /\ call[c].defect \in {"none", "sign"}
BY DEF TypeOK, Call

\* The entries of accepted are accepts, the last one too.
LEMMA AcceptFields ==
  ASSUME TypeOK, NEW n \in Nonces
  PROVE  /\ Len(accepted[n]) \in Nat
         /\ \A i \in 1..Len(accepted[n]) : /\ accepted[n][i].checked \in Nat
                                           /\ accepted[n][i].added \in Nat
         /\ accepted[n] # <<>> => /\ Len(accepted[n]) >= 1
                                  /\ LastAccept(n).added \in Nat
<1>1. accepted[n] \in Seq(Accept)
  BY DEF TypeOK
<1>2. \A i \in 1..Len(accepted[n]) : accepted[n][i] \in Accept
  BY <1>1
<1>3. accepted[n] # <<>> => Len(accepted[n]) \in 1..Len(accepted[n])
  BY <1>1
<1>4. Accept = [checked : 0..MaxTime, added : 0..MaxTime] /\ MaxTime \in Nat
  BY AuthAssumption DEF Accept, Ticks
<1> QED
  BY <1>1, <1>2, <1>3, <1>4, SMTT(30) DEF LastAccept

\* A later time is in a second that is not earlier, and one that is later
\* by whole seconds is in a second that is later by as many.
LEMMA UnixLater ==
  ASSUME NEW a \in Nat, NEW b \in Nat, NEW k \in Nat, b >= a + k * TicksPerSecond
  PROVE  /\ Unix(a) \in Nat /\ Unix(b) \in Nat
         /\ Unix(b) >= Unix(a) + k
<1> DEFINE T == TicksPerSecond
           p == a \div T
           q == b \div T
<1>1. T \in Nat \ {0}
  BY AuthAssumption
<1> HIDE DEF T
<1>2. p \in Nat /\ T * p <= a
  BY <1>1
<1>3. q \in Nat /\ b < T * q + T
  BY <1>1
<1> HIDE DEF p, q
<1>4. ASSUME q + 1 <= p + k PROVE FALSE
  <2>1. PICK d \in Nat : p + k = q + 1 + d
    BY <1>2, <1>3, <1>4
  <2>2. T * (p + k) = T * q + T + T * d
    BY <1>1, <1>3, <2>1, SMT
  <2>3. T * d >= 0
    BY <1>1, SMT
  <2>4. T * (p + k) = T * p + k * T
    BY <1>1, <1>2, SMT
  <2>5. T * p \in Int /\ k * T \in Int /\ T * q \in Int /\ T * d \in Int
    BY <1>1, <1>2, <1>3
  <2>6. b >= a + k * T
    BY DEF T
  <2> QED
    BY <1>1, <1>2, <1>3, <2>2, <2>3, <2>4, <2>5, <2>6
<1>5. p = Unix(a) /\ q = Unix(b)
  BY DEF p, q, T, Unix
<1> QED
  BY <1>2, <1>3, <1>4, <1>5

\* The initial state satisfies the invariant.
LEMMA InvariantInit == Init => AuthInv
<1> SUFFICES ASSUME Init PROVE AuthInv
  OBVIOUS
<1>1. TypeOK
  BY AuthAssumption DEF Init, TypeOK, Ticks
<1>2. RecentRemembered /\ InThePast /\ CallsApart /\ AloneInAdd /\ AcceptsApart
  BY DEF Init, RecentRemembered, InThePast, CallsApart, AloneInAdd, AcceptsApart
<1> QED
  BY <1>1, <1>2 DEF AuthInv

\* Verify begins: the last accept of a nonce that is not in the cache is
\* older than NonceExpiry, now, when the time stamp is compared.
LEMMA VerifyTimeStep ==
  ASSUME AuthInv, NEW c \in Callers, NEW n \in Nonces, NEW d \in Defects,
         VerifyTime(c, n, d)
  PROVE  AuthInv'
<1> USE DEF AuthInv
<1>1. CASE call' = [call EXCEPT ![c] = Idle]
  <2>1. TypeOK'
    BY <1>1, AuthAssumption DEF TypeOK, VerifyTime
  <2>2. \A x \in Callers : call'[x] = call[x] \/ call'[x] = Idle
    BY <1>1 DEF TypeOK
  <2> QED
    BY <2>1, <2>2 DEF VerifyTime, RecentRemembered, InThePast, CallsApart,
       AloneInAdd, AcceptsApart, LastAccept, InTime
<1>2. CASE /\ d \in {"none", "sign"} /\ InTime(n, now)
           /\ call' = [call EXCEPT ![c] = [next |-> "Exists", nonce |-> n,
                                           defect |-> d, checked |-> now]]
  <2>1. TypeOK'
    BY <1>2, AuthAssumption DEF TypeOK, VerifyTime, Call
  <2>2. \A x \in Callers : x # c => call'[x] = call[x]
    BY <1>2 DEF TypeOK
  <2>3. /\ call'[c].next = "Exists" /\ call'[c].nonce = n /\ call'[c].checked = now
        /\ call'[c] # Idle
    BY <1>2 DEF TypeOK
  <2>4. UNCHANGED <<stamp, now, cache, accepted, raced>>
    BY DEF VerifyTime
  <2>5. accepted[n] # <<>> /\ cache[n] = Never => now - LastAccept(n).added > ExpiryTicks
    BY AcceptFields DEF RecentRemembered
  <2>6. CallsApart'
    BY <2>2, <2>3, <2>4, <2>5 DEF CallsApart, LastAccept
  <2>7. InThePast'
    BY <1>2, <2>2, <2>3, <2>4, AuthAssumption DEF InThePast, InTime, TypeOK, Ticks
  <2>8. AloneInAdd'
    BY <2>2, <2>3, <2>4 DEF AloneInAdd
  <2> QED
    BY <2>1, <2>4, <2>6, <2>7, <2>8 DEF RecentRemembered, AcceptsApart, LastAccept
<1>3. abs(Unix(now) - stamp[n]) > MaxTimeDiff \/ InTime(n, now)
  <2>1. Unix(now) \in Int /\ stamp[n] \in Int
    <3>1. now \in Nat
      BY AuthAssumption DEF TypeOK, Ticks
    <3>2. Unix(now) \in Nat
      BY <3>1, AuthAssumption DEF Unix
    <3>3. stamp[n] \in Int
      BY AuthAssumption DEF TypeOK
    <3> QED
      BY <3>2, <3>3
  <2> QED
    BY <2>1, AuthAssumption DEF InTime, abs
<1> QED
  BY <1>1, <1>2, <1>3 DEF VerifyTime, Return, Defects

\* Exists finds nothing, or the call returns.  A second call past Exists
\* makes the nonce raced.
LEMMA VerifyExistsStep ==
  ASSUME AuthInv, NEW c \in Callers, VerifyExists(c)
  PROVE  AuthInv'
<1> USE DEF AuthInv
<1> DEFINE n == call[c].nonce
<1>1. UNCHANGED <<stamp, now, cache, calls, accepted>>
  BY DEF VerifyExists
<1>2. n \in Nonces /\ call[c] \in Call
  BY CallFields DEF VerifyExists
<1>3. RecentRemembered'
  BY <1>1 DEF RecentRemembered, LastAccept
<1>4. CASE call' = [call EXCEPT ![c] = Idle] /\ UNCHANGED raced
  <2>1. TypeOK'
    BY <1>1, <1>4 DEF TypeOK
  <2>2. \A x \in Callers : call'[x] = call[x] \/ call'[x] = Idle
    BY <1>4 DEF TypeOK
  <2> QED
    BY <1>1, <1>3, <1>4, <2>1, <2>2 DEF InThePast, CallsApart,
       AloneInAdd, AcceptsApart, LastAccept, InTime
<1>5. CASE /\ cache[n] = Never /\ call' = [call EXCEPT ![c].next = "Add"]
           /\ raced' = IF Between(n) # {} THEN raced \cup {n} ELSE raced
  <2>1. call'[c] \in Call /\ call'[c] = [call[c] EXCEPT !.next = "Add"]
    BY <1>2, <1>5 DEF TypeOK, Call
  <2>2. \A x \in Callers : x # c => call'[x] = call[x]
    BY <1>5 DEF TypeOK
  <2>3. raced \subseteq raced' /\ raced' \subseteq Nonces
    BY <1>2, <1>5 DEF TypeOK
  <2>4. TypeOK'
    BY <1>1, <1>5, <2>1, <2>3 DEF TypeOK
  <2>5. /\ call'[c].next = "Add" /\ call'[c].nonce = n
        /\ call'[c].checked = call[c].checked /\ call'[c] # Idle /\ call[c] # Idle
    BY <1>2, <2>1 DEF Call
  <2>6. CallsApart'
    BY <1>1, <1>5, <2>2, <2>3, <2>5 DEF CallsApart, LastAccept
  <2>7. InThePast'
    BY <1>1, <2>2, <2>5 DEF InThePast, InTime
  <2>8. AloneInAdd'
    <3>1. \A x \in Callers : call[x].next = "Add" /\ call[x].nonce = n => n \in raced'
      BY <1>5 DEF Between
    <3> QED
      BY <2>2, <2>3, <2>5, <3>1 DEF AloneInAdd
  <2>9. AcceptsApart'
    BY <1>1, <2>3 DEF AcceptsApart
  <2> QED
    BY <1>3, <2>4, <2>6, <2>7, <2>8, <2>9
<1> QED
  BY <1>4, <1>5 DEF VerifyExists, Return, Goto

\* A nonce is added and its request accepted, or not.
LEMMA VerifyAddStep ==
  ASSUME AuthInv, NEW c \in Callers, VerifyAdd(c)
  PROVE  AuthInv'
<1> USE DEF AuthInv
<1>1. UNCHANGED <<stamp, now, calls, raced>>
  BY DEF VerifyAdd
<1>11. PICK n \in Nonces : n = call[c].nonce
  BY CallFields DEF VerifyAdd
<1>2. /\ n = call[c].nonce /\ call[c] # Idle /\ call[c].next = "Add"
      /\ call[c].checked \in Ticks /\ now \in Ticks
  BY <1>11, CallFields DEF VerifyAdd, TypeOK
<1>10. PICK a \in Accept : a = [checked |-> call[c].checked, added |-> now]
  BY <1>2 DEF Accept
<1>3. /\ cache' \in [Nonces -> Ticks \cup {Never}]
      /\ cache'[n] = now /\ \A m \in Nonces : m # n => cache'[m] = cache[m]
  BY <1>2 DEF VerifyAdd, TypeOK
<1>4. call'[c] = Idle /\ \A x \in Callers : x # c => call'[x] = call[x]
  BY DEF VerifyAdd, Return, TypeOK
<1>5. call' \in [Callers -> Call \cup {Idle}]
  BY DEF VerifyAdd, Return, TypeOK
<1>6. AloneInAdd'
  BY <1>1, <1>4 DEF AloneInAdd
<1>7. Ticks \subseteq Nat /\ now \in Nat /\ call[c].checked \in Nat
  BY <1>2, AuthAssumption DEF Ticks
<1>8. CASE accepted' = accepted
  <2>1. TypeOK'
    BY <1>1, <1>3, <1>5, <1>8 DEF TypeOK
  <2>2. accepted[n] # <<>> => LastAccept(n).added <= now
    BY <1>2, AcceptFields DEF InThePast, LastAccept
  <2>3. RecentRemembered'
    BY <1>1, <1>2, <1>3, <1>8, <2>2 DEF RecentRemembered, LastAccept
  <2>4. InThePast'
    BY <1>1, <1>4, <1>8 DEF InThePast, InTime
  <2>5. CallsApart'
    BY <1>1, <1>3, <1>4, <1>7, <1>8, CallFields DEF CallsApart, LastAccept
  <2>6. AcceptsApart'
    BY <1>1, <1>8 DEF AcceptsApart
  <2> QED
    BY <1>6, <2>1, <2>3, <2>4, <2>5, <2>6
<1>9. CASE accepted' = [accepted EXCEPT ![n] = Append(@, a)]
  <2>1. a \in Accept /\ accepted[n] \in Seq(Accept)
    BY DEF TypeOK
  <2>2. /\ accepted'[n] = Append(accepted[n], a)
        /\ \A m \in Nonces : m # n => accepted'[m] = accepted[m]
    BY <1>2, <1>9 DEF TypeOK
  <2>3. /\ Len(accepted'[n]) = Len(accepted[n]) + 1
        /\ Len(accepted[n]) \in Nat
        /\ accepted'[n][Len(accepted[n]) + 1] = a
        /\ a.checked = call[c].checked /\ a.added = now
        /\ accepted'[n] # <<>>
        /\ \A i \in 1..Len(accepted[n]) : accepted'[n][i] = accepted[n][i]
    BY <1>10, <2>1, <2>2
  <2>4. TypeOK'
    <3>1. accepted' \in [Nonces -> Seq(Accept)]
      BY <1>2, <1>9, <2>1 DEF TypeOK
    <3> QED
      BY <1>1, <1>3, <1>5, <3>1 DEF TypeOK
  <2>5. LastAccept(n)' = a /\ \A m \in Nonces : m # n => LastAccept(m)' = LastAccept(m)
    BY <2>2, <2>3 DEF LastAccept
  <2>6. RecentRemembered'
    BY <1>1, <1>3, <1>7, <2>2, <2>3, <2>5 DEF RecentRemembered
  <2>7. InThePast'
    <3>1. call[c].checked <= now /\ InTime(n, call[c].checked)
      BY <1>2 DEF InThePast
    <3>2. ASSUME NEW m \in Nonces, NEW i \in 1..Len(accepted'[m])
          PROVE  /\ accepted'[m][i].checked <= accepted'[m][i].added
                 /\ accepted'[m][i].added <= now
                 /\ InTime(m, accepted'[m][i].checked)
      <4>1. CASE m # n
        BY <2>2, <3>2, <4>1 DEF InThePast
      <4>2. CASE m = n /\ i = Len(accepted[n]) + 1
        BY <1>7, <2>3, <3>1, <4>2
      <4>3. CASE m = n /\ i \in 1..Len(accepted[n])
        BY <1>2, <2>3, <4>3 DEF InThePast
      <4> QED
        BY <2>3, <3>2, <4>1, <4>2, <4>3
    <3>3. \A x \in Callers : call'[x] # Idle =>
            call'[x].checked <= now /\ InTime(call'[x].nonce, call'[x].checked)
      BY <1>4 DEF InThePast
    <3> QED
      BY <1>1, <3>2, <3>3 DEF InThePast, InTime
  <2>8. CallsApart'
    <3>1. ASSUME NEW x \in Callers, NEW m, m = call'[x].nonce, call'[x] # Idle,
                 m \notin raced, accepted'[m] # <<>>,
                 call'[x].next = "Exists" => cache'[m] = Never
          PROVE  call'[x].checked - LastAccept(m)'.added > ExpiryTicks
      <4>1. x # c /\ call'[x] = call[x] /\ call[x] # Idle
        BY <1>4, <3>1
      <4>2. m = call[x].nonce /\ m \in Nonces /\ call[x].next \in {"Exists", "Add"}
        BY <3>1, <4>1, CallFields
      <4>3. m # n
        BY <1>2, <1>3, <1>7, <3>1, <4>1, <4>2 DEF AloneInAdd
      <4>4. /\ accepted[m] # <<>> /\ cache'[m] = cache[m]
            /\ LastAccept(m)' = LastAccept(m)
        BY <1>3, <2>2, <2>5, <3>1, <4>2, <4>3
      <4> QED
        BY <3>1, <4>1, <4>2, <4>4 DEF CallsApart
    <3> QED
      BY <1>1, <3>1 DEF CallsApart, LastAccept
  <2>9. AcceptsApart'
    <3>1. n \notin raced /\ accepted[n] # <<>> =>
            call[c].checked - LastAccept(n).added > ExpiryTicks
      BY <1>2 DEF CallsApart
    <3>2. ASSUME NEW m \in Nonces \ raced, NEW i \in 1..(Len(accepted'[m]) - 1)
          PROVE  accepted'[m][i + 1].checked - accepted'[m][i].added > ExpiryTicks
      <4>1. CASE m # n
        BY <2>2, <3>2, <4>1 DEF AcceptsApart
      <4>2. CASE m = n /\ i = Len(accepted[n])
        <5>1. accepted[n] # <<>> /\ i \in 1..Len(accepted[n])
          BY <2>1, <2>3, <3>2, <4>2
        <5>2. /\ accepted'[m][i + 1].checked = call[c].checked
              /\ accepted'[m][i].added = LastAccept(n).added
          BY <2>3, <4>2, <5>1 DEF LastAccept
        <5> QED
          BY <3>1, <3>2, <4>2, <5>1, <5>2
      <4>3. CASE m = n /\ i \in 1..(Len(accepted[n]) - 1)
        <5>1. i \in 1..Len(accepted[n]) /\ i + 1 \in 1..Len(accepted[n])
          BY <2>3, <4>3
        <5> QED
          BY <2>3, <3>2, <4>3, <5>1 DEF AcceptsApart
      <4> QED
        BY <2>3, <3>2, <4>1, <4>2, <4>3
    <3> QED
      BY <1>1, <3>2 DEF AcceptsApart
  <2> QED
    BY <1>6, <2>4, <2>6, <2>7, <2>8, <2>9
<1> QED
  BY <1>2, <1>8, <1>9, <1>10 DEF VerifyAdd

\* What cleanup forgets is as old as NonceExpiry allows, and nonces that
\* are in Verify at that time become raced.
LEMMA CleanupStep == ASSUME AuthInv, Cleanup PROVE AuthInv'
<1> USE DEF AuthInv
<1>1. UNCHANGED <<stamp, now, calls, call, accepted>>
  BY DEF Cleanup
<1>2. /\ cache' \in [Nonces -> Ticks \cup {Never}]
      /\ \A n \in Nonces : cache'[n] = IF Expired(n) THEN Never ELSE cache[n]
  BY DEF Cleanup, TypeOK
<1>3. raced' = raced \cup ({n \in Nonces : Expired(n)} \cap InVerify)
  BY DEF Cleanup
<1>4. TypeOK'
  BY <1>1, <1>2, <1>3 DEF TypeOK
<1>5. now \in Nat /\ \A n \in Nonces : cache[n] \in Nat \cup {Never}
  BY AuthAssumption DEF TypeOK, Ticks
<1>6. RecentRemembered'
  <2> SUFFICES ASSUME NEW n \in Nonces, accepted[n] # <<>>
               PROVE  \/ cache'[n] >= LastAccept(n).added
                      \/ now - LastAccept(n).added > ExpiryTicks
    BY <1>1 DEF RecentRemembered, LastAccept
  <2> QED
    BY <1>2, <1>5, AcceptFields, ExpiryType DEF RecentRemembered, Expired
<1>7. InThePast' /\ AloneInAdd' /\ AcceptsApart'
  BY <1>1, <1>3 DEF InThePast, InTime, AloneInAdd, AcceptsApart
<1>8. CallsApart'
  <2> SUFFICES ASSUME NEW x \in Callers, call[x] # Idle, call[x].nonce \notin raced',
                      accepted[call[x].nonce] # <<>>,
                      call[x].next = "Exists" => cache'[call[x].nonce] = Never
               PROVE  call[x].checked - LastAccept(call[x].nonce).added > ExpiryTicks
    BY <1>1 DEF CallsApart, LastAccept
  <2>1. call[x].nonce \in Nonces /\ call[x].nonce \in InVerify
    BY CallFields DEF InVerify
  <2>2. ~Expired(call[x].nonce) /\ call[x].nonce \notin raced
    BY <1>3, <2>1
  <2> QED
    BY <1>2, <2>1, <2>2 DEF CallsApart
<1> QED
  BY <1>4, <1>6, <1>7, <1>8

\* Time passes.
LEMMA TickStep == ASSUME AuthInv, Tick PROVE AuthInv'
<1> USE DEF AuthInv
<1>1. UNCHANGED <<stamp, cache, calls, call, accepted, raced>>
  BY DEF Tick
<1>2. now \in Nat /\ now' = now + 1 /\ now' \in Ticks
  BY AuthAssumption DEF Tick, TypeOK, Ticks
<1>3. TypeOK'
  BY <1>1, <1>2 DEF TypeOK
<1>4. RecentRemembered'
  <2> SUFFICES ASSUME NEW n \in Nonces, accepted[n] # <<>>
               PROVE  \/ cache[n] >= LastAccept(n).added
                      \/ now' - LastAccept(n).added > ExpiryTicks
    BY <1>1 DEF RecentRemembered, LastAccept
  <2> QED
    BY <1>2, AcceptFields, ExpiryType DEF RecentRemembered
<1>5. InThePast'
  <2>1. ASSUME NEW n \in Nonces, NEW i \in 1..Len(accepted[n])
        PROVE  accepted[n][i].added <= now'
    BY <1>2, <2>1, AcceptFields DEF InThePast
  <2>2. ASSUME NEW c \in Callers, call[c] # Idle PROVE call[c].checked <= now'
    <3>1. call[c].checked \in Nat
      BY <2>2, CallFields, AuthAssumption DEF Ticks
    <3> QED
      BY <1>2, <2>2, <3>1 DEF InThePast
  <2> QED
    BY <1>1, <2>1, <2>2 DEF InThePast, InTime
<1>6. CallsApart' /\ AloneInAdd' /\ AcceptsApart'
  BY <1>1 DEF CallsApart, LastAccept, AloneInAdd, AcceptsApart
<1> QED
  BY <1>3, <1>4, <1>5, <1>6

\* Every step preserves the invariant.
LEMMA InvariantStep == AuthInv /\ [Next]_vars => AuthInv'
<1> SUFFICES ASSUME AuthInv, [Next]_vars PROVE AuthInv'
  OBVIOUS
<1>1. ASSUME NEW c \in Callers, NEW n \in Nonces, NEW d \in Defects,
             VerifyTime(c, n, d)
      PROVE  AuthInv'
  BY <1>1, VerifyTimeStep
<1>2. ASSUME NEW c \in Callers, VerifyExists(c) PROVE AuthInv'
  BY <1>2, VerifyExistsStep
<1>3. ASSUME NEW c \in Callers, VerifyAdd(c) PROVE AuthInv'
  BY <1>3, VerifyAddStep
<1>4. CASE Cleanup
  BY <1>4, CleanupStep
<1>5. CASE Tick
  BY <1>5, TickStep
<1>6. CASE UNCHANGED vars
  BY <1>6 DEF vars, AuthInv, TypeOK, RecentRemembered, InThePast, InTime,
     CallsApart, AloneInAdd, AcceptsApart, LastAccept
<1> QED
  BY <1>1, <1>2, <1>3, <1>4, <1>5, <1>6 DEF Next

\* The nonce cache keeps what Verify needs: accepts of one nonce that did
\* not race are more than NonceExpiry apart (Exists, Add and cleanup in any
\* order, with any number of handlers).
THEOREM AuthInvariant == Spec => []AuthInv
<1> QED
  BY InvariantInit, InvariantStep, PTL DEF Spec

\* A later second, an expired nonce: the time stamp is too old.
LEMMA OnceFromInvariant == AuthInv => AcceptedOnce
<1> SUFFICES ASSUME AuthInv, NEW n \in Nonces \ raced, accepted[n] # <<>>,
                    Unix(accepted[n][1].checked) > stamp[n],
                    Len(accepted[n]) # 1
             PROVE  FALSE
  BY DEF AcceptedOnce
<1> DEFINE a == accepted[n][1].checked
           b == accepted[n][2].checked
<1>1. Len(accepted[n]) \in Nat /\ Len(accepted[n]) >= 2
  <2>1. TypeOK /\ n \in Nonces
    BY DEF AuthInv
  <2>2. Len(accepted[n]) \in Nat /\ Len(accepted[n]) >= 1
    BY <2>1, AcceptFields
  <2>3. \A k \in Nat : k >= 1 /\ k # 1 => k >= 2
    OBVIOUS
  <2> QED
    BY <2>2, <2>3
<1>2. 1 \in 1..(Len(accepted[n]) - 1) /\ 1 \in 1..Len(accepted[n])
      /\ 2 \in 1..Len(accepted[n])
  BY <1>1
<1>3. a \in Nat /\ b \in Nat /\ accepted[n][1].added \in Nat
  BY <1>2, AcceptFields DEF AuthInv
<1>4. a <= accepted[n][1].added /\ b - accepted[n][1].added > ExpiryTicks
  BY <1>2 DEF AuthInv, InThePast, AcceptsApart
<1>5. NonceExpiry \in Nat /\ ExpiryTicks \in Nat /\ b >= a + ExpiryTicks
  BY <1>3, <1>4, ExpiryType, AuthAssumption, SMTT(30)
<1>6. Unix(a) \in Nat /\ Unix(b) \in Nat /\ Unix(b) >= Unix(a) + NonceExpiry
  BY <1>3, <1>5, UnixLater DEF ExpiryTicks
<1>7. stamp[n] \in Int /\ abs(Unix(b) - stamp[n]) <= MaxTimeDiff
  BY <1>2, AuthAssumption DEF AuthInv, TypeOK, InThePast, InTime
<1> QED
  BY <1>6, <1>7, AuthAssumption DEF abs

\* A request that is verified in a later second than the one it was signed
\* in, and whose calls of Verify do not race, is accepted once, because
\* MaxTimeDiff <= NonceExpiry.
THEOREM RequestAcceptedOnce == Spec => []AcceptedOnce
<1> QED
  BY AuthInvariant, OnceFromInvariant, PTL
=============================================================================
