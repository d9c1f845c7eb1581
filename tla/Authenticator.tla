---------------------------- MODULE Authenticator ---------------------------
(***************************************************************************)
(* The authenticator of the server (pkg/auth/auth.go).  Handlers call      *)
(* Verify concurrently; the lock of the cache covers Exists, Add and       *)
(* cleanup one by one, not the sequence Exists, Add.  A request may arrive *)
(* more than once.                                                         *)
(*                                                                         *)
(* The clock counts ticks, TicksPerSecond of them to a second, because     *)
(* Verify compares whole seconds (time.Now().Unix()) and the cache         *)
(* compares instants.                                                      *)
(***************************************************************************)
EXTENDS Integers, Sequences, FiniteSets

CONSTANTS
  Callers,         \* handlers that call Verify
  Nonces,
  Stamps,          \* the seconds at which clients, by their clocks, sign
  TicksPerSecond,
  MaxTimeDiff,     \* seconds, 300
  NonceExpiry,     \* seconds, 300
  MaxTime,         \* bound: ticks
  MaxCalls         \* bound: calls of Verify

ASSUME AuthAssumption ==
  /\ Stamps \subseteq Int
  /\ TicksPerSecond \in Nat \ {0}
  /\ MaxTimeDiff \in Nat /\ NonceExpiry \in Nat
  /\ MaxTimeDiff <= NonceExpiry
  /\ MaxTime \in Nat /\ MaxCalls \in Nat

Never == -1

\* What is wrong with a request, besides its time stamp and its nonce.
Defects == {"none", "token", "timestamp", "sign"}

VARIABLES
  stamp,     \* the time stamp the request with a nonce was signed for
  now,       \* the clock of the server, in ticks
  cache,     \* NonceCache.cache: when a nonce was added, or Never
  calls,     \* calls of Verify so far
  call,      \* a caller's call that has passed the time check, or Idle
  accepted,  \* history: the accepted calls of a nonce, in order
  raced      \* history: nonces with overlapping calls, see Overlaps

vars == <<stamp, now, cache, calls, call, accepted, raced>>

Ticks == 0..MaxTime
Accept == [checked : Ticks, added : Ticks]

\* A call in Verify: its next step, its request, and when it compared the
\* time stamp with the clock.
Call == [next : {"Exists", "Add"}, nonce : Nonces, defect : {"none", "sign"},
         checked : Ticks]
Idle == [next |-> "none"]

TypeOK ==
  /\ stamp \in [Nonces -> Stamps]
  /\ now \in Ticks
  /\ cache \in [Nonces -> Ticks \cup {Never}]
  /\ calls \in 0..MaxCalls
  /\ call \in [Callers -> Call \cup {Idle}]
  /\ accepted \in [Nonces -> Seq(Accept)]
  /\ raced \subseteq Nonces

\* NewAuthenticator, NewNonceCache
Init ==
  /\ stamp \in [Nonces -> Stamps]
  /\ now = 0
  /\ cache = [n \in Nonces |-> Never]
  /\ calls = 0
  /\ call = [c \in Callers |-> Idle]
  /\ accepted = [n \in Nonces |-> <<>>]
  /\ raced = {}

\* time.Now().Unix()
Unix(t) == t \div TicksPerSecond

abs(x) == IF x < 0 THEN -x ELSE x

\* NonceCache.expiry
ExpiryTicks == NonceExpiry * TicksPerSecond

Return(c) == call' = [call EXCEPT ![c] = Idle]
Goto(c, step) == call' = [call EXCEPT ![c].next = step]

\* Deliberate bug: only time stamps of the past are compared.
VerifyTimeOneSided(c, n, d) ==
  /\ call[c] = Idle /\ calls < MaxCalls
  /\ calls' = calls + 1
  /\ IF d \in {"token", "timestamp"} \/ stamp[n] - Unix(now) > MaxTimeDiff
     THEN Return(c)
     ELSE call' = [call EXCEPT ![c] = [next |-> "Exists", nonce |-> n,
                                       defect |-> d, checked |-> now]]
  /\ UNCHANGED <<stamp, now, cache, accepted, raced>>

\* Verify is called: the token, the time stamp and its distance from the
\* clock are checked.  A request with a defect may carry any nonce.
VerifyTime(c, n, d) ==
  /\ call[c] = Idle /\ calls < MaxCalls
  /\ calls' = calls + 1
  /\ IF d \in {"token", "timestamp"} \/ abs(Unix(now) - stamp[n]) > MaxTimeDiff
     THEN Return(c)
     ELSE call' = [call EXCEPT ![c] = [next |-> "Exists", nonce |-> n,
                                       defect |-> d, checked |-> now]]
  /\ UNCHANGED <<stamp, now, cache, accepted, raced>>

\* Callers that passed Exists with nonce n and have not called Add.
Between(n) == {c \in Callers : call[c].next = "Add" /\ call[c].nonce = n}

\* Verify: nonceCache.Exists
VerifyExists(c) ==
  LET n == call[c].nonce IN
  /\ call[c].next = "Exists"
  /\ IF cache[n] # Never
     THEN Return(c) /\ UNCHANGED raced
     ELSE /\ Goto(c, "Add")
          /\ raced' = IF Between(n) # {} THEN raced \cup {n} ELSE raced
  /\ UNCHANGED <<stamp, now, cache, calls, accepted>>

\* Verify: nonceCache.Add, then the signature is compared; the nonce of a
\* request with a wrong signature stays in the cache.
VerifyAdd(c) ==
  LET n == call[c].nonce IN
  /\ call[c].next = "Add"
  /\ cache' = [cache EXCEPT ![n] = now]
  /\ accepted' = IF call[c].defect = "sign" THEN accepted
                 ELSE [accepted EXCEPT ![n] =
                        Append(@, [checked |-> call[c].checked, added |-> now])]
  /\ Return(c)
  /\ UNCHANGED <<stamp, now, calls, raced>>

Expired(n) == cache[n] # Never /\ now - cache[n] > ExpiryTicks

\* Nonces with a call under way that has compared its time stamp.
InVerify == {call[c].nonce : c \in {x \in Callers : call[x] # Idle}}

\* Deliberate bug: an entry goes when it is as old as the expiry.
CleanupEarly ==
  LET old == {n \in Nonces : cache[n] # Never
                             /\ now - cache[n] >= ExpiryTicks}
  IN
  /\ old # {}
  /\ cache' = [n \in Nonces |-> IF n \in old THEN Never ELSE cache[n]]
  /\ raced' = raced \cup (old \cap InVerify)
  /\ UNCHANGED <<stamp, now, calls, call, accepted>>

\* Deliberate bug: the age is computed the wrong way round.
CleanupNever ==
  /\ \E n \in Nonces : Expired(n)
  /\ UNCHANGED vars

\* The ticker of cleanup fires: the expired entries are deleted.
Cleanup ==
  LET old == {n \in Nonces : Expired(n)} IN
  /\ old # {}
  /\ cache' = [n \in Nonces |-> IF n \in old THEN Never ELSE cache[n]]
  /\ raced' = raced \cup (old \cap InVerify)
  /\ UNCHANGED <<stamp, now, calls, call, accepted>>

\* Time passes.
Tick ==
  /\ now < MaxTime
  /\ now' = now + 1
  /\ UNCHANGED <<stamp, cache, calls, call, accepted, raced>>

-----------------------------------------------------------------------------

Next ==
  \/ \E c \in Callers :
       \/ \E n \in Nonces, d \in Defects : VerifyTime(c, n, d)
       \/ VerifyExists(c) \/ VerifyAdd(c)
  \/ Cleanup
  \/ Tick

Spec == Init /\ [][Next]_vars

\* The ticker of cleanup fires every minute.
FairSpec == Spec /\ WF_vars(Cleanup)

(***************************************************************************)
(* Properties.  raced holds the nonces of which two calls were between     *)
(* Exists and Add at once, or whose entry expired while a call was past    *)
(* its comparison with the clock: for those the code promises nothing.     *)
(***************************************************************************)

\* The last accepted call of a nonce.
LastAccept(n) == accepted[n][Len(accepted[n])]

\* The time t passes the comparison of Verify with the stamp of nonce n.
InTime(n, t) == abs(Unix(t) - stamp[n]) <= MaxTimeDiff

\* A nonce whose last accept is not older than NonceExpiry is in the cache,
\* at least as young as the accept.
RecentRemembered ==
  \A n \in Nonces :
    accepted[n] # <<>>
      => \/ cache[n] >= LastAccept(n).added
         \/ now - LastAccept(n).added > ExpiryTicks

\* What Verify has checked and added is not of the future.
InThePast ==
  /\ \A n \in Nonces : \A i \in 1..Len(accepted[n]) :
       /\ accepted[n][i].checked <= accepted[n][i].added
       /\ accepted[n][i].added <= now
       /\ InTime(n, accepted[n][i].checked)
  /\ \A c \in Callers : call[c] # Idle =>
       call[c].checked <= now /\ InTime(call[c].nonce, call[c].checked)

\* A call that is past Exists, or that will find the nonce missing, was
\* begun when the last accept of the nonce was older than NonceExpiry.
CallsApart ==
  \A c \in Callers :
    LET n == call[c].nonce IN
    /\ call[c] # Idle /\ n \notin raced /\ accepted[n] # <<>>
    /\ call[c].next = "Exists" => cache[n] = Never
    => call[c].checked - LastAccept(n).added > ExpiryTicks

\* Calls of one nonce that are both past Exists are a race.
AloneInAdd ==
  \A c, d \in Callers :
    (c # d /\ call[c].next = "Add" /\ call[d].next = "Add"
     /\ call[c].nonce = call[d].nonce) => call[c].nonce \in raced

\* Two accepts of a nonce are more than NonceExpiry apart.
AcceptsApart ==
  \A n \in Nonces \ raced : \A i \in 1..(Len(accepted[n]) - 1) :
    accepted[n][i + 1].checked - accepted[n][i].added > ExpiryTicks

\* The invariant of the nonce cache, with what its proof needs.
AuthInv ==
  /\ TypeOK /\ RecentRemembered /\ InThePast /\ CallsApart /\ AloneInAdd
  /\ AcceptsApart

\* A request that is verified in a later second than the one it was signed
\* in is accepted once, however often it arrives: when its nonce is
\* forgotten, its time stamp is too old.
AcceptedOnce ==
  \A n \in Nonces \ raced :
    (accepted[n] # <<>> /\ Unix(accepted[n][1].checked) > stamp[n])
      => Len(accepted[n]) = 1

\* A nonce does not stay in the cache for ever.
ExpiredForgotten == \A n \in Nonces : Expired(n) ~> ~Expired(n)
=============================================================================
