-------------------------- MODULE SessionContract ---------------------------
(***************************************************************************)
(* What the server promises about one client connection and the proxies    *)
(* requested over it, without registries, mutexes or goroutines: a proxy   *)
(* is opened at most once, only while its connection is being served; it   *)
(* may be closed at any time (disconnect, eviction, Stop); a connection    *)
(* ends only when none of its proxies is open.                             *)
(***************************************************************************)
CONSTANTS
  Conns,   \* connections
  Names    \* proxy names

VARIABLES
  stage,   \* "idle", "active" or "ended", per connection
  phase    \* "unused", "open" or "closed", per proxy <<connection, name>>

Init ==
  /\ stage = [c \in Conns |-> "idle"]
  /\ phase = [p \in Conns \X Names |-> "unused"]

Start(c) ==
  /\ stage[c] = "idle"
  /\ stage' = [stage EXCEPT ![c] = "active"]
  /\ UNCHANGED phase

\* A request is granted.
Open(c, n) ==
  /\ stage[c] = "active" /\ phase[<<c, n>>] = "unused"
  /\ phase' = [phase EXCEPT ![<<c, n>>] = "open"]
  /\ UNCHANGED stage

\* A request is refused.
Refuse(c, n) ==
  /\ stage[c] = "active" /\ phase[<<c, n>>] = "unused"
  /\ phase' = [phase EXCEPT ![<<c, n>>] = "closed"]
  /\ UNCHANGED stage

Shut(c, n) ==
  /\ phase[<<c, n>>] = "open"
  /\ phase' = [phase EXCEPT ![<<c, n>>] = "closed"]
  /\ UNCHANGED stage

End(c) ==
  /\ stage[c] = "active"
  /\ \A n \in Names : phase[<<c, n>>] # "open"
  /\ stage' = [stage EXCEPT ![c] = "ended"]
  /\ UNCHANGED phase

Next ==
  \E c \in Conns :
    \/ Start(c) \/ End(c)
    \/ \E n \in Names : Open(c, n) \/ Refuse(c, n) \/ Shut(c, n)

Spec == Init /\ [][Next]_<<stage, phase>>
=============================================================================
